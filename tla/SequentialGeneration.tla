------------------------ MODULE SequentialGeneration ------------------------
(***************************************************************************)
(* What generate_manifests() promises, with the thread pool, the claims    *)
(* and the files left out: the configs are taken strictly in order, a      *)
(* config is recorded only if none of its paths was recorded before, the   *)
(* Namespace objects come after every config, and the run ends once.  Any  *)
(* step may instead end the run in failure.                                *)
(***************************************************************************)
EXTENDS OutputLayout

CONSTANTS
    Plans,     \* the sequences of jobs a run may be asked to generate
    Owned,     \* the roots other services own
    Managed    \* the roots the run manages

VARIABLES
    plan,      \* plan[j].docs: the paths job j's objects map to, in order
    next,      \* the next job to record
    recorded,  \* recorded[p]: the job p is recorded for, or NoSource
    outcome    \* "running", "returned" or "failed"

vars == <<plan, next, recorded, outcome>>

NoSource == 0
NamespaceSource == Len(plan) + 1

PathsOf(j) == {plan[j].docs[i] : i \in DOMAIN plan[j].docs}

Written == {p \in Path : recorded[p] # NoSource}

\* recorded, extended by the paths in S with one source
RecordedWith(S, source) ==
    [p \in Path |-> IF p \in S THEN source ELSE recorded[p]]

Init ==
    /\ plan \in Plans
    /\ next = 1
    /\ recorded = [p \in Path |-> NoSource]
    /\ outcome = "running"

RecordNext ==
    /\ outcome = "running"
    /\ next \in DOMAIN plan
    /\ PathsOf(next) \cap Written = {}
    /\ recorded' = RecordedWith(PathsOf(next), next)
    /\ next' = next + 1
    /\ UNCHANGED <<plan, outcome>>

AddNamespaces ==
    /\ outcome = "running"
    /\ next = Len(plan) + 1
    /\ \A r \in {RootOf(p) : p \in Written} : r \notin Owned
    /\ LET added == {OwnNamespacePath(r) :
                        r \in LacksNamespace(Written, Owned, Managed)}
       IN  recorded' = RecordedWith(added, NamespaceSource)
    /\ next' = next + 1
    /\ UNCHANGED <<plan, outcome>>

Return ==
    /\ outcome = "running"
    /\ \/ next = Len(plan) + 2
       \/ Len(plan) = 0
    /\ outcome' = "returned"
    /\ UNCHANGED <<plan, next, recorded>>

Fail ==
    /\ outcome = "running"
    /\ outcome' = "failed"
    /\ UNCHANGED <<plan, next, recorded>>

Next == RecordNext \/ AddNamespaces \/ Return \/ Fail

Spec == Init /\ [][Next]_vars
=============================================================================
