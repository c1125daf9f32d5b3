------------------------- MODULE GenerateManifests --------------------------
(***************************************************************************)
(* One run of generate_manifests(): configs become jobs, consecutive jobs  *)
(* of one block form a group, the groups of parallel-safe blocks are       *)
(* rendered by a thread pool and all the others one job at a time.         *)
(*                                                                         *)
(* A rendering job writes its objects one by one.  write_documents claims  *)
(* the path in the process-wide set `claims` under a lock, then truncates  *)
(* the file, then dumps the object into it: three steps, between which     *)
(* every other thread may run.  The main thread takes the results strictly *)
(* in job order.                                                           *)
(***************************************************************************)
EXTENDS OutputLayout, FiniteSets

CONSTANTS
    Owned,           \* owned_namespaces: the roots other services own
    Managed,         \* managed_namespaces, Root when that is None
    Plans,           \* the sequences of jobs a run may be asked to generate
    Block,           \* the config blocks
    ParallelSafe,    \* the blocks with parallel_safe = True
    MaxWorkers,      \* max_workers of every block
    Cleanup,         \* the cleanup argument
    EarlierClaims,   \* what earlier runs of the process may have left claimed
    EarlierFiles,    \* what earlier runs may have left on disk
    OutputFaults,    \* may writing namespaces or removing files fail?
    Disturbed,       \* the plans generated while the process may run another
                     \* generate()
    Absent, Stale, Torn, NamespaceDoc  \* what a file may hold besides an object

\* block: the block of the config; home: its namespace; own: the block writes
\* its files itself instead of through write_documents; faulty: rendering may
\* raise; docs: the path of each object, in the order they are written.
JobType == [block: Block, home: Root, own: BOOLEAN, faulty: BOOLEAN,
            docs: Seq(Path)]

ASSUME GenerateAssumption ==
    /\ Plans \subseteq Seq(JobType)
    /\ ParallelSafe \subseteq Block
    /\ MaxWorkers \in Nat \ {0}
    /\ Cleanup \in BOOLEAN
    /\ OutputFaults \in BOOLEAN
    /\ Disturbed \subseteq Plans
    /\ \A c \in EarlierClaims : c \subseteq Path
    /\ \A s \in EarlierFiles : s \subseteq Path

\* The contents of a file are told apart.
ASSUME ContentAssumption ==
    /\ Absent # Stale /\ Absent # Torn /\ Absent # NamespaceDoc
    /\ Stale # Torn /\ Stale # NamespaceDoc /\ Torn # NamespaceDoc
    /\ \A c \in {Absent, Stale, Torn, NamespaceDoc} : c \notin Nat \X Nat

VARIABLES
    plan,      \* the jobs, in the order of _collect_generation_jobs
    phase,     \* where the main thread is
    next,      \* the next job whose result it takes; after the last one it
               \* counts on, past the recording of the Namespace objects
    recorded,  \* written_paths: the source each path is recorded for
    pc,        \* pc[j]: where job j is
    pos,       \* pos[j]: how many of its objects job j has written
    claims,    \* _written_paths, shared by every run in the process
    disk,      \* disk[p]: what the file holds
    unlinked,  \* the files cleanup has removed
    removed    \* what the run reports as the number of removed files

mainVars == <<phase, next, recorded>>
jobVars == <<pc, pos>>
vars == <<plan, phase, next, recorded, pc, pos, claims, disk, unlinked, removed>>

Job == DOMAIN plan
Phases == {"validate", "generate", "drain", "namespaces", "cleanup",
           "returned", "failed"}
Active == {"render", "open", "dump"}
Failed == {"raised", "clashed"}
Ended == Failed \cup {"done", "cancelled"}

NoSource == 0
NamespaceSource == Len(plan) + 1
Written == {p \in Path : recorded[p] # NoSource}
PathsOf(j) == {plan[j].docs[i] : i \in DOMAIN plan[j].docs}
RecordedWith(S, source) ==
    [p \in Path |-> IF p \in S THEN source ELSE recorded[p]]

\* The object job j writes next, and its path.
Current(j) == plan[j].docs[pos[j] + 1]
MoreToWrite(j) == pos[j] < Len(plan[j].docs)

\* The roots whose Namespace object _ensure_namespaces has to write.
Unnamed == LacksNamespace(Written, Owned, Managed)

\* Consecutive jobs of one block.
Group(j) ==
    {k \in Job : \A m \in Job : (m \in j..k \/ m \in k..j) =>
                                    plan[m].block = plan[j].block}
\* Mutant of Pooled: parallel_safe is not consulted.
Pooled_AnyBlock(j) == Cardinality(Group(j)) > 1

Pooled(j) == plan[j].block \in ParallelSafe /\ Cardinality(Group(j)) > 1
WorkerCount(j) ==
    IF MaxWorkers < Cardinality(Group(j)) THEN MaxWorkers
    ELSE Cardinality(Group(j))
-----------------------------------------------------------------------------
Init ==
    /\ plan \in Plans
    /\ phase = "validate"
    /\ next = 1
    /\ recorded = [p \in Path |-> NoSource]
    /\ pc = [j \in Job |-> "idle"]
    /\ pos = [j \in Job |-> 0]
    /\ claims \in EarlierClaims
    /\ \E files \in EarlierFiles :
          disk = [p \in Path |-> IF p \in files THEN Stale ELSE Absent]
    /\ unlinked = {}
    /\ removed = 0

\* No configs: the run returns before it resets, renders or cleans anything.
NothingToDo ==
    /\ phase = "validate"
    /\ Len(plan) = 0
    /\ phase' = "returned"
    /\ UNCHANGED <<plan, next, recorded, jobVars, claims, disk, unlinked, removed>>

\* A block rejects a config, or a config targets an owned namespace.
Reject ==
    /\ phase = "validate"
    /\ Len(plan) > 0
    /\ phase' = "failed"
    /\ UNCHANGED <<plan, next, recorded, jobVars, claims, disk, unlinked, removed>>

\* Mutant of Start: the run does not reset the claims.
Start_NoReset ==
    /\ phase = "validate"
    /\ Len(plan) > 0
    /\ \A j \in Job : plan[j].home \notin Owned
    /\ phase' = "generate"
    /\ UNCHANGED <<plan, next, recorded, jobVars, claims, disk, unlinked, removed>>

\* Every config is valid: reset_written_paths() and start generating.
Start ==
    /\ phase = "validate"
    /\ Len(plan) > 0
    /\ \A j \in Job : plan[j].home \notin Owned
    /\ phase' = "generate"
    /\ claims' = {}
    /\ UNCHANGED <<plan, next, recorded, jobVars, disk, unlinked, removed>>
-----------------------------------------------------------------------------
(* Main thread: submitting jobs and taking their results. *)

\* The pool takes the whole group at once; a job of any other block is
\* rendered by the main thread itself.
Submit ==
    /\ phase = "generate"
    /\ next \in Job
    /\ pc[next] = "idle"
    /\ pc' = IF Pooled(next)
             THEN [j \in Job |-> IF j \in Group(next) THEN "queued" ELSE pc[j]]
             ELSE [pc EXCEPT ![next] = "render"]
    /\ UNCHANGED <<plan, mainVars, pos, claims, disk, unlinked, removed>>

\* Mutant of Record: paths recorded for an earlier config are overwritten.
Record_NoConflictCheck ==
    /\ phase = "generate"
    /\ next \in Job
    /\ pc[next] = "done"
    /\ recorded' = RecordedWith(PathsOf(next), next)
    /\ next' = next + 1
    /\ UNCHANGED <<plan, phase, jobVars, claims, disk, unlinked, removed>>

\* record_paths: the job's paths become the config's, none of them recorded yet.
Record ==
    /\ phase = "generate"
    /\ next \in Job
    /\ pc[next] = "done"
    /\ PathsOf(next) \cap Written = {}
    /\ recorded' = RecordedWith(PathsOf(next), next)
    /\ next' = next + 1
    /\ UNCHANGED <<plan, phase, jobVars, claims, disk, unlinked, removed>>

\* Mutant of Conflict: the conflicting config is passed over.
Conflict_GoesOn ==
    /\ phase = "generate"
    /\ next \in Job
    /\ pc[next] = "done"
    /\ PathsOf(next) \cap Written # {}
    /\ next' = next + 1
    /\ UNCHANGED <<plan, phase, recorded, jobVars, claims, disk, unlinked, removed>>

\* record_paths raises: another config generated one of the paths.  The
\* iterator over the results survives in the frame, so jobs still queued are
\* not cancelled, and leaving the pool waits until they all have run.
Conflict ==
    /\ phase = "generate"
    /\ next \in Job
    /\ pc[next] = "done"
    /\ PathsOf(next) \cap Written # {}
    /\ phase' = "drain"
    /\ UNCHANGED <<plan, next, recorded, jobVars, claims, disk, unlinked, removed>>

\* Mutant of JobError: a ValueError from write_documents is not passed on.
JobError_OnlyRaised ==
    /\ phase = "generate"
    /\ next \in Job
    /\ pc[next] = "raised"
    /\ phase' = "drain"
    /\ pc' = [j \in Job |-> IF pc[j] = "queued" THEN "cancelled" ELSE pc[j]]
    /\ UNCHANGED <<plan, next, recorded, pos, claims, disk, unlinked, removed>>

\* The result is an exception: the iterator cancels the jobs still queued.
JobError ==
    /\ phase = "generate"
    /\ next \in Job
    /\ pc[next] \in Failed
    /\ phase' = "drain"
    /\ pc' = [j \in Job |-> IF pc[j] = "queued" THEN "cancelled" ELSE pc[j]]
    /\ UNCHANGED <<plan, next, recorded, pos, claims, disk, unlinked, removed>>

\* Leaving the pool: its threads have nothing left to run.
PoolIdle == \A j \in Job : pc[j] \notin Active \cup {"queued"}

\* Mutant of Drained: the pool is left without waiting (shutdown(wait=False)).
Drained_NoWait ==
    /\ phase = "drain"
    /\ phase' = "failed"
    /\ UNCHANGED <<plan, next, recorded, jobVars, claims, disk, unlinked, removed>>

Drained ==
    /\ phase = "drain"
    /\ PoolIdle
    /\ phase' = "failed"
    /\ UNCHANGED <<plan, next, recorded, jobVars, claims, disk, unlinked, removed>>
-----------------------------------------------------------------------------
(* Rendering: what the thread that runs job j does. *)

\* A pool thread takes the first queued job.
StartWorker(j) ==
    /\ pc[j] = "queued"
    /\ \A k \in Job : pc[k] = "queued" => j <= k
    /\ Cardinality({k \in Job : pc[k] \in Active}) < WorkerCount(j)
    /\ pc' = [pc EXCEPT ![j] = "render"]
    /\ UNCHANGED <<plan, mainVars, pos, claims, disk, unlinked, removed>>

\* Mutant of Claim: the path is added without looking whether it is there.
Claim_NoCheck(j) ==
    /\ pc[j] = "render"
    /\ MoreToWrite(j)
    /\ ~plan[j].own
    /\ claims' = claims \cup {Current(j)}
    /\ pc' = [pc EXCEPT ![j] = "open"]
    /\ UNCHANGED <<plan, mainVars, pos, disk, unlinked, removed>>

\* write_documents finds the path free and claims it, under the lock.
Claim(j) ==
    /\ pc[j] = "render"
    /\ MoreToWrite(j)
    /\ ~plan[j].own
    /\ Current(j) \notin claims
    /\ claims' = claims \cup {Current(j)}
    /\ pc' = [pc EXCEPT ![j] = "open"]
    /\ UNCHANGED <<plan, mainVars, pos, disk, unlinked, removed>>

\* write_documents finds the path claimed and raises.
Clash(j) ==
    /\ pc[j] = "render"
    /\ MoreToWrite(j)
    /\ ~plan[j].own
    /\ Current(j) \in claims
    /\ pc' = [pc EXCEPT ![j] = "clashed"]
    /\ UNCHANGED <<plan, mainVars, pos, claims, disk, unlinked, removed>>

\* open(path, "w") leaves an empty file until the object is dumped.
Open(j) ==
    /\ \/ pc[j] = "open"
       \/ pc[j] = "render" /\ MoreToWrite(j) /\ plan[j].own
    /\ disk' = [disk EXCEPT ![Current(j)] = Torn]
    /\ pc' = [pc EXCEPT ![j] = "dump"]
    /\ UNCHANGED <<plan, mainVars, pos, claims, unlinked, removed>>

\* Mutant of Dump: one object too many is counted as written.
Dump_SkipsOne(j) ==
    /\ pc[j] = "dump"
    /\ disk' = [disk EXCEPT ![Current(j)] = <<j, pos[j] + 1>>]
    /\ pos' = [pos EXCEPT ![j] = @ + 2]
    /\ pc' = [pc EXCEPT ![j] = "render"]
    /\ UNCHANGED <<plan, mainVars, claims, unlinked, removed>>

Dump(j) ==
    /\ pc[j] = "dump"
    /\ disk' = [disk EXCEPT ![Current(j)] = <<j, pos[j] + 1>>]
    /\ pos' = [pos EXCEPT ![j] = @ + 1]
    /\ pc' = [pc EXCEPT ![j] = "render"]
    /\ UNCHANGED <<plan, mainVars, claims, unlinked, removed>>

Finish(j) ==
    /\ pc[j] = "render"
    /\ ~MoreToWrite(j)
    /\ pc' = [pc EXCEPT ![j] = "done"]
    /\ UNCHANGED <<plan, mainVars, pos, claims, disk, unlinked, removed>>

\* Mutant of Raise: a job that fails is taken for done.
Raise_Swallowed(j) ==
    /\ pc[j] \in Active
    /\ plan[j].faulty
    /\ pc' = [pc EXCEPT ![j] = "done"]
    /\ UNCHANGED <<plan, mainVars, pos, claims, disk, unlinked, removed>>

\* Rendering raises: helm fails, a template is wrong, a file cannot be written.
Raise(j) ==
    /\ pc[j] \in Active
    /\ plan[j].faulty
    /\ pc' = [pc EXCEPT ![j] = "raised"]
    /\ UNCHANGED <<plan, mainVars, pos, claims, disk, unlinked, removed>>

Work(j) ==
    \/ StartWorker(j) \/ Claim(j) \/ Clash(j) \/ Open(j)
    \/ Dump(j) \/ Finish(j) \/ Raise(j)
-----------------------------------------------------------------------------
(* Main thread: after the last job. *)

Intrusions == {p \in Written : RootOf(p) \in Owned}

\* Mutant of Intrude: output in an owned root is only warned of.
Intrude_Warns ==
    /\ phase = "generate"
    /\ next = Len(plan) + 1
    /\ Intrusions # {}
    /\ phase' = "namespaces"
    /\ UNCHANGED <<plan, next, recorded, jobVars, claims, disk, unlinked, removed>>

\* Output landed in an owned root: the run fails, the files stay.
Intrude ==
    /\ phase = "generate"
    /\ next = Len(plan) + 1
    /\ Intrusions # {}
    /\ phase' = "failed"
    /\ UNCHANGED <<plan, next, recorded, jobVars, claims, disk, unlinked, removed>>

NoIntrusion ==
    /\ phase = "generate"
    /\ next = Len(plan) + 1
    /\ Intrusions = {}
    /\ phase' = "namespaces"
    /\ UNCHANGED <<plan, next, recorded, jobVars, claims, disk, unlinked, removed>>

\* _ensure_namespaces writes one missing Namespace object, past the claims.
WriteNamespace(r) ==
    /\ phase = "namespaces"
    /\ r \in Unnamed
    /\ disk[OwnNamespacePath(r)] # NamespaceDoc
    /\ disk' = [disk EXCEPT ![OwnNamespacePath(r)] = NamespaceDoc]
    /\ UNCHANGED <<plan, mainVars, jobVars, claims, unlinked, removed>>

\* All are written: written_paths.update(namespace_paths).
NamespacesDone ==
    /\ phase = "namespaces"
    /\ \A r \in Unnamed : disk[OwnNamespacePath(r)] = NamespaceDoc
    /\ recorded' = RecordedWith({OwnNamespacePath(r) : r \in Unnamed},
                                NamespaceSource)
    /\ next' = next + 1
    /\ phase' = "cleanup"
    /\ UNCHANGED <<plan, jobVars, claims, disk, unlinked, removed>>

\* The files _cleanup_stale_files has yet to remove; _count_removed_files
\* walks the tree with the same filters.
StaleFiles == {p \in Path : /\ disk[p] # Absent
                            /\ Cleanable(p, Owned, Managed)
                            /\ p \notin Written}

RemoveStale(p) ==
    /\ phase = "cleanup"
    /\ Cleanup
    /\ p \in StaleFiles
    /\ disk' = [disk EXCEPT ![p] = Absent]
    /\ unlinked' = unlinked \cup {p}
    /\ UNCHANGED <<plan, mainVars, jobVars, claims, removed>>

\* The count is taken once the cleanup is over.
Return ==
    /\ phase = "cleanup"
    /\ Cleanup => StaleFiles = {}
    /\ removed' = IF Cleanup THEN Cardinality(StaleFiles) ELSE 0
    /\ phase' = "returned"
    /\ UNCHANGED <<plan, next, recorded, jobVars, claims, disk, unlinked>>

\* Writing a Namespace object fails and leaves its file empty.
NamespaceFault(r) ==
    /\ phase = "namespaces"
    /\ OutputFaults
    /\ r \in Unnamed
    /\ disk[OwnNamespacePath(r)] # NamespaceDoc
    /\ disk' = [disk EXCEPT ![OwnNamespacePath(r)] = Torn]
    /\ phase' = "failed"
    /\ UNCHANGED <<plan, next, recorded, jobVars, claims, unlinked, removed>>

\* Removing a stale file fails.
CleanupFault ==
    /\ phase = "cleanup"
    /\ Cleanup
    /\ OutputFaults
    /\ StaleFiles # {}
    /\ phase' = "failed"
    /\ UNCHANGED <<plan, next, recorded, jobVars, claims, disk, unlinked, removed>>

Main ==
    \/ NothingToDo \/ Reject \/ Start
    \/ Submit \/ Record \/ Conflict \/ JobError \/ Drained
    \/ Intrude \/ NoIntrusion
    \/ \E r \in Root : WriteNamespace(r) \/ NamespaceFault(r)
    \/ NamespacesDone
    \/ \E p \in Path : RemoveStale(p)
    \/ CleanupFault \/ Return
-----------------------------------------------------------------------------
\* Another generate() in this process, with another output directory, calls
\* reset_written_paths() when it starts.
OtherRunResets ==
    /\ plan \in Disturbed
    /\ phase \in {"generate", "drain"}
    /\ claims # {}
    /\ claims' = {}
    /\ UNCHANGED <<plan, mainVars, jobVars, disk, unlinked, removed>>

\* The run is over.
Over ==
    /\ phase \in {"returned", "failed"}
    /\ UNCHANGED vars

Next == Main \/ (\E j \in Job : Work(j)) \/ OtherRunResets \/ Over

\* The main thread and the threads of the pool are scheduled fairly, and every
\* external command a job waits for has a timeout.
Fairness == WF_vars(Main) /\ WF_vars(\E j \in Job : Work(j))

Spec == Init /\ [][Next]_vars /\ Fairness
-----------------------------------------------------------------------------
TypeOK ==
    /\ plan \in Plans
    /\ phase \in Phases
    /\ next \in 1..(Len(plan) + 2)
    /\ recorded \in [Path -> 0..(Len(plan) + 1)]
    /\ pc \in [Job -> {"idle", "queued"} \cup Active \cup Ended]
    /\ pos \in [Job -> Nat]
    /\ \A j \in Job : pos[j] \in 0..Len(plan[j].docs)
    /\ claims \subseteq Path
    /\ disk \in [Path -> {Absent, Stale, Torn, NamespaceDoc} \cup (Nat \X Nat)]
    /\ unlinked \subseteq Path
    /\ removed \in Nat

\* The objects of the plan: <<job, index>>.
Doc == UNION {{<<j, i>> : i \in DOMAIN plan[j].docs} : j \in Job}
PathOf(d) == plan[d[1]].docs[d[2]]

\* When a run returns, every object any config rendered has a file of its own
\* that holds it completely: none was replaced by a later object, by another
\* config's, by an automatic Namespace object, or removed as stale.
\* (output.py's claims, record_paths, _ensure_namespaces and the cleanup.)
EveryDocumentLands ==
    phase = "returned" => \A d \in Doc : disk[PathOf(d)] = d

\* The same of a run that has the process to itself.  (reset_written_paths at
\* the start of generate_manifests empties what the whole process has claimed.)
UndisturbedDocumentsLand == plan \notin Disturbed => EveryDocumentLands

\* Once the run has returned or raised, no thread of it still renders, so
\* the caller may inspect, commit or clear the output.
\* (Leaving the executor's with block.)
QuietAtTheEnd ==
    phase \in {"namespaces", "cleanup", "returned", "failed"} => PoolIdle

\* A job is refused a path only because another object of this very run maps
\* to it, never because of what an earlier run of the process claimed.
\* (reset_written_paths at the start of generate_manifests.)
ClashesAreReal ==
    \A j \in Job : pc[j] = "clashed" =>
        \E d \in Doc : d # <<j, pos[j] + 1>> /\ PathOf(d) = Current(j)

\* While write_documents has a path open for one job, no other job of a block
\* that uses write_documents has the same path open: two threads of a run that
\* has the process to itself never write one file at the same time.
NoSharedOpenFile ==
    \A j, k \in Job :
        /\ plan \notin Disturbed
        /\ j # k
        /\ ~plan[j].own /\ ~plan[k].own
        /\ pc[j] \in {"open", "dump"} /\ pc[k] \in {"open", "dump"}
        => Current(j) # Current(k)

\* A block that did not opt in to parallel rendering never renders two of its
\* configs at once, nor one of them next to another block's.
SequentialBlocksAlone ==
    \A j, k \in Job :
        /\ j # k
        /\ pc[j] \in Active
        /\ plan[j].block \notin ParallelSafe
        => pc[k] \notin Active \cup {"queued"}

\* When a run returns, every namespace it wrote to and may manage has a
\* Namespace object among the recorded files, and the file exists.
\* (_ensure_namespaces.)
NamespacesExist ==
    phase = "returned" =>
        \A p \in Written : AutoNamespaced(RootOf(p), Owned, Managed) =>
            \E q \in {OwnNamespacePath(RootOf(p)),
                      ClusterNamespacePath(RootOf(p))} :
                q \in Written /\ disk[q] # Absent

\* A file disappears only in the cleanup, after every config was rendered and
\* recorded without a conflict, and only if nothing the run wrote is in a root of
\* another service: a failing run deletes nothing.  What disappears was produced by
\* no config, is no Namespace object of the run, and lies in a root it may manage.
\* (_cleanup_stale_files runs last.)
Accepted ==
    /\ \A j \in Job : /\ pc[j] = "done"
                      /\ \A p \in PathsOf(j) : recorded[p] = j
    /\ Intrusions = {}
StaleRemovalIsLast ==
    [][\A p \in Path : (disk[p] # Absent /\ disk'[p] = Absent) =>
          /\ phase = "cleanup" /\ next > Len(plan)
          /\ Accepted
          /\ p \notin Written
          /\ RootOf(p) \in Managed \ Owned]_vars

\* A manifest is torn only while a job writes it, or when the job or the writing of
\* a Namespace object failed right there: wherever a run fails or is killed, each
\* of its threads leaves one torn file at most, and a run that returns none.
\* (open(path, "w") and the dump after it, in write_documents and elsewhere.)
TornWhereItFailed ==
    \A p \in Path : disk[p] = Torn =>
        \/ \E j \in Job : /\ pc[j] \in {"dump", "raised"}
                          /\ MoreToWrite(j) /\ Current(j) = p
        \/ /\ phase = "failed"
           /\ \E r \in Unnamed : p = OwnNamespacePath(r)

\* Every run ends, whatever its jobs do. (No config waits on another, and the
\* main thread never waits for a result that cannot come.)
Terminates == <>(phase \in {"returned", "failed"})

\* Whatever the schedule of the threads, the run is one that takes the configs
\* one after another.
Sequential == INSTANCE SequentialGeneration WITH
    outcome <- IF phase \in {"returned", "failed"} THEN phase ELSE "running"

RefinesSequential == Sequential!Spec

\* Objects of different configs never replace each other, even while other runs
\* of the process reset the claims: when the run returns, what a file holds is
\* complete and was written by the config it is recorded for.
\* (record_paths, the second line of defence behind the claims.)
ConfigsKeptApart ==
    phase = "returned" =>
        \A d \in Doc : /\ disk[PathOf(d)] \in Doc
                       /\ disk[PathOf(d)][1] = recorded[PathOf(d)]
                       /\ recorded[PathOf(d)] = d[1]

\* _count_removed_files: "Count the number of stale files that were removed."
ReportsRemovals == phase = "returned" => removed = Cardinality(unlinked)
=============================================================================
