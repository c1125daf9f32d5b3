---------------------- MODULE GenerateManifestsProofs -----------------------
(***************************************************************************)
(* generate_manifests() for any number of jobs, objects, paths and pool    *)
(* threads: types, the quiet end of a run, the claims of write_documents,  *)
(* what may be torn and what may disappear,                                *)
(* and what the schedule of the pool leaves of a run: it is a sequential   *)
(* run, no job is refused a path without cause, blocks that did not opt in *)
(* render alone, and every namespace gets its Namespace object.            *)
(***************************************************************************)
EXTENDS GenerateManifests, DataInduction, FiniteSetTheorems, TLAPS

\* The types, with what they rest on: the Namespace objects are recorded once,
\* and a job that has a file open has an object to put in it.
TypeInv ==
    /\ TypeOK
    /\ phase \in {"validate", "generate", "drain", "namespaces"} =>
          next \in 1..(Len(plan) + 1)
    /\ \A j \in Job : pc[j] \in {"open", "dump"} => MoreToWrite(j)

\* What the plan looks like.
LEMMA PlanTypes ==
    ASSUME TypeOK
    PROVE  /\ plan \in Seq(JobType)
           /\ Len(plan) \in Nat /\ Job = 1..Len(plan)
           /\ \A j \in Job : /\ plan[j] \in JobType
                             /\ plan[j].docs \in Seq(Path)
                             /\ Len(plan[j].docs) \in Nat
                             /\ DOMAIN plan[j].docs = 1..Len(plan[j].docs)
                             /\ PathsOf(j) \subseteq Path
                             /\ pos[j] \in Nat
                             /\ MoreToWrite(j) => Current(j) \in Path
<1>1. plan \in Seq(JobType)
  BY GenerateAssumption DEF TypeOK
<1>2. Len(plan) \in Nat /\ Job = 1..Len(plan)
  BY <1>1 DEF Job
<1>3. ASSUME NEW j \in Job
      PROVE  /\ plan[j] \in JobType
             /\ plan[j].docs \in Seq(Path)
             /\ Len(plan[j].docs) \in Nat
             /\ DOMAIN plan[j].docs = 1..Len(plan[j].docs)
             /\ PathsOf(j) \subseteq Path
             /\ pos[j] \in Nat
             /\ MoreToWrite(j) => Current(j) \in Path
  <2>1. plan[j] \in JobType
    BY <1>1, <1>2
  <2>2. plan[j].docs \in Seq(Path)
    BY <2>1 DEF JobType
  <2>3. pos[j] \in 0..Len(plan[j].docs)
    BY DEF TypeOK
  <2> QED
    BY <2>1, <2>2, <2>3 DEF PathsOf, MoreToWrite, Current
<1> QED
  BY <1>1, <1>2, <1>3

\* The files the Namespace objects go to are paths.
LEMMA OwnPathTypes ==
    /\ \A r \in Root : OwnNamespacePath(r) \in Path
    /\ Unnamed \subseteq Root
  BY LayoutAssumption DEF OwnNamespacePath, Path, Unnamed, LacksNamespace

\* The type invariant is inductive.
LEMMA TypesInductive == Spec => []TypeInv
<1> USE GenerateAssumption
<1>1. Init => TypeInv
  <2> SUFFICES ASSUME Init PROVE TypeInv
    OBVIOUS
  <2>1. plan \in Seq(JobType) /\ Len(plan) \in Nat /\ Job = 1..Len(plan)
    BY DEF Init, Job
  <2>2. \A j \in Job : Len(plan[j].docs) \in Nat
    BY <2>1 DEF JobType
  <2>3. disk \in [Path -> {Absent, Stale, Torn, NamespaceDoc} \cup (Nat \X Nat)]
    BY DEF Init
  <2> QED
    BY <2>1, <2>2, <2>3
       DEF Init, TypeInv, TypeOK, Phases, NoSource
<1>2. TypeInv /\ [Next]_vars => TypeInv'
  <2> SUFFICES ASSUME TypeInv, [Next]_vars PROVE TypeInv'
    OBVIOUS
  <2> USE PlanTypes DEF TypeInv, TypeOK, Phases, Active, Failed, Ended
  <2>1. CASE NothingToDo \/ Reject \/ Start \/ Intrude \/ NoIntrusion
             \/ Conflict \/ Drained \/ CleanupFault
    BY <2>1 DEF NothingToDo, Reject, Start, Intrude, NoIntrusion, Conflict,
       Drained, CleanupFault, mainVars, jobVars, Job, MoreToWrite
  <2>2. CASE Submit \/ JobError
    BY <2>2 DEF Submit, JobError, mainVars, jobVars, Job, MoreToWrite
  <2>3. CASE Record
    <3>1. recorded' \in [Path -> 0..(Len(plan) + 1)]
      BY <2>3 DEF Record, RecordedWith
    <3> QED
      BY <2>3, <3>1 DEF Record, jobVars, Job, MoreToWrite
  <2>4. ASSUME NEW r \in Root, WriteNamespace(r) \/ NamespaceFault(r)
        PROVE  TypeInv'
    <3>1. disk' \in [Path -> {Absent, Stale, Torn, NamespaceDoc}
                             \cup (Nat \X Nat)]
      BY <2>4, OwnPathTypes DEF WriteNamespace, NamespaceFault
    <3> QED
      BY <2>4, <3>1 DEF WriteNamespace, NamespaceFault, mainVars, jobVars, Job,
                        MoreToWrite
  <2>5. CASE NamespacesDone
    <3>1. recorded' \in [Path -> 0..(Len(plan) + 1)]
      BY <2>5 DEF NamespacesDone, RecordedWith, NamespaceSource
    <3>2. next' \in 1..(Len(plan) + 2) /\ phase' = "cleanup"
      BY <2>5 DEF NamespacesDone
    <3>3. UNCHANGED <<plan, pc, pos, claims, disk, unlinked, removed>>
      BY <2>5 DEF NamespacesDone, jobVars
    <3> QED
      BY <3>1, <3>2, <3>3 DEF Job, MoreToWrite
  <2>6. ASSUME NEW p \in Path, RemoveStale(p) PROVE TypeInv'
    <3>1. disk' \in [Path -> {Absent, Stale, Torn, NamespaceDoc}
                             \cup (Nat \X Nat)]
      BY <2>6 DEF RemoveStale
    <3> QED
      BY <2>6, <3>1 DEF RemoveStale, mainVars, jobVars, Job, MoreToWrite
  <2>7. CASE Return
    <3>1. removed' = 0
      BY <2>7, FS_EmptySet DEF Return
    <3> QED
      BY <2>7, <3>1 DEF Return, jobVars, Job, MoreToWrite
  <2>8. ASSUME NEW j \in Job, StartWorker(j) \/ Claim(j) \/ Clash(j)
                              \/ Finish(j) \/ Raise(j)
        PROVE  TypeInv'
    BY <2>8 DEF StartWorker, Claim, Clash, Finish, Raise, mainVars, Job,
                MoreToWrite
  <2>9. ASSUME NEW j \in Job, Open(j) PROVE TypeInv'
    <3>1. disk' \in [Path -> {Absent, Stale, Torn, NamespaceDoc}
                             \cup (Nat \X Nat)]
      BY <2>9 DEF Open
    <3> QED
      BY <2>9, <3>1 DEF Open, mainVars, Job, MoreToWrite
  <2>10. ASSUME NEW j \in Job, Dump(j) PROVE TypeInv'
    <3>1. pos[j] + 1 \in 1..Len(plan[j].docs) /\ j \in Nat
      BY <2>10 DEF Dump, MoreToWrite
    <3>2. disk' \in [Path -> {Absent, Stale, Torn, NamespaceDoc}
                             \cup (Nat \X Nat)]
      BY <2>10, <3>1 DEF Dump
    <3> QED
      BY <2>10, <3>1, <3>2 DEF Dump, mainVars, Job, MoreToWrite
  <2>11. CASE OtherRunResets \/ Over \/ UNCHANGED vars
    BY <2>11 DEF OtherRunResets, Over, vars, mainVars, jobVars, Job, MoreToWrite
  <2> QED
    BY <2>1, <2>2, <2>3, <2>4, <2>5, <2>6, <2>7, <2>8, <2>9, <2>10, <2>11
       DEF Next, Main, Work
<1> QED
  BY <1>1, <1>2, PTL DEF Spec

\* Every variable keeps its type, in every run, however many jobs and threads.
THEOREM GenerateTypes == Spec => []TypeOK
<1>1. TypeInv => TypeOK
  BY DEF TypeInv
<1> QED
  BY <1>1, TypesInductive, PTL
-----------------------------------------------------------------------------
(* The main thread and the pool. *)

\* Where the main thread is, and what the jobs have done by then: those whose
\* results it has taken are done, it goes on after the last of them only, and
\* it leaves an idle pool behind.
MainInv ==
    /\ phase = "validate" =>
          next = 1 /\ \A j \in Job : pc[j] = "idle" /\ pos[j] = 0
    /\ \A j \in Job : pc[j] = "done" => pos[j] = Len(plan[j].docs)
    /\ \A j \in Job : j < next => pc[j] = "done"
    /\ phase \in {"namespaces", "cleanup", "returned"} =>
          \A j \in Job : j < next
    /\ phase \in {"namespaces", "cleanup", "returned", "failed"} => PoolIdle

\* The jobs of a pooled group are submitted together.
GroupInv ==
    \A j \in Job : Pooled(j) /\ pc[j] = "idle" =>
        \A k \in Group(j) : pc[k] = "idle"

RunInv == TypeInv /\ MainInv /\ GroupInv

\* Jobs of one group agree on the group and on whether it is pooled.
LEMMA SameGroup ==
    ASSUME TypeOK, NEW j \in Job, NEW k \in Group(j)
    PROVE  /\ k \in Job /\ j \in Group(j) /\ j \in Group(k)
           /\ Group(k) = Group(j)
           /\ Pooled(k) <=> Pooled(j)
<1>1. Job \subseteq Int
  BY PlanTypes
<1>2. k \in Job /\ \A m \in Job : (m \in j..k \/ m \in k..j) =>
                                     plan[m].block = plan[j].block
  BY DEF Group
<1>3. plan[k].block = plan[j].block
  BY <1>1, <1>2
<1>4. j \in Group(j) /\ j \in Group(k)
  BY <1>1, <1>2, <1>3 DEF Group
<1>5. ASSUME NEW l \in Job PROVE l \in Group(k) <=> l \in Group(j)
  BY <1>1, <1>2, <1>3 DEF Group
<1>6. Group(k) = Group(j)
  BY <1>5 DEF Group
<1> QED
  BY <1>2, <1>3, <1>4, <1>6 DEF Pooled

\* What any step of a thread does: it moves one job on, which was running or
\* queued, and ends it only after its last object.
LEMMA WorkSteps ==
    ASSUME TypeInv, NEW j \in Job, Work(j)
    PROVE  /\ UNCHANGED <<plan, phase, next, recorded, unlinked, removed>>
           /\ pc[j] \in Active \cup {"queued"}
           /\ \E x \in Active \cup Failed \cup {"done"} :
                 /\ pc' = [pc EXCEPT ![j] = x]
                 /\ x = "done" => pos[j] = Len(plan[j].docs) /\ pos' = pos
           /\ \A k \in Job \ {j} : pos'[k] = pos[k]
<1> USE DEF Active, Failed, mainVars
<1>1. CASE Finish(j)
  <2>1. pos[j] = Len(plan[j].docs)
    BY <1>1, PlanTypes DEF Finish, MoreToWrite, TypeInv, TypeOK
  <2> QED
    BY <1>1, <2>1 DEF Finish
<1>2. CASE Dump(j)
  BY <1>2 DEF Dump, TypeInv, TypeOK
<1>3. CASE StartWorker(j) \/ Claim(j) \/ Clash(j) \/ Open(j) \/ Raise(j)
  BY <1>3 DEF StartWorker, Claim, Clash, Open, Raise
<1> QED
  BY <1>1, <1>2, <1>3 DEF Work

\* The invariant of the main thread and the groups is inductive.
LEMMA RunInvInductive == Spec => []RunInv
<1> USE DEF RunInv
<1>1. Init /\ TypeInv => MainInv /\ GroupInv
  <2> SUFFICES ASSUME Init, TypeInv PROVE MainInv /\ GroupInv
    OBVIOUS
  <2>1. Job = 1..Len(plan) /\ Len(plan) \in Nat
    BY PlanTypes DEF TypeInv
  <2> QED
    BY <2>1 DEF Init, MainInv, GroupInv, Group
<1>2. RunInv /\ TypeInv' /\ [Next]_vars => (MainInv /\ GroupInv)'
  <2> SUFFICES ASSUME RunInv, TypeInv', [Next]_vars PROVE (MainInv /\ GroupInv)'
    OBVIOUS
  <2> TypeOK
    BY DEF TypeInv
  <2>g. ASSUME plan' = plan PROVE \A j \in Job : /\ Group(j)' = Group(j)
                                                 /\ Pooled(j)' = Pooled(j)
    BY <2>g DEF Group, Pooled, Job
  <2>1. CASE NothingToDo \/ Reject \/ Start \/ Conflict \/ Drained
             \/ NamespacesDone \/ CleanupFault \/ Return
             \/ OtherRunResets \/ Over \/ UNCHANGED vars
    <3>1. UNCHANGED <<plan, pc, pos>>
      BY <2>1 DEF NothingToDo, Reject, Start, Conflict, Drained, NamespacesDone,
         CleanupFault, Return, OtherRunResets, Over, vars, jobVars
    <3>2. GroupInv'
      BY <3>1, <2>g DEF GroupInv, Job
    <3> Job = 1..Len(plan) /\ Len(plan) \in Nat /\ Job' = Job
      BY <3>1, PlanTypes DEF Job
    <3> USE <3>1 DEF MainInv, PoolIdle, Active
    <3>3. CASE NothingToDo
      BY <3>2, <3>3 DEF NothingToDo
    <3>4. CASE Reject \/ Start
      BY <3>2, <3>4 DEF Reject, Start
    <3>5. CASE Conflict \/ Drained
      BY <3>2, <3>5 DEF Conflict, Drained
    <3>6. CASE NamespacesDone
      BY <3>2, <3>6 DEF NamespacesDone, TypeOK
    <3>7. CASE CleanupFault \/ Return
      BY <3>2, <3>7 DEF CleanupFault, Return
    <3>8. CASE OtherRunResets \/ Over \/ UNCHANGED vars
      BY <3>2, <3>8 DEF OtherRunResets, Over, vars, mainVars
    <3> QED
      BY <2>1, <3>3, <3>4, <3>5, <3>6, <3>7, <3>8
  <2>2. CASE Submit
    <3> USE <2>2 DEF Submit, mainVars
    <3>1. next \in Job /\ pc[next] = "idle" /\ phase = "generate"
      OBVIOUS
    <3>2. CASE Pooled(next)
      <4>1. \A k \in Group(next) : pc[k] = "idle"
        BY <3>1, <3>2 DEF GroupInv
      <4>2. pc' = [k \in Job |-> IF k \in Group(next) THEN "queued" ELSE pc[k]]
        BY <3>2
      <4>3. MainInv'
        BY <3>1, <4>1, <4>2 DEF MainInv, Job
      <4>4. ASSUME NEW j \in Job, Pooled(j), pc'[j] = "idle", NEW k \in Group(j)
            PROVE  pc'[k] = "idle"
        <5>1. j \notin Group(next) /\ pc[j] = "idle"
          BY <4>2, <4>4
        <5>2. k \notin Group(next) /\ k \in Job
          BY <3>1, <4>4, <5>1, SameGroup
        <5> QED
          BY <4>2, <4>4, <5>1, <5>2 DEF GroupInv
      <4> QED
        BY <2>g, <4>3, <4>4 DEF GroupInv, Job
    <3>3. CASE ~Pooled(next)
      <4>1. pc' = [pc EXCEPT ![next] = "render"]
        BY <3>3
      <4>2. MainInv'
        BY <3>1, <4>1 DEF MainInv, Job, TypeOK
      <4>3. ASSUME NEW j \in Job, Pooled(j), pc'[j] = "idle", NEW k \in Group(j)
            PROVE  pc'[k] = "idle"
        <5>1. k # next /\ k \in Job
          BY <3>3, <4>3, SameGroup
        <5>2. pc[j] = "idle"
          BY <4>1, <4>3 DEF TypeOK
        <5> QED
          BY <4>1, <4>3, <5>1, <5>2 DEF GroupInv, TypeOK
      <4> QED
        BY <2>g, <4>2, <4>3 DEF GroupInv, Job
    <3> QED
      BY <3>2, <3>3
  <2>3. CASE Record
    <3>1. UNCHANGED <<plan, phase, jobVars>> /\ next' = next + 1
          /\ pc[next] = "done" /\ phase = "generate" /\ next \in Job
      BY <2>3 DEF Record
    <3>2. \A j \in Job : j < next + 1 => j < next \/ j = next
      BY <3>1, PlanTypes
    <3> QED
      BY <3>1, <3>2, <2>g DEF MainInv, GroupInv, jobVars, Job
  <2>4. CASE JobError
    <3>1. /\ UNCHANGED <<plan, next, pos>> /\ phase' = "drain"
          /\ pc' = [j \in Job |-> IF pc[j] = "queued" THEN "cancelled" ELSE pc[j]]
      BY <2>4 DEF JobError
    <3>2. MainInv'
      BY <3>1 DEF MainInv, Job
    <3>3. GroupInv'
      BY <3>1, <2>g, SameGroup DEF GroupInv, Job
    <3> QED
      BY <3>2, <3>3
  <2>5. CASE Intrude \/ NoIntrusion
    <3>1. UNCHANGED <<plan, next, jobVars>> /\ next = Len(plan) + 1
          /\ phase' \in {"failed", "namespaces"}
      BY <2>5 DEF Intrude, NoIntrusion
    <3>2. \A j \in Job : j < next
      BY <3>1, PlanTypes
    <3> QED
      BY <3>1, <3>2, <2>g DEF MainInv, GroupInv, PoolIdle, jobVars, Job, Active
  <2>6. ASSUME NEW r \in Root, WriteNamespace(r) \/ NamespaceFault(r)
        PROVE  (MainInv /\ GroupInv)'
    <3>1. UNCHANGED <<plan, next, jobVars>> /\ phase = "namespaces"
          /\ phase' \in {"failed", "namespaces"}
      BY <2>6 DEF WriteNamespace, NamespaceFault, mainVars
    <3> QED
      BY <3>1, <2>g DEF MainInv, GroupInv, PoolIdle, jobVars, Job, Active
  <2>7. ASSUME NEW p \in Path, RemoveStale(p) PROVE (MainInv /\ GroupInv)'
    <3>1. UNCHANGED <<plan, phase, next, jobVars>>
      BY <2>7 DEF RemoveStale, mainVars
    <3> QED
      BY <3>1, <2>g DEF MainInv, GroupInv, PoolIdle, jobVars, Job, Active
  <2>8. ASSUME NEW j \in Job, Work(j) PROVE (MainInv /\ GroupInv)'
    <3>1. PICK x \in Active \cup Failed \cup {"done"} :
             /\ pc' = [pc EXCEPT ![j] = x]
             /\ x = "done" => pos[j] = Len(plan[j].docs) /\ pos' = pos
      BY <2>8, WorkSteps
    <3>2. /\ UNCHANGED <<plan, phase, next>>
          /\ pc[j] \in Active \cup {"queued"}
          /\ \A k \in Job \ {j} : pos'[k] = pos[k]
      BY <2>8, WorkSteps
    <3>3. phase \notin {"validate", "namespaces", "cleanup", "returned", "failed"}
      BY <3>2 DEF MainInv, PoolIdle, Active
    <3>4. MainInv'
      BY <3>1, <3>2, <3>3 DEF MainInv, Job, Active, Failed, TypeOK
    <3>5. GroupInv'
      BY <3>1, <3>2, <2>g, SameGroup DEF GroupInv, Job, Active, Failed, TypeOK
    <3> QED
      BY <3>4, <3>5
  <2> QED
    BY <2>1, <2>2, <2>3, <2>4, <2>5, <2>6, <2>7, <2>8 DEF Next, Main
<1> QED
  BY <1>1, <1>2, TypesInductive, PTL DEF Spec

\* Once the run is past its jobs, whether it returns or raises, no thread of it
\* renders or still has a job to take.
THEOREM AlwaysQuietAtTheEnd == Spec => []QuietAtTheEnd
<1>1. RunInv => QuietAtTheEnd
  BY DEF RunInv, MainInv, QuietAtTheEnd
<1> QED
  BY <1>1, RunInvInductive, PTL
-----------------------------------------------------------------------------
(* The claims of write_documents, in a process that runs one generation at a *)
(* time.                                                                     *)

\* The objects whose path job j has claimed: those it has written, and the one
\* whose file it has open.
Held(j) ==
    {i \in DOMAIN plan[j].docs :
        /\ ~plan[j].own
        /\ \/ i <= pos[j]
           \/ i = pos[j] + 1 /\ pc[j] \in {"open", "dump"}}

\* Their paths are claimed, and no two of them share one.
ClaimsHold ==
    /\ \A j \in Job : \A i \in Held(j) : plan[j].docs[i] \in claims
    /\ \A j, k \in Job : \A i \in Held(j), m \in Held(k) :
          plan[j].docs[i] = plan[k].docs[m] => j = k /\ i = m

\* No other run of the process empties the claims.
ClaimInv == plan \notin Disturbed => ClaimsHold

\* What a step does to the objects that are held: nothing, but for the one a
\* job claims.
LEMMA HeldSteps ==
    ASSUME RunInv, [Next]_vars
    PROVE  /\ \A j \in Job : ~Claim(j) => Held(j)' \subseteq Held(j)
           /\ \A j \in Job : Claim(j) =>
                 /\ Held(j)' \subseteq Held(j) \cup {pos[j] + 1}
                 /\ \A k \in Job \ {j} : Held(k)' \subseteq Held(k)
           /\ plan' = plan
<1> USE DEF RunInv, TypeInv
<1>1. \A j \in Job : pos[j] \in Nat /\ DOMAIN plan[j].docs \subseteq Nat
  BY PlanTypes
<1>2. ASSUME UNCHANGED <<plan, pos>>, NEW j \in Job,
             pc'[j] \in {"open", "dump"} => pc[j] \in {"open", "dump"}
      PROVE  Held(j)' \subseteq Held(j)
  BY <1>2 DEF Held
<1>3. CASE Main \/ OtherRunResets \/ Over \/ UNCHANGED vars
  <2>1. UNCHANGED <<plan, pos>>
    BY <1>3 DEF Main, NothingToDo, Reject, Start, Submit, Record, Conflict,
       JobError, Drained, Intrude, NoIntrusion, WriteNamespace, NamespaceFault,
       NamespacesDone, RemoveStale, CleanupFault, Return, OtherRunResets, Over,
       mainVars, jobVars, vars
  <2>2. \A j \in Job : pc'[j] \in {"open", "dump"} => pc[j] \in {"open", "dump"}
    <3>1. CASE Submit
      BY <3>1 DEF Submit, TypeOK, Job
    <3>2. CASE JobError
      BY <3>2 DEF JobError, Job
    <3>3. CASE ~Submit /\ ~JobError
      BY <1>3, <3>3 DEF Main, NothingToDo, Reject, Start, Record, Conflict,
         Drained, Intrude, NoIntrusion, WriteNamespace, NamespaceFault,
         NamespacesDone, RemoveStale, CleanupFault, Return, OtherRunResets, Over,
         mainVars, jobVars, vars
    <3> QED
      BY <3>1, <3>2, <3>3
  <2>3. \A j \in Job : ~Claim(j)
    BY <1>3, <2>2 DEF Claim, TypeOK
  <2> QED
    BY <1>2, <2>1, <2>2, <2>3
<1>4. ASSUME NEW j \in Job, Work(j)
      PROVE  /\ plan' = plan
             /\ \A k \in Job \ {j} : Held(k)' = Held(k) /\ ~Claim(k)
             /\ Held(j)' \subseteq Held(j) \cup {pos[j] + 1}
             /\ ~Claim(j) => Held(j)' \subseteq Held(j)
  <2>1. plan' = plan /\ \A k \in Job \ {j} : pos'[k] = pos[k] /\ pc'[k] = pc[k]
    BY <1>4, WorkSteps DEF TypeOK
  <2>2. \A k \in Job \ {j} : Held(k)' = Held(k)
    BY <2>1 DEF Held
  <2>3. \A k \in Job \ {j} : ~Claim(k)
    BY <2>1 DEF Claim, TypeOK
  <2>4. CASE Claim(j)
    BY <1>1, <2>1, <2>2, <2>3, <2>4 DEF Claim, Held
  <2>5. CASE Dump(j)
    <3>1. pc[j] = "dump" /\ pc'[j] = "render" /\ pos'[j] = pos[j] + 1
      BY <2>5 DEF Dump, TypeOK
    <3>2. Held(j)' \subseteq Held(j)
      BY <1>1, <2>1, <3>1 DEF Held
    <3> QED
      BY <2>1, <2>2, <2>3, <3>2
  <2>6. CASE Open(j)
    <3>1. pos' = pos /\ (plan[j].own \/ pc[j] = "open")
      BY <2>6 DEF Open
    <3>2. Held(j)' \subseteq Held(j)
      BY <2>1, <3>1 DEF Held
    <3> QED
      BY <2>1, <2>2, <2>3, <3>2
  <2>7. CASE StartWorker(j) \/ Clash(j) \/ Finish(j) \/ Raise(j)
    <3>1. pos' = pos /\ pc'[j] \notin {"open", "dump"}
      BY <2>7 DEF StartWorker, Clash, Finish, Raise, TypeOK
    <3>2. Held(j)' \subseteq Held(j)
      BY <2>1, <3>1 DEF Held
    <3> QED
      BY <2>1, <2>2, <2>3, <3>2
  <2> QED
    BY <1>4, <2>4, <2>5, <2>6, <2>7 DEF Work
<1> QED
  BY <1>3, <1>4 DEF Next

\* The claims keep the held objects apart, as long as no other run resets them.
LEMMA ClaimInvInductive == Spec => []ClaimInv
<1>1. Init /\ RunInv => ClaimInv
  <2> SUFFICES ASSUME Init, RunInv PROVE ClaimInv
    OBVIOUS
  <2>1. \A j \in Job : Held(j) = {}
    BY PlanTypes DEF Init, Held, RunInv, TypeInv
  <2> QED
    BY <2>1 DEF ClaimInv, ClaimsHold
<1>2. ClaimInv /\ RunInv /\ [Next]_vars => ClaimInv'
  <2>1. ASSUME RunInv, [Next]_vars PROVE plan' = plan /\ Job' = Job
    BY <2>1, HeldSteps DEF Job
  <2> SUFFICES ASSUME plan \notin Disturbed, ClaimsHold, RunInv, [Next]_vars
               PROVE  ClaimsHold'
    BY <2>1 DEF ClaimInv
  <2> TypeOK
    BY DEF RunInv, TypeInv
  <2> plan' = plan /\ Job' = Job
    BY <2>1
  <2>2. CASE Start
    <3>1. \A j \in Job : Held(j) = {} /\ ~Claim(j)
      BY <2>2, PlanTypes DEF Start, RunInv, MainInv, Held, Claim
    <3>2. \A j \in Job : Held(j)' = {}
      BY <3>1, HeldSteps
    <3> QED
      BY <3>2 DEF ClaimsHold
  <2>3. CASE ~Start /\ \A j \in Job : ~Claim(j)
    <3>1. claims' = claims
      BY <2>3 DEF Next, Main, Work, NothingToDo, Reject, Submit, Record, Conflict,
         JobError, Drained, Intrude, NoIntrusion, WriteNamespace, NamespaceFault,
         NamespacesDone, RemoveStale, CleanupFault, Return, OtherRunResets, Over,
         StartWorker, Clash, Open, Dump, Finish, Raise, vars
    <3>2. \A j \in Job : Held(j)' \subseteq Held(j)
      BY <2>3, HeldSteps
    <3> QED
      BY <3>1, <3>2 DEF ClaimsHold
  <2>4. ASSUME NEW j \in Job, Claim(j) PROVE ClaimsHold'
    <3>1. /\ Held(j)' \subseteq Held(j) \cup {pos[j] + 1}
          /\ \A k \in Job \ {j} : Held(k)' \subseteq Held(k)
      BY <2>4, HeldSteps
    <3>2. /\ claims' = claims \cup {plan[j].docs[pos[j] + 1]}
          /\ plan[j].docs[pos[j] + 1] \notin claims
      BY <2>4 DEF Claim, Current
    <3>3. \A k \in Job : \A i \in Held(k)' :
             /\ plan[k].docs[i] \in claims'
             /\ \/ i \in Held(k) /\ plan[k].docs[i] \in claims
                \/ k = j /\ i = pos[j] + 1
      BY <3>1, <3>2 DEF ClaimsHold
    <3> QED
      BY <3>2, <3>3 DEF ClaimsHold
  <2> QED
    BY <2>2, <2>3, <2>4
<1> QED
  BY <1>1, <1>2, RunInvInductive, PTL DEF Spec

\* Two threads never have the same file open for write_documents, whatever the
\* schedule of the pool.
THEOREM OpenFilesNeverShared == Spec => []NoSharedOpenFile
<1>1. ClaimInv /\ TypeInv => NoSharedOpenFile
  <2> SUFFICES ASSUME ClaimInv, TypeInv, NEW j \in Job, NEW k \in Job, j # k,
                      plan \notin Disturbed, ~plan[j].own, ~plan[k].own,
                      pc[j] \in {"open", "dump"}, pc[k] \in {"open", "dump"},
                      Current(j) = Current(k)
               PROVE  FALSE
    BY DEF NoSharedOpenFile
  <2>1. pos[j] + 1 \in Held(j) /\ pos[k] + 1 \in Held(k)
    BY PlanTypes DEF TypeInv, Held, MoreToWrite
  <2> QED
    BY <2>1 DEF ClaimInv, ClaimsHold, Current
<1> QED
  BY <1>1, ClaimInvInductive, TypesInductive, PTL
-----------------------------------------------------------------------------
(* Objects and files. *)

\* The blocks that write their own files give each object its own file.
OwnFilesDistinct ==
    \A sequence \in Plans : \A j \in DOMAIN sequence :
        sequence[j].own =>
            \A i, m \in DOMAIN sequence[j].docs :
                sequence[j].docs[i] = sequence[j].docs[m] => i = m

\* An object that was written is in its file, or another object of the plan
\* maps to that file; and paths stay recorded for the job that produced them.
LandInv ==
    /\ \A j \in Job : \A i \in 1..pos[j] :
          \/ disk[plan[j].docs[i]] = <<j, i>>
          \/ \E e \in Doc : e # <<j, i>> /\ PathOf(e) = plan[j].docs[i]
    /\ \A j \in Job : j < next => \A p \in PathsOf(j) : recorded[p] = j

\* What was written stays, unless another object maps to the same path.
LEMMA LandInvInductive == Spec => []LandInv
<1>1. Init /\ RunInv => LandInv
  <2> SUFFICES ASSUME Init, RunInv PROVE LandInv
    OBVIOUS
  <2>1. \A j \in Job : pos[j] = 0 /\ ~(j < next)
    BY PlanTypes DEF Init, RunInv, TypeInv
  <2> QED
    BY <2>1 DEF LandInv
<1>2. LandInv /\ RunInv /\ [Next]_vars => LandInv'
  <2> SUFFICES ASSUME LandInv, RunInv, [Next]_vars PROVE LandInv'
    OBVIOUS
  <2> TypeOK /\ TypeInv
    BY DEF RunInv, TypeInv
  <2>1. plan' = plan /\ Job' = Job /\ Doc' = Doc
        /\ (\A j : PathsOf(j)' = PathsOf(j)) /\ (\A d : PathOf(d)' = PathOf(d))
    BY HeldSteps DEF Job, Doc, PathsOf, PathOf
  <2>2. \A j \in Job : pos[j] \in 0..Len(plan[j].docs)
                       /\ DOMAIN plan[j].docs = 1..Len(plan[j].docs)
                       /\ Len(plan[j].docs) \in Nat
    BY PlanTypes DEF TypeOK
  <2>3. \A j \in Job : \A i \in 1..pos[j] :
           plan[j].docs[i] \in PathsOf(j) /\ plan[j].docs[i] \in Path
    BY <2>2, PlanTypes DEF PathsOf
  <2>5. CASE Record
    <3>1. /\ recorded' = RecordedWith(PathsOf(next), next)
          /\ PathsOf(next) \cap Written = {} /\ next' = next + 1
          /\ next \in Job /\ UNCHANGED <<pos, disk>>
      BY <2>5 DEF Record, jobVars
    <3>2. \A j \in Job : j < next + 1 => j < next \/ j = next
      BY <3>1, PlanTypes
    <3>3. \A j \in Job : PathsOf(j) \subseteq Path /\ j # NoSource
      BY PlanTypes DEF NoSource
    <3>4. \A j \in Job : j < next => PathsOf(j) \subseteq Written
      BY <3>3 DEF LandInv, Written
    <3>5. \A j \in Job : j < next + 1 => \A p \in PathsOf(j) : recorded'[p] = j
      BY <3>1, <3>2, <3>3, <3>4 DEF RecordedWith, LandInv
    <3> QED
      BY <2>1, <3>1, <3>5 DEF LandInv
  <2>6. ASSUME phase \in {"namespaces", "cleanup"}
        PROVE  \A j \in Job : PathsOf(j) \subseteq Written
    <3>1. \A j \in Job : PathsOf(j) \subseteq Path /\ j # NoSource
      BY PlanTypes DEF NoSource
    <3> QED
      BY <2>6, <3>1 DEF LandInv, RunInv, MainInv, Written
  <2>7. ASSUME NEW r \in Root, WriteNamespace(r) \/ NamespaceFault(r)
        PROVE  LandInv'
    <3>1. /\ \A p \in Path : p # OwnNamespacePath(r) => disk'[p] = disk[p]
          /\ OwnNamespacePath(r) \notin Written
          /\ phase = "namespaces"
          /\ UNCHANGED <<next, recorded, pos>>
      BY <2>7 DEF WriteNamespace, NamespaceFault, mainVars, jobVars, Unnamed,
                  LacksNamespace, TypeOK
    <3>2. \A j \in Job : \A i \in 1..pos[j] :
             disk'[plan[j].docs[i]] = disk[plan[j].docs[i]]
      BY <2>3, <2>6, <3>1
    <3> QED
      BY <2>1, <3>1, <3>2 DEF LandInv
  <2>8. CASE NamespacesDone
    <3>1. /\ \A p \in Written : recorded'[p] = recorded[p]
          /\ phase = "namespaces"
          /\ UNCHANGED <<pos, disk>>
      BY <2>8 DEF NamespacesDone, RecordedWith, Unnamed, LacksNamespace, jobVars,
                  Written
    <3>2. \A j \in Job : j < next /\ PathsOf(j) \subseteq Written
      BY <2>6, <3>1 DEF RunInv, MainInv
    <3> QED
      BY <2>1, <3>1, <3>2 DEF LandInv
  <2>9. ASSUME NEW p \in Path, RemoveStale(p) PROVE LandInv'
    <3>1. /\ \A q : q # p => disk'[q] = disk[q]
          /\ p \notin Written /\ phase = "cleanup"
          /\ UNCHANGED <<next, recorded, pos>>
      BY <2>9 DEF RemoveStale, StaleFiles, mainVars, jobVars, TypeOK
    <3>2. \A j \in Job : \A i \in 1..pos[j] :
             disk'[plan[j].docs[i]] = disk[plan[j].docs[i]]
      BY <2>3, <2>6, <3>1
    <3> QED
      BY <2>1, <3>1, <3>2 DEF LandInv
  <2>10. ASSUME NEW k \in Job, Open(k) \/ Dump(k)
         PROVE  LandInv'
    <3> DEFINE e == <<k, pos[k] + 1>>
    <3>1. e \in Doc /\ PathOf(e) = Current(k)
      <4>1. MoreToWrite(k)
        BY <2>10 DEF Open, Dump, TypeInv
      <4> QED
        BY <2>2, <4>1 DEF MoreToWrite, Doc, PathOf, Current
    <3>2. UNCHANGED <<next, recorded>>
          /\ \A p \in Path : p # Current(k) => disk'[p] = disk[p]
      BY <2>10 DEF Open, Dump, mainVars, TypeOK
    <3>3. CASE Open(k)
      <4>1. pos' = pos
        BY <3>3 DEF Open
      <4>2. \A j \in Job : \A i \in 1..pos[j] : e # <<j, i>>
        BY <2>2
      <4>3. ASSUME NEW j \in Job, NEW i \in 1..pos[j]
            PROVE  \/ disk'[plan[j].docs[i]] = <<j, i>>
                   \/ \E d \in Doc : d # <<j, i>> /\ PathOf(d) = plan[j].docs[i]
        <5>1. CASE plan[j].docs[i] = Current(k)
          BY <3>1, <4>2, <5>1
        <5>2. CASE plan[j].docs[i] # Current(k)
          BY <2>3, <3>2, <5>2 DEF LandInv
        <5> QED
          BY <5>1, <5>2
      <4> QED
        BY <2>1, <3>2, <4>1, <4>3 DEF LandInv
    <3>4. CASE Dump(k)
      <4>1. /\ pos' = [pos EXCEPT ![k] = @ + 1]
            /\ Current(k) \in Path => disk'[Current(k)] = e
        BY <3>4 DEF Dump, TypeOK
      <4>2. Current(k) \in Path
        BY <3>4, PlanTypes DEF Dump, TypeInv
      <4>3. ASSUME NEW j \in Job, NEW i \in 1..pos'[j]
            PROVE  \/ disk'[plan[j].docs[i]] = <<j, i>>
                   \/ \E d \in Doc : d # <<j, i>> /\ PathOf(d) = plan[j].docs[i]
        <5>1. CASE <<j, i>> = e
          BY <3>1, <4>1, <4>2, <5>1 DEF PathOf
        <5>2. CASE <<j, i>> # e /\ plan[j].docs[i] = Current(k)
          BY <3>1, <5>2
        <5>3. CASE <<j, i>> # e /\ plan[j].docs[i] # Current(k)
          <6>1. i \in 1..pos[j]
            BY <2>2, <4>1, <5>3 DEF TypeOK
          <6> QED
            BY <2>3, <3>2, <5>3, <6>1 DEF LandInv
        <5> QED
          BY <5>1, <5>2, <5>3
      <4> QED
        BY <2>1, <3>2, <4>3 DEF LandInv
    <3> QED
      BY <2>10, <3>3, <3>4
  <2>11. CASE UNCHANGED <<next, recorded, pos, disk>>
    BY <2>1, <2>11 DEF LandInv
  <2> QED
    BY <2>5, <2>7, <2>8, <2>9, <2>10, <2>11
       DEF Next, Main, Work, NothingToDo, Reject, Start, Submit, Conflict,
           JobError, Drained, Intrude, NoIntrusion, CleanupFault, Return,
           OtherRunResets, Over, StartWorker, Claim, Clash, Finish, Raise,
           mainVars, jobVars, vars
<1> QED
  BY <1>1, <1>2, RunInvInductive, PTL DEF Spec

\* Two objects of jobs that are done, and whose paths are recorded, never share
\* a path.
LEMMA RecordedApart ==
    ASSUME OwnFilesDistinct, RunInv, ClaimsHold, LandInv,
           \A j \in Job : j < next,
           NEW d \in Doc, NEW e \in Doc, PathOf(d) = PathOf(e)
    PROVE  d = e
<1>1. PICK j \in Job, i \in Nat : i \in DOMAIN plan[j].docs /\ d = <<j, i>>
  BY PlanTypes DEF Doc, RunInv, TypeInv
<1>2. PICK k \in Job, m \in Nat : m \in DOMAIN plan[k].docs /\ e = <<k, m>>
  BY PlanTypes DEF Doc, RunInv, TypeInv
<1>3. plan[j].docs[i] = plan[k].docs[m]
  BY <1>1, <1>2 DEF PathOf
<1>4. plan[j].docs[i] \in PathsOf(j) /\ plan[j].docs[i] \in PathsOf(k)
  BY <1>1, <1>2, <1>3 DEF PathsOf
<1>5. j = k
  BY <1>4 DEF LandInv
<1>6. CASE plan[j].own
  <2>1. plan \in Plans
    BY DEF RunInv, TypeInv, TypeOK
  <2> QED
    BY <1>1, <1>2, <1>3, <1>5, <1>6, <2>1 DEF OwnFilesDistinct, Job
<1>7. CASE ~plan[j].own
  <2>1. pos[j] = Len(plan[j].docs)
    BY DEF RunInv, MainInv
  <2>2. i \in Held(j) /\ m \in Held(j)
    BY <1>1, <1>2, <1>5, <1>7, <2>1, PlanTypes DEF Held, RunInv, TypeInv
  <2> QED
    BY <1>1, <1>2, <1>3, <1>5, <2>2 DEF ClaimsHold
<1> QED
  BY <1>6, <1>7

\* A run that returns has every object in a file of its own, complete, whatever
\* the plan, the schedule and the number of threads.
THEOREM EveryDocumentAlwaysLands ==
    ASSUME OwnFilesDistinct PROVE Spec => []UndisturbedDocumentsLand
<1>1. RunInv /\ ClaimInv /\ LandInv => UndisturbedDocumentsLand
  <2> SUFFICES ASSUME RunInv, ClaimsHold, LandInv, phase = "returned", NEW d \in Doc
               PROVE  disk[PathOf(d)] = d
    BY DEF ClaimInv, UndisturbedDocumentsLand, EveryDocumentLands
  <2>1. \A j \in Job : j < next
    BY DEF RunInv, MainInv
  <2>2. PICK j \in Job, i \in Nat : i \in DOMAIN plan[j].docs /\ d = <<j, i>>
    BY PlanTypes DEF Doc, RunInv, TypeInv
  <2>3. i \in 1..pos[j]
    BY <2>1, <2>2, PlanTypes DEF RunInv, MainInv, TypeInv
  <2>4. \A e \in Doc : PathOf(e) = PathOf(d) => e = d
    BY <2>1, RecordedApart
  <2> QED
    BY <2>2, <2>3, <2>4 DEF LandInv, PathOf
<1> QED
  BY <1>1, RunInvInductive, ClaimInvInductive, LandInvInductive, PTL

\* A file some object was written to holds an object that maps to it, unless a
\* job is just dumping one into it, or raised while it was.
FileInv ==
    \A j \in Job : \A i \in 1..pos[j] :
        \/ \E e \in Doc : PathOf(e) = plan[j].docs[i] /\ disk[PathOf(e)] = e
        \/ \E k \in Job : /\ pc[k] \in {"dump", "raised"}
                          /\ Current(k) = plan[j].docs[i]

\* Whoever writes a file last, it ends up with an object that belongs there.
LEMMA FileInvInductive == Spec => []FileInv
<1>1. Init /\ RunInv => FileInv
  <2> SUFFICES ASSUME Init, RunInv PROVE FileInv
    OBVIOUS
  <2>1. \A j \in Job : pos[j] = 0
    BY DEF Init
  <2> QED
    BY <2>1 DEF FileInv
<1>2. FileInv /\ LandInv /\ RunInv /\ [Next]_vars => FileInv'
  <2> SUFFICES ASSUME FileInv, LandInv, RunInv, [Next]_vars PROVE FileInv'
    OBVIOUS
  <2> TypeOK /\ TypeInv
    BY DEF RunInv, TypeInv
  <2>1. plan' = plan /\ Job' = Job /\ Doc' = Doc /\ (\A d : PathOf(d)' = PathOf(d))
    BY HeldSteps DEF Job, Doc, PathOf
  <2>2. \A j \in Job : \A i \in 1..pos[j] :
           plan[j].docs[i] \in PathsOf(j) /\ plan[j].docs[i] \in Path
    BY PlanTypes DEF PathsOf, TypeOK
  <2>3. ASSUME phase \in {"namespaces", "cleanup"}
        PROVE  \A j \in Job : PathsOf(j) \subseteq Written
    <3>1. \A j \in Job : PathsOf(j) \subseteq Path /\ j # NoSource
      BY PlanTypes DEF NoSource
    <3> QED
      BY <2>3, <3>1 DEF LandInv, RunInv, MainInv, Written
  \* Steps that write no file that holds an object, and end no dump.
  <2>4. ASSUME pos' = pos,
               \A j \in Job : \A i \in 1..pos[j] :
                  disk'[plan[j].docs[i]] = disk[plan[j].docs[i]],
               \A k \in Job : pc[k] \in {"dump", "raised"} =>
                                pc'[k] \in {"dump", "raised"}
        PROVE  FileInv'
    <3>1. \A k \in Job : Current(k)' = Current(k)
      BY <2>1, <2>4 DEF Current
    <3> QED
      BY <2>1, <2>4, <3>1 DEF FileInv
  <2>5. ASSUME NEW r \in Root, WriteNamespace(r) \/ NamespaceFault(r)
        PROVE  FileInv'
    <3>1. /\ \A p \in Path : p # OwnNamespacePath(r) => disk'[p] = disk[p]
          /\ OwnNamespacePath(r) \notin Written
          /\ phase = "namespaces"
          /\ UNCHANGED <<pc, pos>>
      BY <2>5 DEF WriteNamespace, NamespaceFault, jobVars, Unnamed,
                  LacksNamespace, TypeOK
    <3> QED
      BY <2>2, <2>3, <2>4, <3>1
  <2>6. ASSUME NEW p \in Path, RemoveStale(p) PROVE FileInv'
    <3>1. /\ \A q : q # p => disk'[q] = disk[q]
          /\ p \notin Written /\ phase = "cleanup"
          /\ UNCHANGED <<pc, pos>>
      BY <2>6 DEF RemoveStale, StaleFiles, jobVars, TypeOK
    <3> QED
      BY <2>2, <2>3, <2>4, <3>1
  <2>7. ASSUME NEW k \in Job, Open(k) PROVE FileInv'
    <3>1. /\ pos' = pos /\ pc' = [pc EXCEPT ![k] = "dump"]
          /\ pc[k] \notin {"dump", "raised"}
          /\ disk' = [disk EXCEPT ![Current(k)] = Torn]
      BY <2>7 DEF Open
    <3>2. /\ \A c \in Job : Current(c)' = Current(c)
          /\ pc'[k] = "dump"
          /\ \A c \in Job : pc[c] \in {"dump", "raised"} => pc'[c] = pc[c]
      BY <2>1, <3>1 DEF Current, TypeOK
    <3>3. ASSUME NEW j \in Job, NEW i \in 1..pos[j]
          PROVE  \/ \E e \in Doc : /\ PathOf(e) = plan[j].docs[i]
                                  /\ disk'[PathOf(e)] = e
                 \/ \E c \in Job : /\ pc'[c] \in {"dump", "raised"}
                                   /\ Current(c) = plan[j].docs[i]
      <4>1. CASE plan[j].docs[i] = Current(k)
        BY <3>2, <4>1
      <4>2. CASE plan[j].docs[i] # Current(k)
        <5>1. disk'[plan[j].docs[i]] = disk[plan[j].docs[i]]
          BY <2>2, <3>1, <4>2 DEF TypeOK
        <5> QED
          BY <3>2, <5>1 DEF FileInv
      <4> QED
        BY <4>1, <4>2
    <3> QED
      BY <2>1, <3>1, <3>2, <3>3 DEF FileInv
  <2>8. ASSUME NEW k \in Job, Dump(k) PROVE FileInv'
    <3> DEFINE d == <<k, pos[k] + 1>>
    <3>1. Current(k) \in Path /\ d \in Doc /\ PathOf(d) = Current(k)
      <4>1. MoreToWrite(k)
        BY <2>8 DEF Dump, TypeInv
      <4> QED
        BY <4>1, PlanTypes DEF MoreToWrite, Doc, PathOf, Current
    <3>2. /\ disk'[Current(k)] = d
          /\ \A p \in Path \ {Current(k)} : disk'[p] = disk[p]
          /\ pos' = [pos EXCEPT ![k] = @ + 1]
          /\ pc' = [pc EXCEPT ![k] = "render"]
      BY <2>8, <3>1 DEF Dump, TypeOK
    <3> HIDE DEF d
    <3>3. \A c \in Job \ {k} : pc'[c] = pc[c] /\ Current(c)' = Current(c)
      BY <2>1, <3>2 DEF Current, TypeOK
    <3>4. ASSUME NEW j \in Job, NEW i \in 1..pos'[j]
          PROVE  \/ \E e \in Doc : /\ PathOf(e) = plan[j].docs[i]
                                  /\ disk'[PathOf(e)] = e
                 \/ \E c \in Job : /\ pc'[c] \in {"dump", "raised"}
                                   /\ Current(c)' = plan[j].docs[i]
      <4>1. CASE plan[j].docs[i] = Current(k)
        BY <3>1, <3>2, <4>1
      <4>2. CASE plan[j].docs[i] # Current(k)
        <5>1. i \in 1..pos[j]
          BY <3>2, <4>2, PlanTypes DEF Current, TypeOK
        <5>2. disk'[plan[j].docs[i]] = disk[plan[j].docs[i]]
          BY <2>2, <3>2, <4>2, <5>1
        <5> QED
          BY <3>3, <4>2, <5>1, <5>2 DEF FileInv
      <4> QED
        BY <4>1, <4>2
    <3> QED
      BY <2>1, <3>4 DEF FileInv
  <2>9. CASE /\ UNCHANGED <<pos, disk>>
             /\ \A k \in Job : pc[k] \in {"dump", "raised"} =>
                               pc'[k] \in {"dump", "raised"}
    BY <2>4, <2>9
  <2>10. ASSUME NEW k \in Job,
                StartWorker(k) \/ Claim(k) \/ Clash(k) \/ Finish(k) \/ Raise(k)
         PROVE  FileInv'
    <3>1. /\ UNCHANGED <<pos, disk>>
          /\ \A c \in Job : pc[c] \in {"dump", "raised"} =>
                            pc'[c] \in {"dump", "raised"}
      BY <2>10 DEF StartWorker, Claim, Clash, Finish, Raise, TypeOK
    <3> QED
      BY <2>9, <3>1
  <2>11. CASE Submit \/ JobError
    <3>1. /\ UNCHANGED <<pos, disk>>
          /\ \A c \in Job : pc[c] \in {"dump", "raised"} =>
                            pc'[c] \in {"dump", "raised"}
      <4>1. ASSUME Submit, NEW c \in Job, pc[c] \in {"dump", "raised"}
            PROVE  pc'[c] = pc[c]
        <5>1. c # next /\ (Pooled(next) => c \notin Group(next))
          BY <4>1 DEF Submit, RunInv, GroupInv
        <5> QED
          BY <4>1, <5>1 DEF Submit, TypeOK
      <4>2. ASSUME JobError, NEW c \in Job, pc[c] \in {"dump", "raised"}
            PROVE  pc'[c] = pc[c]
        BY <4>2 DEF JobError
      <4> QED
        BY <2>11, <4>1, <4>2 DEF Submit, JobError
    <3> QED
      BY <2>9, <3>1
  <2> QED
    BY <2>5, <2>6, <2>7, <2>8, <2>9, <2>10, <2>11
       DEF Next, Main, Work, NothingToDo, Reject, Start, Record, Conflict, Drained,
           Intrude, NoIntrusion, NamespacesDone, CleanupFault, Return,
           OtherRunResets, Over, jobVars, vars
<1> QED
  BY <1>1, <1>2, RunInvInductive, LandInvInductive, PTL DEF Spec

\* Objects of different configs never replace each other in a run that returns,
\* even when other runs of the process reset the claims.
THEOREM ConfigsStayApart == Spec => []ConfigsKeptApart
<1>1. RunInv /\ LandInv /\ FileInv => ConfigsKeptApart
  <2> SUFFICES ASSUME RunInv, LandInv, FileInv, phase = "returned", NEW d \in Doc
               PROVE  /\ disk[PathOf(d)] \in Doc
                      /\ disk[PathOf(d)][1] = recorded[PathOf(d)]
                      /\ recorded[PathOf(d)] = d[1]
    BY DEF ConfigsKeptApart
  <2>1. \A j \in Job : j < next /\ pc[j] = "done"
    BY DEF RunInv, MainInv
  <2>2. ASSUME NEW e \in Doc
        PROVE  /\ e[1] \in Job /\ recorded[PathOf(e)] = e[1]
               /\ \E j \in Job : \E i \in 1..pos[j] : PathOf(e) = plan[j].docs[i]
    <3>1. PICK j \in Job, i \in Nat : i \in DOMAIN plan[j].docs /\ e = <<j, i>>
      BY PlanTypes DEF Doc, RunInv, TypeInv
    <3>2. i \in 1..pos[j]
      BY <2>1, <3>1, PlanTypes DEF RunInv, MainInv, TypeInv
    <3>3. PathOf(e) \in PathsOf(j) /\ PathOf(e) = plan[j].docs[i]
      BY <3>1 DEF PathOf, PathsOf
    <3> QED
      BY <2>1, <3>1, <3>2, <3>3 DEF LandInv
  <2>3. PICK e \in Doc : PathOf(e) = PathOf(d) /\ disk[PathOf(e)] = e
    BY <2>1, <2>2 DEF FileInv
  <2> QED
    BY <2>2, <2>3
<1> QED
  BY <1>1, RunInvInductive, LandInvInductive, FileInvInductive, PTL

\* A file that holds no object completely is one a job writes, or failed to.
LEMMA TornSteps ==
    ASSUME RunInv, TornWhereItFailed, [Next]_vars
    PROVE  TornWhereItFailed'
<1> TypeOK /\ TypeInv
  BY DEF RunInv, TypeInv
<1> DEFINE Writes(j, p) == /\ pc[j] \in {"dump", "raised"}
                           /\ MoreToWrite(j) /\ Current(j) = p
<1>1. plan' = plan /\ Job' = Job
  BY HeldSteps DEF Job
<1>2. CASE phase = "failed"
  <2>1. \A j \in Job : ~Work(j)
    BY <1>2, WorkSteps DEF RunInv, MainInv, PoolIdle
  <2>2. UNCHANGED vars
    BY <1>2, <2>1 DEF Next, Main, NothingToDo, Reject, Start, Submit, Record,
       Conflict, JobError, Drained, Intrude, NoIntrusion, WriteNamespace,
       NamespaceFault, NamespacesDone, RemoveStale, CleanupFault, Return,
       OtherRunResets, Over
  <2> QED
    BY <2>2 DEF TornWhereItFailed, Job, MoreToWrite, Current, Unnamed, Written, vars
\* Whoever had a file open still has, unless it dumps its object now.
<1>3. ASSUME phase # "failed",
             NEW p \in Path, disk[p] = Torn,
             \A j \in Job : pc[j] \in {"dump", "raised"} /\ Current(j) = p =>
                pc'[j] \in {"dump", "raised"} /\ pos'[j] = pos[j]
      PROVE  \E j \in Job : Writes(j, p)'
  <2>1. PICK j \in Job : Writes(j, p)
    BY <1>3 DEF TornWhereItFailed
  <2>2. Writes(j, p)'
    BY <1>1, <1>3, <2>1 DEF MoreToWrite, Current
  <2> QED
    BY <2>2
<1> HIDE DEF Writes
<1>4. ASSUME phase # "failed", NEW p \in Path, disk'[p] = Torn
      PROVE  \/ \E j \in Job : Writes(j, p)'
             \/ phase' = "failed" /\ \E r \in Unnamed' : p = OwnNamespacePath(r)
  <2> USE ContentAssumption
  <2>1. ASSUME NEW k \in Job, Open(k) PROVE \E j \in Job : Writes(j, p)'
    <3>1. /\ pos' = pos /\ pc' = [pc EXCEPT ![k] = "dump"]
          /\ pc[k] \notin {"dump", "raised"}
          /\ disk' = [disk EXCEPT ![Current(k)] = Torn]
          /\ MoreToWrite(k)
      BY <2>1 DEF Open, TypeInv
    <3>2. CASE p = Current(k)
      <4>1. Writes(k, p)'
        BY <1>1, <3>1, <3>2 DEF Writes, MoreToWrite, Current, TypeOK
      <4> QED
        BY <4>1
    <3>3. CASE p # Current(k)
      <4>1. disk[p] = Torn
        BY <1>4, <3>1, <3>3 DEF TypeOK
      <4>2. \A j \in Job : pc[j] \in {"dump", "raised"} => pc'[j] = pc[j]
        BY <3>1 DEF TypeOK
      <4> QED
        BY <1>3, <1>4, <3>1, <4>1, <4>2
    <3> QED
      BY <3>2, <3>3
  <2>2. ASSUME NEW k \in Job, Dump(k) PROVE \E j \in Job : Writes(j, p)'
    <3>1. /\ pos' = [pos EXCEPT ![k] = @ + 1] /\ pc' = [pc EXCEPT ![k] = "render"]
          /\ disk' = [disk EXCEPT ![Current(k)] = <<k, pos[k] + 1>>]
      BY <2>2 DEF Dump
    <3>2. <<k, pos[k] + 1>> \in Nat \X Nat
      BY PlanTypes
    <3>3. p # Current(k) /\ disk[p] = Torn
      BY <1>4, <3>1, <3>2 DEF TypeOK
    <3>4. \A j \in Job : Current(j) = p => pc'[j] = pc[j] /\ pos'[j] = pos[j]
      BY <3>1, <3>3 DEF TypeOK
    <3> QED
      BY <1>3, <1>4, <3>3, <3>4
  <2>3. ASSUME NEW r \in Root, NamespaceFault(r)
        PROVE  \/ \E j \in Job : Writes(j, p)'
               \/ phase' = "failed" /\ \E q \in Unnamed' : p = OwnNamespacePath(q)
    <3>1. /\ r \in Unnamed /\ Unnamed' = Unnamed /\ phase' = "failed"
          /\ disk' = [disk EXCEPT ![OwnNamespacePath(r)] = Torn]
          /\ UNCHANGED <<pc, pos>>
      BY <2>3 DEF NamespaceFault, Unnamed, Written, jobVars
    <3>2. CASE p = OwnNamespacePath(r)
      BY <3>1, <3>2
    <3>3. CASE p # OwnNamespacePath(r)
      <4>1. disk[p] = Torn
        BY <1>4, <3>1, <3>3 DEF TypeOK
      <4> QED
        BY <1>3, <1>4, <3>1, <4>1
    <3> QED
      BY <3>2, <3>3
  <2>4. ASSUME NEW r \in Root, WriteNamespace(r) PROVE \E j \in Job : Writes(j, p)'
    <3>1. disk[p] = Torn /\ UNCHANGED <<pc, pos>>
      BY <1>4, <2>4 DEF WriteNamespace, jobVars, TypeOK
    <3> QED
      BY <1>3, <1>4, <3>1
  <2>5. ASSUME NEW q \in Path, RemoveStale(q) PROVE \E j \in Job : Writes(j, p)'
    <3>1. disk[p] = Torn /\ UNCHANGED <<pc, pos>>
      BY <1>4, <2>5 DEF RemoveStale, jobVars, TypeOK
    <3> QED
      BY <1>3, <1>4, <3>1
  <2>6. ASSUME NEW k \in Job,
               StartWorker(k) \/ Claim(k) \/ Clash(k) \/ Finish(k) \/ Raise(k)
        PROVE  \E j \in Job : Writes(j, p)'
    <3>1. /\ UNCHANGED <<pos, disk>>
          /\ \A j \in Job : pc[j] \in {"dump", "raised"} =>
                            pc'[j] \in {"dump", "raised"}
      BY <2>6 DEF StartWorker, Claim, Clash, Finish, Raise, TypeOK
    <3> QED
      BY <1>3, <1>4, <3>1
  <2>7. CASE Submit \/ JobError
    <3>1. ASSUME Submit, NEW c \in Job, pc[c] \in {"dump", "raised"}
          PROVE  pc'[c] = pc[c]
      <4>1. c # next /\ (Pooled(next) => c \notin Group(next))
        BY <3>1 DEF Submit, RunInv, GroupInv
      <4> QED
        BY <3>1, <4>1 DEF Submit, TypeOK
    <3>2. ASSUME JobError, NEW c \in Job, pc[c] \in {"dump", "raised"}
          PROVE  pc'[c] = pc[c]
      BY <3>2 DEF JobError
    <3>3. UNCHANGED <<pos, disk>>
      BY <2>7 DEF Submit, JobError
    <3>4. \A c \in Job : pc[c] \in {"dump", "raised"} => pc'[c] = pc[c]
      BY <2>7, <3>1, <3>2
    <3> QED
      BY <1>3, <1>4, <3>3, <3>4
  <2>8. CASE UNCHANGED <<pc, pos, disk>>
    BY <1>3, <1>4, <2>8
  <2> QED
    BY <2>1, <2>2, <2>3, <2>4, <2>5, <2>6, <2>7, <2>8
       DEF Next, Main, Work, NothingToDo, Reject, Start, Record, Conflict, Drained,
           Intrude, NoIntrusion, NamespacesDone, CleanupFault, Return,
           OtherRunResets, Over, jobVars, vars
<1> QED
  BY <1>1, <1>2, <1>4 DEF TornWhereItFailed, Writes

\* A file is left torn only where a job, or the writing of a Namespace object,
\* failed, however many jobs and threads the run has.
THEOREM TornFilesAlwaysBlamed == Spec => []TornWhereItFailed
<1>1. Init => TornWhereItFailed
  BY ContentAssumption DEF Init, TornWhereItFailed
<1>2. RunInv /\ TornWhereItFailed /\ [Next]_vars => TornWhereItFailed'
  BY TornSteps
<1> QED
  BY <1>1, <1>2, RunInvInductive, PTL DEF Spec
-----------------------------------------------------------------------------
(* Refinement. *)

\* How far the main thread is with recording, and what it has checked.
OrderInv ==
    /\ phase = "validate" => next = 1
    /\ phase = "namespaces" =>
          /\ next = Len(plan) + 1
          /\ \A r \in {RootOf(p) : p \in Written} : r \notin Owned
    /\ phase = "cleanup" => next = Len(plan) + 2

\* The steps that leave the state of the sequential run alone.
Silent == phase' \notin {"returned", "failed"} /\ UNCHANGED <<plan, next, recorded>>

\* Both see the same files of the same output.
LEMMA SameLayout ==
    /\ Sequential!Path = Path
    /\ Sequential!Written = Written
    /\ \A r : Sequential!OwnNamespacePath(r) = OwnNamespacePath(r)
    /\ {Sequential!RootOf(p) : p \in Sequential!Written} = {RootOf(p) : p \in Written}
    /\ Sequential!LacksNamespace(Sequential!Written, Owned, Managed) = Unnamed
    /\ \A S, source : Sequential!RecordedWith(S, source) = RecordedWith(S, source)
    /\ \A j : Sequential!PathsOf(j) = PathsOf(j)
<1>1. Sequential!Path = Path
  BY DEF Path, Sequential!Path
<1>2. Sequential!Written = Written
  BY <1>1 DEF Written, Sequential!Written, NoSource, Sequential!NoSource
<1>3. \A p : Sequential!RootOf(p) = RootOf(p)
  BY DEF RootOf, Sequential!RootOf
<1>4. \A r : /\ Sequential!OwnNamespacePath(r) = OwnNamespacePath(r)
             /\ Sequential!ClusterNamespacePath(r) = ClusterNamespacePath(r)
             /\ Sequential!AutoNamespaced(r, Owned, Managed) =
                AutoNamespaced(r, Owned, Managed)
  BY DEF OwnNamespacePath, Sequential!OwnNamespacePath, ClusterNamespacePath,
         Sequential!ClusterNamespacePath, AutoNamespaced, Sequential!AutoNamespaced
<1>5. Sequential!LacksNamespace(Sequential!Written, Owned, Managed) = Unnamed
  BY <1>2, <1>3, <1>4 DEF LacksNamespace, Sequential!LacksNamespace, Unnamed
<1>6. \A S, source : Sequential!RecordedWith(S, source) = RecordedWith(S, source)
  BY <1>1 DEF RecordedWith, Sequential!RecordedWith
<1>7. \A j : Sequential!PathsOf(j) = PathsOf(j)
  BY DEF PathsOf, Sequential!PathsOf
<1> QED BY <1>1, <1>2, <1>3, <1>4, <1>5, <1>6, <1>7

\* What the main thread's steps are to the sequential run.
LEMMA MainSteps ==
    ASSUME TypeInv, OrderInv, Main
    PROVE  \/ Silent /\ phase \notin {"returned", "failed"}
           \/ Sequential!Next
<1> USE DEF Silent, mainVars, jobVars, Sequential!Next
<1>1. CASE Start \/ Submit \/ Conflict \/ JobError \/ NoIntrusion
           \/ (\E r \in Root : WriteNamespace(r)) \/ (\E p \in Path : RemoveStale(p))
  BY <1>1 DEF Start, Submit, Conflict, JobError, NoIntrusion, WriteNamespace, RemoveStale
<1>2. CASE Reject \/ Drained \/ Intrude \/ CleanupFault \/ (\E r \in Root : NamespaceFault(r))
  <2>1. Sequential!Fail
    BY <1>2 DEF Reject, Drained, Intrude, CleanupFault, NamespaceFault, Sequential!Fail
  <2> QED BY <2>1
<1>3. CASE NothingToDo \/ Return
  <2>1. Sequential!Return
    BY <1>3 DEF NothingToDo, Return, OrderInv, Sequential!Return
  <2> QED BY <2>1
<1>4. CASE Record
  <2>1. Sequential!RecordNext
    BY <1>4, SameLayout DEF Record, Job, Sequential!RecordNext
  <2> QED BY <2>1
<1>5. CASE NamespacesDone
  <2>1. /\ phase = "namespaces" /\ phase' = "cleanup"
        /\ next = Len(plan) + 1 /\ next' = next + 1 /\ plan' = plan
        /\ \A r \in {RootOf(p) : p \in Written} : r \notin Owned
    BY <1>5 DEF NamespacesDone, OrderInv
  <2>2. recorded' = Sequential!RecordedWith(
            {Sequential!OwnNamespacePath(r) :
                r \in Sequential!LacksNamespace(Sequential!Written, Owned, Managed)},
            Sequential!NamespaceSource)
    <3>1. recorded' = RecordedWith({OwnNamespacePath(r) : r \in Unnamed}, NamespaceSource)
      BY <1>5 DEF NamespacesDone
    <3>2. NamespaceSource = Sequential!NamespaceSource
      BY DEF NamespaceSource, Sequential!NamespaceSource
    <3>3. {OwnNamespacePath(r) : r \in Unnamed} =
          {Sequential!OwnNamespacePath(r) :
                r \in Sequential!LacksNamespace(Sequential!Written, Owned, Managed)}
      BY SameLayout
    <3> QED BY <3>1, <3>2, <3>3, SameLayout
  <2>3. Sequential!AddNamespaces
    BY <2>1, <2>2, SameLayout DEF Sequential!AddNamespaces
  <2> QED BY <2>3
<1> QED BY <1>1, <1>2, <1>3, <1>4, <1>5 DEF Main

\* Threads, and other runs, are not seen.
LEMMA OtherSteps ==
    ASSUME TypeInv, [Next]_vars, ~Main
    PROVE  UNCHANGED <<plan, phase, next, recorded>>
<1>1. ASSUME NEW j \in Job, Work(j) PROVE UNCHANGED <<plan, phase, next, recorded>>
  BY <1>1, WorkSteps
<1>2. CASE OtherRunResets \/ Over \/ UNCHANGED vars
  BY <1>2 DEF OtherRunResets, Over, vars, mainVars
<1> QED BY <1>1, <1>2 DEF Next

LEMMA OrderInvInductive == Spec => []OrderInv
<1>1. Init => OrderInv
  BY DEF Init, OrderInv
<1>2. TypeInv /\ OrderInv /\ [Next]_vars => OrderInv'
  <2> SUFFICES ASSUME TypeInv, OrderInv, [Next]_vars PROVE OrderInv'
    OBVIOUS
  <2> USE DEF OrderInv
  <2>1. CASE ~Main
    BY <2>1, OtherSteps DEF Written
  <2>2. CASE NoIntrusion
    BY <2>2 DEF NoIntrusion, Intrusions, Written
  <2>3. CASE NamespacesDone
    BY <2>3 DEF NamespacesDone
  <2>4. CASE Start \/ Submit \/ Record \/ Conflict \/ JobError
    BY <2>4 DEF Start, Submit, Record, Conflict, JobError, mainVars
  <2>5. CASE \/ NothingToDo \/ Reject \/ Drained \/ Intrude \/ CleanupFault \/ Return
             \/ \E r \in Root : NamespaceFault(r)
    BY <2>5 DEF NothingToDo, Reject, Drained, Intrude, CleanupFault, Return, NamespaceFault
  <2>6. CASE (\E r \in Root : WriteNamespace(r)) \/ (\E p \in Path : RemoveStale(p))
    BY <2>6 DEF WriteNamespace, RemoveStale, mainVars, Written
  <2> QED BY <2>1, <2>2, <2>3, <2>4, <2>5, <2>6 DEF Main
<1> QED BY <1>1, <1>2, TypesInductive, PTL DEF Spec

\* Whatever the schedule of the threads, the run is one that records its configs
\* one after another.
THEOREM AlwaysSequential == Spec => RefinesSequential
<1>1. Init => Sequential!Init
  BY SameLayout DEF Init, Sequential!Init, NoSource, Sequential!NoSource
<1>2. TypeInv /\ OrderInv /\ [Next]_vars => [Sequential!Next]_(Sequential!vars)
  <2> SUFFICES ASSUME TypeInv, OrderInv, [Next]_vars
               PROVE  Sequential!Next \/ UNCHANGED Sequential!vars
    OBVIOUS
  <2>1. CASE Main
    BY <2>1, MainSteps DEF Silent, Sequential!vars
  <2>2. CASE ~Main
    BY <2>2, OtherSteps DEF Sequential!vars
  <2> QED BY <2>1, <2>2
<1> QED BY <1>1, <1>2, TypesInductive, OrderInvInductive, PTL
        DEF Spec, RefinesSequential, Sequential!Spec
-----------------------------------------------------------------------------
(* Blocks that render alone. *)

\* Whatever runs or waits for a thread is what the main thread waits for: its
\* next job, or the group of that job if it is pooled.
TurnInv ==
    \A k \in Job : pc[k] \in Active \cup {"queued"} =>
        /\ next \in Job
        /\ k = next \/ (Pooled(next) /\ k \in Group(next))

\* The next job of a group whose later jobs still run belongs to the group.
LEMMA GroupGoesOn ==
    ASSUME TypeOK, next \in Job, NEW k \in Group(next), k > next
    PROVE  /\ next + 1 \in Job /\ k \in Group(next + 1)
           /\ Pooled(next + 1) <=> Pooled(next)
<1>1. Job = 1..Len(plan) /\ Len(plan) \in Nat
  BY PlanTypes
<1>2. k \in Job /\ \A m \in Job : (m \in next..k \/ m \in k..next) =>
                                     plan[m].block = plan[next].block
  BY DEF Group
<1>3. next + 1 \in Group(next)
  BY <1>1, <1>2 DEF Group
<1> QED BY <1>3, SameGroup

LEMMA TurnInvInductive == Spec => []TurnInv
<1>1. Init => TurnInv
  BY DEF Init, TurnInv, Active
<1>2. RunInv /\ TurnInv /\ [Next]_vars => TurnInv'
  <2> SUFFICES ASSUME RunInv, TurnInv, [Next]_vars PROVE TurnInv'
    OBVIOUS
  <2> TypeOK /\ TypeInv
    BY DEF RunInv, TypeInv
  <2>1. plan' = plan /\ Job' = Job /\ \A j \in Job : Group(j)' = Group(j)
        /\ (Pooled(j)' <=> Pooled(j))
    BY HeldSteps DEF Job, Group, Pooled
  <2>2. CASE Submit
    <3>1. \A k \in Job : pc[k] \notin Active \cup {"queued"}
      <4> SUFFICES ASSUME NEW k \in Job, pc[k] \in Active \cup {"queued"} PROVE FALSE
        OBVIOUS
      <4>1. pc[next] = "idle" /\ next \in Job
        BY <2>2 DEF Submit
      <4>2. Pooled(next) /\ k \in Group(next)
        BY <4>1 DEF TurnInv, Active
      <4> QED BY <4>1, <4>2 DEF RunInv, GroupInv, Active
    <3>2. next' = next /\ next \in Job
      BY <2>2 DEF Submit, mainVars
    <3>3. \A k \in Job : pc'[k] \in Active \cup {"queued"} =>
             k = next \/ (Pooled(next) /\ k \in Group(next))
      BY <2>2, <3>1 DEF Submit, TypeOK
    <3> QED BY <2>1, <3>2, <3>3 DEF TurnInv
  <2>3. CASE Record
    <3>1. next \in Job /\ pc[next] = "done" /\ next' = next + 1 /\ pc' = pc
      BY <2>3 DEF Record, jobVars
    <3>2. ASSUME NEW k \in Job, pc[k] \in Active \cup {"queued"}
          PROVE  next + 1 \in Job /\ Pooled(next + 1) /\ k \in Group(next + 1)
      <4>1. k # next /\ Pooled(next) /\ k \in Group(next)
        BY <3>1, <3>2 DEF TurnInv, Active
      <4>2. ~(k < next)
        BY <3>2 DEF RunInv, MainInv, Active
      <4>3. k > next
        BY <3>1, <4>1, <4>2, PlanTypes
      <4> QED BY <3>1, <4>1, <4>3, GroupGoesOn
    <3> QED BY <2>1, <3>1, <3>2 DEF TurnInv
  <2>4. CASE JobError
    BY <2>1, <2>4 DEF JobError, TurnInv, Active
  <2>5. CASE NamespacesDone
    <3>1. \A k \in Job : pc[k] \notin Active \cup {"queued"}
      BY <2>5 DEF NamespacesDone, RunInv, MainInv, PoolIdle
    <3> QED BY <2>1, <2>5, <3>1 DEF NamespacesDone, TurnInv, jobVars
  <2>6. CASE \/ NothingToDo \/ Reject \/ Start \/ Conflict \/ Drained \/ Intrude
             \/ NoIntrusion \/ CleanupFault \/ Return
             \/ (\E r \in Root : WriteNamespace(r) \/ NamespaceFault(r))
             \/ (\E p \in Path : RemoveStale(p))
             \/ OtherRunResets \/ Over \/ UNCHANGED vars
    <3>1. UNCHANGED <<next, pc>>
      BY <2>6 DEF NothingToDo, Reject, Start, Conflict, Drained, Intrude, NoIntrusion,
         CleanupFault, Return, WriteNamespace, NamespaceFault, RemoveStale,
         OtherRunResets, Over, mainVars, jobVars, vars
    <3> QED BY <2>1, <3>1 DEF TurnInv
  <2>7. ASSUME NEW j \in Job, Work(j) PROVE TurnInv'
    <3>1. /\ next' = next /\ pc[j] \in Active \cup {"queued"}
          /\ \A k \in Job \ {j} : pc'[k] = pc[k]
      BY <2>7, WorkSteps DEF TypeOK
    <3> QED BY <2>1, <3>1 DEF TurnInv
  <2> QED BY <2>2, <2>3, <2>4, <2>5, <2>6, <2>7 DEF Next, Main
<1> QED BY <1>1, <1>2, RunInvInductive, PTL DEF Spec

\* While a job of a block that did not opt in to parallel rendering runs, no other
\* job runs or waits for a thread.
THEOREM OthersWaitTheirTurn == Spec => []SequentialBlocksAlone
<1>1. RunInv /\ TurnInv => SequentialBlocksAlone
  <2> SUFFICES ASSUME RunInv, TurnInv, NEW j \in Job, NEW k \in Job, j # k,
                      pc[j] \in Active, plan[j].block \notin ParallelSafe,
                      pc[k] \in Active \cup {"queued"}
               PROVE  FALSE
    BY DEF SequentialBlocksAlone
  <2>1. ~Pooled(j)
    BY DEF Pooled
  <2>2. CASE j = next
    BY <2>1, <2>2 DEF TurnInv
  <2>3. CASE j # next
    <3>1. next \in Job /\ Pooled(next) /\ j \in Group(next)
      BY <2>3 DEF TurnInv
    <3> QED BY <2>1, <3>1, SameGroup DEF RunInv, TypeInv
  <2> QED BY <2>2, <2>3
<1> QED BY <1>1, RunInvInductive, TurnInvInductive, PTL
-----------------------------------------------------------------------------
(* Clashes. *)

\* The objects of job j whose paths it may have claimed.
Tried(j) ==
    {i \in DOMAIN plan[j].docs :
        \/ i <= pos[j]
        \/ i = pos[j] + 1 /\ pc[j] \in {"open", "dump", "raised"}}

\* While jobs run, what is claimed was claimed by them.
ClashInv ==
    /\ phase \in {"generate", "drain"} =>
          \A c \in claims : \E j \in Job : \E i \in Tried(j) : plan[j].docs[i] = c
    /\ ClashesAreReal

\* A job never takes back what it has tried, nor that it was refused a path.
LEMMA TriedSteps ==
    ASSUME RunInv, [Next]_vars, NEW j \in Job
    PROVE  /\ Tried(j) \subseteq Tried(j)'
           /\ Claim(j) => pos[j] + 1 \in Tried(j)'
           /\ ~Clash(j) /\ pc'[j] = "clashed" => pc[j] = "clashed" /\ pos'[j] = pos[j]
<1> USE DEF RunInv, TypeInv
<1> plan' = plan
  BY HeldSteps
<1>1. pos[j] \in Nat /\ DOMAIN plan[j].docs \subseteq Nat
  BY PlanTypes
<1>2. CASE Submit
  <2>1. pc'[j] = pc[j] \/ (pc[j] = "idle" /\ pc'[j] \in {"queued", "render"})
    <3>1. pc[next] = "idle" /\ next \in Job
      BY <1>2 DEF Submit
    <3>2. Pooled(next) => \A k \in Group(next) : pc[k] = "idle"
      BY <3>1 DEF GroupInv
    <3> QED BY <1>2, <3>1, <3>2 DEF Submit, TypeOK
  <2> QED BY <1>2, <2>1 DEF Submit, Tried, Claim
<1>3. CASE JobError
  <2>1. pc'[j] = pc[j] \/ (pc[j] = "queued" /\ pc'[j] = "cancelled")
    BY <1>3 DEF JobError
  <2> QED BY <1>3, <2>1 DEF JobError, Tried, Claim
<1>4. CASE (Main /\ ~Submit /\ ~JobError) \/ OtherRunResets \/ Over \/ UNCHANGED vars
  <2>1. UNCHANGED <<pos, pc>>
    BY <1>4 DEF Main, NothingToDo, Reject, Start, Record, Conflict, Drained, Intrude,
       NoIntrusion, WriteNamespace, NamespaceFault, NamespacesDone, RemoveStale,
       CleanupFault, Return, OtherRunResets, Over, mainVars, jobVars, vars
  <2> QED BY <2>1 DEF Tried, Claim, TypeOK
<1>5. ASSUME NEW k \in Job, Work(k), k # j
      PROVE  pc'[j] = pc[j] /\ pos'[j] = pos[j] /\ ~Claim(j)
  BY <1>5, WorkSteps DEF Claim, TypeOK
<1>6. CASE Work(j)
  <2>1. CASE Dump(j)
    <3>1. pc[j] = "dump" /\ pc'[j] = "render" /\ pos'[j] = pos[j] + 1
      BY <2>1 DEF Dump, TypeOK
    <3> QED BY <1>1, <3>1 DEF Tried, Claim
  <2>2. CASE Claim(j)
    <3>1. pc'[j] = "open" /\ pos' = pos /\ pos[j] + 1 \in DOMAIN plan[j].docs
      BY <2>2, PlanTypes DEF Claim, TypeOK, MoreToWrite
    <3> QED BY <2>2, <3>1 DEF Tried, Claim
  <2>3. CASE StartWorker(j) \/ Clash(j) \/ Open(j) \/ Finish(j) \/ Raise(j)
    <3>1. /\ pos' = pos /\ ~Claim(j)
          /\ pc[j] \in {"open", "dump", "raised"} =>
                pc'[j] \in {"open", "dump", "raised"}
          /\ pc'[j] = "clashed" => Clash(j)
      BY <2>3 DEF StartWorker, Clash, Open, Finish, Raise, Claim, TypeOK, Active
    <3> QED BY <3>1 DEF Tried
  <2> QED BY <1>6, <2>1, <2>2, <2>3 DEF Work
<1> QED BY <1>2, <1>3, <1>4, <1>5, <1>6 DEF Next, Tried

LEMMA ClashInvInductive == Spec => []ClashInv
<1>1. Init => ClashInv
  BY DEF Init, ClashInv, ClashesAreReal
<1>2. RunInv /\ ClashInv /\ [Next]_vars => ClashInv'
  <2> SUFFICES ASSUME RunInv, ClashInv, [Next]_vars PROVE ClashInv'
    OBVIOUS
  <2> TypeOK /\ TypeInv
    BY DEF RunInv, TypeInv
  <2>1. plan' = plan /\ Job' = Job /\ Doc' = Doc /\ (\A d : PathOf(d)' = PathOf(d))
    BY HeldSteps DEF Job, Doc, PathOf
  <2>2. ASSUME phase' \in {"generate", "drain"}, NEW c \in claims'
        PROVE  \E j \in Job : \E i \in Tried(j)' : plan[j].docs[i] = c
    <3>1. CASE \E j \in Job : Claim(j)
      <4>1. PICK j \in Job : Claim(j)
        BY <3>1
      <4>2. c \in claims \/ c = plan[j].docs[pos[j] + 1]
        BY <2>2, <4>1 DEF Claim, Current
      <4>3. phase \in {"generate", "drain"}
        BY <2>2, <4>1 DEF Claim, mainVars
      <4> QED BY <4>1, <4>2, <4>3, TriedSteps DEF ClashInv
    <3>2. CASE ~(\E j \in Job : Claim(j))
      <4>1. claims' = {} \/ (claims' = claims /\ phase \in {"generate", "drain"})
        BY <2>2, <3>2 DEF Next, Main, Work, NothingToDo, Reject, Start, Submit, Record,
           Conflict, JobError, Drained, Intrude, NoIntrusion, WriteNamespace,
           NamespaceFault, NamespacesDone, RemoveStale, CleanupFault, Return,
           OtherRunResets, Over, StartWorker, Clash, Open, Dump, Finish, Raise,
           mainVars, vars
      <4> QED BY <2>2, <4>1, TriedSteps DEF ClashInv
    <3> QED BY <3>1, <3>2
  <2>3. ASSUME NEW j \in Job, pc'[j] = "clashed"
        PROVE  \E d \in Doc : d # <<j, pos'[j] + 1>> /\ PathOf(d) = Current(j)'
    <3>1. CASE Clash(j)
      <4>1. /\ pc[j] = "render" /\ Current(j) \in claims /\ pos' = pos
        BY <3>1 DEF Clash
      <4>2. phase \in {"generate", "drain"}
        BY <4>1 DEF RunInv, MainInv, PoolIdle, Active, TypeOK, Phases
      <4>3. PICK k \in Job : \E i \in Tried(k) : plan[k].docs[i] = Current(j)
        BY <4>1, <4>2 DEF ClashInv
      <4>4. PICK i \in Tried(k) : plan[k].docs[i] = Current(j)
        BY <4>3
      <4>5. k = j => i <= pos[j]
        BY <4>1, <4>4 DEF Tried
      <4>6. <<k, i>> # <<j, pos[j] + 1>>
        BY <4>5, PlanTypes
      <4>7. <<k, i>> \in Doc /\ PathOf(<<k, i>>) = Current(j)
        BY <4>4 DEF Doc, PathOf, Tried
      <4>8. Current(j)' = Current(j)
        BY <2>1, <4>1 DEF Current
      <4> QED BY <4>1, <4>6, <4>7, <4>8
    <3>2. CASE ~Clash(j)
      <4>1. pc[j] = "clashed" /\ pos'[j] = pos[j]
        BY <2>3, <3>2, TriedSteps
      <4>2. Current(j)' = Current(j)
        BY <2>1, <4>1 DEF Current
      <4> QED BY <4>1, <4>2 DEF ClashInv, ClashesAreReal
    <3> QED BY <3>1, <3>2
  <2>4. ClashesAreReal'
    BY <2>1, <2>3 DEF ClashesAreReal
  <2> QED BY <2>1, <2>2, <2>4 DEF ClashInv
<1> QED BY <1>1, <1>2, RunInvInductive, PTL DEF Spec

\* A job is refused a path only because another object of this very run has it,
\* whatever earlier runs of the process claimed.
THEOREM ClashesAlwaysReal == Spec => []ClashesAreReal
BY ClashInvInductive, PTL DEF ClashInv
-----------------------------------------------------------------------------
(* Namespace objects. *)

\* What has been written is on disk, and so is what is recorded; once the
\* Namespace objects are recorded no root lacks its own.
FilesInv ==
    /\ \A j \in Job : \A i \in 1..pos[j] : disk[plan[j].docs[i]] # Absent
    /\ \A p \in Written : disk[p] # Absent
    /\ phase = "validate" => Written = {}
    /\ phase \in {"cleanup", "returned"} => Unnamed = {}

\* A file disappears only in the cleanup, and only if it is not recorded and lies
\* in a root the run may clean.
LEMMA DiskSteps ==
    ASSUME RunInv, [Next]_vars, NEW p \in Path, disk[p] # Absent, disk'[p] = Absent
    PROVE  phase = "cleanup" /\ p \notin Written /\ Cleanable(p, Owned, Managed)
<1> TypeOK
  BY DEF RunInv, TypeInv
<1> USE ContentAssumption
<1>1. CASE \E q \in Path : RemoveStale(q)
  BY <1>1 DEF RemoveStale, StaleFiles, TypeOK
<1>2. ASSUME NEW r \in Root, WriteNamespace(r) \/ NamespaceFault(r) PROVE FALSE
  BY <1>2 DEF WriteNamespace, NamespaceFault, TypeOK
<1>3. ASSUME NEW j \in Job, Open(j) \/ Dump(j) PROVE FALSE
  <2>1. <<j, pos[j] + 1>> \in Nat \X Nat
    BY PlanTypes
  <2> QED BY <1>3, <2>1 DEF Open, Dump, TypeOK
<1>4. disk' = disk \/ (\E q \in Path : RemoveStale(q))
      \/ (\E r \in Root : WriteNamespace(r) \/ NamespaceFault(r))
      \/ (\E j \in Job : Open(j) \/ Dump(j))
  BY DEF Next, Main, Work, NothingToDo, Reject, Start, Submit, Record,
     Conflict, JobError, Drained, Intrude, NoIntrusion, NamespacesDone, CleanupFault,
     Return, OtherRunResets, Over, StartWorker, Claim, Clash, Finish, Raise, vars
<1> QED BY <1>1, <1>2, <1>3, <1>4

\* Recording the Namespace objects leaves no root without.
LEMMA AllNamed ==
    ASSUME TypeOK, NamespacesDone
    PROVE  /\ Written' = Written \cup {OwnNamespacePath(r) : r \in Unnamed}
           /\ Unnamed' = {}
<1> DEFINE added == {OwnNamespacePath(r) : r \in Unnamed}
<1>1. NamespaceSource # NoSource
  BY PlanTypes DEF NamespaceSource, NoSource
<1>2. added \subseteq Path
  BY OwnPathTypes
<1>3. Written' = Written \cup added
  BY <1>1, <1>2 DEF NamespacesDone, RecordedWith, Written, NoSource
<1>4. ASSUME NEW r \in Unnamed' PROVE FALSE
  <2>1. /\ r \in Root
        /\ \E p \in Written' : RootOf(p) = r
        /\ AutoNamespaced(r, Owned, Managed)
        /\ OwnNamespacePath(r) \notin Written'
        /\ ClusterNamespacePath(r) \notin Written'
    BY <1>4 DEF Unnamed, LacksNamespace
  <2>2. r \notin Unnamed
    BY <1>3, <2>1
  <2>3. \A s \in Unnamed : RootOf(OwnNamespacePath(s)) = s
    BY DEF RootOf, OwnNamespacePath
  <2>4. \E p \in Written : RootOf(p) = r
    BY <1>3, <2>1, <2>2, <2>3
  <2> QED BY <1>3, <2>1, <2>2, <2>4 DEF Unnamed, LacksNamespace
<1> QED BY <1>3, <1>4

LEMMA FilesInvInductive == Spec => []FilesInv
<1>1. Init /\ RunInv => FilesInv
  <2> SUFFICES ASSUME Init, RunInv PROVE FilesInv
    OBVIOUS
  <2>1. Written = {} /\ phase = "validate"
    BY DEF Init, Written
  <2>2. \A j \in Job : pos[j] = 0
    BY DEF Init
  <2> QED BY <2>1, <2>2 DEF FilesInv
<1>2. RunInv /\ LandInv /\ FilesInv /\ [Next]_vars => FilesInv'
  <2> SUFFICES ASSUME RunInv, LandInv, FilesInv, [Next]_vars PROVE FilesInv'
    OBVIOUS
  <2> TypeOK /\ TypeInv
    BY DEF RunInv, TypeInv
  <2> USE DEF FilesInv
  <2>1. plan' = plan /\ Job' = Job
    BY HeldSteps DEF Job
  <2>2. \A j \in Job : /\ pos[j] \in 0..Len(plan[j].docs) /\ Len(plan[j].docs) \in Nat
                       /\ DOMAIN plan[j].docs = 1..Len(plan[j].docs)
                       /\ PathsOf(j) \subseteq Path
                       /\ \A i \in DOMAIN plan[j].docs : plan[j].docs[i] \in PathsOf(j)
    BY PlanTypes DEF TypeOK, PathsOf
  <2>3. \A j \in Job : \A i \in 1..pos[j] : plan[j].docs[i] \in PathsOf(j) \cap Path
    BY <2>2
  <2>4. \A j \in Job : \A i \in 1..pos[j] : disk'[plan[j].docs[i]] # Absent
    <3> SUFFICES ASSUME NEW j \in Job, NEW i \in 1..pos[j],
                        disk'[plan[j].docs[i]] = Absent
                 PROVE  FALSE
      OBVIOUS
    <3>1. phase = "cleanup" /\ plan[j].docs[i] \notin Written
      BY <2>3, DiskSteps
    <3>2. j < next /\ j # NoSource
      BY <3>1, PlanTypes DEF RunInv, MainInv, NoSource
    <3> QED BY <2>3, <3>1, <3>2 DEF LandInv, Written
  <2>5. \A p \in Written : disk'[p] # Absent
    BY DiskSteps DEF Written
  <2>6. \A j \in Job : \A i \in 1..pos'[j] : disk'[plan[j].docs[i]] # Absent
    <3> SUFFICES ASSUME NEW j \in Job, NEW i \in 1..pos'[j]
                 PROVE  disk'[plan[j].docs[i]] # Absent
      OBVIOUS
    <3>1. CASE Dump(j)
      <4>1. /\ pos'[j] = pos[j] + 1
            /\ disk' = [disk EXCEPT ![Current(j)] = <<j, pos[j] + 1>>]
            /\ Current(j) = plan[j].docs[pos[j] + 1] /\ Current(j) \in Path
        BY <3>1, PlanTypes DEF Dump, TypeOK, TypeInv, Current
      <4>2. disk'[Current(j)] # Absent
        <5>1. <<j, pos[j] + 1>> \in Nat \X Nat
          BY PlanTypes
        <5> QED BY <4>1, <5>1, ContentAssumption DEF TypeOK
      <4>3. i \in 1..pos[j] \/ i = pos[j] + 1
        BY <2>2, <4>1
      <4> QED BY <2>4, <4>1, <4>2, <4>3
    <3>2. CASE ~Dump(j)
      <4>1. pos'[j] = pos[j]
        <5>1. ASSUME NEW k \in Job, Work(k) PROVE pos'[j] = pos[j]
          <6>1. CASE k # j
            BY <5>1, <6>1, WorkSteps
          <6>2. CASE k = j
            BY <3>2, <5>1, <6>2 DEF Work, StartWorker, Claim, Clash, Open, Finish, Raise
          <6> QED BY <6>1, <6>2
        <5>2. CASE Main \/ OtherRunResets \/ Over \/ UNCHANGED vars
          BY <5>2 DEF Main, NothingToDo, Reject, Start, Submit, Record, Conflict,
             JobError, Drained, Intrude, NoIntrusion, WriteNamespace, NamespaceFault,
             NamespacesDone, RemoveStale, CleanupFault, Return, OtherRunResets, Over,
             mainVars, jobVars, vars
        <5> QED BY <5>1, <5>2 DEF Next
      <4> QED BY <2>4, <4>1
    <3> QED BY <3>1, <3>2
  <2>7. CASE Record
    <3>1. /\ next \in Job /\ pc[next] = "done" /\ disk' = disk /\ phase' = "generate"
          /\ recorded' = RecordedWith(PathsOf(next), next)
      BY <2>7 DEF Record
    <3>2. pos[next] = Len(plan[next].docs)
      BY <3>1 DEF RunInv, MainInv
    <3>3. \A p \in PathsOf(next) : disk[p] # Absent
      BY <2>2, <3>1, <3>2 DEF PathsOf
    <3>4. Written' \subseteq Written \cup PathsOf(next)
      BY <3>1 DEF RecordedWith, Written, NoSource
    <3> QED BY <2>1, <2>6, <3>1, <3>3, <3>4
  <2>8. CASE NamespacesDone
    <3>1. /\ disk' = disk /\ phase' = "cleanup"
          /\ \A r \in Unnamed : disk[OwnNamespacePath(r)] = NamespaceDoc
      BY <2>8 DEF NamespacesDone
    <3>2. Written' = Written \cup {OwnNamespacePath(r) : r \in Unnamed} /\ Unnamed' = {}
      BY <2>8, AllNamed
    <3> QED BY <2>1, <2>6, <3>1, <3>2, ContentAssumption
  <2>9. CASE ~Record /\ ~NamespacesDone
    <3>1. recorded' = recorded
      <4>1. ASSUME NEW k \in Job, Work(k) PROVE recorded' = recorded
        BY <4>1, WorkSteps
      <4>2. CASE Main \/ OtherRunResets \/ Over \/ UNCHANGED vars
        BY <2>9, <4>2 DEF Main, NothingToDo, Reject, Start, Submit, Conflict,
           JobError, Drained, Intrude, NoIntrusion, WriteNamespace, NamespaceFault,
           RemoveStale, CleanupFault, Return, OtherRunResets, Over, mainVars, vars
      <4> QED BY <4>1, <4>2 DEF Next
    <3>2. Written' = Written /\ Unnamed' = Unnamed
      BY <3>1 DEF Written, Unnamed
    <3>3. /\ phase' = "validate" => phase = "validate"
          /\ phase' \in {"cleanup", "returned"} =>
                phase \in {"cleanup", "returned"} \/ (phase = "validate" /\ NothingToDo)
      <4>1. ASSUME NEW k \in Job, Work(k) PROVE phase' = phase
        BY <4>1, WorkSteps
      <4>2. CASE Main \/ OtherRunResets \/ Over \/ UNCHANGED vars
        BY <2>9, <4>2 DEF Main, NothingToDo, Reject, Start, Submit, Conflict,
           JobError, Drained, Intrude, NoIntrusion, WriteNamespace, NamespaceFault,
           RemoveStale, CleanupFault, Return, OtherRunResets, Over, mainVars, vars
      <4> QED BY <4>1, <4>2 DEF Next
    <3>4. Written = {} => Unnamed = {}
      BY DEF Unnamed, LacksNamespace
    <3> QED BY <2>1, <2>5, <2>6, <3>2, <3>3, <3>4
  <2> QED BY <2>7, <2>8, <2>9
<1> QED BY <1>1, <1>2, RunInvInductive, LandInvInductive, PTL DEF Spec

\* Nothing the run has recorded when it starts to clean lies in a root of another
\* service: neither what the jobs wrote, nor the Namespace objects added to it.
OwnedInv == phase = "cleanup" => Intrusions = {}

LEMMA OwnedInvInductive == Spec => []OwnedInv
<1>1. Init => OwnedInv
  BY DEF Init, OwnedInv
<1>2. TypeInv /\ OrderInv /\ OwnedInv /\ [Next]_vars => OwnedInv'
  <2> SUFFICES ASSUME TypeInv, OrderInv, OwnedInv, [Next]_vars, phase' = "cleanup",
                      NEW p \in Written'
               PROVE  RootOf(p) \notin Owned
    BY DEF OwnedInv, Intrusions, Written
  <2>1. CASE NamespacesDone
    <3>1. Written' = Written \cup {OwnNamespacePath(r) : r \in Unnamed}
      BY <2>1, AllNamed DEF TypeInv
    <3>2. \A q \in Written : RootOf(q) \notin Owned
      BY <2>1 DEF NamespacesDone, OrderInv
    <3>3. \A r \in Unnamed : RootOf(OwnNamespacePath(r)) \notin Owned
      BY DEF Unnamed, LacksNamespace, AutoNamespaced, RootOf, OwnNamespacePath
    <3> QED
      BY <3>1, <3>2, <3>3
  <2>2. CASE ~NamespacesDone
    <3>1. phase = "cleanup" /\ recorded' = recorded
      <4>1. CASE Main
        BY <2>2, <4>1 DEF Main, NothingToDo, Reject, Start, Submit, Record, Conflict,
           JobError, Drained, Intrude, NoIntrusion, WriteNamespace, NamespaceFault,
           RemoveStale, CleanupFault, Return, mainVars
      <4>2. CASE ~Main
        BY <4>2, OtherSteps
      <4> QED
        BY <4>1, <4>2
    <3> QED
      BY <3>1 DEF OwnedInv, Intrusions, Written
  <2> QED
    BY <2>1, <2>2
<1> QED
  BY <1>1, <1>2, TypesInductive, OrderInvInductive, PTL DEF Spec

\* A file disappears only in the cleanup, once every config is rendered and
\* recorded without a conflict and nothing lies in a root of another service; it is
\* one that no config produced, in a root the run manages and no other owns.
THEOREM OnlyStaleFilesDisappear == Spec => StaleRemovalIsLast
<1> DEFINE LateRemoval ==
        \A p \in Path : (disk[p] # Absent /\ disk'[p] = Absent) =>
           /\ phase = "cleanup" /\ next > Len(plan)
           /\ Accepted
           /\ p \notin Written
           /\ RootOf(p) \in Managed \ Owned
<1>1. RunInv /\ LandInv /\ OrderInv /\ OwnedInv /\ [Next]_vars => LateRemoval
  <2> SUFFICES ASSUME RunInv, LandInv, OrderInv, OwnedInv, [Next]_vars, NEW p \in Path,
                      disk[p] # Absent, disk'[p] = Absent
               PROVE  /\ phase = "cleanup" /\ next > Len(plan)
                      /\ Accepted
                      /\ p \notin Written
                      /\ RootOf(p) \in Managed \ Owned
    OBVIOUS
  <2>1. phase = "cleanup" /\ p \notin Written /\ Cleanable(p, Owned, Managed)
    BY DiskSteps
  <2>2. next > Len(plan)
    BY <2>1, PlanTypes DEF OrderInv, RunInv, TypeInv
  <2>3. \A j \in Job : j < next /\ pc[j] = "done"
    BY <2>1 DEF RunInv, MainInv
  <2>4. Accepted
    BY <2>1, <2>3 DEF Accepted, LandInv, OwnedInv
  <2> QED
    BY <2>1, <2>2, <2>4 DEF Cleanable
<1> QED
  BY <1>1, RunInvInductive, LandInvInductive, OrderInvInductive, OwnedInvInductive, PTL
     DEF StaleRemovalIsLast, Spec

\* When a run returns, every root it wrote to and may manage has its Namespace
\* object among the recorded files, and on disk.
THEOREM NamespacesAlwaysExist == Spec => []NamespacesExist
<1>1. RunInv /\ FilesInv => NamespacesExist
  <2> SUFFICES ASSUME RunInv, FilesInv, phase = "returned", NEW p \in Written,
                      AutoNamespaced(RootOf(p), Owned, Managed)
               PROVE  \E q \in {OwnNamespacePath(RootOf(p)), ClusterNamespacePath(RootOf(p))} :
                          q \in Written /\ disk[q] # Absent
    BY DEF NamespacesExist
  <2>1. RootOf(p) \in Root /\ Unnamed = {}
    BY DEF FilesInv, Written, Path, RootOf
  <2>2. OwnNamespacePath(RootOf(p)) \in Written \/ ClusterNamespacePath(RootOf(p)) \in Written
    BY <2>1 DEF Unnamed, LacksNamespace
  <2> QED BY <2>2 DEF FilesInv
<1> QED BY <1>1, RunInvInductive, FilesInvInductive, PTL
-----------------------------------------------------------------------------
(* Getting on. *)

\* The main thread has a step to take: no result it waits for is still to come.
MainReady ==
    \/ phase \in {"validate", "namespaces", "cleanup"}
    \/ phase = "generate" /\ (next \in Job => pc[next] \in {"idle", "done"} \cup Failed)
    \/ phase = "drain" /\ PoolIdle

\* Job j is being rendered, or it is first in the queue and a thread is free.
ThreadReady(j) ==
    \/ pc[j] \in Active
    \/ /\ pc[j] = "queued"
       /\ \A k \in Job : pc[k] = "queued" => j <= k
       /\ Cardinality({k \in Job : pc[k] \in Active}) < WorkerCount(j)

\* Until the run is over, the main thread or a job can go on: a thread is never
\* short for the queue, and no result the main thread waits for was cancelled.
NeverStuck ==
    phase \notin {"returned", "failed"} => MainReady \/ \E j \in Job : ThreadReady(j)

\* Jobs are cancelled only when the run has failed.
CancelInv == \A j \in Job : pc[j] = "cancelled" => phase \in {"drain", "failed"}

LEMMA CancelInvInductive == Spec => []CancelInv
<1>1. Init => CancelInv
  BY DEF Init, CancelInv
<1>2. RunInv /\ CancelInv /\ [Next]_vars => CancelInv'
  <2> SUFFICES ASSUME RunInv, CancelInv, [Next]_vars PROVE CancelInv'
    OBVIOUS
  <2> TypeOK /\ TypeInv
    BY DEF RunInv, TypeInv
  <2>1. plan' = plan /\ Job' = Job
    BY HeldSteps DEF Job
  <2>2. CASE JobError
    BY <2>1, <2>2 DEF JobError, CancelInv
  <2>3. CASE Submit
    <3>1. \A j \in Job : pc'[j] = "cancelled" => pc[j] = "cancelled"
      BY <2>3 DEF Submit, TypeOK
    <3> QED BY <2>1, <2>3, <3>1 DEF Submit, mainVars, CancelInv
  <2>4. ASSUME NEW j \in Job, Work(j) PROVE CancelInv'
    <3>1. phase' = phase
      BY <2>4, WorkSteps
    <3>2. \A k \in Job : pc'[k] = "cancelled" => pc[k] = "cancelled"
      BY <2>4, WorkSteps DEF TypeOK, Active, Failed
    <3> QED BY <2>1, <3>1, <3>2 DEF CancelInv
  <2>5. CASE (Main /\ ~Submit /\ ~JobError) \/ OtherRunResets \/ Over \/ UNCHANGED vars
    <3>1. pc' = pc /\ (phase \in {"drain", "failed"} => phase' \in {"drain", "failed"})
      BY <2>5 DEF Main, NothingToDo, Reject, Start, Record, Conflict, Drained, Intrude,
         NoIntrusion, WriteNamespace, NamespaceFault, NamespacesDone, RemoveStale,
         CleanupFault, Return, OtherRunResets, Over, mainVars, jobVars, vars
    <3> QED BY <2>1, <3>1 DEF CancelInv
  <2> QED BY <2>2, <2>3, <2>4, <2>5 DEF Next
<1> QED BY <1>1, <1>2, RunInvInductive, PTL DEF Spec

\* A pool that is not idle has a thread with something to do.
LEMMA PoolGoesOn ==
    ASSUME TypeOK, ~PoolIdle
    PROVE  \E j \in Job : ThreadReady(j)
<1>1. Job = 1..Len(plan) /\ Len(plan) \in Nat
  BY PlanTypes
<1>2. CASE \E j \in Job : pc[j] \in Active
  BY <1>2 DEF ThreadReady
<1>3. CASE ~ \E j \in Job : pc[j] \in Active
  <2> DEFINE queue == {j \in Job : pc[j] = "queued"}
  <2>1. queue # {} /\ queue \subseteq Nat
    BY <1>1, <1>3 DEF PoolIdle
  <2>2. PICK j \in queue : \A k \in queue : j <= k
    <3> HIDE DEF queue
    <3> QED BY <2>1, FirstExists
  <2>3. Cardinality({k \in Job : pc[k] \in Active}) = 0
    <3>1. {k \in Job : pc[k] \in Active} = {}
      BY <1>3
    <3> QED BY <3>1, FS_EmptySet
  <2>4. WorkerCount(j) \in Nat \ {0}
    <3>1. j \in Group(j)
      BY <1>1 DEF Group
    <3>2. IsFiniteSet(Group(j))
      <4>1. IsFiniteSet(1..Len(plan))
        BY <1>1, FS_Interval
      <4>2. Group(j) \subseteq 1..Len(plan)
        BY <1>1 DEF Group
      <4> QED BY <4>1, <4>2, FS_Subset
    <3>3. Cardinality(Group(j)) \in Nat /\ Cardinality(Group(j)) # 0
      BY <3>1, <3>2, FS_CardinalityType, FS_EmptySet
    <3> QED BY <3>3, GenerateAssumption DEF WorkerCount
  <2>5. Cardinality({k \in Job : pc[k] \in Active}) < WorkerCount(j)
    BY <2>3, <2>4
  <2> QED BY <2>2, <2>5 DEF ThreadReady
<1> QED BY <1>2, <1>3

\* A run that is not over is never stuck, for any plan and number of threads:
\* what Terminates needs besides fairness and that jobs have finitely many objects.
\* (No config waits on another, and no result is waited for that cannot come.)
THEOREM AlwaysGoesOn == Spec => []NeverStuck
<1>1. RunInv /\ CancelInv => NeverStuck
  <2> SUFFICES ASSUME RunInv, CancelInv, phase \notin {"returned", "failed"}, ~MainReady
               PROVE  \E j \in Job : ThreadReady(j)
    BY DEF NeverStuck
  <2> TypeOK
    BY DEF RunInv, TypeInv
  <2>1. CASE phase = "drain"
    BY <2>1, PoolGoesOn DEF MainReady
  <2>2. CASE phase # "drain"
    <3>1. phase = "generate" /\ next \in Job /\ pc[next] \notin {"idle", "done"} \cup Failed
      BY <2>2 DEF MainReady, TypeOK, Phases
    <3>2. pc[next] \in Active \cup {"queued"}
      BY <3>1 DEF CancelInv, TypeOK, Ended
    <3> QED BY <3>1, <3>2, PoolGoesOn DEF PoolIdle
  <2> QED BY <2>1, <2>2
<1> QED BY <1>1, RunInvInductive, CancelInvInductive, PTL
=============================================================================
