------------------------- MODULE ChangeReportProofs -------------------------
(***************************************************************************)
(* Reports and commits for any number of roots, files, contents and runs,  *)
(* whatever is staged, ignored or in conflict in between.                  *)
(***************************************************************************)
EXTENDS ChangeReport, TLAPS

\* A file holds what may be written to it, and so does what was committed of it.
WrittenInv ==
    \A p \in Path : /\ disk[p] \in Maybe(Writable[p])
                    /\ head[p] \in Maybe(Writable[p])
                    /\ index[p] \in Maybe(Writable[p]) \cup {Conflicted}

\* What is below the roots of the run and not ignored.
Seen == [p \in Path |-> IF p \in FilesOnDisk(ReportScope) THEN disk[p] ELSE Absent]

\* The report, once made, is what became of HEAD below the roots ...
ReportInv ==
    step \in {"read", "stage", "commit"} =>
        reported = Sorted(head, Seen, ChangesUnder(head, Seen, ReportScope))

\* ... the objects of the result come from it ...
ResultInv ==
    step \in {"stage", "commit"} => result.removed = ObjectsIn(head, reported.deleted)

\* ... and what is staged is what is on disk.
StagedInv ==
    step = "commit" =>
        \A p \in StageScope : p \notin ignored => index[p] = disk[p]

RunInv == TypeOK /\ WrittenInv /\ ReportInv /\ ResultInv /\ StagedInv

USE ReportAssumption
-----------------------------------------------------------------------------
(* Reports. *)

\* A report says nothing of what is outside its scope.
LEMMA ReportsAgree ==
    ASSUME NEW old, NEW t, NEW u, NEW S \in SUBSET Path, \A p \in S : t[p] = u[p]
    PROVE  Sorted(old, t, ChangesUnder(old, t, S)) = Sorted(old, u, ChangesUnder(old, u, S))
<1> DEFINE C == ChangesUnder(old, t, S)
<1>1. C = ChangesUnder(old, u, S) /\ C \subseteq S
  BY DEF ChangesUnder
<1> HIDE DEF C
<1> DEFINE M == {p \in C : p \in Yaml /\ p[1] # Outside}
<1>2. M \subseteq S
  BY <1>1
<1> HIDE DEF M
<1>3. /\ {p \in M : t[p] = Absent} = {p \in M : u[p] = Absent}
      /\ {p \in M : old[p] # Absent /\ t[p] # Absent} =
         {p \in M : old[p] # Absent /\ u[p] # Absent}
  BY <1>2
<1>4. Sorted(old, t, C) = Sorted(old, u, C)
  BY <1>3 DEF Sorted, M
<1> QED BY <1>1, <1>4 DEF C

LEMMA ScopeIsPaths == TypeOK => ReportScope \in SUBSET Path /\ StageScope \in SUBSET Path
BY DEF ReportScope, StageScope

LEMMA SortedTypes ==
    ASSUME NEW old, NEW t, NEW C \in SUBSET Path
    PROVE  Sorted(old, t, C) \in [added : SUBSET Path, modified : SUBSET Path,
                                  deleted : SUBSET Path]
BY DEF Sorted

LEMMA RefsOfFiles ==
    ASSUME TypeOK, WrittenInv, NEW S \in SUBSET Path
    PROVE  /\ (\A p \in S : disk[p] # Absent) => ObjectsIn(disk, S) \in SUBSET Ref
           /\ (\A p \in S : head[p] # Absent) => ObjectsIn(head, S) \in SUBSET Ref
<1>1. \A p \in S : /\ disk[p] # Absent => Refs[disk[p]] \in SUBSET Ref
                   /\ head[p] # Absent => Refs[head[p]] \in SUBSET Ref
  BY DEF TypeOK, Tree, Maybe
<1> QED BY <1>1 DEF ObjectsIn

\* What a report lists is there, or was in HEAD.
LEMMA ReportedFiles ==
    ASSUME TypeOK, ReportInv, step \in {"read", "stage", "commit"}
    PROVE  /\ reported.added \cup reported.modified \in SUBSET Path
           /\ \A p \in reported.added \cup reported.modified : disk[p] # Absent
           /\ reported.deleted \in SUBSET Path
           /\ \A p \in reported.deleted :
                 /\ p \in ReportScope /\ p \in Yaml /\ p[1] # Outside
                 /\ head[p] # Absent /\ Seen[p] = Absent
<1> DEFINE C == ChangesUnder(head, Seen, ReportScope)
<1>1. /\ C \subseteq ReportScope /\ C \subseteq Path
      /\ \A p \in C : head[p] # Seen[p]
  BY ScopeIsPaths DEF ChangesUnder
<1>2. reported = Sorted(head, Seen, C)
  BY DEF ReportInv
<1>3. \A p \in Path : Seen[p] # Absent => disk[p] = Seen[p]
  BY DEF Seen
<1> HIDE DEF C
<1>4. /\ reported.added = {p \in C : p \in Yaml /\ p[1] # Outside /\ head[p] = Absent}
      /\ reported.deleted = {p \in C : p \in Yaml /\ p[1] # Outside /\ Seen[p] = Absent}
      /\ reported.modified = {p \in C : /\ p \in Yaml /\ p[1] # Outside
                                        /\ head[p] # Absent /\ Seen[p] # Absent}
  BY <1>2 DEF Sorted
<1> QED BY <1>1, <1>3, <1>4
-----------------------------------------------------------------------------
(* The invariant. *)

LEMMA SameScopes ==
    ASSUME UNCHANGED <<disk, ignored, roots>>
    PROVE  ReportScope' = ReportScope /\ StageScope' = StageScope /\ Seen' = Seen
BY DEF ReportScope, StageScope, Seen, FilesOnDisk

LEMMA RunInit == Init => RunInv
<1> SUFFICES ASSUME Init PROVE RunInv
  OBVIOUS
<1>1. TypeOK
  BY DEF Init, TypeOK, Tree, Maybe, Steps, NoChanges, NoResult
<1>2. WrittenInv
  BY DEF Init, WrittenInv, Maybe
<1>3. ReportInv /\ ResultInv /\ StagedInv
  BY DEF Init, ReportInv, ResultInv, StagedInv
<1> QED BY <1>1, <1>2, <1>3 DEF RunInv

\* Between runs the checkout changes and nothing is reported.
LEMMA IdleSteps ==
    ASSUME RunInv, NEW p \in Path, Edit(p) \/ Add(p) \/ MergeConflict(p) \/ Ignore(p)
    PROVE  RunInv'
<1> USE DEF RunInv
<1>1. step = "idle" /\ step' = "idle" /\ roots' = roots /\ reported' = reported /\ result' = result
  BY DEF Edit, Add, MergeConflict, Ignore
<1>2. ReportInv' /\ ResultInv' /\ StagedInv'
  BY <1>1 DEF ReportInv, ResultInv, StagedInv
<1>3. WrittenInv'
  <2>1. CASE Edit(p)
    BY <2>1 DEF Edit, WrittenInv, TypeOK, Tree, Maybe
  <2>2. CASE Add(p)
    BY <2>2 DEF Add, WrittenInv, TypeOK, Maybe
  <2>3. CASE MergeConflict(p)
    BY <2>3 DEF MergeConflict, WrittenInv, TypeOK
  <2>4. CASE Ignore(p)
    BY <2>4 DEF Ignore, WrittenInv
  <2> QED BY <2>1, <2>2, <2>3, <2>4
<1>4. TypeOK'
  <2>1. CASE Edit(p)
    BY <2>1 DEF Edit, TypeOK, Tree, Maybe
  <2>2. CASE Add(p)
    BY <2>2 DEF Add, TypeOK, Tree, Maybe
  <2>3. CASE MergeConflict(p)
    BY <2>3 DEF MergeConflict, TypeOK
  <2>4. CASE Ignore(p)
    BY <2>4 DEF Ignore, TypeOK
  <2> QED BY <2>1, <2>2, <2>3, <2>4
<1> QED BY <1>2, <1>3, <1>4

\* Inspecting the output makes the report.
LEMMA InspectStep == RunInv /\ Inspect => RunInv'
<1> SUFFICES ASSUME RunInv, Inspect PROVE RunInv'
  OBVIOUS
<1> USE DEF RunInv, Inspect
<1>1. ReportScope \in SUBSET Path
  BY ScopeIsPaths
<1>2. \A p \in ReportScope : ScratchTree[p] = Seen[p]
  BY <1>1 DEF ScratchTree, Seen
<1>3. reported' = Sorted(head, Seen, ChangesUnder(head, Seen, ReportScope))
  BY <1>1, <1>2, ReportsAgree
<1>4. Seen' = Seen /\ ReportScope' = ReportScope /\ head' = head
  BY SameScopes
<1>5. ReportInv'
  BY <1>3, <1>4 DEF ReportInv, Sorted, ChangesUnder
<1>6. ChangesUnder(head, Seen, ReportScope) \in SUBSET Path
  BY <1>1 DEF ChangesUnder
<1>7. reported' \in [added : SUBSET Path, modified : SUBSET Path, deleted : SUBSET Path]
  BY <1>3, <1>6, SortedTypes
<1>8. TypeOK'
  BY <1>7 DEF TypeOK, Steps
<1>9. WrittenInv' /\ ResultInv' /\ StagedInv'
  BY DEF WrittenInv, ResultInv, StagedInv
<1> QED BY <1>5, <1>8, <1>9

\* Its objects are read from what is there and from HEAD.
LEMMA ReadStep == RunInv /\ ReadObjects => RunInv'
<1> SUFFICES ASSUME RunInv, ReadObjects PROVE RunInv'
  OBVIOUS
<1> USE DEF RunInv, ReadObjects
<1>1. /\ reported.added \cup reported.modified \in SUBSET Path
      /\ \A p \in reported.added \cup reported.modified : disk[p] # Absent
      /\ reported.deleted \in SUBSET Path
      /\ \A p \in reported.deleted : head[p] # Absent
  BY ReportedFiles
<1>2. result' \in [changed : SUBSET Ref, removed : SUBSET Ref]
  <2>1. /\ ObjectsIn(disk, reported.added \cup reported.modified) \in SUBSET Ref
        /\ ObjectsIn(head, reported.deleted) \in SUBSET Ref
    BY <1>1, RefsOfFiles
  <2> QED BY <2>1
<1>3. TypeOK'
  BY <1>2 DEF TypeOK, Steps
<1>4. ResultInv'
  BY DEF ResultInv, ObjectsIn
<1>5. Seen' = Seen /\ ReportScope' = ReportScope
  BY SameScopes
<1>6. ReportInv'
  BY <1>5 DEF ReportInv, Sorted, ChangesUnder
<1>7. WrittenInv' /\ StagedInv'
  BY DEF WrittenInv, StagedInv
<1> QED BY <1>3, <1>4, <1>6, <1>7

\* What is below the roots is staged as it is on disk, unless it is ignored.
LEMMA StageStep == RunInv /\ Stage => RunInv'
<1> SUFFICES ASSUME RunInv, Stage PROVE RunInv'
  OBVIOUS
<1> USE DEF RunInv, Stage
<1>1. \A p \in Path : index'[p] = disk[p] \/ index'[p] = index[p]
  OBVIOUS
<1>2. TypeOK'
  BY DEF TypeOK, Steps, Tree, Maybe
<1>3. WrittenInv'
  BY <1>1 DEF WrittenInv
<1>4. Seen' = Seen /\ ReportScope' = ReportScope /\ StageScope' = StageScope
  BY SameScopes
<1>5. ReportInv'
  BY <1>4 DEF ReportInv, Sorted, ChangesUnder
<1>6. ResultInv'
  BY DEF ResultInv, ObjectsIn
<1>7. StagedInv'
  <2> SUFFICES ASSUME NEW p \in StageScope, p \notin ignored PROVE index'[p] = disk[p]
    BY <1>4 DEF StagedInv
  <2>1. p \in Path
    BY ScopeIsPaths
  <2>2. CASE p \in ToStage
    BY <2>1, <2>2
  <2>3. CASE p \notin ToStage
    <3>1. index[p] = Absent /\ disk[p] = Absent
      BY <2>1, <2>3 DEF ToStage, FilesOnDisk
    <3> QED BY <2>1, <2>3, <3>1
  <2> QED BY <2>2, <2>3
<1> QED BY <1>2, <1>3, <1>5, <1>6, <1>7

\* A run that ends leaves nothing of itself; a commit holds what was staged.
LEMMA EndSteps ==
    ASSUME RunInv, NoCommit \/ NothingToCommit \/ Commit \/ CommitRefused
    PROVE  RunInv'
<1> USE DEF RunInv
<1>1. End /\ disk' = disk /\ index' = index /\ ignored' = ignored
  BY DEF NoCommit, NothingToCommit, Commit, CommitRefused
<1>2. ReportInv' /\ ResultInv' /\ StagedInv'
  BY <1>1 DEF End, ReportInv, ResultInv, StagedInv
<1>3. head' = head \/ (head' = index /\ \A p \in Path : index[p] # Conflicted)
  BY DEF NoCommit, NothingToCommit, Commit, CommitRefused, Unmerged
<1>4. WrittenInv'
  BY <1>1, <1>3 DEF WrittenInv
<1>5. head' \in Tree
  BY <1>3 DEF TypeOK, Tree, Maybe
<1>6. TypeOK'
  BY <1>1, <1>5 DEF End, TypeOK, Steps, NoChanges, NoResult
<1> QED BY <1>2, <1>4, <1>6

LEMMA RunNext == RunInv /\ [Next]_vars => RunInv'
<1> SUFFICES ASSUME RunInv, [Next]_vars PROVE RunInv'
  OBVIOUS
<1>1. ASSUME NEW p \in Path, Edit(p) \/ Add(p) \/ MergeConflict(p) \/ Ignore(p)
      PROVE  RunInv'
  BY <1>1, IdleSteps
<1>2. ASSUME NEW commitRoots \in SUBSET Root, Report(commitRoots)
      PROVE  RunInv'
  BY <1>2 DEF Report, RunInv, TypeOK, Steps, WrittenInv, ReportInv, ResultInv, StagedInv
<1>3. CASE Inspect
  BY <1>3, InspectStep
<1>4. CASE ReadObjects
  BY <1>4, ReadStep
<1>5. CASE Stage
  BY <1>5, StageStep
<1>6. CASE NoCommit \/ NothingToCommit \/ Commit \/ CommitRefused
  BY <1>6, EndSteps
<1>7. CASE UNCHANGED vars
  <2>1. Seen' = Seen /\ ReportScope' = ReportScope /\ StageScope' = StageScope
    BY <1>7, SameScopes DEF vars
  <2> QED BY <1>7, <2>1 DEF vars, RunInv, TypeOK, WrittenInv, ReportInv, ResultInv,
                            StagedInv, Sorted, ChangesUnder, ObjectsIn
<1> QED BY <1>1, <1>2, <1>3, <1>4, <1>5, <1>6, <1>7 DEF Next

LEMMA RunInvariant == Spec => []RunInv
BY RunInit, RunNext, PTL DEF Spec
-----------------------------------------------------------------------------
(* What the report promises. *)

\* Types: a report lists files of the checkout and a result objects, and HEAD
\* never holds an unresolved entry of the index.
THEOREM ReportTypes == Spec => []TypeOK
BY RunInvariant, PTL DEF RunInv

\* What the run commits below its roots is what it saw there.
LEMMA CommitsWhatItSaw ==
    ASSUME RunInv, Concludes, TrackedThoughIgnored = {}, NEW p \in ReportScope
    PROVE  head'[p] = Seen[p]
<1> USE DEF RunInv
<1>1. step = "commit" /\ roots # {}
  BY DEF Concludes, NothingToCommit, Commit
<1>2. p \in StageScope /\ p \in Path
  BY <1>1 DEF ReportScope, StageScope
<1>3. index[p] = Seen[p]
  <2>1. CASE p \in ignored
    <3>1. index[p] = Absent
      BY <2>1 DEF TrackedThoughIgnored
    <3> QED BY <1>2, <2>1, <3>1 DEF Seen, FilesOnDisk
  <2>2. CASE p \notin ignored
    <3>1. index[p] = disk[p]
      BY <1>1, <1>2, <2>2 DEF StagedInv
    <3> QED BY <1>2, <2>2, <3>1 DEF Seen, FilesOnDisk
  <2> QED BY <2>1, <2>2
<1>4. CASE Commit
  BY <1>3, <1>4 DEF Commit
<1>5. CASE NothingToCommit
  BY <1>2, <1>3, <1>5 DEF NothingToCommit, ChangesUnder
<1> QED BY <1>4, <1>5 DEF Concludes

\* What a run reports is what its commit changes below its roots, and it reports
\* nothing when there is nothing to commit: whatever roots it has, and whatever
\* else is staged, in conflict or changed outside them.
THEOREM ReportIsCommit == Spec => ReportedIsCommitted
<1>1. RunInv /\ [Next]_vars =>
        [Concludes /\ TrackedThoughIgnored = {} =>
            reported = Sorted(head, head', ChangesUnder(head, head', ReportScope))]_vars
  <2> SUFFICES ASSUME RunInv, Concludes, TrackedThoughIgnored = {}
               PROVE  reported = Sorted(head, head', ChangesUnder(head, head', ReportScope))
    OBVIOUS
  <2>1. reported = Sorted(head, Seen, ChangesUnder(head, Seen, ReportScope))
    BY DEF RunInv, ReportInv, Concludes, NothingToCommit, Commit
  <2>2. ReportScope \in SUBSET Path
    BY ScopeIsPaths DEF RunInv
  <2>3. \A p \in ReportScope : Seen[p] = head'[p]
    BY CommitsWhatItSaw
  <2> QED BY <2>1, <2>2, <2>3, ReportsAgree
<1> QED BY <1>1, RunInvariant, PTL DEF Spec, ReportedIsCommitted

\* Nothing that a run reports as removed is in a manifest it leaves below its
\* roots, and everything it reports as removed was in HEAD.
THEOREM RemovedIsGone == Spec => []RemovedObjectsAreGone
<1>1. RunInv => RemovedObjectsAreGone
  <2> SUFFICES ASSUME RunInv, step \in {"stage", "commit"}, TrackedThoughIgnored = {},
                      OneFileEach, NEW r \in result.removed
               PROVE  r \in Present(head) /\ r \notin Present(disk)
    BY DEF RemovedObjectsAreGone
  <2> USE DEF RunInv
  <2>1. PICK p \in reported.deleted : r \in Refs[head[p]]
    BY DEF ResultInv, ObjectsIn
  <2>2. /\ p \in Path /\ p \in ReportScope /\ p \in Yaml /\ p[1] # Outside
        /\ head[p] # Absent /\ Seen[p] = Absent
    BY ReportedFiles
  <2>3. r \in Present(head)
    BY <2>1, <2>2 DEF Present, ObjectsIn
  <2>4. ASSUME r \in Present(disk) PROVE FALSE
    <3>1. PICK q \in ReportScope \cap Yaml : disk[q] # Absent /\ r \in Refs[disk[q]]
      BY <2>4 DEF Present, ObjectsIn
    <3>2. q \in Path /\ q[1] # Outside
      BY <3>1 DEF ReportScope, TypeOK
    <3>3. disk[q] \in Writable[q] /\ head[p] \in Writable[p]
      BY <2>2, <3>1, <3>2 DEF WrittenInv, Maybe
    <3>4. p = q
      BY <2>1, <2>2, <3>1, <3>2, <3>3 DEF OneFileEach
    <3>5. p \in ignored
      BY <2>2, <3>1, <3>4 DEF Seen, FilesOnDisk
    <3> QED BY <2>2, <3>5 DEF TrackedThoughIgnored
  <2> QED BY <2>3, <2>4
<1> QED BY <1>1, RunInvariant, PTL
=============================================================================
