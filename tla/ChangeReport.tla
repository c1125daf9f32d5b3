---------------------------- MODULE ChangeReport ----------------------------
(***************************************************************************)
(* What generate() tells git about: the report that compares the roots of  *)
(* a run with HEAD without touching the index, and the commit that stages  *)
(* them and takes the index.  The output may be a subdirectory of the      *)
(* repository; files may be ignored, tracked though ignored, staged by     *)
(* somebody else, or in conflict.                                          *)
(***************************************************************************)
EXTENDS Naturals, FiniteSets

CONSTANTS
    Root,        \* the top-level directories of the output
    Outside,     \* the part of the repository that is not in the output
    OwnerRoot,   \* owners/, which is no root of manifests
    Path,        \* files: <<root, name>>
    Yaml,        \* those with the suffix .yaml
    OwnerFile,   \* the owner file of the builder
    Ref,         \* identities of objects
    Content,     \* contents of files
    Refs,        \* Refs[c]: the objects content c describes
    Writable,    \* Writable[p]: the contents file p may get
    Ignorable,   \* the files that .gitignore may name
    Mergeable,   \* the files that a merge may leave in conflict
    Absent,      \* no such file
    Conflicted   \* an index entry with unresolved stages

Maybe(S) == S \cup {Absent}
Tree == [Path -> Maybe(Content)]

ASSUME ReportAssumption ==
    /\ Path \subseteq (Root \cup {Outside, OwnerRoot}) \X STRING
    /\ Outside \notin Root /\ OwnerRoot \notin Root /\ Outside # OwnerRoot
    /\ OwnerFile \in Path \ Yaml /\ OwnerFile[1] = OwnerRoot
    /\ Yaml \subseteq Path /\ Ignorable \subseteq Path /\ Mergeable \subseteq Path
    /\ Refs \in [Content -> SUBSET Ref]
    /\ Writable \in [Path -> SUBSET Content]
    /\ Absent \notin Content /\ Conflicted \notin Content /\ Absent # Conflicted

VARIABLES
    disk,      \* the working tree
    index,     \* the index
    head,      \* the tree of HEAD, empty without one
    ignored,   \* the files .gitignore matches
    step,      \* where the run is
    roots,     \* commit_roots of the run
    reported,  \* the GitManifestChanges it has collected
    result     \* the objects in its GenerationResult

vars == <<disk, index, head, ignored, step, roots, reported, result>>

NoChanges == [added |-> {}, modified |-> {}, deleted |-> {}]
NoResult == [changed |-> {}, removed |-> {}]

Init ==
    /\ disk = [p \in Path |-> Absent]
    /\ index = disk
    /\ head = disk
    /\ ignored = {}
    /\ step = "idle"
    /\ roots = {}
    /\ reported = NoChanges
    /\ result = NoResult
-----------------------------------------------------------------------------
(* Between runs: generation and people change the checkout. *)

Edit(p) ==
    /\ step = "idle"
    /\ \E c \in Maybe(Writable[p]) :
          disk[p] # c /\ disk' = [disk EXCEPT ![p] = c]
    /\ UNCHANGED <<index, head, ignored, step, roots, reported, result>>

\* git add -f, git rm --cached
Add(p) ==
    /\ step = "idle"
    /\ index[p] # disk[p]
    /\ index' = [index EXCEPT ![p] = disk[p]]
    /\ UNCHANGED <<disk, head, ignored, step, roots, reported, result>>

\* A merge or a rebase stops at a file.
MergeConflict(p) ==
    /\ step = "idle"
    /\ p \in Mergeable
    /\ index[p] # Conflicted
    /\ index' = [index EXCEPT ![p] = Conflicted]
    /\ UNCHANGED <<disk, head, ignored, step, roots, reported, result>>

\* .gitignore is changed.
Ignore(p) ==
    /\ step = "idle"
    /\ p \in Ignorable
    /\ ignored' = IF p \in ignored THEN ignored \ {p} ELSE ignored \cup {p}
    /\ UNCHANGED <<disk, index, head, step, roots, reported, result>>
-----------------------------------------------------------------------------
(* Reporting. *)

\* The paths below the prefixes of the report (no roots stand for the output)
\* and below those of the commit.
ReportScope == {p \in Path : IF roots = {} THEN p[1] # Outside ELSE p[1] \in roots}
StageScope == {p \in Path : p[1] \in roots \/ p = OwnerFile}

\* _files_on_disk
FilesOnDisk(scope) == {p \in scope : disk[p] # Absent /\ p \notin ignored}

\* The tree the report compares with HEAD: the files below the prefixes, and
\* the index everywhere else.
ScratchTree ==
    [p \in Path |-> IF p \in ReportScope
                    THEN IF p \in FilesOnDisk(ReportScope) THEN disk[p] ELSE Absent
                    ELSE IF index[p] = Conflicted THEN Absent ELSE index[p]]

\* _changes_under: where two trees differ below the prefixes.
ChangesUnder(old, new, scope) == {p \in scope : old[p] # new[p]}

\* _add_status_path: what becomes of a change.
Sorted(old, new, changed) ==
    LET manifests == {p \in changed : p \in Yaml /\ p[1] # Outside}
    IN  [added |-> {p \in manifests : old[p] = Absent},
         deleted |-> {p \in manifests : new[p] = Absent},
         modified |-> {p \in manifests : old[p] # Absent /\ new[p] # Absent}]

\* _collect_generation_result begins with get_git_manifest_changes.
Report(commitRoots) ==
    /\ step = "idle"
    /\ roots' = commitRoots
    /\ step' = "report"
    /\ UNCHANGED <<disk, index, head, ignored, reported, result>>

Inspect ==
    /\ step = "report"
    /\ reported' = Sorted(head, ScratchTree,
                          ChangesUnder(head, ScratchTree, ReportScope))
    /\ step' = "read"
    /\ UNCHANGED <<disk, index, head, ignored, roots, result>>

ObjectsIn(tree, paths) == UNION {Refs[tree[p]] : p \in paths}

\* Mutant of ReadObjects: what a modified manifest held before counts as removed.
ReadObjects_ModifiedToo ==
    /\ step = "read"
    /\ result' = [changed |-> ObjectsIn(disk, reported.added \cup reported.modified),
                  removed |-> ObjectsIn(head, reported.deleted \cup reported.modified)]
    /\ step' = "stage"
    /\ UNCHANGED <<disk, index, head, ignored, roots, reported>>

\* _object_refs_from_paths and _object_refs_from_deleted_paths read what is
\* there from the files and what is gone from HEAD.
ReadObjects ==
    /\ step = "read"
    /\ result' = [changed |-> ObjectsIn(disk, reported.added \cup reported.modified),
                  removed |-> ObjectsIn(head, reported.deleted)]
    /\ step' = "stage"
    /\ UNCHANGED <<disk, index, head, ignored, roots, reported>>
-----------------------------------------------------------------------------
(* Committing. *)

\* The run ends: nothing of it is left but the checkout.
End ==
    /\ step' = "idle"
    /\ roots' = {} /\ reported' = NoChanges /\ result' = NoResult

NoCommit ==
    /\ step = "stage"
    /\ End
    /\ UNCHANGED <<disk, index, head, ignored>>

\* Mutant of ToStage: only files that are there are staged, not deletions.
ToStage_OnDisk == FilesOnDisk(StageScope)

\* What create_manifest_commit stages: what is tracked, and what is there.
ToStage == {p \in StageScope : index[p] # Absent} \cup FilesOnDisk(StageScope)

Stage ==
    /\ step = "stage"
    /\ index' = [p \in Path |-> IF p \in ToStage THEN disk[p] ELSE index[p]]
    /\ step' = "commit"
    /\ UNCHANGED <<disk, head, ignored, roots, reported, result>>

Unmerged == \E p \in Path : index[p] = Conflicted

NothingToCommit ==
    /\ step = "commit"
    /\ ~Unmerged
    /\ ChangesUnder(head, index, StageScope) = {}
    /\ End
    /\ UNCHANGED <<disk, index, head, ignored>>

Commit ==
    /\ step = "commit"
    /\ ~Unmerged
    /\ ChangesUnder(head, index, StageScope) # {}
    /\ head' = index
    /\ End
    /\ UNCHANGED <<disk, index, ignored>>

\* A conflict elsewhere in the checkout: no tree can be made of the index, and
\* what was staged stays.
CommitRefused ==
    /\ step = "commit"
    /\ Unmerged
    /\ End
    /\ UNCHANGED <<disk, index, head, ignored>>

Next ==
    \/ \E p \in Path : Edit(p) \/ Add(p) \/ MergeConflict(p) \/ Ignore(p)
    \/ \E commitRoots \in SUBSET Root : Report(commitRoots)
    \/ Inspect \/ ReadObjects
    \/ NoCommit \/ Stage \/ NothingToCommit \/ Commit \/ CommitRefused

Spec == Init /\ [][Next]_vars
-----------------------------------------------------------------------------
Steps == {"idle", "report", "read", "stage", "commit"}

TypeOK ==
    /\ disk \in Tree /\ head \in Tree
    /\ index \in [Path -> Maybe(Content) \cup {Conflicted}]
    /\ ignored \subseteq Ignorable
    /\ step \in Steps
    /\ roots \subseteq Root
    /\ reported \in [added : SUBSET Path, modified : SUBSET Path, deleted : SUBSET Path]
    /\ result \in [changed : SUBSET Ref, removed : SUBSET Ref]

\* Files HEAD has that .gitignore matches: git goes on tracking them.
TrackedThoughIgnored == {p \in ignored : head[p] # Absent \/ index[p] # Absent}

\* The step that ends a run with or without a commit being made, for a run with
\* roots of its own.
Concludes == (NothingToCommit \/ Commit) /\ roots # {}

\* What a run reports is what its commit changes: the manifests added, modified
\* and deleted below its roots, and nothing is reported when there is nothing
\* to commit; whatever else is staged, in conflict or outside the output. (As
\* long as no tracked file is ignored; the report is taken from the files and
\* the commit from the index.)
ReportedIsCommitted ==
    [][Concludes /\ TrackedThoughIgnored = {} =>
          reported = Sorted(head, head', ChangesUnder(head, head', ReportScope))]_vars

\* The objects in the manifests of the tree below the roots of the run.
Present(tree) == ObjectsIn(tree, {p \in ReportScope \cap Yaml : tree[p] # Absent})

\* Every object has one file it can be in.  (The name of a manifest is made of
\* what identifies its object; only a kind whose scope changes moves its objects.)
OneFileEach ==
    \A p, q \in {m \in Yaml : m[1] # Outside} :
        \A c \in Writable[p], d \in Writable[q] : Refs[c] \cap Refs[d] # {} => p = q

\* An object reported as removed was in HEAD and is in no manifest of the run's
\* roots any more: who prunes what was removed never prunes what is generated.
RemovedObjectsAreGone ==
    step \in {"stage", "commit"} /\ TrackedThoughIgnored = {} /\ OneFileEach =>
        /\ result.removed \subseteq Present(head)
        /\ result.removed \cap Present(disk) = {}
=============================================================================
