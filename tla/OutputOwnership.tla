-------------------------- MODULE OutputOwnership ---------------------------
(***************************************************************************)
(* Successive calls of generate() on one output checkout: full system      *)
(* generation, and namespace-owner builders that each generate the root of *)
(* their own name.  A run reads the owner declarations, clears the roots   *)
(* it owns, writes its manifests, declares what it owns, reports the       *)
(* changes against HEAD and may commit.  Nothing survives a run but the    *)
(* files, the git index and HEAD, so a run that fails and one that is      *)
(* killed look the same to the next.                                       *)
(***************************************************************************)
EXTENDS OutputLayout

CONSTANTS
    System,         \* the builder of full system generation
    NsBuilders,     \* namespace-owner builders, each named by its namespace
    Claimed,        \* roots other pipelines declare in the output's owners/
    Deployments,    \* what the builders may be set up to generate
    Overlap,        \* may a run begin before another has ended?
    Nobody,         \* the content of a manifest that does not exist
    NoFile          \* the content of an owner file that does not exist

Builder == {System} \cup NsBuilders

\* The name of each builder's file in owners/, less ".toml".
SystemFile == "system"
FileOf(b) == IF b = System THEN SystemFile ELSE b

\* homes: the namespaces the configs name; docs: the paths their objects map
\* to; owners: the roots the config directory's own owners/ declares; commit:
\* the create_commit argument.
Config == [homes : SUBSET Root, docs : SUBSET Path, owners : SUBSET Root,
           commit : BOOLEAN]

Steps == {"idle", "clear", "write", "namespaces", "open", "declare",
          "collect", "stage", "commit"}

\* configs[b]: what builder b may be asked to generate; fails: the steps before
\* which a run may fail or be killed.
Deployment == [configs : [Builder -> SUBSET Config],
               fails : SUBSET (Steps \ {"idle"})]

ASSUME OwnershipAssumption ==
    /\ NsBuilders \subseteq Root
    /\ System \notin Root \cup {SystemFile}
    /\ Claimed \subseteq Root
    /\ \A d \in Deployments : d \in Deployment
    /\ Overlap \in BOOLEAN
    /\ Nobody \notin Builder
    /\ \A roots \in SUBSET Root : NoFile # roots

VARIABLES
    deployment,  \* the deployment, which stays
    disk,      \* the working tree of the checkout
    index,     \* what git add has recorded
    head,      \* the tree of the last commit
    step,      \* step[b]: where the run of builder b is
    config,    \* config[b]: what that run generates
    owned,     \* owned[b]: the roots it takes for owned by others
    before,    \* before[b]: the roots system.toml listed when it began
    toClear,   \* toClear[b]: the roots it has yet to clear
    wrote,     \* wrote[b]: the manifests it has written
    reported   \* reported[b]: the manifests it reports as changed

git == <<index, head>>
locals == <<config, owned, before>>
vars == <<deployment, disk, index, head, step, config, owned, before, toClear, wrote,
          reported>>

OwnerFile == {FileOf(b) : b \in Builder}

\* A tree: files[p] is the builder whose manifest path p holds, owners[f] the
\* roots that f in owners/ lists.
Tree == [files : [Path -> Builder \cup {Nobody}],
         owners : [OwnerFile -> {NoFile} \cup SUBSET Root]]

EmptyTree == [files |-> [p \in Path |-> Nobody],
              owners |-> [f \in OwnerFile |-> NoFile]]
EmptyConfig == [homes |-> {}, docs |-> {}, owners |-> {}, commit |-> FALSE]

\* The roots builder b's owner file lists in tree t, and those any owner file
\* but b's lists.
Others(b) == {c \in Builder : FileOf(c) # FileOf(b)}
Listed(t, b) == IF t.owners[FileOf(b)] = NoFile THEN {} ELSE t.owners[FileOf(b)]
ListedByOthers(t, b) == Claimed \cup UNION {Listed(t, c) : c \in Others(b)}

\* The paths under roots R where two trees differ.
Changes(t, u, R) == {p \in Path : RootOf(p) \in R /\ t.files[p] # u.files[p]}

\* The roots written manifests landed in (_output_roots).
RootsOf(paths) == {RootOf(p) : p \in paths}

Init ==
    /\ deployment \in Deployments
    /\ disk = EmptyTree /\ index = EmptyTree /\ head = EmptyTree
    /\ step = [b \in Builder |-> "idle"]
    /\ config = [b \in Builder |-> EmptyConfig]
    /\ owned = [b \in Builder |-> {}]
    /\ before = [b \in Builder |-> {}]
    /\ toClear = [b \in Builder |-> {}]
    /\ wrote = [b \in Builder |-> {}]
    /\ reported = [b \in Builder |-> {}]

Goto(b, s) == step' = [step EXCEPT ![b] = s]

\* What a builder forgets between runs.
Forget(b) ==
    /\ config' = [config EXCEPT ![b] = EmptyConfig]
    /\ owned' = [owned EXCEPT ![b] = {}]
    /\ before' = [before EXCEPT ![b] = {}]
    /\ toClear' = [toClear EXCEPT ![b] = {}]
    /\ wrote' = [wrote EXCEPT ![b] = {}]
    /\ reported' = [reported EXCEPT ![b] = {}]

MayBegin(b) ==
    /\ step[b] = "idle"
    /\ Overlap \/ \A c \in Builder : step[c] = "idle"
-----------------------------------------------------------------------------
(* Reading the declarations. *)

\* Mutant of BeginSystem: roots other services own are cleared with the rest.
BeginSystem_ClearsAll(c) ==
    LET others == c.owners \cup ListedByOthers(disk, System)
        mine == Listed(disk, System)
    IN  /\ MayBegin(System)
        /\ c \in deployment.configs[System]
        /\ config' = [config EXCEPT ![System] = c]
        /\ owned' = [owned EXCEPT ![System] = others]
        /\ before' = [before EXCEPT ![System] = mine]
        /\ toClear' = [toClear EXCEPT ![System] = mine]
        /\ Goto(System, "clear")
        /\ UNCHANGED <<disk, git, wrote, reported>>

\* System generation: system.toml lists what it owned, every other owner file
\* and the config directory's what it must not touch.
BeginSystem(c) ==
    LET others == c.owners \cup ListedByOthers(disk, System)
        mine == Listed(disk, System)
    IN  /\ MayBegin(System)
        /\ c \in deployment.configs[System]
        /\ config' = [config EXCEPT ![System] = c]
        /\ owned' = [owned EXCEPT ![System] = others]
        /\ before' = [before EXCEPT ![System] = mine]
        /\ toClear' = [toClear EXCEPT ![System] = mine \ others]
        /\ Goto(System, "clear")
        /\ UNCHANGED <<disk, git, wrote, reported>>

\* Mutant of BeginNamespace: system.toml is not read.
BeginNamespace_NotSystem(b, c) ==
    LET elsewhere == UNION {Listed(disk, o) : o \in NsBuilders \cap Others(b)}
    IN  /\ MayBegin(b)
        /\ c \in deployment.configs[b]
        /\ b \notin elsewhere
        /\ config' = [config EXCEPT ![b] = c]
        /\ owned' = [owned EXCEPT ![b] = (c.owners \cup elsewhere) \ {b}]
        /\ toClear' = [toClear EXCEPT ![b] = {b}]
        /\ Goto(b, "clear")
        /\ UNCHANGED <<disk, git, before, wrote, reported>>

\* Namespace-owner generation: refused when any other owner file of the
\* output, system.toml included, claims the namespace.
BeginNamespace(b, c) ==
    LET elsewhere == ListedByOthers(disk, b)
    IN  /\ MayBegin(b)
        /\ c \in deployment.configs[b]
        /\ b \notin elsewhere
        /\ config' = [config EXCEPT ![b] = c]
        /\ owned' = [owned EXCEPT ![b] = (c.owners \cup elsewhere) \ {b}]
        /\ toClear' = [toClear EXCEPT ![b] = {b}]
        /\ Goto(b, "clear")
        /\ UNCHANGED <<disk, git, before, wrote, reported>>
-----------------------------------------------------------------------------
(* Clearing and writing. *)

\* _clear_output_roots deletes one file.
ClearFile(b, p) ==
    /\ step[b] = "clear"
    /\ RootOf(p) \in toClear[b]
    /\ disk.files[p] # Nobody
    /\ disk' = [disk EXCEPT !.files[p] = Nobody]
    /\ UNCHANGED <<git, step, locals, toClear, wrote, reported>>

\* Mutant of Cleared: files that are in the way are overwritten, not cleared.
Cleared_Early(b) ==
    /\ step[b] = "clear"
    /\ config[b].homes \cap owned[b] = {}
    /\ toClear' = [toClear EXCEPT ![b] = {}]
    /\ Goto(b, "write")
    /\ UNCHANGED <<disk, git, locals, wrote, reported>>

\* The roots are clear.  A config that names an owned namespace is only
\* rejected now.
Cleared(b) ==
    /\ step[b] = "clear"
    /\ \A p \in Path : RootOf(p) \in toClear[b] => disk.files[p] = Nobody
    /\ config[b].homes \cap owned[b] = {}
    /\ toClear' = [toClear EXCEPT ![b] = {}]
    /\ Goto(b, "write")
    /\ UNCHANGED <<disk, git, locals, wrote, reported>>

\* A config block writes an object's file.
Write(b, p) ==
    /\ step[b] = "write"
    /\ p \in config[b].docs \ wrote[b]
    /\ disk' = [disk EXCEPT !.files[p] = b]
    /\ wrote' = [wrote EXCEPT ![b] = @ \cup {p}]
    /\ UNCHANGED <<git, step, locals, toClear, reported>>

\* All is written, and nothing landed in an owned root.
Written(b) ==
    /\ step[b] = "write"
    /\ wrote[b] = config[b].docs
    /\ RootsOf(wrote[b]) \cap owned[b] = {}
    /\ Goto(b, "namespaces")
    /\ UNCHANGED <<disk, git, locals, toClear, wrote, reported>>

\* _ensure_namespaces writes the Namespace objects.
EnsureNamespaces(b) ==
    LET managed == IF b = System THEN Root ELSE {b}
        added == {OwnNamespacePath(r) :
                     r \in LacksNamespace(wrote[b], owned[b], managed)}
    IN  /\ step[b] = "namespaces"
        /\ disk' = [disk EXCEPT !.files =
                       [p \in Path |-> IF p \in added THEN b ELSE @[p]]]
        /\ wrote' = [wrote EXCEPT ![b] = @ \cup added]
        /\ Goto(b, "open")
        /\ UNCHANGED <<git, locals, toClear, reported>>
-----------------------------------------------------------------------------
(* Declaring ownership. *)

\* write_text opens the owner file: until its content is written it lists
\* nothing.  A namespace builder gets here only without cluster output.
OpenOwnerFile(b) ==
    /\ step[b] = "open"
    /\ b = System \/ Cluster \notin RootsOf(wrote[b])
    /\ disk' = [disk EXCEPT !.owners[FileOf(b)] = {}]
    /\ Goto(b, "declare")
    /\ UNCHANGED <<git, locals, toClear, wrote, reported>>

DeclareOwner(b) ==
    /\ step[b] = "declare"
    /\ disk' = [disk EXCEPT !.owners[FileOf(b)] =
                   IF b = System THEN RootsOf(wrote[b]) ELSE {b}]
    /\ Goto(b, "collect")
    /\ UNCHANGED <<git, locals, toClear, wrote, reported>>

\* Mutant of CommitRoots: the roots of the last run that are gone are left out.
CommitRoots_OnlyWritten(b) == IF b = System THEN RootsOf(wrote[b]) ELSE {b}

\* The roots the run reports on and commits.
CommitRoots(b) ==
    IF b = System THEN (before[b] \ owned[b]) \cup RootsOf(wrote[b]) ELSE {b}
-----------------------------------------------------------------------------
(* Reporting and committing. *)

\* get_git_manifest_changes compares the roots with HEAD; no roots at all
\* stand for the whole output.
ReportRoots(b) == IF CommitRoots(b) = {} THEN Root ELSE CommitRoots(b)

\* Mutant of Collect: deleted manifests are not reported.
Collect_NoDeletions(b) ==
    /\ step[b] = "collect"
    /\ reported' = [reported EXCEPT ![b] =
          {p \in Changes(head, disk, ReportRoots(b)) : disk.files[p] # Nobody}]
    /\ Goto(b, "stage")
    /\ UNCHANGED <<disk, git, locals, toClear, wrote>>

Collect(b) ==
    /\ step[b] = "collect"
    /\ reported' = [reported EXCEPT ![b] = Changes(head, disk, ReportRoots(b))]
    /\ Goto(b, "stage")
    /\ UNCHANGED <<disk, git, locals, toClear, wrote>>

NoCommit(b) ==
    /\ step[b] = "stage"
    /\ ~config[b].commit
    /\ Goto(b, "idle")
    /\ Forget(b)
    /\ UNCHANGED <<disk, git>>

\* The tree t with builder b's commit paths as they are on disk.
Staged(b, t) ==
    [files |-> [p \in Path |-> IF RootOf(p) \in CommitRoots(b)
                               THEN disk.files[p] ELSE t.files[p]],
     owners |-> [t.owners EXCEPT ![FileOf(b)] = disk.owners[FileOf(b)]]]

Stage(b) ==
    /\ step[b] = "stage"
    /\ config[b].commit
    /\ index' = Staged(b, index)
    /\ Goto(b, "commit")
    /\ UNCHANGED <<disk, head, locals, toClear, wrote, reported>>

\* What was staged differs from HEAD below the commit paths.
HasChanges(b) == \/ Changes(head, index, CommitRoots(b)) # {}
                 \/ head.owners[FileOf(b)] # index.owners[FileOf(b)]

NothingToCommit(b) ==
    /\ step[b] = "commit"
    /\ ~HasChanges(b)
    /\ Goto(b, "idle")
    /\ Forget(b)
    /\ UNCHANGED <<disk, git>>

\* The commit takes the index as it is.
Commit(b) ==
    /\ step[b] = "commit"
    /\ HasChanges(b)
    /\ head' = index
    /\ Goto(b, "idle")
    /\ Forget(b)
    /\ UNCHANGED <<disk, index>>
-----------------------------------------------------------------------------
\* A run that cannot go on: a config names an owned namespace, output landed
\* in an owned root, or a namespace builder produced cluster-scoped output.
Refused(b) ==
    \/ step[b] = "clear" /\ config[b].homes \cap owned[b] # {}
    \/ /\ step[b] = "write"
       /\ wrote[b] = config[b].docs
       /\ RootsOf(wrote[b]) \cap owned[b] # {}
    \/ step[b] = "open" /\ b # System /\ Cluster \in RootsOf(wrote[b])

\* The run raises, or its process is killed, before its next step.
Interrupt(b) ==
    /\ step[b] \in deployment.fails \/ Refused(b)
    /\ Goto(b, "idle")
    /\ Forget(b)
    /\ UNCHANGED <<disk, git>>

Run(b) ==
    \/ \E p \in Path : ClearFile(b, p) \/ Write(b, p)
    \/ Cleared(b) \/ Written(b) \/ EnsureNamespaces(b)
    \/ OpenOwnerFile(b) \/ DeclareOwner(b)
    \/ Collect(b) \/ NoCommit(b) \/ Stage(b) \/ NothingToCommit(b) \/ Commit(b)

Next ==
    /\ \/ \E c \in deployment.configs[System] : BeginSystem(c)
       \/ \E b \in NsBuilders : \E c \in deployment.configs[b] : BeginNamespace(b, c)
       \/ \E b \in Builder : Run(b) \/ Interrupt(b)
    /\ UNCHANGED deployment

Spec == Init /\ [][Next]_vars
-----------------------------------------------------------------------------
TypeOK ==
    /\ deployment \in Deployments
    /\ disk \in Tree /\ index \in Tree /\ head \in Tree
    /\ step \in [Builder -> Steps]
    /\ config \in [Builder -> Config]
    /\ owned \in [Builder -> SUBSET Root]
    /\ before \in [Builder -> SUBSET Root]
    /\ toClear \in [Builder -> SUBSET Root]
    /\ wrote \in [Builder -> SUBSET Path]
    /\ reported \in [Builder -> SUBSET Path]

\* No root is declared by two owner files, however often runs of the different
\* builders fail half-way. (Declaring it twice "would make that owner's next
\* run fail on its own namespace", tests/test_api.py.)
OwnersDisjoint ==
    \A b \in Builder : Listed(disk, b) \cap ListedByOthers(disk, b) = {}

\* A run deletes a file only in a root that no other owner declares: not in the
\* output's owners/, nor, for system generation, in the config directory's.
\* (_clear_output_roots gets the roots of the last system run minus the owned
\* ones, or the builder's own namespace.)
DeletesOnlyUnclaimed ==
    [][\A p \in Path : (disk.files[p] # Nobody /\ disk'.files[p] = Nobody) =>
          \E b \in Builder :
             /\ step[b] = "clear"
             /\ RootOf(p) \notin ListedByOthers(disk, b)
             /\ b = System => RootOf(p) \notin config[b].owners]_vars

\* The step that commits for builder b.
CommitsFor(b) == step[b] = "commit" /\ step'[b] = "idle" /\ head' # head

\* "Namespace-mode commits stage only the target namespace and owner file", and
\* a system commit only the roots system generation owned or wrote: what else
\* changed in the checkout is not committed along.
CommitsStayInTheirRoots ==
    [][\A b \in Builder : CommitsFor(b) =>
          /\ RootsOf(Changes(head, head', Root)) \subseteq CommitRoots(b)
          /\ \A f \in OwnerFile \ {FileOf(b)} : head'.owners[f] = head.owners[f]]_vars

\* What a run that has any roots reports as changed is what its commit changes
\* in them. (The report is taken from the working tree, the commit from the
\* index, two steps later.)
ReportIsTheCommit ==
    [][\A b \in Builder : CommitsFor(b) /\ CommitRoots(b) # {} =>
          reported[b] = Changes(head, head', Root)]_vars

\* Runs that fail, if at all, while clearing, and that always commit what they
\* wrote into the namespaces of their configs, a namespace builder into its own;
\* cluster-scoped output belongs to system generation, and a config declares no
\* owner that the output does not.
Tidy ==
    /\ deployment.fails \subseteq {"clear"}
    /\ Cluster \notin NsBuilders \cup Claimed
    /\ \A b \in Builder : \A c \in deployment.configs[b] :
          /\ c.commit
          /\ c.owners \subseteq Claimed
          /\ RootsOf(c.docs) \subseteq c.homes \cup {Cluster}
          /\ b \in NsBuilders => RootsOf(c.docs) \subseteq {b}

\* A commit of tidy runs leaves in the roots it declares exactly the manifests
\* of the run: no file of an earlier run, of a failed one or of another builder.
\* ("Commits generated changes after the caller has reconciled the output
\* tree".)
CommitIsExact ==
    [][\A b \in Builder : CommitsFor(b) /\ Tidy =>
          \A p \in Path : RootOf(p) \in Listed(head', b) =>
             head'.files[p] = (IF p \in wrote[b] THEN b ELSE Nobody)]_vars

\* After a system commit of tidy runs, HEAD holds no manifest of system
\* generation outside the roots it declares: a root the config no longer produces
\* leaves HEAD, not only the working tree.
\* ("System mode clears previously owned roots and syncs owners/system.toml".)
DroppedRootsLeaveHead ==
    [][CommitsFor(System) /\ Tidy =>
          \A p \in Path : head'.files[p] = System =>
             RootOf(p) \in Listed(head', System)]_vars

\* "<namespace>.toml is this builder's own declaration from an earlier run; a
\* claim on the namespace from any other owner file, system.toml included, is a
\* conflict rather than something to overwrite": the owner file a namespace
\* builder replaces declares nothing but its own namespace.
ReplacesOwnDeclaration ==
    [][\A b \in NsBuilders : (step[b] = "open" /\ step'[b] = "declare") =>
          Listed(disk, b) \subseteq {b}]_vars
=============================================================================
