-------------------------- MODULE ManifestRouting --------------------------
(***************************************************************************)
(* From rendered documents to files: the calls of write_manifests (for the *)
(* output of helm) and generate_copy (for existing manifests) that one run *)
(* makes.  Lists are taken apart, helm hooks left out, the scope of every  *)
(* object is decided, objects get the namespace they lack, and each is     *)
(* written to a file named after its kind and name, in the directory of    *)
(* its namespace or among the cluster-scoped ones.                         *)
(***************************************************************************)
EXTENDS Naturals, Sequences

CONSTANTS
    Root,          \* the directories of the output: namespaces and Cluster
    Cluster,       \* the one of cluster-scoped objects
    Kind, Name,    \* the kinds and names objects have, "unknown" among both
    Group,         \* API groups
    Scope,         \* what a CRD may state as its scope
    Id,            \* what tells two equal documents apart
    Doc,           \* the documents that occur, in lists or on their own
    ClusterKinds,  \* CLUSTER_SCOPED_KINDS
    DeclaredScopes,  \* _declared_scopes: [group, kind, scope] records
    FileName,      \* FileName[<<kind, name>>]: _manifest_filename
    Mount,         \* mount paths of config files
    Suffix,        \* Suffix[m]: configmap_suffix_from_mount_path
    Runs,          \* the sequences of calls a run may make
    Depth,         \* how deep lists are nested
    Missing,       \* a key that is not there, and Python's None
    Null,          \* a key with a null value
    NotAMapping    \* a document that is not a mapping

ScopeEntry == [group : Group, kind : Kind, scope : Scope]
\* The code does not reserve the name of the Cluster directory; a namespace of
\* that name would be mixed up with the cluster-scoped objects.
Namespace == Root \ {Cluster}

File == {FileName[x] : x \in Kind \X Name}
Path == Root \X File

Absent == {Missing, Null}
Falsy == {Missing, Null, ""}

\* hook: the document has a helm.sh/hook annotation; defines: the scope a CRD
\* states; fault: what in it is no mapping though it should be; items: the
\* documents in a List.
DocType == [id : Id, kind : Kind \cup Falsy, group : Group \cup {Missing},
            name : Name \cup Falsy, ns : Namespace \cup Falsy, hook : BOOLEAN,
            defines : SUBSET ScopeEntry,
            fault : {"none", "metadata", "annotations", "labels"},
            items : Seq(Doc \cup {NotAMapping})]

\* copy: generate_copy, otherwise write_manifests; mounts: what the config table
\* of a copy config mounts, in the order of the paths; renders, k8sName: its
\* templates render, and make_k8s_name accepts its name.
CallType == [copy : BOOLEAN, docs : Seq(Doc \cup {NotAMapping}),
             namespace : Namespace \cup {Missing}, mounts : Seq(Mount),
             renders : BOOLEAN, k8sName : BOOLEAN]

ASSUME RoutingAssumption ==
    /\ Cluster \in Root
    /\ {"ConfigMap", "List", "unknown"} \subseteq Kind
    /\ "unknown" \in Name
    /\ Falsy \cap (Root \cup Kind \cup Name) = {}
    /\ Missing \notin Group /\ "" \in Group
    /\ NotAMapping \notin Doc
    /\ Doc \subseteq DocType /\ Mount \subseteq Id
    /\ DeclaredScopes \subseteq ScopeEntry
    /\ ClusterKinds \subseteq Kind \ {"ConfigMap", "unknown"}
    /\ Suffix \in [Mount -> Name]
    /\ Runs \subseteq Seq(CallType)
    /\ \A run \in Runs : \A i \in DOMAIN run :
          \/ run[i].copy
          \/ run[i].namespace # Missing /\ run[i].mounts = << >>
    /\ Depth \in Nat

VARIABLES
    calls,    \* the calls of this run
    call,     \* the one under way, the next one between calls
    phase,    \* what that call is doing
    work,     \* documents yet to take apart, each with its fallback namespace
    objects,  \* the objects it has yet to write
    scopes,   \* crd_scopes: what the CRDs of the call state
    claimed,  \* _written_paths
    disk      \* disk[p]: the object written to p, for the paths of this run

vars == <<calls, call, phase, work, objects, scopes, claimed, disk>>

Current == calls[call]
Elements(s) == {s[i] : i \in DOMAIN s}
Paired(docs, ns) == [i \in DOMAIN docs |-> <<docs[i], ns>>]
-----------------------------------------------------------------------------
(* Scope and place of an object. *)

\* load_crd_scopes: what the CRDs among the documents state, of two about one
\* kind the later one.
CrdScopes(docs) ==
    UNION {{e \in docs[i].defines :
               \A j \in (i + 1)..Len(docs) : \A f \in docs[j].defines :
                   e.group # f.group \/ e.kind # f.kind} : i \in DOMAIN docs}

\* The scopes table t gives the group and kind of d; an empty one counts as none.
Stated(d, t) ==
    {e.scope : e \in {x \in t : x.group = d.group /\ x.kind = d.kind}} \ {""}

\* Mutant of IsClusterScoped: the bare kind decides before any CRD does.
IsClusterScoped_BareKindFirst(d, crds) ==
    d.kind \in ClusterKinds \/ "Cluster" \in Stated(d, crds)

\* A CRD of the call decides, then a declared scope, then the bare kind.
IsClusterScoped(d, crds) ==
    IF Stated(d, crds) # {}
    THEN "Cluster" \in Stated(d, crds)
    ELSE IF Stated(d, DeclaredScopes) # {}
    THEN "Cluster" \in Stated(d, DeclaredScopes)
    ELSE d.kind \in ClusterKinds

\* An object the run gives a namespace: it has a kind, is not cluster-scoped and
\* its metadata has no such key.
Homeless(d, crds) ==
    /\ d.kind \notin Falsy
    /\ ~IsClusterScoped(d, crds)
    /\ d.ns = Missing

\* Mutant of Stamped: the CRDs of the call are not consulted.
Stamped_WithoutCRDs(d, ns, crds) ==
    IF Homeless(d, {}) THEN [d EXCEPT !.ns = ns] ELSE d

Stamped(d, ns, crds) == IF Homeless(d, crds) THEN [d EXCEPT !.ns = ns] ELSE d

\* The directory write_documents chooses, Missing when there is none.
Subdir(d) == IF IsClusterScoped(d, scopes) THEN Cluster
             ELSE IF d.ns \in Falsy THEN Current.namespace ELSE d.ns

\* Kind and name with their defaults; the file they give.
Labelled(x) == IF x = Missing THEN "unknown" ELSE x
PathOf(d) == <<Subdir(d), FileName[<<Labelled(d.kind), Labelled(d.name)>>]>>
-----------------------------------------------------------------------------
Init ==
    /\ calls \in Runs
    /\ call = 1
    /\ phase = "next"
    /\ work = << >>
    /\ objects = << >>
    /\ scopes = {}
    /\ claimed = {}
    /\ disk = << >>

More == phase = "next" /\ call <= Len(calls)

Fail ==
    /\ phase' = "failed"
    /\ UNCHANGED <<calls, call, work, objects, scopes, claimed, disk>>

\* write_manifests is called with helm's output.
BeginRelease ==
    /\ More
    /\ ~Current.copy
    /\ work' = Paired(Current.docs, Missing)
    /\ phase' = "expand"
    /\ UNCHANGED <<calls, call, objects, scopes, claimed, disk>>

IsList(d) == d # NotAMapping /\ d.kind = "List"

ExpandObject ==
    /\ phase = "expand"
    /\ work # << >>
    /\ Head(work)[1] # NotAMapping
    /\ ~IsList(Head(work)[1])
    /\ objects' = Append(objects, Head(work))
    /\ work' = Tail(work)
    /\ UNCHANGED <<calls, call, phase, scopes, claimed, disk>>

\* Mutants of ListNamespace: the namespace of the list is not looked at; that of the
\* outermost list is kept.
ListNamespace_Outer(list, outer) == outer
ListNamespace_Outermost(list, outer) == IF outer \in Absent THEN list.ns ELSE outer

\* The namespace the items of a list fall back on: that of the list when it is
\* a string.
ListNamespace(list, outer) == IF list.ns \in Absent THEN outer ELSE list.ns

\* _expand_lists: the items take the place of the list.
ExpandList ==
    /\ phase = "expand"
    /\ work # << >>
    /\ LET list == Head(work)[1]
       IN  /\ IsList(list)
           /\ work' = Paired(list.items, ListNamespace(list, Head(work)[2]))
                          \o Tail(work)
    /\ UNCHANGED <<calls, call, phase, objects, scopes, claimed, disk>>

ExpandFails ==
    /\ phase = "expand"
    /\ work # << >>
    /\ Head(work)[1] = NotAMapping
    /\ Fail

\* The annotations of some object cannot be read.
Unreadable == \E e \in Elements(objects) : e[1].fault \in {"metadata", "annotations"}

\* The documents that are no helm hooks, in their order.
WithoutHooks(docs) ==
    LET kept[n \in Nat] ==
          IF n = 0 THEN << >>
          ELSE IF docs[n][1].hook THEN kept[n - 1] ELSE Append(kept[n - 1], docs[n])
    IN  kept[Len(docs)]

\* Hooks are left out, the scopes of the remaining CRDs read, and objects
\* without a namespace get that of their list, or else the release's.
Prepare ==
    LET kept == WithoutHooks(objects)
        crds == CrdScopes([i \in DOMAIN kept |-> kept[i][1]])
        home(e) == IF e[2] \in Falsy THEN Current.namespace ELSE e[2]
    IN  /\ phase = "expand"
        /\ work = << >>
        /\ ~Unreadable
        /\ scopes' = crds
        /\ objects' = [i \in DOMAIN kept |->
                          Stamped(kept[i][1], home(kept[i]), crds)]
        /\ phase' = "write"
        /\ UNCHANGED <<calls, call, work, claimed, disk>>

PrepareFails ==
    /\ phase = "expand"
    /\ work = << >>
    /\ Unreadable
    /\ Fail

\* make_configmaps: one ConfigMap for each mount path.
ConfigMap(m) ==
    [id |-> m, kind |-> "ConfigMap", group |-> "", name |-> Suffix[m],
     ns |-> Current.namespace, hook |-> FALSE, defines |-> {}, fault |-> "none",
     items |-> << >>]

\* make_k8s_name rejects the name the ConfigMaps would be called after.
BadName == Current.mounts # << >> /\ ~Current.k8sName

\* generate_copy cannot go on: a template or a document is broken, a namespace
\* is needed and there is none, or the config has no name for its ConfigMaps.
CopyBroken ==
    LET docs == Elements(Current.docs)
        crds == CrdScopes(Current.docs)
    IN  \/ ~Current.renders
        \/ NotAMapping \in docs
        \/ \E d \in docs : Homeless(d, crds) /\ d.fault = "metadata"
        \/ /\ Current.namespace = Missing
           /\ Current.mounts # << >> \/ \E d \in docs : Homeless(d, crds)
        \/ BadName

CopyFails ==
    /\ More
    /\ Current.copy
    /\ CopyBroken
    /\ Fail

\* generate_copy: objects get the namespace they lack, and ConfigMaps follow.
\* Lists and hooks are objects like any other.
BeginCopy ==
    LET docs == Current.docs
        crds == CrdScopes(docs)
    IN  /\ More
        /\ Current.copy
        /\ ~CopyBroken
        /\ scopes' = crds
        /\ objects' = [i \in DOMAIN docs |-> Stamped(docs[i], Current.namespace, crds)]
                          \o [i \in DOMAIN Current.mounts |-> ConfigMap(Current.mounts[i])]
        /\ phase' = "write"
        /\ UNCHANGED <<calls, call, work, claimed, disk>>
-----------------------------------------------------------------------------
(* write_documents. *)

Writing == phase = "write" /\ objects # << >>
Upcoming == Head(objects)
Nameless(d) == Labelled(d.kind) \in Falsy \/ Labelled(d.name) \in Falsy

OnDisk(path, d) ==
    [p \in DOMAIN disk \cup {path} |-> IF p = path THEN d ELSE disk[p]]

\* An object without a kind or a name is passed over.
Skip ==
    /\ Writing
    /\ Upcoming.fault = "none"
    /\ Nameless(Upcoming)
    /\ objects' = Tail(objects)
    /\ UNCHANGED <<calls, call, phase, work, scopes, claimed, disk>>

\* Its metadata is broken, it has no namespace, or its path is taken.
WriteFails ==
    /\ Writing
    /\ \/ Upcoming.fault # "none"
       \/ /\ ~Nameless(Upcoming)
          /\ Subdir(Upcoming) = Missing \/ PathOf(Upcoming) \in claimed
    /\ Fail

\* Mutant of Write: the path is not looked up among the written ones.
Write_Unchecked ==
    /\ Writing
    /\ Upcoming.fault = "none"
    /\ ~Nameless(Upcoming)
    /\ Subdir(Upcoming) # Missing
    /\ claimed' = claimed \cup {PathOf(Upcoming)}
    /\ disk' = OnDisk(PathOf(Upcoming), Upcoming)
    /\ objects' = Tail(objects)
    /\ UNCHANGED <<calls, call, phase, work, scopes>>

Write ==
    /\ Writing
    /\ Upcoming.fault = "none"
    /\ ~Nameless(Upcoming)
    /\ Subdir(Upcoming) # Missing
    /\ PathOf(Upcoming) \notin claimed
    /\ claimed' = claimed \cup {PathOf(Upcoming)}
    /\ disk' = OnDisk(PathOf(Upcoming), Upcoming)
    /\ objects' = Tail(objects)
    /\ UNCHANGED <<calls, call, phase, work, scopes>>

\* Mutant of Done: every call starts with no paths written.
Done_Forgets ==
    /\ phase = "write"
    /\ objects = << >>
    /\ call' = call + 1
    /\ phase' = "next"
    /\ claimed' = {}
    /\ UNCHANGED <<calls, work, objects, scopes, disk>>

Done ==
    /\ phase = "write"
    /\ objects = << >>
    /\ call' = call + 1
    /\ phase' = "next"
    /\ UNCHANGED <<calls, work, objects, scopes, claimed, disk>>

Return ==
    /\ phase = "next"
    /\ call > Len(calls)
    /\ phase' = "returned"
    /\ UNCHANGED <<calls, call, work, objects, scopes, claimed, disk>>

\* The run is over.
Over ==
    /\ phase \in {"returned", "failed"}
    /\ UNCHANGED vars

Next ==
    \/ BeginRelease \/ ExpandObject \/ ExpandList \/ ExpandFails
    \/ Prepare \/ PrepareFails \/ CopyFails \/ BeginCopy
    \/ Skip \/ WriteFails \/ Write \/ Done \/ Return
    \/ Over

Spec == Init /\ [][Next]_vars
-----------------------------------------------------------------------------
TypeOK ==
    /\ calls \in Seq(CallType)
    /\ call \in 1..(Len(calls) + 1)
    /\ phase \in {"next", "expand", "write", "returned", "failed"}
    /\ \A i \in DOMAIN work :
          work[i] \in (Doc \cup {NotAMapping}) \X (Root \cup Falsy)
    /\ scopes \subseteq ScopeEntry
    /\ claimed \subseteq Path
    /\ DOMAIN disk \subseteq Path

\* Lists taken apart once, each item with the namespace of the innermost list
\* around it that has one.
Inside(list, outer) ==
    {<<d, IF list.ns \in Absent THEN outer ELSE list.ns>> : d \in Elements(list.items)}
Unnested(X) == UNION {IF IsList(e[1]) THEN Inside(e[1], e[2]) ELSE {e} : e \in X}

\* ... and level by level.
Levels(X) ==
    LET level[n \in Nat] == IF n = 0 THEN X ELSE Unnested(level[n - 1])
    IN  level
Leaves(X) == Levels(X)[Depth]

\* The objects a call is given.
Start(c) == {<<d, Missing>> : d \in Elements(c.docs)}
Given(c) == IF c.copy THEN Start(c) ELSE Leaves(Start(c))

\* Lists are nested no deeper than Depth, and a run is given no document twice
\* (id tells equal ones apart).
ASSUME GivenAssumption ==
    /\ \A d \in Doc : d.id \notin Mount
    /\ \A run \in Runs : \A i \in DOMAIN run : \A e \in Given(run[i]) :
          /\ ~run[i].copy => ~IsList(e[1])
          /\ \A j \in DOMAIN run : \A f \in Given(run[j]) :
                (e[1] # NotAMapping /\ f[1] # NotAMapping /\ e[1].id = f[1].id) =>
                    i = j /\ e = f

\* ... and those of them that become files.
Kept(c) == {e \in Given(c) : c.copy \/ ~e[1].hook}
Expected(c) == {e \in Kept(c) : ~Nameless(e[1])}

\* Where the file of a document lies.
FilesOf(d) == {p \in DOMAIN disk : disk[p].id = d.id}

\* "Split YAML content into individual documents and write each to a separate
\* file": a run that returns has a file for every object it was given, however
\* they were nested and over how many calls they came, but for hooks and for
\* objects without kind or name.
EveryObjectHasAFile ==
    phase = "returned" =>
        \A i \in DOMAIN calls :
            /\ \A e \in Expected(calls[i]) : FilesOf(e[1]) # {}
            /\ \A j \in DOMAIN calls[i].mounts :
                  \E p \in DOMAIN disk : disk[p].id = calls[i].mounts[j]

\* "... rather than silently replacing the earlier object": nothing a run wrote
\* is written again.
NothingReplaced ==
    [][\A p \in DOMAIN disk : p \in DOMAIN disk' /\ disk'[p] = disk[p]]_vars

\* "Falling back to the list's namespace rather than the chart namespace": an
\* item whose metadata has no namespace key gets that of the innermost list that
\* has one, in its metadata and as its directory, unless it is cluster-scoped.
ItemsFollowTheirList ==
    \A i \in 1..(call - 1) : \A e \in Expected(calls[i]) :
        (e[2] \notin Falsy /\ e[1].ns = Missing /\ e[1].kind # Missing) =>
            \A p \in FilesOf(e[1]) :
                p[1] = Cluster \/ (p[1] = e[2] /\ disk[p].ns = e[2])

\* "A CustomResourceDefinition among the documents decides the scope of the
\* kinds it defines", wherever among them it comes, and over the bare kind; if
\* several define a kind, they have to agree.
DefinedIn(c) == UNION {e[1].defines : e \in Kept(c)}
CRDsDecideScope ==
    \A i \in 1..(call - 1) : \A e \in Expected(calls[i]) :
        LET said == {x.scope : x \in {y \in DefinedIn(calls[i]) :
                         y.group = e[1].group /\ y.kind = e[1].kind}}
        IN  \A scope \in {"Cluster", "Namespaced"} :
                said = {scope} => \A p \in FilesOf(e[1]) :
                                     (scope = "Cluster") = (p[1] = Cluster)

\* The directory of a file and the object in it agree: a cluster-scoped object
\* has no namespace it was not given, any other lies in that of its metadata,
\* or, when that is null, empty or of an object without a kind, in its config's.
DirectoryIsNamespace ==
    \A i \in 1..(call - 1) : \A e \in Expected(calls[i]) : \A p \in FilesOf(e[1]) :
        IF p[1] = Cluster THEN disk[p].ns = e[1].ns
        ELSE \/ disk[p].ns = p[1]
             \/ /\ disk[p].ns \in Falsy
                /\ p[1] = calls[i].namespace
=============================================================================
