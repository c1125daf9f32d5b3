---------------------------- MODULE OutputLayout ----------------------------
(***************************************************************************)
(* The output tree of manifest-builder: top-level output roots (one per    *)
(* namespace, plus "cluster"), and in each root one file per Kubernetes    *)
(* object.  A path is a pair <<root, file>>: the file name is built from   *)
(* the object's kind and name alone, so two objects share a path exactly   *)
(* when they share root, kind and name.                                    *)
(***************************************************************************)
EXTENDS Naturals, Sequences

CONSTANTS
    Root,      \* the top-level directories of the output tree
    File,      \* the file names objects map to
    NsFile,    \* NsFile[r]: the file name of the Namespace object named r
    Cluster,   \* the root that holds cluster-scoped objects
    NoAutoNs,  \* roots that never get an automatic Namespace object
               \* ("cluster", "kube-system", "owners" and dotted names)
    Hidden     \* roots whose name starts with a dot

ASSUME LayoutAssumption ==
    /\ NsFile \in [Root -> File]
    /\ Cluster \in Root
    /\ Cluster \in NoAutoNs
    /\ Hidden \subseteq NoAutoNs

Path == Root \X File

\* _path_namespace: the top-level directory of a path.
RootOf(p) == p[1]

\* In the operators below `owned` are the roots other services own
\* (owned_namespaces), `managed` those the run manages (managed_namespaces, all
\* of Root when that is None), `written` the paths the configs produced.

\* A root the run may add a Namespace object to.
AutoNamespaced(r, owned, managed) ==
    r \notin NoAutoNs /\ r \notin owned /\ r \in managed

\* Mutants of Cleanable: the files of other services, or of other builders, are
\* fair game.
Cleanable_Owned(p, owned, managed) ==
    RootOf(p) \notin Hidden /\ RootOf(p) \in managed
Cleanable_Unmanaged(p, owned, managed) ==
    RootOf(p) \notin Hidden /\ RootOf(p) \notin owned

\* A file cleanup may remove when the run did not write it.
Cleanable(p, owned, managed) ==
    /\ RootOf(p) \notin Hidden
    /\ RootOf(p) \notin owned
    /\ RootOf(p) \in managed

\* The Namespace object of r as a file of its own root, and as a
\* cluster-scoped file.
OwnNamespacePath(r) == <<r, NsFile[r]>>
ClusterNamespacePath(r) == <<Cluster, NsFile[r]>>

\* Mutant of LacksNamespace: a Namespace object among the cluster-scoped files
\* is taken for that of every root.
LacksNamespace_AnyInCluster(written, owned, managed) ==
    {r \in Root : /\ \E p \in written : RootOf(p) = r
                  /\ AutoNamespaced(r, owned, managed)
                  /\ OwnNamespacePath(r) \notin written
                  /\ \A q \in Root : ClusterNamespacePath(q) \notin written}

\* The roots _ensure_namespaces adds a Namespace object to.
LacksNamespace(written, owned, managed) ==
    {r \in Root : /\ \E p \in written : RootOf(p) = r
                  /\ AutoNamespaced(r, owned, managed)
                  /\ OwnNamespacePath(r) \notin written
                  /\ ClusterNamespacePath(r) \notin written}
=============================================================================
