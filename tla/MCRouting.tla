----------------------------- MODULE MCRouting -----------------------------
(* Releases and copies of up to three documents, in every order, for TLC. *)
EXTENDS ManifestRouting

MCRoot == {"a", "b", "c", "cluster"}
MCKind == {"Role", "ClusterRole", "Widget", "Provider", "ConfigMap",
           "CustomResourceDefinition", "List", "unknown"}
MCName == {"x", "y", "p:q", "p_q", "app-a-b", "unknown"}
MCGroup == {"", "acme", "other"}
MCScope == {"Cluster", "Namespaced", ""}
MCClusterKinds == {"ClusterRole", "Provider", "CustomResourceDefinition"}
MCDeclared == {[group |-> "other", kind |-> "Widget", scope |-> "Cluster"]}
MCFileName == [k \in MCKind \X MCName |->
                  <<k[1], IF k[2] = "p:q" THEN "p_q" ELSE k[2]>>]
MCMount == {"/a/b", "/a-b"}
MCSuffix == [m \in MCMount |-> "app-a-b"]

O(id, kind, group, name) ==
    [id |-> id, kind |-> kind, group |-> group, name |-> name, ns |-> Missing,
     hook |-> FALSE, defines |-> {}, fault |-> "none", items |-> << >>]
In(ns, d) == [d EXCEPT !.ns = ns]
Hook(d) == [d EXCEPT !.hook = TRUE]
Faulty(fault, d) == [d EXCEPT !.fault = fault]
List(id, ns, items) == [In(ns, O(id, "List", "", Missing)) EXCEPT !.items = items]
CRD(id, name, group, kind, scope) ==
    [O(id, "CustomResourceDefinition", "", name) EXCEPT
        !.defines = {[group |-> group, kind |-> kind, scope |-> scope]}]

\* Objects with, without and with a null or empty namespace, or no kind or name;
\* two names that give one file.
Plain == {O("role", "Role", "", "x"), In(Null, O("null", "Role", "", "p:q")),
          In("b", O("placed", "Role", "", "p_q")), In("", O("empty", "Role", "", "y")),
          O("kindless", Missing, "", "x"), O("nameless", "Role", "", Null),
          In("a", O("clusterrole", "ClusterRole", "", "x"))}

\* Custom resources, and what is stated about their scope.
Custom == {O("widget", "Widget", "acme", "x"), O("other", "Widget", "other", "x"),
           O("provider", "Provider", "acme", "x"), O("groupless", "Provider", Missing, "y"),
           CRD("crd", "x", "acme", "Widget", "Cluster"),
           CRD("blank", "y", "acme", "Widget", ""),
           CRD("pcrd", "p_q", "acme", "Provider", "Namespaced"),
           CRD("anonymous", Null, "acme", "Provider", "Namespaced"),
           Hook(CRD("hook", "x", "acme", "Widget", "Namespaced"))}

\* Lists, some in another, with and without a namespace of their own.
Item == O("item", "Role", "", "x")
Deep == O("deep", "Widget", "acme", "x")
Other == O("other item", "Role", "", "x")
Inner == List("inner", Missing, <<Deep>>)
Innermost == O("innermost item", "Role", "", "x")
After == O("item after", "Role", "", "y")
Inmost == List("inmost", "b", <<Innermost>>)
Lists == {List("list", "c", <<Item, Inner>>),
          List("nested", "c", <<Inmost, After>>),
          List("unnamed", "", <<O("loose", "Role", "", "y")>>)}
Broken == {List("broken", "c", <<Other, NotAMapping>>),
           Faulty("annotations", O("badnotes", "Role", "", "y")),
           Faulty("labels", O("badlabels", "Role", "", "y")),
           Faulty("metadata", O("bare", "Provider", "acme", Missing))}

Documents == Plain \cup Custom \cup Lists \cup Broken
MCDoc == Documents \cup {Item, Other, Deep, Inner, Innermost, After, Inmost}
                   \cup {O("loose", "Role", "", "y")}
MCId == {d.id : d \in MCDoc} \cup MCMount

Call(copy, docs, ns, mounts) ==
    [copy |-> copy, docs |-> docs, namespace |-> ns, mounts |-> mounts,
     renders |-> TRUE, k8sName |-> TRUE]
Release(docs) == Call(FALSE, docs, "a", << >>)

Pairs == {<<d, e>> : d, e \in Documents}
Releases == {<<Release(<<p[1], p[2], d>>)>> :
                p \in {q \in Pairs : q[1] # q[2]}, d \in Custom \cup Lists}
Copies == {<<Call(TRUE, p, ns, mounts)>> : p \in {q \in Pairs : q[1] # q[2]},
              ns \in {"a", Missing}, mounts \in {<< >>, <<"/a-b">>, <<"/a-b", "/a/b">>}}
Refusals == {<<[Call(TRUE, << >>, "a", <<"/a-b">>) EXCEPT !.renders = r, !.k8sName = k]>> :
                r, k \in BOOLEAN}
Several == {<<Release(<<p[1]>>), Call(copy, <<p[2]>>, "a", << >>)>> :
                p \in Pairs, copy \in BOOLEAN}
MCRuns == {run \in Releases :
              \A i, j \in 1..3 : run[1].docs[i] = run[1].docs[j] => i = j}
          \cup Copies \cup Refusals
          \cup {run \in Several : run[1].docs # run[2].docs} \cup {<< >>}
=============================================================================
