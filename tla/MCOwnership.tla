----------------------------- MODULE MCOwnership -----------------------------
(* Small instances of OutputOwnership for TLC. *)
EXTENDS OutputOwnership, Sequences

MCRoot == {"a", "b", "cluster"}
MCNsFile == [r \in MCRoot |-> "namespace-" \o r]
MCFile == {"x", "y", "namespace-a", "namespace-b", "namespace-cluster"}
MCNsBuilders == {"a"}

\* ... and with a root that another pipeline declares.
SharedRoot == MCRoot \cup {"shared"}
SharedNsFile == [r \in SharedRoot |-> "namespace-" \o r]
SharedFile == MCFile \cup {"namespace-shared"}
Sx == <<"shared", "x">>

Ax == <<"a", "x">>   Ay == <<"a", "y">>
Bx == <<"b", "x">>   By == <<"b", "y">>
Cx == <<"cluster", "x">>

C(homes, docs, owners) ==
    [homes |-> homes, docs |-> docs, owners |-> owners, commit |-> TRUE]
Preview(c) == [c EXCEPT !.commit = FALSE]

\* Full generation, and the builder of namespace a.
For(full, namespace) == [full |-> full, a |-> namespace]
Deploy(configs, fails) == [configs |-> configs, fails |-> fails]

\* Every run writes its own roots only; system generation also none at all.
TidyRuns ==
    For({C({"a", "b"}, {Ax, Bx}, {}), C({"b"}, {By, Cx}, {}), C({}, {}, {})},
        {C({"a"}, {Ax}, {}), C({"a"}, {Ay}, {})})

\* Runs that move between the roots of a, b and the shared one, through the
\* namespaces of configs, metadata.namespace or the config's own owners/.
StrayRuns ==
    For({C({"b"}, {Bx}, {}), C({"a", "b"}, {Ax, By}, {}), C({"b"}, {By}, {"a"}),
         C({"b"}, {Sx}, {})},
        {C({"a"}, {Ax}, {}), Preview(C({"a"}, {Ay}, {})), C({"a"}, {Sx}, {}),
         C({"a"}, {Ay, By}, {}), C({"a"}, {Ax, Cx}, {})})

BeforeCommit == Steps \ {"idle", "commit"}

MCDeployments == {Deploy(TidyRuns, {"clear"}), Deploy(StrayRuns, BeforeCommit)}
KilledInCommit == {Deploy(TidyRuns, {"commit"})}

\* A namespace that is called like the owner file of system generation.
NamedSystem == {"a", "system", "cluster"}
NamedNsFile == [r \in NamedSystem |-> "namespace-" \o r]
NamedFile == {"x"} \cup {NamedNsFile[r] : r \in NamedSystem}
NamedDeployments ==
    {Deploy([full |-> {C({"a"}, {Ax}, {})},
             system |-> {C({"system"}, {<<"system", "x">>}, {})}], {})}
=============================================================================
