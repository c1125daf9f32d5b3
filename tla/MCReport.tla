------------------------------ MODULE MCReport ------------------------------
(* A small checkout for TLC: two roots of manifests, the owner file, and a     *)
(* file of the repository above the output.                                    *)
EXTENDS ChangeReport, TLC

A == <<"a", "x.yaml">>
B == <<"b", "y.yaml">>
Owner == <<"owners", "system.toml">>
Above == <<"..", "docs.yaml">>

MCPath == {A, B, Owner, Above}
MCYaml == {A, B, Above}
MCIgnorable == {A}
MCMergeable == {A, B}

\* Two versions of one object and another in the same file; one object each in
\* the other files.
MCContent == {"one", "one again", "two", "other"}
MCRefs == [one |-> {"r1"}, two |-> {"r2"}, other |-> {"r3"}] @@ ("one again" :> {"r1"})
MCWritable == [p \in MCPath |-> IF p = A THEN {"one", "one again", "two"} ELSE {"other"}]
=============================================================================
