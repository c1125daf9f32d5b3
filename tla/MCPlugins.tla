------------------------------ MODULE MCPlugins ------------------------------
(* Two threads that share a helper module's name, for TLC. *)
EXTENDS PluginLoading

MCDir == {"one", "two", "extra", "odd"}
MCName == {"net", "_util", "dns"}
MCPrivate == {"_util"}
\* The second checkout of directory two holds a helper that cannot be imported.
MCBroken == {[name |-> "_util", dir |-> "two", version |-> 1]}
MCOffers == [one |-> {"net", "_util"}, two |-> {"net", "_util"}, extra |-> {"dns"},
             odd |-> {"dns"}]
MCSiblings == [n \in MCName |-> IF n = "net" THEN {"_util"} ELSE {}]

MCKind == {"Widget"}
MCScope == {"Cluster", "Namespaced"}
MCAnyScope == MCScope \cup {"Global"}
NoScopes == [n \in MCName |-> {}]
Scoped(n, s) == [NoScopes EXCEPT ![n] = {<<"Widget", s>>}]
MCDeclares == [one |-> Scoped("net", "Cluster"), two |-> NoScopes,
               extra |-> Scoped("dns", "Namespaced"), odd |-> Scoped("dns", "Global")]

MCRun == {"r1", "r2"}

\* No directory is checked out again.
Once == [d \in MCDir |-> 0]

\* Two config directories with a plugin of the same name, checked out again while
\* both are loaded.
Threads == [plugins |-> [r1 |-> {{"one"}}, r2 |-> {{"two"}}],
            versions |-> [d \in MCDir |-> IF d \in {"one", "two"} THEN 1 ELSE 0],
            calls |-> 2, overlap |-> TRUE]

\* One call at a time: with a provider, without one, without plugins, with two
\* providers that disagree, with an unknown scope, and with two directories that
\* share a plugin.
InTurn == [plugins |-> [r1 |-> {{"one"}, {"two", "extra"}, {}, {"one", "extra"},
                                {"odd"}, {"one", "two"}},
                        r2 |-> {}],
           versions |-> Once, calls |-> 3, overlap |-> FALSE]

MCSettings == {Threads, InTurn}
OneCallEach == {[Threads EXCEPT !.versions = Once, !.calls = 1]}
=============================================================================
