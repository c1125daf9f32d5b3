----------------------------- MODULE MCGenerate -----------------------------
(* Small instances of GenerateManifests for TLC. *)
EXTENDS GenerateManifests

MCRoot == {"a", "b", "ext", "cluster", "kube-system", ".git"}
MCNsFile == [r \in MCRoot |-> "namespace-" \o r]
MCFile == {"x", "y"} \cup {MCNsFile[r] : r \in MCRoot}
MCOwned == {"ext"}
MCNoAutoNs == {"cluster", "kube-system", ".git"}
MCHidden == {".git"}
MCManaged == MCRoot \ {"kube-system"}

MCBlock == {"copy", "helm"}
MCParallel == {"helm"}

J(block, home, docs) ==
    [block |-> block, home |-> home, own |-> FALSE, faulty |-> FALSE,
     docs |-> docs]
Own(job) == [job EXCEPT !.own = TRUE]
Faulty(job) == [job EXCEPT !.faulty = TRUE]

Ax == <<"a", "x">>   Ay == <<"a", "y">>
Bx == <<"b", "x">>   By == <<"b", "y">>
Dx == <<"b", "namespace-a">>   Kx == <<"kube-system", "x">>
Cx == <<"cluster", "x">>
Ex == <<"ext", "x">>
NsA == <<"cluster", "namespace-a">>
NsB == <<"b", "namespace-b">>

\* Every path distinct: a sequential group of two, a pool of four jobs for two
\* or three threads, and a sequential job of the first block again.
Distinct ==
    << J("copy", "a", <<Ax>>), J("copy", "b", <<Dx>>),
       J("helm", "b", <<Bx, NsA>>), Faulty(J("helm", "b", <<By>>)),
       J("helm", "a", <<Cx>>), J("helm", "kube-system", <<Kx>>),
       J("copy", "a", <<Ay>>) >>

\* Two pooled jobs map an object to one path; two more jobs are behind them.
Collision ==
    << J("helm", "a", <<Ax, Ay>>), J("helm", "b", <<Bx, Ax>>),
       J("helm", "b", <<NsB>>), Faulty(J("helm", "b", <<By>>)) >>

\* One job maps two of its own objects to one path.
SelfCollision ==
    << J("helm", "a", <<Ax, Ay, Ax>>), J("helm", "b", <<Bx>>),
       J("helm", "b", <<By>>) >>

\* Blocks that write their own files produce one path twice.
OwnCollision ==
    << Own(J("helm", "a", <<Ax>>)), Own(J("helm", "b", <<Bx, Ax>>)),
       J("helm", "a", <<Ay>>), J("helm", "a", <<Cx>>), J("copy", "b", <<By>>) >>

\* An object's metadata.namespace sends it to a root another service owns.
Intruding == << J("helm", "a", <<Ax, Ex>>), Faulty(J("helm", "b", <<Bx>>)) >>

\* A config targets an owned namespace outright.
Targeting == << J("copy", "ext", <<Ex>>) >>

\* Chart output that comes without any Namespace object.
Plain == << J("helm", "a", <<Ax>>), J("helm", "b", <<Bx>>) >>

\* The same while the process may run another generate(): told apart by one
\* more config, whose output is empty.
Busy(jobs) == Append(jobs, J("copy", "b", << >>))

Undisturbed == {Distinct, Collision, SelfCollision, OwnCollision, Intruding,
                Targeting, Plain, << >>}
MCDisturbed == {Busy(Collision), Busy(SelfCollision), Busy(OwnCollision)}
MCPlans == Undisturbed \cup MCDisturbed
SelfPlans == {SelfCollision}
NoPlans == {}

MCEarlierClaims == {{}, {Ax, By}}
MCEarlierFiles == {{}, {Ax, By, Ex, NsB, <<".git", "x">>,
                        <<"a", "namespace-a">>, <<"kube-system", "y">>}}
NoClaims == {{}}
NoFiles == {{}}
=============================================================================
