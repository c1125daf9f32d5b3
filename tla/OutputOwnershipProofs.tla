----------------------- MODULE OutputOwnershipProofs ------------------------
(***************************************************************************)
(* Ownership of the output roots for any number of namespace builders,     *)
(* roots and configs, with a failure or a kill before any step, as long as *)
(* one run ends before the next begins (~Overlap, which types and the      *)
(* declarations a builder replaces do not need) and every builder has an   *)
(* owner file to itself (OwnFiles); and, unless a run dies between staging *)
(* and committing (CommitsFollow), what the commits of these builders      *)
(* change, and that reports say so.                                        *)
(***************************************************************************)
EXTENDS OutputOwnership, TLAPS

\* No namespace builder is called "system", the one name that is taken.
OwnFiles == SystemFile \notin NsBuilders

\* The part of the types the invariant needs.
Shape ==
    /\ deployment \in Deployments
    /\ disk \in Tree
    /\ step \in [Builder -> Steps]
    /\ config \in [Builder -> Config]
    /\ owned \in [Builder -> SUBSET Root]
    /\ toClear \in [Builder -> SUBSET Root]
    /\ wrote \in [Builder -> SUBSET Path]

\* One run at a time.
OneRun ==
    \A b, c \in Builder : step[b] # "idle" /\ step[c] # "idle" => b = c

\* What the owner files list, pair by pair: a namespace builder's lists nothing
\* but its own root, and no root is listed twice.
Listings ==
    /\ \A b \in NsBuilders : Listed(disk, b) \subseteq {b}
    /\ \A b \in Builder : Listed(disk, b) \cap Claimed = {}
    /\ \A b, c \in Builder : b # c => Listed(disk, b) \cap Listed(disk, c) = {}

\* From the moment a run has read the declarations, what it took for owned by
\* others covers what others declare.
Reads ==
    /\ step[System] # "idle" =>
          ListedByOthers(disk, System) \cup config[System].owners
              \subseteq owned[System]
    /\ \A b \in NsBuilders : step[b] # "idle" => b \notin ListedByOthers(disk, b)

\* What is cleared is owned by no other, and once the written roots were
\* checked, neither is what system generation will declare.
Writes ==
    /\ step[System] = "clear" => toClear[System] \cap owned[System] = {}
    /\ \A b \in NsBuilders : step[b] = "clear" => toClear[b] \subseteq {b}
    /\ step[System] \in {"namespaces", "open", "declare"} =>
          RootsOf(wrote[System]) \cap owned[System] = {}

OwnershipInv == Shape /\ OneRun /\ Listings /\ Reads /\ Writes

\* Then the other owner files are those of the other builders.
LEMMA OthersAreTheRest ==
    ASSUME OwnFiles
    PROVE  /\ \A b, c \in Builder : FileOf(b) = FileOf(c) => b = c
           /\ \A b \in Builder : Others(b) = Builder \ {b}
<1> USE OwnershipAssumption DEF OwnFiles, Builder, FileOf
<1>1. \A b, c \in Builder : FileOf(b) = FileOf(c) => b = c
  OBVIOUS
<1> QED
  BY <1>1 DEF Others

\* Owner files list roots.
LEMMA RootsAreListed ==
    ASSUME disk \in Tree, NEW b \in Builder
    PROVE  Listed(disk, b) \in SUBSET Root /\ ListedByOthers(disk, b) \in SUBSET Root
<1>1. \A c \in Builder : Listed(disk, c) \in SUBSET Root
  BY DEF Tree, Listed, OwnerFile
<1> QED
  BY <1>1, OwnershipAssumption DEF ListedByOthers, Others

\* What others list, root by root.
LEMMA InOthers ==
    ASSUME OwnFiles, NEW t, NEW b \in Builder, NEW r
    PROVE  r \in ListedByOthers(t, b) <=>
              r \in Claimed \/ \E c \in Builder \ {b} : r \in Listed(t, c)
  BY OthersAreTheRest DEF ListedByOthers

\* Disjointness pair by pair is disjointness from the union of the others.
LEMMA ListingsDisjoint == OwnFiles /\ Listings => OwnersDisjoint
<1> SUFFICES ASSUME OwnFiles, Listings, NEW b \in Builder, NEW r,
                    r \in Listed(disk, b), r \in ListedByOthers(disk, b)
             PROVE  FALSE
  BY DEF OwnersDisjoint
<1>1. r \notin Claimed
  BY DEF Listings
<1>2. PICK c \in Builder \ {b} : r \in Listed(disk, c)
  BY <1>1, InOthers
<1> QED
  BY <1>2 DEF Listings

\* A step that leaves the owner files alone keeps what they list.
LEMMA SameListings ==
    ASSUME disk'.owners = disk.owners
    PROVE  /\ \A b \in Builder : Listed(disk', b) = Listed(disk, b)
           /\ \A b \in Builder : ListedByOthers(disk', b) = ListedByOthers(disk, b)
<1>1. \A b : Listed(disk', b) = Listed(disk, b)
  BY DEF Listed
<1> QED
  BY <1>1 DEF ListedByOthers, Others

\* The run of one builder keeps what the others list, whatever it writes into
\* its own owner file.
LEMMA OthersKeep ==
    ASSUME OwnFiles, NEW b \in Builder,
           \A c \in Builder \ {b} : Listed(disk', c) = Listed(disk, c)
    PROVE  ListedByOthers(disk', b) = ListedByOthers(disk, b)
  BY OthersAreTheRest DEF ListedByOthers

\* A step that ends the run of b and writes nothing keeps the invariant.
LEMMA EndOfRun ==
    ASSUME OwnershipInv, NEW b \in Builder, Goto(b, "idle"), Forget(b),
           UNCHANGED <<deployment, disk>>
    PROVE  OwnershipInv'
<1> USE DEF OwnershipInv, Goto, Forget
<1>1. Shape'
  BY DEF Shape, Steps, EmptyConfig, Config
<1>2. OneRun'
  BY DEF Shape, OneRun
<1>3. Listings'
  BY SameListings DEF Listings
<1>4. Reads'
  BY SameListings DEF Shape, Reads, Builder
<1>5. Writes'
  BY DEF Shape, Writes, Builder
<1> QED
  BY <1>1, <1>2, <1>3, <1>4, <1>5

\* A step in which b moves on, writes no owner file and declares nothing keeps
\* all the invariant but what its own clause of Writes says.
LEMMA MovesOn ==
    ASSUME OwnershipInv, NEW b \in Builder, NEW s \in Steps, Goto(b, s),
           step[b] # "idle", disk' \in Tree, disk'.owners = disk.owners,
           UNCHANGED <<config, owned>>
    PROVE  /\ step' \in [Builder -> Steps]
           /\ OneRun' /\ Listings' /\ Reads'
<1> USE DEF OwnershipInv, Goto
<1>1. step' \in [Builder -> Steps] /\ OneRun'
  BY DEF Shape, OneRun
<1>2. Listings'
  <2>1. \A c \in Builder : Listed(disk', c) = Listed(disk, c)
    BY SameListings
  <2> QED
    BY <2>1 DEF Listings, Builder
<1>3. \A c \in Builder : step'[c] # "idle" => step[c] # "idle"
  BY DEF Shape
<1>4. Reads'
  BY <1>3, SameListings DEF Reads, Builder
<1> QED
  BY <1>1, <1>2, <1>4

\* The Namespace objects go to roots the run wrote into.
LEMMA NamespacesStayInRoots ==
    ASSUME NEW written, NEW notOurs, NEW managed
    PROVE  LET added == {OwnNamespacePath(r) :
                            r \in LacksNamespace(written, notOurs, managed)}
           IN  /\ added \in SUBSET Path
               /\ RootsOf(written \cup added) \subseteq RootsOf(written)
<1> DEFINE lacking == LacksNamespace(written, notOurs, managed)
           added == {OwnNamespacePath(r) : r \in lacking}
<1>1. \A r \in lacking : r \in Root /\ r \in RootsOf(written)
  BY DEF LacksNamespace, RootsOf
<1>2. \A r \in lacking :
         OwnNamespacePath(r) \in Path /\ RootOf(OwnNamespacePath(r)) = r
  BY <1>1, LayoutAssumption DEF OwnNamespacePath, RootOf, Path
<1> HIDE DEF lacking
<1>3. added \in SUBSET Path
  BY <1>2
<1>4. \A p \in written \cup added : RootOf(p) \in RootsOf(written)
  BY <1>1, <1>2 DEF RootsOf
<1>5. RootsOf(written \cup added) \subseteq RootsOf(written)
  BY <1>4 DEF RootsOf
<1> QED
  BY <1>3, <1>5 DEF lacking

\* The invariant is inductive when runs do not overlap.
LEMMA OwnershipInvInductive ==
    ASSUME ~Overlap, OwnFiles PROVE Spec => []OwnershipInv
<1> USE OwnershipAssumption, LayoutAssumption
<1>1. Init => OwnershipInv
  <2> SUFFICES ASSUME Init PROVE OwnershipInv
    OBVIOUS
  <2>1. \A b \in Builder : Listed(disk, b) = {}
    BY DEF Init, Listed, EmptyTree, OwnerFile
  <2>2. Shape
    BY DEF Init, Shape, Tree, EmptyTree, EmptyConfig, Config, Steps
  <2>3. OneRun /\ Listings /\ Reads /\ Writes
    BY <2>1 DEF Init, OneRun, Listings, Reads, Writes, Builder
  <2> QED
    BY <2>2, <2>3 DEF OwnershipInv
<1>2. OwnershipInv /\ [Next]_vars => OwnershipInv'
  <2> SUFFICES ASSUME OwnershipInv, [Next]_vars PROVE OwnershipInv'
    OBVIOUS
  <2>0. deployment' = deployment
    BY DEF Next, vars
  <2> USE <2>0
  <2> USE DEF OwnershipInv
  <2>1. ASSUME NEW c \in deployment.configs[System], BeginSystem(c) PROVE OwnershipInv'
    <3> USE <2>1 DEF BeginSystem, MayBegin, Goto
    <3> System \in Builder
      BY DEF Builder
    <3> c \in Config
      BY DEF Shape, Deployment
    <3>1. \A b \in Builder : step[b] = "idle"
      OBVIOUS
    <3>2. /\ Listed(disk, System) \in SUBSET Root
          /\ ListedByOthers(disk, System) \in SUBSET Root
      BY RootsAreListed DEF Shape
    <3>3. Shape'
      BY <3>2 DEF Shape, Steps, Config
    <3>4. OneRun' /\ Listings' /\ Reads'
      BY <3>1, SameListings DEF Shape, OneRun, Listings, Reads, Builder
    <3>5. Writes'
      BY <3>1 DEF Shape, Writes, Builder
    <3> QED
      BY <3>3, <3>4, <3>5
  <2>2. ASSUME NEW b \in NsBuilders, NEW c \in deployment.configs[b], BeginNamespace(b, c)
        PROVE  OwnershipInv'
    <3> USE <2>2 DEF BeginNamespace, MayBegin, Goto
    <3> b \in Builder /\ b # System /\ b \in Root
      BY DEF Builder
    <3> c \in Config
      BY DEF Shape, Deployment
    <3>1. \A d \in Builder : step[d] = "idle"
      OBVIOUS
    <3>2. ListedByOthers(disk, b) \in SUBSET Root
      BY RootsAreListed DEF Shape
    <3>3. Shape'
      BY <3>2 DEF Shape, Steps, Config
    <3>4. OneRun' /\ Listings' /\ Reads'
      BY <3>1, SameListings DEF Shape, OneRun, Listings, Reads, Builder
    <3>5. Writes'
      BY <3>1 DEF Shape, Writes, Builder
    <3> QED
      BY <3>3, <3>4, <3>5
  <2>3. ASSUME NEW b \in Builder, NEW p \in Path, ClearFile(b, p)
        PROVE  OwnershipInv'
    <3>1. disk' \in Tree /\ disk'.owners = disk.owners
      BY <2>3 DEF ClearFile, Shape, Tree
    <3> QED
      BY <2>3, <3>1, SameListings
         DEF ClearFile, locals, Shape, OneRun, Listings, Reads, Writes, Builder
  <2>4. ASSUME NEW b \in Builder, NEW p \in Path, Write(b, p)
        PROVE  OwnershipInv'
    <3>1. disk' \in Tree /\ disk'.owners = disk.owners
      BY <2>4 DEF Write, Shape, Tree
    <3>2. Shape'
      BY <2>4, <3>1 DEF Write, locals, Shape
    <3> QED
      BY <2>4, <3>1, <3>2, SameListings
         DEF Write, locals, Shape, OneRun, Listings, Reads, Writes, Builder
  <2>5. ASSUME NEW b \in Builder, Cleared(b) PROVE OwnershipInv'
    <3>1. Shape'
      BY <2>5 DEF Cleared, Goto, locals, Shape, Steps
    <3>2. OneRun' /\ Listings' /\ Reads'
      BY <2>5, MovesOn DEF Cleared, locals, Shape, Steps
    <3>3. Writes'
      BY <2>5 DEF Cleared, Goto, locals, Shape, Writes, Builder
    <3> QED
      BY <3>1, <3>2, <3>3
  <2>6. ASSUME NEW b \in Builder, Written(b) PROVE OwnershipInv'
    <3>1. Shape'
      BY <2>6 DEF Written, Goto, locals, Shape, Steps
    <3>2. OneRun' /\ Listings' /\ Reads'
      BY <2>6, MovesOn DEF Written, locals, Shape, Steps
    <3>3. Writes'
      BY <2>6 DEF Written, Goto, locals, Shape, Writes, Builder
    <3> QED
      BY <3>1, <3>2, <3>3
  <2>7. ASSUME NEW b \in Builder, EnsureNamespaces(b) PROVE OwnershipInv'
    <3> DEFINE managed == IF b = System THEN Root ELSE {b}
               added == {OwnNamespacePath(r) :
                            r \in LacksNamespace(wrote[b], owned[b], managed)}
    <3>1. /\ added \in SUBSET Path
          /\ RootsOf(wrote[b] \cup added) \subseteq RootsOf(wrote[b])
      BY NamespacesStayInRoots
    <3>3. /\ disk'.files = [p \in Path |-> IF p \in added THEN b
                                           ELSE disk.files[p]]
          /\ disk' = [disk EXCEPT !.files = disk'.files]
          /\ wrote' = [wrote EXCEPT ![b] = @ \cup added]
          /\ step[b] = "namespaces" /\ Goto(b, "open")
          /\ UNCHANGED <<config, owned, toClear>>
      BY <2>7 DEF EnsureNamespaces, locals, Shape, Tree
    <3> HIDE DEF added
    <3>4. disk' \in Tree /\ disk'.owners = disk.owners
      BY <3>3 DEF Shape, Tree
    <3>5. Shape'
      BY <3>1, <3>3, <3>4 DEF Goto, Shape, Steps
    <3>6. OneRun' /\ Listings' /\ Reads'
      BY <3>3, <3>4, MovesOn DEF Steps
    <3>7. Writes'
      BY <3>1, <3>3 DEF Goto, Shape, Writes, Builder
    <3> QED
      BY <3>5, <3>6, <3>7
  <2>8. ASSUME NEW b \in Builder, OpenOwnerFile(b) PROVE OwnershipInv'
    <3>1. disk' \in Tree /\ \A c \in Builder :
             Listed(disk', c) = IF c = b THEN {} ELSE Listed(disk, c)
      BY <2>8, OthersAreTheRest DEF OpenOwnerFile, Shape, Tree, Listed, OwnerFile
    <3>2. Shape'
      BY <2>8, <3>1 DEF OpenOwnerFile, Goto, locals, Shape, Steps
    <3>3. OneRun'
      BY <2>8 DEF OpenOwnerFile, Goto, Shape, OneRun
    <3>4. Listings'
      BY <3>1 DEF Listings, Builder
    <3>5. ListedByOthers(disk', b) = ListedByOthers(disk, b)
      BY <3>1, OthersKeep
    <3>6. Reads'
      BY <2>8, <3>5 DEF OpenOwnerFile, Goto, locals, Shape, OneRun, Reads, Builder
    <3>7. Writes'
      BY <2>8 DEF OpenOwnerFile, Goto, locals, Shape, Writes, Builder
    <3> QED
      BY <3>2, <3>3, <3>4, <3>6, <3>7
  <2>9. ASSUME NEW b \in Builder, DeclareOwner(b) PROVE OwnershipInv'
    <3> DEFINE roots == IF b = System THEN RootsOf(wrote[b]) ELSE {b}
    <3>1. roots \in SUBSET Root
      BY DEF Shape, RootsOf, RootOf, Path, Builder
    <3>2. disk' \in Tree /\ \A c \in Builder :
             Listed(disk', c) = IF c = b THEN roots ELSE Listed(disk, c)
      BY <2>9, <3>1, OthersAreTheRest
         DEF DeclareOwner, Shape, Tree, Listed, OwnerFile
    <3>3. roots \cap ListedByOthers(disk, b) = {}
      BY <2>9 DEF DeclareOwner, Reads, Writes, Builder
    <3>4. \A c \in Builder \ {b} : roots \cap Listed(disk, c) = {}
      BY <3>3, InOthers
    <3>5. roots \cap Claimed = {}
      BY <3>3, InOthers
    <3>6. Shape'
      BY <2>9, <3>2 DEF DeclareOwner, Goto, locals, Shape, Steps
    <3>7. OneRun'
      BY <2>9 DEF DeclareOwner, Goto, Shape, OneRun
    <3> HIDE DEF roots
    <3>8. Listings'
      <4>1. \A c \in NsBuilders : Listed(disk', c) \subseteq {c}
        BY <3>2 DEF Listings, Builder, roots
      <4> QED
        BY <3>2, <3>4, <3>5, <4>1 DEF Listings
    <3>9. ListedByOthers(disk', b) = ListedByOthers(disk, b)
      BY <3>2, OthersKeep
    <3>10. Reads'
      BY <2>9, <3>9 DEF DeclareOwner, Goto, locals, Shape, OneRun, Reads, Builder
    <3>11. Writes'
      BY <2>9 DEF DeclareOwner, Goto, locals, Shape, Writes, Builder
    <3> QED
      BY <3>6, <3>7, <3>8, <3>10, <3>11
  <2>10. ASSUME NEW b \in Builder, Collect(b) PROVE OwnershipInv'
    <3>1. OneRun' /\ Listings' /\ Reads' /\ step' \in [Builder -> Steps]
      BY <2>10, MovesOn DEF Collect, locals, Shape, Steps
    <3> QED
      BY <2>10, <3>1 DEF Collect, Goto, locals, Shape, Writes, Builder
  <2>11. ASSUME NEW b \in Builder, NoCommit(b) PROVE OwnershipInv'
    BY <2>11, EndOfRun DEF NoCommit
  <2>12. ASSUME NEW b \in Builder, Stage(b) PROVE OwnershipInv'
    <3>1. OneRun' /\ Listings' /\ Reads' /\ step' \in [Builder -> Steps]
      BY <2>12, MovesOn DEF Stage, locals, Shape, Steps
    <3> QED
      BY <2>12, <3>1 DEF Stage, Goto, locals, Shape, Writes, Builder
  <2>13. ASSUME NEW b \in Builder, NothingToCommit(b) PROVE OwnershipInv'
    BY <2>13, EndOfRun DEF NothingToCommit
  <2>14. ASSUME NEW b \in Builder, Commit(b) PROVE OwnershipInv'
    BY <2>14, EndOfRun DEF Commit
  <2>15. ASSUME NEW b \in Builder, Interrupt(b) PROVE OwnershipInv'
    BY <2>15, EndOfRun DEF Interrupt
  <2>16. CASE UNCHANGED vars
    BY <2>16, SameListings
       DEF vars, locals, Shape, OneRun, Listings, Reads, Writes, Builder
  <2> QED
    BY <2>1, <2>2, <2>3, <2>4, <2>5, <2>6, <2>7, <2>8, <2>9, <2>10, <2>11,
       <2>12, <2>13, <2>14, <2>15, <2>16 DEF Next, Run
<1> QED
  BY <1>1, <1>2, PTL DEF Spec

\* However often runs fail or are killed, no two owner files ever declare the
\* same root, as long as runs do not overlap.
THEOREM OwnersStayDisjoint ==
    ASSUME ~Overlap, OwnFiles PROVE Spec => []OwnersDisjoint
<1>1. OwnershipInv => OwnersDisjoint
  BY ListingsDisjoint DEF OwnershipInv
<1> QED
  BY <1>1, OwnershipInvInductive, PTL

\* And no run ever deletes a file of a root that another owner declares.
THEOREM OnlyUnclaimedIsDeleted ==
    ASSUME ~Overlap, OwnFiles PROVE Spec => DeletesOnlyUnclaimed
<1> USE OwnershipAssumption, LayoutAssumption
<1> DEFINE Unclaimed ==
        \A p \in Path : (disk.files[p] # Nobody /\ disk'.files[p] = Nobody) =>
           \E b \in Builder :
              /\ step[b] = "clear"
              /\ RootOf(p) \notin ListedByOthers(disk, b)
              /\ b = System => RootOf(p) \notin config[b].owners
<1>1. OwnershipInv /\ [Next]_vars => Unclaimed \/ UNCHANGED vars
  <2> SUFFICES ASSUME OwnershipInv, Next, NEW p \in Path,
                      disk.files[p] # Nobody, disk'.files[p] = Nobody
               PROVE  \E b \in Builder :
                         /\ step[b] = "clear"
                         /\ RootOf(p) \notin ListedByOthers(disk, b)
                         /\ b = System => RootOf(p) \notin config[b].owners
    OBVIOUS
  <2> disk \in Tree
    BY DEF OwnershipInv, Shape
  <2> USE DEF Tree
  <2>1. PICK b \in Builder : ClearFile(b, p)
    <3>1. ASSUME NEW b \in Builder, NEW q \in Path, Write(b, q) PROVE FALSE
      BY <3>1 DEF Write
    <3>2. ASSUME NEW b \in Builder, EnsureNamespaces(b) PROVE FALSE
      BY <3>2 DEF EnsureNamespaces
    <3>3. ASSUME NEW b \in Builder, OpenOwnerFile(b) \/ DeclareOwner(b)
          PROVE  FALSE
      BY <3>3 DEF OpenOwnerFile, DeclareOwner
    <3>4. ASSUME NEW b \in Builder, NEW q \in Path, ClearFile(b, q) PROVE p = q
      BY <3>4 DEF ClearFile
    <3>5. disk' # disk
      OBVIOUS
    <3> QED
      BY <3>1, <3>2, <3>3, <3>4, <3>5
         DEF Next, Run, BeginSystem, BeginNamespace, Cleared, Written, Collect,
             NoCommit, Stage, NothingToCommit, Commit, Interrupt
  <2>2. step[b] = "clear" /\ RootOf(p) \in toClear[b]
    BY <2>1 DEF ClearFile
  <2> QED
    BY <2>2 DEF OwnershipInv, Reads, Writes, Builder
<1> QED
  BY <1>1, OwnershipInvInductive, PTL DEF DeletesOnlyUnclaimed, Spec

\* The types, and the namespace builders' own files, whoever runs next to whom.
OwnInv ==
    /\ TypeOK
    /\ OwnFiles => \A b \in NsBuilders : Listed(disk, b) \subseteq {b}

\* A run that ends leaves the trees to what it was given.
LEMMA EndOfRunTypes ==
    ASSUME OwnInv, NEW b \in Builder, Goto(b, "idle"), Forget(b),
           UNCHANGED <<deployment, disk, index>>, head' \in Tree
    PROVE  OwnInv'
<1>1. TypeOK'
  BY DEF OwnInv, TypeOK, Goto, Forget, Steps, EmptyConfig, Config
<1>2. \A c \in Builder : Listed(disk', c) = Listed(disk, c)
  BY SameListings
<1> QED
  BY <1>1, <1>2 DEF OwnInv, OwnFiles, Builder

\* A run that begins has read what is declared.
LEMMA BeginTypes ==
    ASSUME OwnInv, NEW b \in Builder, NEW c \in deployment.configs[b],
           \/ b = System /\ BeginSystem(c)
           \/ b \in NsBuilders /\ BeginNamespace(b, c),
           UNCHANGED deployment
    PROVE  OwnInv'
<1> USE DEF OwnInv, TypeOK
<1>1. c \in Config
  BY OwnershipAssumption DEF Deployment
<1>2. /\ c.owners \in SUBSET Root /\ Listed(disk, b) \in SUBSET Root
      /\ ListedByOthers(disk, b) \in SUBSET Root
  BY <1>1, RootsAreListed DEF Config
<1>3. /\ UNCHANGED <<disk, index, head, wrote, reported>>
      /\ config' = [config EXCEPT ![b] = c]
      /\ step' = [step EXCEPT ![b] = "clear"]
  BY DEF BeginSystem, BeginNamespace, Goto, git
<1>4. CASE b = System /\ BeginSystem(c)
  BY <1>1, <1>2, <1>3, <1>4 DEF BeginSystem, Steps, OwnFiles, Listed
<1>5. CASE b \in NsBuilders /\ BeginNamespace(b, c)
  <2>1. /\ owned' = [owned EXCEPT ![b] = (c.owners \cup ListedByOthers(disk, b)) \ {b}]
        /\ toClear' = [toClear EXCEPT ![b] = {b}]
        /\ before' = before
    BY <1>5 DEF BeginNamespace
  <2>2. {b} \in SUBSET Root
    BY <1>5, OwnershipAssumption
  <2> QED
    BY <1>1, <1>2, <1>3, <2>1, <2>2 DEF Steps, OwnFiles, Listed
<1> QED
  BY <1>4, <1>5

\* So do the steps of a run.
LEMMA RunTypes ==
    ASSUME OwnInv, NEW b \in Builder, Run(b), UNCHANGED deployment
    PROVE  OwnInv'
<1> USE DEF OwnInv, TypeOK
<1>1. \A c \in Builder : FileOf(c) \in OwnerFile
  BY DEF OwnerFile
<1>2. CASE \E p \in Path : ClearFile(b, p) \/ Write(b, p)
  <2> PICK p \in Path : ClearFile(b, p) \/ Write(b, p)
    BY <1>2
  <2>1. /\ UNCHANGED <<index, head, step, config, owned, before, toClear, reported>>
        /\ disk'.owners = disk.owners /\ disk' \in Tree
        /\ wrote' \in [Builder -> SUBSET Path]
    BY DEF ClearFile, Write, git, locals, Tree
  <2>2. \A c \in Builder : Listed(disk', c) = Listed(disk, c)
    BY <2>1, SameListings
  <2> QED
    BY <2>1, <2>2 DEF OwnFiles, Builder
<1>3. CASE Cleared(b) \/ Written(b) \/ Collect(b)
  <2>1. /\ UNCHANGED <<disk, index, head, config, owned, before, wrote>>
        /\ step' \in [Builder -> Steps] /\ toClear' \in [Builder -> SUBSET Root]
        /\ reported' \in [Builder -> SUBSET Path]
    BY <1>3 DEF Cleared, Written, Collect, Goto, git, locals, Steps, Changes
  <2> QED
    BY <2>1 DEF OwnFiles, Listed
<1>4. CASE EnsureNamespaces(b)
  <2> DEFINE managed == IF b = System THEN Root ELSE {b}
             added == {OwnNamespacePath(r) :
                          r \in LacksNamespace(wrote[b], owned[b], managed)}
  <2>1. added \subseteq Path
    <3> SUFFICES ASSUME NEW r \in LacksNamespace(wrote[b], owned[b], managed)
                 PROVE  OwnNamespacePath(r) \in Path
      OBVIOUS
    <3>1. r \in Root
      BY DEF LacksNamespace
    <3> QED
      BY <3>1, LayoutAssumption DEF OwnNamespacePath, Path
  <2>2. /\ UNCHANGED <<index, head, config, owned, before, toClear, reported>>
        /\ disk' = [disk EXCEPT !.files =
                       [p \in Path |-> IF p \in added THEN b ELSE @[p]]]
        /\ wrote' = [wrote EXCEPT ![b] = @ \cup added]
        /\ step' = [step EXCEPT ![b] = "open"]
    BY <1>4 DEF EnsureNamespaces, Goto, git, locals
  <2> HIDE DEF added
  <2>3. disk' \in Tree /\ disk'.owners = disk.owners
    BY <2>2 DEF Tree
  <2>4. \A c \in Builder : Listed(disk', c) = Listed(disk, c)
    BY <2>3, SameListings
  <2>5. wrote' \in [Builder -> SUBSET Path] /\ step' \in [Builder -> Steps]
    BY <2>1, <2>2 DEF Steps
  <2> QED
    BY <2>2, <2>3, <2>4, <2>5 DEF OwnFiles, Builder
<1>5. CASE OpenOwnerFile(b) \/ DeclareOwner(b)
  <2>1. PICK roots \in SUBSET Root :
           /\ disk' = [disk EXCEPT !.owners[FileOf(b)] = roots]
           /\ b # System => roots \subseteq {b}
    <3>1. RootsOf(wrote[b]) \in SUBSET Root
      BY DEF RootsOf, RootOf, Path
    <3>2. CASE OpenOwnerFile(b)
      <4> DEFINE roots == {}
      <4>1. disk' = [disk EXCEPT !.owners[FileOf(b)] = roots]
        BY <3>2 DEF OpenOwnerFile
      <4>2. roots \in SUBSET Root /\ roots \subseteq {b}
        OBVIOUS
      <4> HIDE DEF roots
      <4> QED
        BY <4>1, <4>2
    <3>3. CASE DeclareOwner(b)
      <4> DEFINE roots == IF b = System THEN RootsOf(wrote[b]) ELSE {b}
      <4>1. disk' = [disk EXCEPT !.owners[FileOf(b)] = roots]
        BY <3>3 DEF DeclareOwner
      <4>2. roots \in SUBSET Root /\ (b # System => roots \subseteq {b})
        BY <3>1, OwnershipAssumption DEF Builder
      <4> HIDE DEF roots
      <4> QED
        BY <4>1, <4>2
    <3> QED
      BY <1>5, <3>2, <3>3
  <2>2. /\ UNCHANGED <<index, head, config, owned, before, toClear, wrote, reported>>
        /\ step' \in [Builder -> Steps]
    BY <1>5 DEF OpenOwnerFile, DeclareOwner, Goto, git, locals, Steps
  <2>3. disk' \in Tree
    BY <1>1, <2>1 DEF Tree
  <2>4. ASSUME OwnFiles, NEW c \in NsBuilders PROVE Listed(disk', c) \subseteq {c}
    <3>1. c \in Builder /\ c # System
      BY OwnershipAssumption DEF Builder
    <3>2. CASE c = b
      <4>1. disk'.owners[FileOf(c)] = roots
        BY <1>1, <2>1, <3>2 DEF Tree
      <4> QED
        BY <2>1, <3>1, <3>2, <4>1 DEF Listed
    <3>3. CASE c # b
      <4>1. FileOf(c) # FileOf(b)
        BY <2>4, <3>1, <3>3, OthersAreTheRest
      <4>2. disk'.owners[FileOf(c)] = disk.owners[FileOf(c)]
        BY <1>1, <2>1, <3>1, <4>1 DEF Tree
      <4> QED
        BY <2>4, <4>2 DEF Listed
    <3> QED
      BY <3>2, <3>3
  <2> QED
    BY <2>2, <2>3, <2>4 DEF OwnFiles
<1>6. CASE Stage(b)
  <2>1. Staged(b, index) \in Tree
    BY <1>1 DEF Staged, Tree
  <2> QED
    BY <1>6, <2>1 DEF Stage, Goto, locals, Steps, OwnFiles, Listed
<1>7. CASE NoCommit(b) \/ NothingToCommit(b) \/ Commit(b)
  <2>1. Goto(b, "idle") /\ Forget(b) /\ UNCHANGED <<disk, index>> /\ head' \in Tree
    BY <1>7 DEF NoCommit, NothingToCommit, Commit, git
  <2> QED
    BY <2>1, EndOfRunTypes
<1> QED
  BY <1>2, <1>3, <1>4, <1>5, <1>6, <1>7 DEF Run

LEMMA OwnInvInductive == Spec => []OwnInv
<1>1. Init => OwnInv
  <2> SUFFICES ASSUME Init PROVE OwnInv
    OBVIOUS
  <2>1. EmptyTree \in Tree
    BY DEF EmptyTree, Tree
  <2>2. TypeOK
    BY <2>1 DEF Init, TypeOK, Steps, EmptyConfig, Config
  <2>3. \A b \in NsBuilders : Listed(disk, b) = {}
    BY DEF Init, EmptyTree, Listed, OwnerFile, Builder
  <2> QED
    BY <2>2, <2>3 DEF OwnInv
<1>2. OwnInv /\ [Next]_vars => OwnInv'
  <2> SUFFICES ASSUME OwnInv, [Next]_vars PROVE OwnInv'
    OBVIOUS
  <2>1. ASSUME NEW b \in Builder, Interrupt(b), UNCHANGED deployment PROVE OwnInv'
    <3>1. Goto(b, "idle") /\ Forget(b) /\ UNCHANGED <<disk, index, head>>
      BY <2>1 DEF Interrupt, git
    <3>2. head' \in Tree
      BY <3>1 DEF OwnInv, TypeOK
    <3> QED
      BY <2>1, <3>1, <3>2, EndOfRunTypes
  <2>2. CASE UNCHANGED vars
    BY <2>2 DEF vars, locals, OwnInv, TypeOK, OwnFiles, Listed
  <2>3. CASE UNCHANGED deployment /\ \E c \in deployment.configs[System] : BeginSystem(c)
    BY <2>3, BeginTypes DEF Builder
  <2>4. CASE /\ UNCHANGED deployment
             /\ \E b \in NsBuilders : \E c \in deployment.configs[b] : BeginNamespace(b, c)
    BY <2>4, BeginTypes DEF Builder
  <2> QED
    BY <2>1, <2>2, <2>3, <2>4, RunTypes DEF Next
<1> QED
  BY <1>1, <1>2, PTL DEF Spec

\* Every variable keeps its type, whether or not runs overlap: owner files list
\* roots, and manifests are of builders.
THEOREM OwnershipTypes == Spec => []TypeOK
BY OwnInvInductive, PTL DEF OwnInv

\* Nor does a namespace builder replace a declaration that is not its own, even if
\* runs overlap: the name "system" is the only way to (run own_system_namespace).
THEOREM OnlyOwnDeclarationsAreReplaced ==
    ASSUME OwnFiles PROVE Spec => ReplacesOwnDeclaration
<1>1. OwnInv =>
         \A b \in NsBuilders : (step[b] = "open" /\ step'[b] = "declare") =>
            Listed(disk, b) \subseteq {b}
  BY DEF OwnInv
<1> QED
  BY <1>1, OwnInvInductive, PTL DEF ReplacesOwnDeclaration
-----------------------------------------------------------------------------
(* Commits. *)

\* A run that has staged its changes goes on to commit them.  (Otherwise they are
\* committed by whoever comes next.)
CommitsFollow == \A d \in Deployments : "commit" \notin d.fails

\* The index is HEAD, but for what a run has staged; what a run reports is how
\* its roots differ from HEAD.
CommitInv ==
    /\ index \in Tree /\ head \in Tree /\ reported \in [Builder -> SUBSET Path]
    /\ (\A b \in Builder : step[b] # "commit") => index = head
    /\ \A b \in Builder :
          /\ step[b] = "commit" => index = Staged(b, head)
          /\ step[b] \in {"stage", "commit"} =>
                reported[b] = Changes(head, disk, ReportRoots(b))

LEMMA TreesAreEqual ==
    ASSUME NEW t \in Tree, NEW u \in Tree,
           \A p \in Path : t.files[p] = u.files[p],
           \A f \in OwnerFile : t.owners[f] = u.owners[f]
    PROVE  t = u
<1>1. t.files = u.files
  BY DEF Tree
<1>2. t.owners = u.owners
  BY DEF Tree
<1> QED BY <1>1, <1>2 DEF Tree

LEMMA StagedTree ==
    ASSUME OwnershipInv, NEW b \in Builder, NEW t \in Tree
    PROVE  /\ Staged(b, t) \in Tree
           /\ \A p \in Path : Staged(b, t).files[p] =
                 IF RootOf(p) \in CommitRoots(b) THEN disk.files[p] ELSE t.files[p]
           /\ \A f \in OwnerFile : Staged(b, t).owners[f] =
                 IF f = FileOf(b) THEN disk.owners[f] ELSE t.owners[f]
<1>1. disk \in Tree /\ FileOf(b) \in OwnerFile
  BY DEF OwnershipInv, Shape, OwnerFile
<1> QED BY <1>1 DEF Staged, Tree

\* The roots of a run are fixed by what it read and wrote.
LEMMA SameCommitRoots ==
    ASSUME UNCHANGED <<before, owned, wrote>>
    PROVE  \A b : CommitRoots(b)' = CommitRoots(b) /\ ReportRoots(b)' = ReportRoots(b)
BY DEF CommitRoots, ReportRoots

\* A run that has nothing to commit has staged what HEAD holds.
LEMMA NothingStaged ==
    ASSUME OwnershipInv, CommitInv, NEW b \in Builder, NothingToCommit(b)
    PROVE  index = head /\ head = Staged(b, head)
<1>1. index = Staged(b, head)
  BY DEF NothingToCommit, CommitInv
<1>2. \A p \in Path : head.files[p] = index.files[p]
  BY <1>1, StagedTree DEF NothingToCommit, HasChanges, Changes, CommitInv
<1>3. \A f \in OwnerFile : head.owners[f] = index.owners[f]
  BY <1>1, StagedTree DEF NothingToCommit, HasChanges, CommitInv
<1>4. index = head
  BY <1>2, <1>3, TreesAreEqual DEF CommitInv
<1> QED BY <1>1, <1>4

LEMMA CommitInvInductive ==
    ASSUME ~Overlap, OwnFiles, CommitsFollow PROVE Spec => []CommitInv
<1>1. Init => CommitInv
  <2> SUFFICES ASSUME Init PROVE CommitInv
    OBVIOUS
  <2>1. EmptyTree \in Tree
    BY DEF EmptyTree, Tree
  <2> QED BY <2>1 DEF Init, CommitInv
<1>2. OwnershipInv /\ CommitInv /\ [Next]_vars => CommitInv'
  <2> SUFFICES ASSUME OwnershipInv, CommitInv, [Next]_vars PROVE CommitInv'
    OBVIOUS
  <2> step \in [Builder -> Steps] /\ OneRun
    BY DEF OwnershipInv, Shape
  \* A run that begins: everybody else is idle.
  <2>1. ASSUME NEW b \in Builder, \A c \in Builder : step[c] = "idle",
               Goto(b, "clear"), UNCHANGED <<git, reported>>
        PROVE  CommitInv'
    BY <2>1 DEF CommitInv, Goto, git
  \* A step of a run before it reports.
  <2>2. ASSUME NEW b \in Builder, NEW s \in Steps \ {"stage", "commit"},
               step[b] \notin {"idle", "commit"}, Goto(b, s),
               UNCHANGED <<git, reported>>
        PROVE  CommitInv'
    <3>1. \A c \in Builder : step[c] # "commit" /\ step'[c] \notin {"stage", "commit"}
      BY <2>2 DEF OneRun, Goto
    <3> QED BY <2>2, <3>1 DEF CommitInv, git
  <2>3. ASSUME NEW b \in Builder, NEW p \in Path, ClearFile(b, p) \/ Write(b, p)
        PROVE  CommitInv'
    <3>1. /\ step' = [step EXCEPT ![b] = step[b]] /\ step[b] \in {"clear", "write"}
          /\ UNCHANGED <<git, reported>>
      BY <2>3 DEF ClearFile, Write
    <3>2. Goto(b, step[b]) /\ step[b] \in Steps \ {"stage", "commit"}
      BY <3>1 DEF Goto, Steps
    <3> QED BY <2>2, <3>1, <3>2
  <2>4. ASSUME NEW b \in Builder, Cleared(b) \/ Written(b) \/ EnsureNamespaces(b)
                                  \/ OpenOwnerFile(b) \/ DeclareOwner(b)
        PROVE  CommitInv'
    BY <2>2, <2>4 DEF Cleared, Written, EnsureNamespaces, OpenOwnerFile, DeclareOwner, Steps
  <2>5. ASSUME NEW b \in Builder, Collect(b) PROVE CommitInv'
    <3>1. /\ step[b] = "collect" /\ step' = [step EXCEPT ![b] = "stage"]
          /\ UNCHANGED <<disk, index, head, before, owned, wrote>>
          /\ reported' = [reported EXCEPT ![b] = Changes(head, disk, ReportRoots(b))]
      BY <2>5 DEF Collect, Goto, git, locals
    <3>2. \A c \in Builder \ {b} : step[c] = "idle" /\ step'[c] = "idle"
      BY <3>1 DEF OneRun
    <3>3. index = head
      BY <3>1, <3>2 DEF CommitInv
    <3>4. Changes(head, disk, ReportRoots(b)) \in SUBSET Path
      BY DEF Changes
    <3>5. reported'[b] = Changes(head, disk, ReportRoots(b))'
      BY <3>1, SameCommitRoots DEF CommitInv, Changes
    <3> QED BY <3>1, <3>2, <3>3, <3>4, <3>5 DEF CommitInv
  <2>6. ASSUME NEW b \in Builder, Stage(b) PROVE CommitInv'
    <3>1. /\ step[b] = "stage" /\ step' = [step EXCEPT ![b] = "commit"]
          /\ UNCHANGED <<disk, head, before, owned, wrote, reported>>
          /\ index' = Staged(b, index)
      BY <2>6 DEF Stage, Goto, locals
    <3>2. \A c \in Builder \ {b} : step[c] = "idle" /\ step'[c] = "idle"
      BY <3>1 DEF OneRun
    <3>3. index = head
      BY <3>1, <3>2 DEF CommitInv
    <3>4. index' \in Tree
      BY <3>1, StagedTree DEF CommitInv
    <3>5. CommitRoots(b)' = CommitRoots(b) /\ ReportRoots(b)' = ReportRoots(b)
      BY <3>1, SameCommitRoots
    <3>6. index' = Staged(b, head)'
      BY <3>1, <3>3, <3>5 DEF Staged
    <3>7. reported'[b] = Changes(head, disk, ReportRoots(b))'
      BY <3>1, <3>5 DEF CommitInv, Changes
    <3> QED BY <3>1, <3>2, <3>4, <3>6, <3>7 DEF CommitInv
  \* A run that ends: the index is HEAD then.
  <2>7. ASSUME NEW b \in Builder, Goto(b, "idle"), Forget(b), step[b] # "idle",
               index' = head', head' \in Tree
        PROVE  CommitInv'
    <3>1. \A c \in Builder : step'[c] = "idle"
      BY <2>7 DEF OneRun, Goto
    <3> QED BY <2>7, <3>1 DEF CommitInv, Forget
  <2>8. ASSUME NEW b \in Builder, NoCommit(b) \/ Interrupt(b) PROVE CommitInv'
    <3>1. step[b] # "commit" /\ step[b] # "idle"
      BY <2>8, OwnershipAssumption
         DEF NoCommit, Interrupt, Refused, CommitsFollow, OwnershipInv, Shape, Deployment
    <3>2. index = head
      BY <3>1 DEF CommitInv, OneRun
    <3> QED BY <2>7, <2>8, <3>1, <3>2 DEF NoCommit, Interrupt, git, CommitInv
  <2>9. ASSUME NEW b \in Builder, NothingToCommit(b) PROVE CommitInv'
    <3>1. step[b] = "commit" /\ index = head /\ UNCHANGED <<index, head>>
      BY <2>9, NothingStaged DEF NothingToCommit, CommitInv, git
    <3> QED BY <2>7, <2>9, <3>1 DEF NothingToCommit, CommitInv
  <2>10. ASSUME NEW b \in Builder, Commit(b) PROVE CommitInv'
    BY <2>7, <2>10 DEF Commit, CommitInv
  <2>11. CASE UNCHANGED vars
    <3>1. UNCHANGED <<disk, step, index, head, before, owned, wrote, reported>>
      BY <2>11 DEF vars, git, locals
    <3> QED BY <3>1, SameCommitRoots DEF CommitInv, Staged, Changes
  <2>12. ASSUME NEW c \in deployment.configs[System], BeginSystem(c) PROVE CommitInv'
    BY <2>1, <2>12 DEF BeginSystem, MayBegin, Builder
  <2>13. ASSUME NEW b \in NsBuilders, NEW c \in deployment.configs[b], BeginNamespace(b, c)
         PROVE  CommitInv'
    BY <2>1, <2>13 DEF BeginNamespace, MayBegin, Builder
  <2> QED BY <2>3, <2>4, <2>5, <2>6, <2>8, <2>9, <2>10, <2>11, <2>12, <2>13 DEF Next, Run
<1> QED BY <1>1, <1>2, OwnershipInvInductive, PTL DEF Spec

\* What the step that commits for b does to HEAD.
LEMMA CommitSteps ==
    ASSUME OwnershipInv, CommitInv, Next, NEW b \in Builder, CommitsFor(b)
    PROVE  head' = Staged(b, head)
<1>1. step[b] = "commit" /\ head' # head /\ index = Staged(b, head)
  BY DEF CommitsFor, CommitInv
<1>2. head' = index
  BY <1>1 DEF Next, Run, BeginSystem, BeginNamespace, ClearFile, Write, Cleared, Written,
     EnsureNamespaces, OpenOwnerFile, DeclareOwner, Collect, NoCommit, Stage,
     NothingToCommit, Commit, Interrupt, git
<1> QED BY <1>1, <1>2

\* A commit changes nothing outside the roots of its run and the owner file of its
\* builder.
THEOREM CommitsAlwaysStay ==
    ASSUME ~Overlap, OwnFiles, CommitsFollow PROVE Spec => CommitsStayInTheirRoots
<1>1. OwnershipInv /\ CommitInv /\ [Next]_vars =>
         [\A b \in Builder : CommitsFor(b) =>
            /\ RootsOf(Changes(head, head', Root)) \subseteq CommitRoots(b)
            /\ \A f \in OwnerFile \ {FileOf(b)} : head'.owners[f] = head.owners[f]]_vars
  <2> SUFFICES ASSUME OwnershipInv, CommitInv, Next, NEW b \in Builder, CommitsFor(b)
               PROVE  /\ RootsOf(Changes(head, head', Root)) \subseteq CommitRoots(b)
                      /\ \A f \in OwnerFile \ {FileOf(b)} :
                            head'.owners[f] = head.owners[f]
    OBVIOUS
  <2>1. head' = Staged(b, head) /\ head \in Tree
    BY CommitSteps DEF CommitInv
  <2>2. \A p \in Path : RootOf(p) \notin CommitRoots(b) => head'.files[p] = head.files[p]
    BY <2>1, StagedTree
  <2> QED BY <2>1, <2>2, StagedTree DEF Changes, RootsOf
<1> QED BY <1>1, CommitInvInductive, OwnershipInvInductive, PTL
        DEF Spec, CommitsStayInTheirRoots

\* And what its run reported is what it changes.
THEOREM ReportIsAlwaysTheCommit ==
    ASSUME ~Overlap, OwnFiles, CommitsFollow PROVE Spec => ReportIsTheCommit
<1>1. OwnershipInv /\ CommitInv /\ [Next]_vars =>
         [\A b \in Builder : CommitsFor(b) /\ CommitRoots(b) # {} =>
            reported[b] = Changes(head, head', Root)]_vars
  <2> SUFFICES ASSUME OwnershipInv, CommitInv, Next, NEW b \in Builder, CommitsFor(b),
                      CommitRoots(b) # {}
               PROVE  reported[b] = Changes(head, head', Root)
    OBVIOUS
  <2>1. head' = Staged(b, head) /\ head \in Tree
    BY CommitSteps DEF CommitInv
  <2>2. reported[b] = Changes(head, disk, CommitRoots(b))
    BY DEF CommitsFor, CommitInv, ReportRoots
  <2>3. \A p \in Path : head'.files[p] = IF RootOf(p) \in CommitRoots(b)
                                         THEN disk.files[p] ELSE head.files[p]
    BY <2>1, StagedTree
  <2>4. \A p \in Path : RootOf(p) \in Root
    BY DEF Path, RootOf
  <2> QED BY <2>2, <2>3, <2>4 DEF Changes
<1> QED BY <1>1, CommitInvInductive, OwnershipInvInductive, PTL
        DEF Spec, ReportIsTheCommit
-----------------------------------------------------------------------------
(* Tidy runs. *)

\* A run between clearing its roots and declaring what it wrote, and after.
Working == {"write", "namespaces", "open", "declare"}
Late == {"collect", "stage", "commit"}

\* The roots the run of b writes into, and those it declares.
Target(b) == IF b = System THEN RootsOf(config[b].docs) ELSE {b}
ToDeclare(b) == IF b = System THEN RootsOf(wrote[b]) ELSE {b}

\* What a tidy run of b relies on: it clears all that b declared, and then writes
\* where nobody else does.
TidyRun(b) ==
    /\ step[b] # "idle" => config[b] \in deployment.configs[b]
    /\ b \in NsBuilders /\ step[b] # "idle" => b \notin owned[b]
    /\ step[b] \in {"idle", "clear"} => wrote[b] = {}
    /\ step[b] = "clear" => toClear[b] = IF b = System THEN Listed(disk, b) ELSE {b}
    /\ step[b] \in Working \cup Late =>
          /\ config[b].homes \cap owned[b] = {}
          /\ RootsOf(wrote[b]) \subseteq Target(b)
    /\ step[b] \in Late => Listed(disk, b) = ToDeclare(b)

\* Its roots, old and new, hold what it wrote and nothing else.
Exact(b) ==
    step[b] \in Working \cup Late =>
        \A p \in Path : RootOf(p) \in Listed(disk, b) \cup Target(b) =>
            disk.files[p] = IF p \in wrote[b] THEN b ELSE Nobody

\* Nothing is on disk that no owner file declares, but what a run is writing.
Declared ==
    \A p \in Path : disk.files[p] # Nobody =>
        \/ \E c \in Builder : RootOf(p) \in Listed(disk, c)
        \/ \E b \in Builder : step[b] \in Working /\ p \in wrote[b]

\* What others own is theirs from outside, or a namespace builder's, and nothing
\* that system generation declared.
SystemOwned ==
    step[System] # "idle" => /\ owned[System] \subseteq Claimed \cup NsBuilders
                             /\ owned[System] \cap before[System] = {}

\* HEAD holds manifests of system generation in the roots it declared last.
HeadDeclared ==
    /\ before \in [Builder -> SUBSET Root]
    /\ step[System] \in {"clear", "write", "namespaces", "open"} =>
          before[System] = Listed(disk, System)
    /\ \A p \in Path : head.files[p] = System =>
          RootOf(p) \in IF step[System] = "idle" THEN Listed(disk, System)
                        ELSE before[System]

TidyInv ==
    Tidy => /\ \A b \in Builder : TidyRun(b) /\ Exact(b)
            /\ Declared /\ SystemOwned /\ HeadDeclared

\* A step of the run of b does nothing to the other builders, which are idle.
LEMMA OthersIdle ==
    ASSUME OwnershipInv, TidyInv, Tidy, NEW b \in Builder, step[b] # "idle",
           UNCHANGED deployment,
           \A c \in Builder \ {b} : step'[c] = step[c] /\ wrote'[c] = wrote[c],
           TidyRun(b)', Exact(b)'
    PROVE  \A c \in Builder : TidyRun(c)' /\ Exact(c)'
<1>1. \A c \in Builder \ {b} : step[c] = "idle"
  BY DEF OwnershipInv, OneRun
<1>2. \A c \in Builder \ {b} : step'[c] = "idle" /\ wrote'[c] = {}
  BY <1>1 DEF TidyInv, TidyRun
<1>3. \A c \in Builder \ {b} : TidyRun(c)' /\ Exact(c)'
  BY <1>2 DEF TidyRun, Exact, Working, Late
<1> QED BY <1>3

\* Where a tidy run may write, nobody has anything but what b declared.
LEMMA TargetsAreFree ==
    ASSUME OwnFiles, OwnershipInv, TidyInv, Tidy, NEW b \in Builder, step[b] = "clear",
           config[b].homes \cap owned[b] = {},
           NEW p \in Path, RootOf(p) \in Target(b), RootOf(p) \notin toClear[b]
    PROVE  disk.files[p] = Nobody
<1> SUFFICES ASSUME disk.files[p] # Nobody PROVE FALSE
  OBVIOUS
<1>1. b = System
  BY DEF Target, TidyInv, TidyRun
<1>2. \A c \in Builder : step[c] \notin Working
  BY DEF OwnershipInv, OneRun, Working
<1>3. PICK c \in Builder : RootOf(p) \in Listed(disk, c)
  BY <1>2 DEF TidyInv, Declared
<1>4. c # System
  BY <1>1, <1>3 DEF TidyInv, TidyRun
<1>5. RootOf(p) \in owned[System]
  BY <1>1, <1>3, <1>4, InOthers DEF OwnershipInv, Reads, Builder
<1>6. RootOf(p) \in config[b].homes \cup {Cluster}
  BY <1>1 DEF TidyInv, TidyRun, Tidy, Target
<1>7. Cluster \notin owned[System]
  BY <1>1 DEF TidyInv, SystemOwned, Tidy
<1> QED BY <1>1, <1>5, <1>6, <1>7

\* A tidy run is refused before it writes, if at all.
LEMMA TidyRunsGoOn ==
    ASSUME OwnershipInv, TidyInv, Tidy, NEW b \in Builder, Interrupt(b)
    PROVE  step[b] = "clear"
<1> SUFFICES ASSUME step[b] # "clear" PROVE FALSE
  OBVIOUS
<1>1. Refused(b) /\ step[b] \in {"write", "open"}
  BY DEF Interrupt, Refused, Tidy
<1>2. /\ config[b] \in deployment.configs[b]
      /\ config[b].homes \cap owned[b] = {} /\ RootsOf(wrote[b]) \subseteq Target(b)
  BY <1>1 DEF TidyInv, TidyRun, Working
<1>3. CASE b = System
  <2>1. RootsOf(wrote[b]) \subseteq config[b].homes \cup {Cluster}
    BY <1>2, <1>3 DEF Target, Tidy
  <2>2. Cluster \notin owned[b]
    BY <1>1, <1>3 DEF TidyInv, SystemOwned, Tidy
  <2> QED BY <1>1, <1>2, <1>3, <2>1, <2>2 DEF Refused
<1>4. CASE b # System
  <2>1. b \in NsBuilders /\ RootsOf(wrote[b]) \subseteq {b}
    BY <1>2, <1>4 DEF Target, Builder
  <2>2. b # Cluster
    BY <2>1 DEF Tidy
  <2>3. CASE step[b] = "open"
    BY <1>1, <2>1, <2>2, <2>3 DEF Refused
  <2>4. CASE step[b] = "write"
    <3>1. b \notin owned[b]
      BY <2>1, <2>4 DEF TidyInv, TidyRun
    <3> QED BY <1>1, <2>1, <2>4, <3>1 DEF Refused
  <2> QED BY <1>1, <2>3, <2>4
<1> QED BY <1>3, <1>4

LEMMA TidyBegins ==
    ASSUME ~Overlap, OwnFiles, OwnershipInv, TidyInv, Tidy, UNCHANGED deployment,
           NEW b \in Builder, NEW c \in deployment.configs[b],
           \/ b = System /\ BeginSystem(c)
           \/ b \in NsBuilders /\ BeginNamespace(b, c)
    PROVE  TidyInv'
<1> USE DEF BeginSystem, BeginNamespace, MayBegin, Goto
<1> System \in Builder
  BY DEF Builder
<1> Shape /\ Listings
  BY DEF OwnershipInv
<1> USE DEF Shape
<1>1. /\ \A d \in Builder : step[d] = "idle" /\ wrote[d] = {}
      /\ UNCHANGED <<disk, head, wrote>>
      /\ config'[b] = c /\ step'[b] = "clear"
      /\ \A d \in Builder \ {b} : step'[d] = "idle"
  BY DEF TidyInv, TidyRun, git
<1>2. \A d \in Builder \ {b} : TidyRun(d)' /\ Exact(d)'
  BY <1>1 DEF TidyRun, Exact, Working, Late
<1>3. \A p \in Path : disk.files[p] # Nobody =>
         \E d \in Builder : RootOf(p) \in Listed(disk, d)
  BY <1>1 DEF TidyInv, Declared, Working
<1>4. Declared'
  BY <1>1, <1>3 DEF Declared
<1>5. CASE b = System /\ BeginSystem(c)
  <2>1. c.owners \subseteq Claimed /\ Claimed \subseteq ListedByOthers(disk, System)
    BY <1>5 DEF Tidy, ListedByOthers
  <2>2. Listed(disk, System) \cap ListedByOthers(disk, System) = {}
    BY ListingsDisjoint DEF OwnersDisjoint
  <2>3. /\ toClear'[b] = Listed(disk, System) /\ before' = [before EXCEPT ![System] = Listed(disk, System)]
        /\ owned'[b] = ListedByOthers(disk, System)
    BY <1>5, <2>1, <2>2
  <2>4. ListedByOthers(disk, System) \subseteq Claimed \cup NsBuilders
    <3> SUFFICES ASSUME NEW r \in ListedByOthers(disk, System), r \notin Claimed
                 PROVE  r \in NsBuilders
      OBVIOUS
    <3>1. PICK d \in Builder \ {System} : r \in Listed(disk, d)
      BY InOthers
    <3> QED BY <3>1 DEF Listings, Builder
  <2>5. System \notin NsBuilders
    BY OwnershipAssumption
  <2>6. TidyRun(b)' /\ Exact(b)'
    BY <1>1, <1>5, <2>3, <2>5 DEF TidyRun, Exact, Working, Late
  <2>7. before' \in [Builder -> SUBSET Root] /\ before'[System] = Listed(disk, System)
    <3>1. Listed(disk, System) \in SUBSET Root
      BY RootsAreListed
    <3> QED BY <2>3, <3>1 DEF TidyInv, HeadDeclared
  <2>8. SystemOwned' /\ HeadDeclared'
    <3>1. SystemOwned'
      BY <1>5, <2>2, <2>3, <2>4, <2>7 DEF SystemOwned
    <3>2. HeadDeclared'
      BY <1>1, <1>5, <2>7 DEF TidyInv, HeadDeclared
    <3> QED BY <3>1, <3>2
  <2> QED BY <1>2, <1>4, <2>6, <2>8 DEF TidyInv
<1>6. CASE b \in NsBuilders /\ BeginNamespace(b, c)
  <2>1. b # System /\ b \in NsBuilders
    BY <1>6, OwnershipAssumption
  <2>2. toClear'[b] = {b} /\ b \notin owned'[b] /\ before' = before
    BY <1>6
  <2>3. TidyRun(b)' /\ Exact(b)'
    BY <1>1, <2>1, <2>2 DEF TidyRun, Exact, Working, Late
  <2>4. SystemOwned' /\ HeadDeclared'
    BY <1>1, <2>1, <2>2 DEF TidyInv, SystemOwned, HeadDeclared
  <2> QED BY <1>2, <1>4, <2>3, <2>4 DEF TidyInv
<1> QED BY <1>5, <1>6

\* Steps of a run that leave the owner files alone: what is to be shown is that its
\* own roots go on holding what it wrote.
LEMMA TidyGoesOn ==
    ASSUME OwnershipInv, TidyInv, Tidy, NEW b \in Builder, step[b] # "idle",
           UNCHANGED <<deployment, head, config, owned, before>>,
           \A c \in Builder \ {b} : step'[c] = step[c] /\ wrote'[c] = wrote[c],
           step'[b] # "idle",
           step'[b] \in {"clear", "write", "namespaces", "open"} =>
               step[b] \in {"clear", "write", "namespaces", "open"},
           \A c \in Builder : Listed(disk', c) = Listed(disk, c),
           \A p \in Path : disk'.files[p] # Nobody =>
               \/ disk.files[p] # Nobody /\ (p \in wrote[b] => p \in wrote'[b])
               \/ p \in wrote'[b] /\ step'[b] \in Working,
           step[b] \in Working =>
               step'[b] \in Working /\ wrote[b] \subseteq wrote'[b],
           TidyRun(b)', Exact(b)'
    PROVE  TidyInv'
<1> System \in Builder
  BY DEF Builder
<1>1. \A c \in Builder : TidyRun(c)' /\ Exact(c)'
  BY OthersIdle
<1>2. Declared'
  <2> SUFFICES ASSUME NEW p \in Path, disk'.files[p] # Nobody
               PROVE  \/ \E c \in Builder : RootOf(p) \in Listed(disk', c)
                      \/ \E c \in Builder : step'[c] \in Working /\ p \in wrote'[c]
    BY DEF Declared
  <2>1. CASE disk.files[p] # Nobody
    <3>1. CASE \E c \in Builder : RootOf(p) \in Listed(disk, c)
      BY <3>1
    <3>2. CASE \E c \in Builder : step[c] \in Working /\ p \in wrote[c]
      <4>1. step[b] \in Working /\ p \in wrote[b]
        BY <3>2 DEF OwnershipInv, OneRun, Working
      <4> QED BY <4>1
    <3> QED BY <2>1, <3>1, <3>2 DEF TidyInv, Declared
  <2>2. CASE disk.files[p] = Nobody
    BY <2>2
  <2> QED BY <2>1, <2>2
<1>3. SystemOwned'
  <2>1. step'[System] # "idle" => step[System] # "idle"
    OBVIOUS
  <2> QED BY <2>1 DEF TidyInv, SystemOwned
<1>4. HeadDeclared'
  <2>1. step'[System] = "idle" <=> step[System] = "idle"
    OBVIOUS
  <2>2. step'[System] \in {"clear", "write", "namespaces", "open"} =>
           step[System] \in {"clear", "write", "namespaces", "open"}
    OBVIOUS
  <2> QED BY <2>1, <2>2 DEF TidyInv, HeadDeclared
<1> QED BY <1>1, <1>2, <1>3, <1>4 DEF TidyInv

LEMMA TidyClears ==
    ASSUME OwnFiles, OwnershipInv, TidyInv, Tidy, UNCHANGED deployment, NEW b \in Builder,
           Cleared(b) \/ \E p \in Path : ClearFile(b, p)
    PROVE  TidyInv'
<1> Shape /\ disk \in Tree
  BY DEF OwnershipInv, Shape
<1>1. ASSUME NEW p \in Path, ClearFile(b, p) PROVE TidyInv'
  <2>1. /\ step[b] = "clear" /\ UNCHANGED <<head, step, config, owned, before, toClear, wrote>>
        /\ disk'.owners = disk.owners
        /\ \A q \in Path : disk'.files[q] # Nobody => disk.files[q] # Nobody
    BY <1>1 DEF ClearFile, git, locals, Tree
  <2>2. \A c \in Builder : Listed(disk', c) = Listed(disk, c)
    BY <2>1, SameListings
  <2>3. TidyRun(b)' /\ Exact(b)'
    BY <2>1, <2>2 DEF TidyInv, TidyRun, Exact, Working, Late
  <2> QED BY <2>1, <2>2, <2>3, TidyGoesOn DEF Working
<1>2. CASE Cleared(b)
  <2>1. /\ step[b] = "clear" /\ step' = [step EXCEPT ![b] = "write"]
        /\ UNCHANGED <<disk, head, config, owned, before, wrote>>
        /\ config[b].homes \cap owned[b] = {}
        /\ \A p \in Path : RootOf(p) \in toClear[b] => disk.files[p] = Nobody
    BY <1>2 DEF Cleared, Goto, git, locals
  <2>2. /\ step'[b] = "write" /\ \A c \in Builder \ {b} : step'[c] = step[c]
        /\ wrote[b] = {}
    BY <2>1 DEF Shape, TidyInv, TidyRun
  <2>3. Listed(disk, b) \subseteq toClear[b]
    BY <2>1 DEF TidyInv, TidyRun, OwnershipInv, Listings, Builder
  <2>4. \A p \in Path : RootOf(p) \in Listed(disk, b) \cup Target(b) =>
           disk.files[p] = Nobody
    BY <2>1, <2>3, TargetsAreFree
  <2>5. Exact(b)'
    BY <2>1, <2>2, <2>4 DEF Exact, Target
  <2>6. TidyRun(b)'
    BY <2>1, <2>2 DEF TidyInv, TidyRun, RootsOf, Working, Late
  <2> QED BY <2>1, <2>2, <2>5, <2>6, TidyGoesOn DEF Working
<1> QED BY <1>1, <1>2

LEMMA TidyWrites ==
    ASSUME OwnershipInv, TidyInv, Tidy, UNCHANGED deployment, NEW b \in Builder,
           Written(b) \/ \E p \in Path : Write(b, p)
    PROVE  TidyInv'
<1> Shape /\ disk \in Tree /\ step \in [Builder -> Steps]
  BY DEF OwnershipInv, Shape
<1>1. ASSUME NEW p \in Path, Write(b, p) PROVE TidyInv'
  <2>1. /\ step[b] = "write" /\ UNCHANGED <<head, step, config, owned, before>>
        /\ disk'.owners = disk.owners /\ p \in config[b].docs
        /\ disk'.files = [disk.files EXCEPT ![p] = b]
        /\ wrote' = [wrote EXCEPT ![b] = @ \cup {p}]
    BY <1>1 DEF Write, git, locals, Tree
  <2>2. wrote'[b] = wrote[b] \cup {p} /\ \A c \in Builder \ {b} : wrote'[c] = wrote[c]
    BY <2>1 DEF Shape
  <2>3. \A c \in Builder : Listed(disk', c) = Listed(disk, c)
    BY <2>1, SameListings
  <2>4. \A q \in Path : disk'.files[q] = IF q = p THEN b ELSE disk.files[q]
    BY <2>1 DEF Tree
  <2>5. RootOf(p) \in Target(b)
    <3>1. CASE b = System
      BY <2>1, <3>1 DEF Target, RootsOf
    <3>2. CASE b # System
      <4>1. b \in NsBuilders /\ config[b] \in deployment.configs[b]
        BY <2>1, <3>2 DEF TidyInv, TidyRun, Builder
      <4> QED BY <2>1, <3>2, <4>1 DEF Tidy, Target, RootsOf
    <3> QED BY <3>1, <3>2
  <2>6. Exact(b)'
    <3>1. Target(b)' = Target(b) /\ Listed(disk', b) = Listed(disk, b)
      BY <2>1, <2>3 DEF Target
    <3>2. \A q \in Path : RootOf(q) \in Listed(disk, b) \cup Target(b) =>
             disk.files[q] = IF q \in wrote[b] THEN b ELSE Nobody
      BY <2>1 DEF TidyInv, Exact, Working
    <3>3. \A q \in Path : RootOf(q) \in Listed(disk, b) \cup Target(b) =>
             disk'.files[q] = IF q \in wrote'[b] THEN b ELSE Nobody
      BY <2>2, <2>4, <3>2
    <3> QED BY <3>1, <3>3 DEF Exact
  <2>7. TidyRun(b)'
    <3>1. Target(b)' = Target(b)
      BY <2>1 DEF Target
    <3>2. RootsOf(wrote'[b]) \subseteq Target(b)
      <4>1. RootsOf(wrote[b]) \subseteq Target(b)
        BY <2>1 DEF TidyInv, TidyRun, Working
      <4> QED BY <2>2, <2>5, <4>1 DEF RootsOf
    <3> QED BY <2>1, <2>3, <3>1, <3>2 DEF TidyInv, TidyRun, Working, Late
  <2> QED BY <2>1, <2>2, <2>3, <2>4, <2>6, <2>7, TidyGoesOn DEF Working
<1>2. CASE Written(b)
  <2>1. /\ step[b] = "write" /\ step'[b] = "namespaces"
        /\ \A c \in Builder \ {b} : step'[c] = step[c]
        /\ UNCHANGED <<disk, head, config, owned, before, wrote>>
    BY <1>2 DEF Written, Goto, git, locals
  <2>2. Target(b)' = Target(b) /\ Listed(disk', b) = Listed(disk, b)
    BY <2>1 DEF Target
  <2>3. TidyRun(b)'
    <3>1. /\ config[b] \in deployment.configs[b]
          /\ b \in NsBuilders => b \notin owned[b]
          /\ config[b].homes \cap owned[b] = {}
          /\ RootsOf(wrote[b]) \subseteq Target(b)
      BY <2>1 DEF TidyInv, TidyRun, Working
    <3>2. step'[b] \notin {"idle", "clear"} \cup Late
      BY <2>1 DEF Late
    <3> QED BY <2>1, <2>2, <3>1, <3>2 DEF TidyRun
  <2>4. \A p \in Path : RootOf(p) \in Listed(disk, b) \cup Target(b) =>
           disk.files[p] = IF p \in wrote[b] THEN b ELSE Nobody
    BY <2>1 DEF TidyInv, Exact, Working
  <2>5. Exact(b)'
    BY <2>1, <2>2, <2>4 DEF Exact
  <2> QED BY <2>1, <2>3, <2>5, TidyGoesOn DEF Working
<1> QED BY <1>1, <1>2

LEMMA TidyNamespaces ==
    ASSUME OwnershipInv, TidyInv, Tidy, UNCHANGED deployment, NEW b \in Builder,
           EnsureNamespaces(b)
    PROVE  TidyInv'
<1> Shape /\ disk \in Tree /\ step \in [Builder -> Steps]
  BY DEF OwnershipInv, Shape
<1> DEFINE managed == IF b = System THEN Root ELSE {b}
           added == {OwnNamespacePath(r) :
                        r \in LacksNamespace(wrote[b], owned[b], managed)}
<1>1. added \in SUBSET Path /\ RootsOf(wrote[b] \cup added) \subseteq RootsOf(wrote[b])
  BY NamespacesStayInRoots
<1>2. /\ step[b] = "namespaces" /\ step' = [step EXCEPT ![b] = "open"]
      /\ UNCHANGED <<head, config, owned, before>>
      /\ disk'.owners = disk.owners
      /\ disk'.files = [p \in Path |-> IF p \in added THEN b ELSE disk.files[p]]
      /\ wrote' = [wrote EXCEPT ![b] = @ \cup added]
  BY DEF EnsureNamespaces, Goto, git, locals, Tree
<1> HIDE DEF added
<1>3. /\ step'[b] = "open" /\ wrote'[b] = wrote[b] \cup added
      /\ \A c \in Builder \ {b} : step'[c] = step[c] /\ wrote'[c] = wrote[c]
  BY <1>2 DEF Shape
<1>4. \A c \in Builder : Listed(disk', c) = Listed(disk, c)
  BY <1>2, SameListings
<1>5. Exact(b)'
  BY <1>2, <1>3, <1>4 DEF TidyInv, Exact, Target, Working
<1>6. TidyRun(b)'
  <2>1. RootsOf(wrote[b]) \subseteq Target(b)
    BY <1>2 DEF TidyInv, TidyRun, Working
  <2> QED BY <1>1, <1>2, <1>3, <1>4, <2>1 DEF TidyInv, TidyRun, Target, Working, Late
<1>7. \A p \in Path : disk'.files[p] # Nobody => disk.files[p] # Nobody \/ p \in wrote'[b]
  BY <1>1, <1>2, <1>3
<1> QED BY <1>2, <1>3, <1>4, <1>5, <1>6, <1>7, TidyGoesOn DEF Working

LEMMA TidyReports ==
    ASSUME OwnershipInv, TidyInv, Tidy, UNCHANGED deployment, NEW b \in Builder,
           Collect(b) \/ Stage(b)
    PROVE  TidyInv'
<1>1. /\ step[b] \in {"collect", "stage"} /\ step'[b] \in {"stage", "commit"}
      /\ \A c \in Builder \ {b} : step'[c] = step[c]
      /\ UNCHANGED <<disk, head, config, owned, before, wrote>>
  BY DEF Collect, Stage, Goto, git, locals, OwnershipInv, Shape
<1>2. TidyRun(b)' /\ Exact(b)'
  BY <1>1 DEF TidyInv, TidyRun, Exact, Target, ToDeclare, Working, Late
<1> QED BY <1>1, <1>2, TidyGoesOn DEF Working

\* Declaring what was written: what b declared before is cleared or written again.
LEMMA TidyDeclares ==
    ASSUME OwnFiles, OwnershipInv, TidyInv, Tidy, UNCHANGED deployment, NEW b \in Builder,
           OpenOwnerFile(b) \/ DeclareOwner(b)
    PROVE  TidyInv'
<1> Shape /\ disk \in Tree /\ step \in [Builder -> Steps]
  BY DEF OwnershipInv, Shape
<1> System \in Builder
  BY DEF Builder
<1>1. /\ step[b] \in {"open", "declare"}
      /\ step[b] = "open" => step'[b] = "declare"
      /\ step[b] = "declare" => step'[b] = "collect"
      /\ \A c \in Builder \ {b} : step'[c] = step[c]
      /\ UNCHANGED <<head, config, owned, before, wrote>>
      /\ disk'.files = disk.files
  BY DEF OpenOwnerFile, DeclareOwner, Goto, git, locals, Tree
<1>2. /\ \A c \in Builder \ {b} : Listed(disk', c) = Listed(disk, c)
      /\ Listed(disk', b) = IF step[b] = "open" THEN {} ELSE ToDeclare(b)
  <2>1. CASE OpenOwnerFile(b)
    BY <2>1, OthersAreTheRest DEF OpenOwnerFile, Tree, Listed, OwnerFile
  <2>2. CASE DeclareOwner(b)
    <3>1. ToDeclare(b) # NoFile
      <4>1. RootsOf(wrote[b]) \in SUBSET Root /\ (b # System => {b} \in SUBSET Root)
        BY OwnershipAssumption DEF Shape, RootsOf, RootOf, Path, Builder
      <4> QED BY <4>1, OwnershipAssumption DEF ToDeclare
    <3> QED BY <2>2, <3>1, OthersAreTheRest DEF DeclareOwner, Tree, Listed, OwnerFile, ToDeclare
  <2> QED BY <2>1, <2>2
<1>3. RootsOf(wrote[b]) \subseteq Target(b) /\ ToDeclare(b) \subseteq Target(b)
  BY <1>1 DEF TidyInv, TidyRun, Working, ToDeclare, Target
<1>4. \A p \in Path : RootOf(p) \in Listed(disk, b) \cup Target(b) =>
         disk.files[p] = IF p \in wrote[b] THEN b ELSE Nobody
  BY <1>1 DEF TidyInv, Exact, Working
<1>5. Exact(b)'
  BY <1>1, <1>2, <1>3, <1>4 DEF Exact, Target
<1>6. TidyRun(b)'
  BY <1>1, <1>2, <1>3 DEF TidyInv, TidyRun, Target, ToDeclare, Working, Late
<1>7. \A c \in Builder : TidyRun(c)' /\ Exact(c)'
  BY <1>1, <1>5, <1>6, OthersIdle
<1>8. Declared'
  <2> SUFFICES ASSUME NEW p \in Path, disk.files[p] # Nobody
               PROVE  \/ \E c \in Builder : RootOf(p) \in Listed(disk', c)
                      \/ \E c \in Builder : step'[c] \in Working /\ p \in wrote[c]
    BY <1>1 DEF Declared
  <2>1. CASE p \in wrote[b]
    <3>1. CASE step[b] = "open"
      BY <1>1, <2>1, <3>1 DEF Working
    <3>2. CASE step[b] = "declare"
      <4>1. RootOf(p) \in ToDeclare(b)
        BY <1>3, <2>1 DEF ToDeclare, Target, RootsOf
      <4> QED BY <1>2, <3>2, <4>1
    <3> QED BY <1>1, <3>1, <3>2
  <2>2. CASE p \notin wrote[b]
    <3>1. RootOf(p) \notin Listed(disk, b)
      BY <1>4, <2>2
    <3>2. \A c \in Builder : step[c] \in Working => c = b
      BY <1>1 DEF OwnershipInv, OneRun, Working
    <3>3. PICK c \in Builder : RootOf(p) \in Listed(disk, c)
      BY <2>2, <3>2 DEF TidyInv, Declared
    <3> QED BY <1>2, <3>1, <3>3
  <2> QED BY <2>1, <2>2
<1>9. SystemOwned'
  BY <1>1 DEF TidyInv, SystemOwned
<1>10. HeadDeclared'
  <2>1. CASE b = System
    BY <1>1, <2>1 DEF TidyInv, HeadDeclared
  <2>2. CASE b # System
    BY <1>1, <1>2, <2>2 DEF TidyInv, HeadDeclared
  <2> QED BY <2>1, <2>2
<1> QED BY <1>7, <1>8, <1>9, <1>10 DEF TidyInv

\* Whatever a system commit leaves of system generation, the roots it declares hold.
LEMMA SystemRootsDeclared ==
    ASSUME OwnFiles, OwnershipInv, CommitInv, TidyInv, Tidy, step[System] = "commit",
           NEW p \in Path, Staged(System, head).files[p] = System
    PROVE  RootOf(p) \in Listed(disk, System)
<1> System \in Builder
  BY DEF Builder
<1>1. Listed(disk, System) = RootsOf(wrote[System])
  BY DEF TidyInv, TidyRun, Late, ToDeclare
<1>2. CASE RootOf(p) \in CommitRoots(System)
  <2>1. disk.files[p] # Nobody
    BY <1>2, StagedTree, OwnershipAssumption DEF CommitInv
  <2>2. \A b \in Builder : step[b] \notin Working
    BY DEF OwnershipInv, OneRun, Working
  <2>3. PICK c \in Builder : RootOf(p) \in Listed(disk, c)
    BY <2>1, <2>2 DEF TidyInv, Declared
  <2>4. CASE c # System
    <3>1. RootOf(p) \in owned[System]
      BY <2>3, <2>4, InOthers DEF OwnershipInv, Reads
    <3> QED BY <1>1, <1>2, <3>1 DEF CommitRoots
  <2> QED BY <2>3, <2>4
<1>3. CASE RootOf(p) \notin CommitRoots(System)
  <2>1. head.files[p] = System
    BY <1>3, StagedTree DEF CommitInv
  <2>2. RootOf(p) \in before[System]
    BY <2>1 DEF TidyInv, HeadDeclared
  <2> QED BY <1>3, <2>2 DEF CommitRoots, TidyInv, SystemOwned
<1> QED BY <1>2, <1>3

\* A namespace builder's commit brings nothing of system generation into HEAD.
LEMMA NamespaceCommits ==
    ASSUME OwnershipInv, CommitInv, TidyInv, Tidy, NEW b \in NsBuilders, step[b] = "commit",
           NEW p \in Path, Staged(b, head).files[p] = System
    PROVE  head.files[p] = System
<1> b \in Builder /\ b # System
  BY OwnershipAssumption DEF Builder
<1>1. CASE RootOf(p) \in CommitRoots(b)
  <2>1. RootOf(p) \in Target(b)
    BY <1>1 DEF CommitRoots, Target
  <2>2. disk.files[p] \in {b, Nobody}
    BY <2>1 DEF TidyInv, Exact, Late
  <2> QED BY <1>1, <2>2, StagedTree, OwnershipAssumption DEF CommitInv, Builder
<1>2. CASE RootOf(p) \notin CommitRoots(b)
  BY <1>2, StagedTree DEF CommitInv
<1> QED BY <1>1, <1>2

LEMMA TidyEnds ==
    ASSUME OwnFiles, OwnershipInv, CommitInv, TidyInv, Tidy, UNCHANGED deployment,
           NEW b \in Builder,
           NoCommit(b) \/ NothingToCommit(b) \/ Commit(b) \/ Interrupt(b)
    PROVE  TidyInv'
<1> Shape /\ step \in [Builder -> Steps] /\ System \in Builder
  BY DEF OwnershipInv, Shape, Builder
<1>1. /\ step[b] \in {"clear", "commit"} /\ Goto(b, "idle") /\ Forget(b) /\ disk' = disk
      /\ step[b] = "clear" => head' = head
      /\ step[b] = "commit" => head' = Staged(b, head)
  <2>1. CASE NoCommit(b)
    BY <2>1 DEF NoCommit, TidyInv, TidyRun, Tidy
  <2>2. CASE NothingToCommit(b)
    BY <2>2, NothingStaged DEF NothingToCommit, git
  <2>3. CASE Commit(b)
    BY <2>3 DEF Commit, CommitInv
  <2>4. CASE Interrupt(b)
    BY <2>4, TidyRunsGoOn DEF Interrupt, git
  <2> QED BY <2>1, <2>2, <2>3, <2>4
<1>2. /\ \A c \in Builder : step'[c] = "idle"
      /\ \A c \in Builder \ {b} : wrote[c] = {}
  BY <1>1 DEF OwnershipInv, OneRun, Goto, TidyInv, TidyRun
<1>3. \A c \in Builder : wrote'[c] = {}
  BY <1>1, <1>2 DEF Forget, Shape
<1>4. \A c \in Builder : TidyRun(c)' /\ Exact(c)'
  BY <1>2, <1>3 DEF TidyRun, Exact, Working, Late
<1>5. Declared'
  <2>1. \A c \in Builder : step[c] \notin Working
    BY <1>1 DEF OwnershipInv, OneRun, Working
  <2> QED BY <1>1, <2>1 DEF TidyInv, Declared
<1>6. SystemOwned'
  BY <1>2 DEF SystemOwned
<1>7. before' \in [Builder -> SUBSET Root]
  BY <1>1 DEF Forget, TidyInv, HeadDeclared
<1>8. ASSUME NEW p \in Path, head'.files[p] = System
      PROVE  RootOf(p) \in Listed(disk, System)
  <2>1. CASE b = System /\ step[b] = "commit"
    BY <1>1, <1>8, <2>1, SystemRootsDeclared
  <2>2. CASE b = System /\ step[b] = "clear"
    BY <1>1, <1>8, <2>2 DEF TidyInv, HeadDeclared
  <2>3. CASE b # System
    <3>1. head.files[p] = System
      BY <1>1, <1>8, <2>3, NamespaceCommits DEF Builder
    <3>2. step[System] = "idle"
      BY <1>1, <2>3 DEF OwnershipInv, OneRun
    <3> QED BY <3>1, <3>2 DEF TidyInv, HeadDeclared
  <2> QED BY <1>1, <2>1, <2>2, <2>3
<1>9. HeadDeclared'
  BY <1>1, <1>2, <1>7, <1>8 DEF HeadDeclared
<1> QED BY <1>4, <1>5, <1>6, <1>9 DEF TidyInv

LEMMA TidyInvInductive ==
    ASSUME ~Overlap, OwnFiles, CommitsFollow PROVE Spec => []TidyInv
<1>1. Init => TidyInv
  <2> SUFFICES ASSUME Init PROVE TidyInv
    OBVIOUS
  <2> System \in Builder
    BY DEF Builder
  <2>1. /\ \A b \in Builder : step[b] = "idle" /\ wrote[b] = {}
        /\ \A p \in Path : disk.files[p] = Nobody /\ head.files[p] # System
        /\ before \in [Builder -> SUBSET Root]
    BY OwnershipAssumption DEF Init, EmptyTree
  <2> QED BY <2>1 DEF TidyInv, TidyRun, Exact, Declared, SystemOwned, HeadDeclared,
                      Working, Late
<1>2. OwnershipInv /\ CommitInv /\ TidyInv /\ [Next]_vars => TidyInv'
  <2> SUFFICES ASSUME OwnershipInv, CommitInv, TidyInv, [Next]_vars, Tidy' PROVE TidyInv'
    BY DEF TidyInv
  <2>1. CASE UNCHANGED vars
    <3>1. UNCHANGED <<deployment, disk, head, step, config, owned, before, toClear, wrote>>
      BY <2>1 DEF vars, git, locals
    <3>2. /\ (\A b : Listed(disk, b)' = Listed(disk, b)) /\ (Tidy' <=> Tidy)
          /\ (\A b : Target(b)' = Target(b) /\ ToDeclare(b)' = ToDeclare(b))
      BY <3>1 DEF Listed, Tidy, Target, ToDeclare
    <3>3. \A b : (TidyRun(b)' <=> TidyRun(b)) /\ (Exact(b)' <=> Exact(b))
      BY <3>1, <3>2 DEF TidyRun, Exact
    <3>4. (Declared' <=> Declared) /\ (SystemOwned' <=> SystemOwned)
          /\ (HeadDeclared' <=> HeadDeclared)
      BY <3>1, <3>2 DEF Declared, SystemOwned, HeadDeclared
    <3> QED BY <3>2, <3>3, <3>4 DEF TidyInv
  <2>2. CASE Next
    <3>1. deployment' = deployment /\ Tidy
      BY <2>2 DEF Next, Tidy
    <3>2. ASSUME NEW c \in deployment.configs[System], BeginSystem(c) PROVE TidyInv'
      BY <3>1, <3>2, TidyBegins DEF Builder
    <3>3. ASSUME NEW b \in NsBuilders, NEW c \in deployment.configs[b],
                 BeginNamespace(b, c)
          PROVE  TidyInv'
      BY <3>1, <3>3, TidyBegins DEF Builder
    <3>4. ASSUME NEW b \in Builder, Run(b) \/ Interrupt(b) PROVE TidyInv'
      BY <3>1, <3>4, TidyClears, TidyWrites, TidyNamespaces, TidyReports, TidyDeclares,
         TidyEnds DEF Run
    <3> QED BY <2>2, <3>2, <3>3, <3>4 DEF Next
  <2> QED BY <2>1, <2>2
<1> QED BY <1>1, <1>2, OwnershipInvInductive, CommitInvInductive, PTL DEF Spec

\* A commit of tidy runs leaves exactly what its run wrote in the roots it declares,
\* whatever earlier runs left behind.
THEOREM CommitsAreExact ==
    ASSUME ~Overlap, OwnFiles, CommitsFollow PROVE Spec => CommitIsExact
<1>1. OwnershipInv /\ CommitInv /\ TidyInv /\ [Next]_vars =>
         [\A b \in Builder : CommitsFor(b) /\ Tidy =>
            \A p \in Path : RootOf(p) \in Listed(head', b) =>
               head'.files[p] = (IF p \in wrote[b] THEN b ELSE Nobody)]_vars
  <2> SUFFICES ASSUME OwnershipInv, CommitInv, TidyInv, Next, NEW b \in Builder,
                      CommitsFor(b), Tidy, NEW p \in Path, RootOf(p) \in Listed(head', b)
               PROVE  head'.files[p] = (IF p \in wrote[b] THEN b ELSE Nobody)
    OBVIOUS
  <2>1. head' = Staged(b, head) /\ head \in Tree /\ step[b] = "commit"
    BY CommitSteps DEF CommitInv, CommitsFor
  <2>2. Listed(head', b) = Listed(disk, b)
    BY <2>1, StagedTree DEF Listed, OwnerFile
  <2>3. Listed(disk, b) = ToDeclare(b)
    BY <2>1 DEF TidyInv, TidyRun, Late
  <2>4. RootOf(p) \in CommitRoots(b)
    BY <2>2, <2>3 DEF ToDeclare, CommitRoots
  <2>5. head'.files[p] = disk.files[p]
    BY <2>1, <2>4, StagedTree
  <2> QED BY <2>1, <2>2, <2>5 DEF TidyInv, Exact, Late
<1> QED BY <1>1, TidyInvInductive, CommitInvInductive, OwnershipInvInductive, PTL
        DEF Spec, CommitIsExact

\* After a commit of tidy system generation, HEAD holds its manifests in the roots it
\* declares only: roots that are no longer generated have left it.
THEOREM DroppedRootsAlwaysLeave ==
    ASSUME ~Overlap, OwnFiles, CommitsFollow PROVE Spec => DroppedRootsLeaveHead
<1>1. OwnershipInv /\ CommitInv /\ TidyInv /\ [Next]_vars =>
         [CommitsFor(System) /\ Tidy =>
            \A p \in Path : head'.files[p] = System =>
               RootOf(p) \in Listed(head', System)]_vars
  <2> SUFFICES ASSUME OwnershipInv, CommitInv, TidyInv, Next, CommitsFor(System), Tidy,
                      NEW p \in Path, head'.files[p] = System
               PROVE  RootOf(p) \in Listed(head', System)
    OBVIOUS
  <2> System \in Builder
    BY DEF Builder
  <2>1. head' = Staged(System, head) /\ head \in Tree /\ step[System] = "commit"
    BY CommitSteps DEF CommitInv, CommitsFor
  <2>2. Listed(head', System) = Listed(disk, System)
    BY <2>1, StagedTree DEF Listed, OwnerFile
  <2> QED BY <2>1, <2>2, SystemRootsDeclared
<1> QED BY <1>1, TidyInvInductive, CommitInvInductive, OwnershipInvInductive, PTL
        DEF Spec, DroppedRootsLeaveHead
=============================================================================
