------------------------ MODULE ConfigLoadingProofs -------------------------
(***************************************************************************)
(* For any config directory and arguments: where the variables of a config *)
(* come from, that declared_targets says what load_configs accepts, and    *)
(* that a load takes every section of the target, whole and in order.      *)
(***************************************************************************)
EXTENDS ConfigLoading, DataInduction, SequenceTheorems

\* A sequence of whatever it holds.
Listing(seq) == seq \in Seq({seq[k] : k \in DOMAIN seq})

\* Before the blocks are given anything.
Early == {"arguments", "top", "flat", "target"}

\* Where the call is says what it has read.
LoadInv ==
    /\ TypeOK
    /\ \A b \in Block : Listing(configs[b])
    /\ phase \in Early => /\ selected = None
                          /\ \A b \in Block : configs[b] = << >>
    /\ phase \notin {"arguments", "top", "failed"} => TopOK
    /\ selected = None => pending = << >>
    /\ phase = "sections" => pending # << >>
    /\ phase = "blocks" => Read(CurrentFile)

-----------------------------------------------------------------------------
(* Files. *)

LEMMA NamesInOrder ==
    /\ DOMAIN ConfigFileNames = 1..2 /\ DOMAIN SectionFileNames = 1..3
    /\ ConfigFileNames[1] = "config.toml"
    /\ ConfigFileNames[2] = "manifest-builder.toml"
    /\ SectionFileNames[1] = "section.toml"
    /\ SectionFileNames[2] = "config.toml"
    /\ SectionFileNames[3] = "manifest-builder.toml"
    /\ FileName = {"section.toml", "config.toml", "manifest-builder.toml"}
<1> DEFINE first == <<"section.toml">>
           names == {"section.toml", "config.toml", "manifest-builder.toml"}
<1>1. /\ ConfigFileNames \in Seq(names) /\ Len(ConfigFileNames) = 2
      /\ first \in Seq(names) /\ Len(first) = 1 /\ first[1] = "section.toml"
      /\ ConfigFileNames[1] = "config.toml"
      /\ ConfigFileNames[2] = "manifest-builder.toml"
  BY DEF ConfigFileNames
<1>2. /\ SectionFileNames \in Seq(names) /\ Len(SectionFileNames) = 3
      /\ SectionFileNames[1] = first[1]
      /\ SectionFileNames[2] = ConfigFileNames[1]
      /\ SectionFileNames[3] = ConfigFileNames[2]
  <2> HIDE DEF first, names
  <2>1. SectionFileNames = first \o ConfigFileNames
    BY DEF SectionFileNames, first
  <2>2. /\ SectionFileNames \in Seq(names)
        /\ Len(SectionFileNames) = Len(first) + Len(ConfigFileNames)
        /\ \A i \in 1..(Len(first) + Len(ConfigFileNames)) : SectionFileNames[i] =
              IF i <= Len(first) THEN first[i] ELSE ConfigFileNames[i - Len(first)]
    BY <1>1, <2>1, ConcatProperties
  <2>3. /\ SectionFileNames[1] = first[1]
        /\ SectionFileNames[2] = ConfigFileNames[2 - 1]
        /\ SectionFileNames[3] = ConfigFileNames[3 - 1]
    BY <1>1, <2>2
  <2> QED BY <1>1, <2>2, <2>3
<1>3. DOMAIN ConfigFileNames = 1..2 /\ DOMAIN SectionFileNames = 1..3
  BY <1>1, <1>2
<1>4. DOMAIN SectionFileNames = {1, 2, 3}
  BY <1>3
<1>5. FileName = {SectionFileNames[1], SectionFileNames[2], SectionFileNames[3]}
  BY <1>4 DEF FileName, Range
<1> QED BY <1>1, <1>2, <1>3, <1>5

LEMMA Names ==
    /\ DOMAIN ConfigFileNames = 1..2
    /\ DOMAIN SectionFileNames = 1..3
    /\ \A seq \in {ConfigFileNames, SectionFileNames} :
          \A i \in DOMAIN seq : seq[i] \in FileName
<1>1. \A i \in 1..3 : SectionFileNames[i] \in FileName
  BY NamesInOrder DEF FileName, Range
<1> QED BY <1>1, NamesInOrder

\* What a directory has under one of the names is a file.
LEMMA FoundFiles ==
    ASSUME conf \in ConfDirs, NEW p \in Place,
           NEW names \in {ConfigFileNames, SectionFileNames}
    PROVE  FindFile(p, names) \in {Absent, Unparsable} \cup File
<1> DEFINE there == {i \in DOMAIN names : conf.at[p] # NoDirectory
                                          /\ conf.at[p][names[i]] # Absent}
<1>1. CASE there = {}
  BY <1>1 DEF FindFile
<1>2. CASE there # {}
  <2>1. there \subseteq {1, 2, 3}
    BY Names
  <2>2. \E i \in there : \A k \in there : i <= k
    <3>1. CASE 1 \in there
      BY <2>1, <3>1
    <3>2. CASE 1 \notin there /\ 2 \in there
      BY <2>1, <3>2
    <3>3. CASE there = {3}
      BY <3>3
    <3> QED BY <1>2, <2>1, <3>1, <3>2, <3>3
  <2>3. PICK i \in there : FindFile(p, names) = conf.at[p][names[i]]
    BY <1>2, <2>2 DEF FindFile
  <2>4. conf.at[p] \in {NoDirectory} \cup [FileName -> {Absent, Unparsable} \cup File]
    BY ConfigAssumption DEF ConfDir
  <2> QED BY <2>3, <2>4, Names
<1> QED BY <1>1, <1>2

LEMMA ReadFiles ==
    ASSUME conf \in ConfDirs
    PROVE  /\ Read(TopFile) => TopFile \in File
           /\ \A s \in Section : Read(SectionFile(s)) => SectionFile(s) \in File
BY FoundFiles DEF TopFile, SectionFile, Read, Place

\* The sections of a well-formed target are directories.
LEMMA SectionsAreNamed ==
    ASSUME NEW t \in Target, SectionsOK(t)
    PROVE  t.sections \in Seq(Section) /\ t.sections # << >>
<1>1. t.sections \in Seq(SectionName) /\ t.sections # << >>
  BY DEF Target, Optional, SectionsOK
<1>2. \A i \in 1..Len(t.sections) : t.sections[i] \in Section
  BY <1>1 DEF SectionsOK
<1>3. t.sections \in [1..Len(t.sections) -> Section] /\ Len(t.sections) \in Nat
  BY <1>1, <1>2
<1> QED BY <1>1, <1>3, SeqDef

\* The targets of a file that declares some.
LEMMA WellFormedTargets ==
    ASSUME conf \in ConfDirs, Read(TopFile), TargetsOK(TopFile),
           NEW i \in DOMAIN TopFile.targets
    PROVE  /\ TopFile.targets[i] \in Target
           /\ TopFile.targets[i] # None
           /\ TopFile.targets[i].sections \in Seq(Section)
           /\ TopFile.targets[i].sections # << >>
<1>1. TopFile.targets \in Seq(Target)
  BY ReadFiles DEF File
<1>2. TopFile.targets[i] \in Target
  BY <1>1
<1> QED BY <1>2, SectionsAreNamed, ConfigAssumption DEF TargetsOK
-----------------------------------------------------------------------------
(* What blocks have been given. *)

LEMMA ListsItself ==
    ASSUME NEW S, NEW seq \in Seq(S)
    PROVE  Listing(seq)
<1>1. Len(seq) \in Nat /\ DOMAIN seq = 1..Len(seq) /\ seq \in [1..Len(seq) -> S]
  BY LenProperties
<1>2. seq \in [1..Len(seq) -> {seq[k] : k \in DOMAIN seq}]
  BY <1>1
<1> QED BY <1>1, <1>2, SeqDef DEF Listing

LEMMA Appended ==
    ASSUME NEW s, Listing(s), NEW n \in Nat, NEW t, t = [k \in 1..n |-> t[k]]
    PROVE  /\ Listing(s \o t)
           /\ \A k \in DOMAIN (s \o t) :
                 \/ k \in DOMAIN s /\ (s \o t)[k] = s[k]
                 \/ \E j \in 1..n : (s \o t)[k] = t[j]
<1> DEFINE S == {s[k] : k \in DOMAIN s} \cup {t[k] : k \in 1..n}
<1>1. s \in Seq(S)
  BY SeqMonotonic DEF Listing
<1>2. t \in [1..n -> S]
  OBVIOUS
<1>3. t \in Seq(S) /\ Len(t) = n
  BY <1>2, SeqDef
<1>4. /\ s \o t \in Seq(S) /\ Len(s \o t) = Len(s) + Len(t)
      /\ \A i \in 1..(Len(s) + Len(t)) : (s \o t)[i] =
            IF i <= Len(s) THEN s[i] ELSE t[i - Len(s)]
  BY <1>1, <1>3, ConcatProperties
<1> HIDE DEF S
<1>5. Listing(s \o t)
  BY <1>4, ListsItself
<1>6. Len(s) \in Nat /\ DOMAIN s = 1..Len(s) /\ DOMAIN (s \o t) = 1..(Len(s) + n)
  BY <1>1, <1>3, <1>4
<1>7. ASSUME NEW k \in DOMAIN (s \o t)
      PROVE  \/ k \in DOMAIN s /\ (s \o t)[k] = s[k]
             \/ \E j \in 1..n : (s \o t)[k] = t[j]
  <2>1. CASE k <= Len(s)
    BY <1>3, <1>4, <1>6, <2>1
  <2>2. CASE ~(k <= Len(s))
    <3>1. k - Len(s) \in 1..n /\ (s \o t)[k] = t[k - Len(s)]
      BY <1>3, <1>4, <1>6, <2>2
    <3> QED BY <3>1
  <2> QED BY <2>1, <2>2
<1> QED BY <1>5, <1>7

\* A table goes to its block with the place and the variables of the file.
LEMMA BlocksAreGiven ==
    ASSUME DOMAIN configs = Block, NEW b \in Block, Listing(configs[b]), NEW n \in Nat
    PROVE  /\ DOMAIN Given(b, n) = Block
           /\ Listing(Given(b, n)[b])
           /\ \A d \in Block \ {b} : Given(b, n)[d] = configs[d]
           /\ \A k \in DOMAIN Given(b, n)[b] :
                 LET c == Given(b, n)[b][k]
                 IN  \/ k \in DOMAIN configs[b] /\ c = configs[b][k]
                     \/ c.place = place /\ c.variables = variables
<1> DEFINE more == [k \in 1..n |-> Parsed(CurrentFile.entries[b][k])]
<1>1. Given(b, n) = [configs EXCEPT ![b] = configs[b] \o more]
  BY DEF Given
<1>2. \A j \in 1..n : more[j].place = place /\ more[j].variables = variables
  BY DEF Parsed
<1>3. more = [k \in 1..n |-> more[k]]
  OBVIOUS
<1> HIDE DEF more
<1>4. /\ Listing(configs[b] \o more)
      /\ \A k \in DOMAIN (configs[b] \o more) :
            \/ k \in DOMAIN configs[b] /\ (configs[b] \o more)[k] = configs[b][k]
            \/ \E j \in 1..n : (configs[b] \o more)[k] = more[j]
  BY <1>3, Appended
<1> QED BY <1>1, <1>2, <1>4
-----------------------------------------------------------------------------
(* Every step keeps LoadInv. *)

LEMMA LoadInit == Init => LoadInv
<1> SUFFICES ASSUME Init PROVE LoadInv
  OBVIOUS
<1>1. TypeOK
  BY EmptySeq DEF Init, TypeOK, Phases, Optional, Place
<1>2. \A b \in Block : configs[b] = << >> /\ Listing(configs[b])
  BY EmptySeq, ListsItself DEF Init
<1> QED BY <1>1, <1>2 DEF Init, LoadInv, Early

\* The arguments of a call.
LEMMA Arguments ==
    ASSUME call \in Calls
    PROVE  /\ call.vars \subseteq Var
           /\ call.varsFrom # Absent => call.varsFrom \subseteq Var
           /\ Registered \subseteq Block
<1>1. call \in Call
  BY ConfigAssumption
<1>2. call.blocks \in Seq(Block)
  BY <1>1 DEF Call
<1>3. \A i \in DOMAIN call.blocks : call.blocks[i] \in Block
  BY <1>2
<1> QED BY <1>1, <1>3 DEF Call, Registered, Range

LEMMA LoadArgumentsKeeps == LoadInv /\ LoadArguments => LoadInv'
BY Arguments DEF LoadInv, TypeOK, LoadArguments, ArgumentsOK, inputs, Listing, Early,
   TopOK, TopFile, FindFile, Supported, VersionOf, Phases, CurrentFile

LEMMA OpenTopKeeps == LoadInv /\ OpenTop => LoadInv'
BY DEF LoadInv, TypeOK, OpenTop, inputs, Listing, Early, TopOK, TopFile, FindFile,
   Supported, VersionOf, Phases

\* The variables of a file.
LEMMA VariablesInFile ==
    ASSUME NEW p, NEW file \in File
    PROVE  DOMAIN FileVars(p, file) \subseteq Var
BY DEF FileVars, From, File

LEMMA LoadFlatKeeps == LoadInv /\ LoadFlat => LoadInv'
<1> SUFFICES ASSUME LoadInv, LoadFlat PROVE LoadInv'
  OBVIOUS
<1>1. /\ phase = "flat" /\ phase' = "blocks" /\ place' = Top
      /\ UNCHANGED <<conf, call, extra, selected, pending, configs>>
      /\ todo' = Present(TopFile)
      /\ variables' = Merged(FileVars(Top, TopFile), ExtraVars)
  BY DEF LoadFlat, BeginBlocks, inputs
<1>2. Read(TopFile) /\ TopFile \in File
  BY <1>1, ReadFiles DEF LoadInv, TypeOK, TopOK
<1>3. TopOK' /\ Read(CurrentFile)'
  BY <1>1, <1>2 DEF LoadInv, TopOK, TopFile, FindFile, Supported, VersionOf, CurrentFile
<1>4. DOMAIN variables' \subseteq Var
  BY <1>1, <1>2, VariablesInFile DEF Merged, ExtraVars, From, LoadInv, TypeOK
<1>5. todo' \subseteq Block
  BY <1>1, Arguments DEF Present, LoadInv, TypeOK
<1>6. TypeOK'
  BY <1>1, <1>4, <1>5 DEF LoadInv, TypeOK, Phases, Place
<1> QED BY <1>1, <1>3, <1>6 DEF LoadInv, Early, Listing

LEMMA SelectTargetKeeps == LoadInv /\ SelectTarget => LoadInv'
<1> SUFFICES ASSUME LoadInv, SelectTarget PROVE LoadInv'
  OBVIOUS
<1>1. /\ phase = "target" /\ phase' = "sections"
      /\ UNCHANGED <<conf, call, extra, place, variables, todo, configs>>
      /\ TargetsOK(TopFile)
  BY DEF SelectTarget, inputs, TargetFileOK
<1>2. PICK i \in DOMAIN TopFile.targets :
         /\ selected' = TopFile.targets[i]
         /\ pending' = TopFile.targets[i].sections
  BY DEF SelectTarget
<1>3. Read(TopFile)
  BY <1>1 DEF LoadInv, TopOK
<1>4. /\ selected' \in Target /\ selected' # None
      /\ pending' \in Seq(Section) /\ pending' # << >>
  BY <1>1, <1>2, <1>3, WellFormedTargets DEF LoadInv, TypeOK
<1>5. TypeOK'
  BY <1>1, <1>4 DEF LoadInv, TypeOK, Phases, Optional
<1>6. TopOK'
  BY <1>1 DEF LoadInv, TopOK, TopFile, FindFile, Supported, VersionOf
<1> QED BY <1>1, <1>4, <1>5, <1>6 DEF LoadInv, Early, Listing

\* The section that comes next, and what its file holds.
LEMMA NextSection ==
    ASSUME LoadInv, phase = "sections", SectionOK(Head(pending))
    PROVE  LET s == Head(pending)
           IN  /\ s \in Section /\ s # Top
               /\ Tail(pending) \in Seq(Section)
               /\ Read(SectionFile(s)) /\ SectionFile(s) \in File
               /\ selected \in Target /\ selected # None
<1>1. Head(pending) \in Section /\ Tail(pending) \in Seq(Section)
  BY DEF LoadInv, TypeOK
<1>2. Head(pending) # Top
  BY <1>1, ConfigAssumption
<1>3. Read(SectionFile(Head(pending)))
  BY DEF SectionOK
<1>4. selected \in Target /\ selected # None
  BY DEF LoadInv, TypeOK, Optional
<1> QED BY <1>1, <1>2, <1>3, <1>4, ReadFiles DEF LoadInv, TypeOK

LEMMA OpenSectionKeeps == LoadInv /\ OpenSection => LoadInv'
<1> SUFFICES ASSUME LoadInv, OpenSection PROVE LoadInv'
  OBVIOUS
<1> DEFINE s == Head(pending)
           file == SectionFile(s)
<1>1. /\ phase = "sections" /\ phase' = "blocks" /\ place' = s
      /\ UNCHANGED <<conf, call, extra, selected, configs>>
      /\ pending' = Tail(pending)
      /\ todo' = Present(file)
      /\ variables' = Merged(Merged(OfTarget, FileVars(s, file)), ExtraVars)
      /\ SectionOK(s)
  <2>1. /\ phase = "sections" /\ pending' = Tail(pending) /\ SectionOK(s)
        /\ BeginBlocks(s, file, Merged(Merged(OfTarget, FileVars(s, file)), ExtraVars))
    BY DEF OpenSection
  <2> HIDE DEF s, file
  <2> QED BY <2>1 DEF BeginBlocks, inputs
<1>2. /\ s \in Section /\ s # Top /\ Tail(pending) \in Seq(Section)
      /\ Read(file) /\ file \in File /\ selected \in Target /\ selected # None
  BY <1>1, NextSection
<1>3. CurrentFile' = file
  <2>1. SectionFile(s) = SectionFile(place)'
    <3> HIDE DEF s, file
    <3> QED BY <1>1 DEF SectionFile, FindFile
  <2>2. place' # Top
    BY <1>1, <1>2
  <2> QED BY <2>1, <2>2 DEF CurrentFile
<1>4. TopOK'
  BY <1>1 DEF LoadInv, TopOK, TopFile, FindFile, Supported, VersionOf
<1>5. DOMAIN OfTarget \subseteq Var /\ DOMAIN ExtraVars \subseteq Var
  BY <1>2 DEF OfTarget, TargetVars, From, Target, ExtraVars, LoadInv, TypeOK
<1>6. DOMAIN variables' \subseteq Var
  BY <1>1, <1>2, <1>5, VariablesInFile DEF Merged
<1>7. todo' \subseteq Block
  BY <1>1, Arguments DEF Present, LoadInv, TypeOK
<1> HIDE DEF s, file
<1>8. TypeOK'
  BY <1>1, <1>2, <1>6, <1>7 DEF LoadInv, TypeOK, Phases, Place
<1> QED BY <1>1, <1>2, <1>3, <1>4, <1>8 DEF LoadInv, Early, Listing, Read

\* What is given to a block, whether or not all of its table is.
LEMMA EntriesAreListed ==
    ASSUME LoadInv, phase = "blocks", NEW b \in todo
    PROVE  /\ b \in Block
           /\ Len(CurrentFile.entries[b]) \in Nat
           /\ DOMAIN CurrentFile.entries[b] = 1..Len(CurrentFile.entries[b])
<1>1. b \in Block /\ Read(CurrentFile)
  BY DEF LoadInv, TypeOK
<1>2. CurrentFile \in File
  BY <1>1, ReadFiles DEF CurrentFile, LoadInv, TypeOK, Place
<1>3. CurrentFile.entries[b] \in Seq(Entry)
  BY <1>1, <1>2 DEF File
<1> QED BY <1>1, <1>3

\* A step of a block gives it the first entries of its table.
LEMMA BlockSteps ==
    ASSUME LoadInv, NEW b \in Block, LoadBlock(b) \/ BlockFails(b)
    PROVE  /\ phase = "blocks" /\ b \in todo /\ todo' \subseteq todo
           /\ phase' \in {"blocks", "failed"}
           /\ UNCHANGED <<conf, call, extra, selected, pending, place, variables>>
           /\ \E n \in Nat : configs' = Given(b, n)
<1>1. /\ phase = "blocks" /\ b \in todo /\ todo' \subseteq todo
      /\ phase' \in {"blocks", "failed"}
      /\ UNCHANGED <<conf, call, extra, selected, pending, place, variables>>
  BY DEF LoadBlock, BlockFails, inputs
<1>2. /\ Len(CurrentFile.entries[b]) \in Nat
      /\ DOMAIN CurrentFile.entries[b] = 1..Len(CurrentFile.entries[b])
  BY <1>1, EntriesAreListed
<1>3. CASE LoadBlock(b)
  BY <1>1, <1>2, <1>3 DEF LoadBlock
<1>4. CASE BlockFails(b)
  <2>1. PICK i \in DOMAIN CurrentFile.entries[b] : configs' = Given(b, i - 1)
    BY <1>4 DEF BlockFails
  <2>2. i - 1 \in Nat
    BY <1>2
  <2> QED BY <1>1, <2>1, <2>2
<1> QED BY <1>3, <1>4

LEMMA BlocksKeep ==
    ASSUME LoadInv, NEW b \in Block, LoadBlock(b) \/ BlockFails(b)
    PROVE  LoadInv'
<1>1. /\ phase = "blocks" /\ todo' \subseteq todo /\ phase' \in {"blocks", "failed"}
      /\ UNCHANGED <<conf, call, extra, selected, pending, place, variables>>
  BY BlockSteps
<1>2. PICK n \in Nat : configs' = Given(b, n)
  BY BlockSteps
<1>3. DOMAIN configs' = Block /\ \A d \in Block : Listing(configs'[d])
  BY <1>2, BlocksAreGiven DEF LoadInv, TypeOK
<1>4. TypeOK'
  BY <1>1, <1>3 DEF LoadInv, TypeOK, Phases, Ended
<1>5. TopOK' /\ (Read(CurrentFile) => Read(CurrentFile)')
  BY <1>1 DEF LoadInv, TopOK, TopFile, FindFile, Supported, VersionOf, Read,
              CurrentFile, SectionFile
<1> QED BY <1>1, <1>3, <1>4, <1>5 DEF LoadInv, Early

LEMMA OthersKeep ==
    LoadInv /\ (Mistargeted \/ FileDone \/ Validate \/ Fail \/ UNCHANGED vars) => LoadInv'
<1> SUFFICES ASSUME LoadInv, Mistargeted \/ FileDone \/ Validate \/ Fail \/ UNCHANGED vars
             PROVE  LoadInv'
  OBVIOUS
<1>1. UNCHANGED <<conf, call, extra, selected, pending, place, variables, todo, configs>>
  BY DEF Mistargeted, FileDone, Validate, Fail, vars, inputs
<1>2. TopOK' = TopOK
  BY <1>1 DEF TopOK, TopFile, FindFile, Supported, VersionOf, Read
<1>3. (Read(CurrentFile) => Read(CurrentFile)')
      /\ \A b \in Block : Listing(configs[b]) => Listing(configs'[b])
  BY <1>1 DEF Read, CurrentFile, TopFile, FindFile, SectionFile, Listing
<1>4. CASE UNCHANGED phase
  BY <1>1, <1>2, <1>3, <1>4 DEF LoadInv, TypeOK
<1>5. CASE Mistargeted
  BY <1>1, <1>2, <1>3, <1>5 DEF Mistargeted, LoadInv, TypeOK, Phases, Ended, Early
<1>6. CASE FileDone
  BY <1>1, <1>2, <1>3, <1>6 DEF FileDone, LoadInv, TypeOK, Phases, Ended, Early
<1>7. CASE Validate
  BY <1>1, <1>2, <1>3, <1>7 DEF Validate, LoadInv, TypeOK, Phases, Ended, Early
<1>8. CASE Fail
  BY <1>1, <1>2, <1>3, <1>8 DEF Fail, LoadInv, TypeOK, Phases, Ended, Early
<1> QED BY <1>4, <1>5, <1>6, <1>7, <1>8 DEF vars

LEMMA LoadInvInductive == Spec => []LoadInv
<1>1. LoadInv /\ [Next]_vars => LoadInv'
  BY LoadArgumentsKeeps, OpenTopKeeps, LoadFlatKeeps, SelectTargetKeeps,
     OpenSectionKeeps, BlocksKeep, OthersKeep DEF Next, Over
<1> QED BY <1>1, LoadInit, PTL DEF Spec

\* Every variable of a load keeps its type: selected is a target of the file, the
\* pending sections are directories, and blocks get what is registered for them.
THEOREM LoadTypes == Spec => []TypeOK
BY LoadInvInductive, PTL DEF LoadInv
-----------------------------------------------------------------------------
(* Where variables come from. *)

Graph(f) == {<<v, f[v]>> : v \in DOMAIN f}

\* The variables of the file being loaded, and of the configs given so far, are
\* those of its sources.
VarInv ==
    /\ phase = "blocks" => Graph(variables) = Sources(place)
    /\ \A b \in Block : \A k \in DOMAIN configs[b] :
          Graph(configs[b][k].variables) = Sources(configs[b][k].place)

LEMMA GraphOfMerged ==
    ASSUME NEW f, NEW g, Mergeable(f, g)
    PROVE  Graph(Merged(f, g)) = Graph(f) \cup Graph(g)
<1> DEFINE h == Merged(f, g)
<1>1. /\ DOMAIN h = DOMAIN f \cup DOMAIN g
      /\ \A v \in DOMAIN f : h[v] = f[v]
      /\ \A v \in DOMAIN g : h[v] = g[v]
  BY DEF Merged, Mergeable
<1> HIDE DEF h
<1>2. Graph(h) = Graph(f) \cup Graph(g)
  BY <1>1 DEF Graph
<1> QED BY <1>2 DEF h

LEMMA GraphOfFrom ==
    ASSUME NEW names, NEW source
    PROVE  Graph(From(names, source)) = {<<v, source>> : v \in names}
<1>1. /\ DOMAIN From(names, source) = names
      /\ \A v \in names : From(names, source)[v] = source
  BY DEF From
<1> QED BY <1>1 DEF Graph

\* A graph gives each variable one value.
LEMMA GraphsAreFunctions ==
    ASSUME NEW f, NEW s \in Graph(f), NEW t \in Graph(f), s[1] = t[1]
    PROVE  s = t
BY DEF Graph

LEMMA VarInit == Init => VarInv
BY DEF Init, VarInv

LEMMA EarlyKeepsVars ==
    ASSUME LoadInv, VarInv, phase \in Early, phase' # "blocks", UNCHANGED configs
    PROVE  VarInv'
<1>1. \A b \in Block : configs'[b] = << >>
  BY DEF LoadInv
<1> QED BY <1>1 DEF VarInv

LEMMA LoadFlatKeepsVars == LoadInv /\ VarInv /\ LoadFlat => VarInv'
<1> SUFFICES ASSUME LoadInv, LoadFlat PROVE VarInv'
  OBVIOUS
<1>1. /\ phase = "flat" /\ place' = Top
      /\ UNCHANGED <<conf, extra, selected, configs>>
      /\ variables' = Merged(FileVars(Top, TopFile), ExtraVars)
      /\ Mergeable(FileVars(Top, TopFile), ExtraVars)
  BY DEF LoadFlat, BeginBlocks, inputs, FlatOK
<1>2. selected = None /\ \A b \in Block : configs'[b] = << >>
  BY <1>1 DEF LoadInv, Early
<1>3. Graph(variables') = Graph(FileVars(Top, TopFile)) \cup Graph(ExtraVars)
  BY <1>1, GraphOfMerged
<1>4. Graph(variables') = Sources(Top)
  BY <1>2, <1>3, GraphOfFrom DEF Sources, FileVars, ExtraVars
<1>5. Sources(place)' = Sources(Top)
  BY <1>1 DEF Sources, TopFile, SectionFile, FindFile
<1> QED BY <1>2, <1>4, <1>5 DEF VarInv, Graph

LEMMA OpenSectionKeepsVars == LoadInv /\ VarInv /\ OpenSection => VarInv'
<1> SUFFICES ASSUME LoadInv, VarInv, OpenSection PROVE VarInv'
  OBVIOUS
<1> DEFINE s == Head(pending)
           own == FileVars(s, SectionFile(s))
<1>1. /\ phase = "sections" /\ SectionOK(s)
      /\ BeginBlocks(s, SectionFile(s), Merged(Merged(OfTarget, own), ExtraVars))
  BY DEF OpenSection
<1>2. Mergeable(OfTarget, own) /\ Mergeable(Merged(OfTarget, own), ExtraVars)
  BY <1>1 DEF SectionOK
<1>3. s # Top /\ selected # None
  BY <1>1, NextSection
<1> HIDE DEF s
<1>4. /\ place' = s /\ UNCHANGED <<conf, extra, selected, configs>>
      /\ variables' = Merged(Merged(OfTarget, own), ExtraVars)
  BY <1>1 DEF BeginBlocks, inputs
<1>5. Graph(variables') = Graph(OfTarget) \cup Graph(own) \cup Graph(ExtraVars)
  BY <1>2, <1>4, GraphOfMerged
<1>6. Graph(variables') = Sources(s)
  BY <1>3, <1>5, GraphOfFrom DEF Sources, FileVars, ExtraVars, OfTarget, TargetVars
<1>7. Sources(place)' = Sources(s)
  BY <1>4 DEF Sources, TopFile, SectionFile, FindFile
<1>8. \A b \in Block : \A k \in DOMAIN configs'[b] :
         /\ configs'[b][k] = configs[b][k]
         /\ Sources(configs[b][k].place)' = Sources(configs[b][k].place)
  BY <1>4 DEF Sources, TopFile, SectionFile, FindFile
<1> QED BY <1>4, <1>6, <1>7, <1>8 DEF VarInv, Graph

LEMMA BlocksKeepVars ==
    ASSUME LoadInv, VarInv, NEW b \in Block, LoadBlock(b) \/ BlockFails(b)
    PROVE  VarInv'
<1>1. phase = "blocks" /\ UNCHANGED <<conf, extra, selected, place, variables>>
  BY BlockSteps
<1>2. PICK n \in Nat : configs' = Given(b, n)
  BY BlockSteps
<1>3. ASSUME NEW d \in Block, NEW k \in DOMAIN configs'[d]
      PROVE  Graph(configs'[d][k].variables) = Sources(configs'[d][k].place)
  <2>1. \/ k \in DOMAIN configs[d] /\ configs'[d][k] = configs[d][k]
        \/ configs'[d][k].place = place /\ configs'[d][k].variables = variables
    <3>1. CASE d = b
      BY <1>2, <1>3, <3>1, BlocksAreGiven DEF LoadInv, TypeOK
    <3>2. CASE d # b
      BY <1>2, <1>3, <3>2, BlocksAreGiven DEF LoadInv, TypeOK
    <3> QED BY <3>1, <3>2
  <2> QED BY <1>1, <2>1 DEF VarInv
<1>4. Sources(place)' = Sources(place)
  BY <1>1 DEF Sources, TopFile, SectionFile, FindFile
<1>5. \A d \in Block : \A k \in DOMAIN configs'[d] :
         Sources(configs[d][k].place)' = Sources(configs'[d][k].place)
  BY <1>1 DEF Sources, TopFile, SectionFile, FindFile
<1> QED BY <1>1, <1>3, <1>4, <1>5 DEF VarInv, Graph

LEMMA OthersKeepVars ==
    LoadInv /\ VarInv /\ (Mistargeted \/ FileDone \/ Validate \/ Fail \/ UNCHANGED vars)
        => VarInv'
<1> SUFFICES ASSUME VarInv, Mistargeted \/ FileDone \/ Validate \/ Fail \/ UNCHANGED vars
             PROVE  VarInv'
  OBVIOUS
<1>1. /\ UNCHANGED <<conf, extra, selected, place, variables, configs>>
      /\ phase' = "blocks" => phase = "blocks"
  BY DEF Mistargeted, FileDone, Validate, Fail, vars, inputs
<1>2. Sources(place)' = Sources(place)
  BY <1>1 DEF Sources, TopFile, SectionFile, FindFile
<1>3. \A b \in Block : \A k \in DOMAIN configs[b] :
         Sources(configs[b][k].place)' = Sources(configs[b][k].place)
  BY <1>1 DEF Sources, TopFile, SectionFile, FindFile
<1> QED BY <1>1, <1>2, <1>3 DEF VarInv, Graph

LEMMA VarInvInductive == Spec => []VarInv
<1>1. LoadInv /\ VarInv /\ [Next]_vars => VarInv'
  <2> SUFFICES ASSUME LoadInv, VarInv, [Next]_vars PROVE VarInv'
    OBVIOUS
  <2>1. CASE LoadArguments \/ OpenTop \/ SelectTarget
    <3>1. phase \in Early /\ phase' # "blocks" /\ UNCHANGED configs
      BY <2>1 DEF LoadArguments, OpenTop, SelectTarget, Early
    <3> QED BY <3>1, EarlyKeepsVars
  <2> QED BY <2>1, LoadFlatKeepsVars, OpenSectionKeepsVars, BlocksKeepVars,
             OthersKeepVars DEF Next, Over
<1> QED BY <1>1, VarInit, LoadInvInductive, PTL DEF Spec

\* Every config has exactly the variables of its target, its own section and the
\* caller, and none of them was defined twice.
THEOREM VariablesAlwaysHaveOneSource == Spec => []VariablesHaveOneSource
<1>1. VarInv => VariablesHaveOneSource
  <2> SUFFICES ASSUME VarInv, NEW b \in Block, NEW k \in DOMAIN configs[b],
                      NEW c, c = configs[b][k]
               PROVE  /\ {<<v, c.variables[v]>> : v \in DOMAIN c.variables}
                            = Sources(c.place)
                      /\ \A s, t \in Sources(c.place) : s[1] = t[1] => s = t
    BY DEF VariablesHaveOneSource
  <2>1. Graph(c.variables) = Sources(c.place)
    BY DEF VarInv
  <2> QED BY <2>1, GraphsAreFunctions DEF Graph
<1> QED BY <1>1, VarInvInductive, PTL
-----------------------------------------------------------------------------
(* Which targets load. *)

Fits == IF DeclaredTargets = NoTargets THEN call.target = None
        ELSE call.target \in DeclaredTargets.names

\* Files with blocks take the one way, files with targets the other; a call that
\* got beyond has a target that fits.
TargetInv ==
    /\ phase = "flat" => VersionOf(TopFile) = BlocksVersion
    /\ phase = "target" => VersionOf(TopFile) = TargetsVersion
    /\ phase \in {"sections", "blocks", "loaded", "accepted"} => Fits
    /\ phase = "mistargeted" => DeclaredTargets # Malformed /\ ~Fits

LEMMA TargetInit == Init => TargetInv
BY DEF Init, TargetInv

\* What declared_targets says of a file that load_configs has opened.
LEMMA DeclaredByOpenFiles ==
    ASSUME TopOK
    PROVE  /\ VersionOf(TopFile) = BlocksVersion => DeclaredTargets = NoTargets
           /\ VersionOf(TopFile) = TargetsVersion /\ TargetsOK(TopFile) =>
                 /\ DeclaredTargets # NoTargets /\ DeclaredTargets # Malformed
                 /\ DeclaredTargets.names = TargetNames(TopFile)
           /\ NoTargets # Malformed
<1>1. TopFile # Absent /\ Read(TopFile) /\ Supported(TopFile)
  BY DEF TopOK, Read
<1> QED BY <1>1 DEF DeclaredTargets, NoTargets, Malformed, BlocksVersion, TargetsVersion

LEMMA SameTargets ==
    ASSUME UNCHANGED <<conf, call>>
    PROVE  /\ VersionOf(TopFile)' = VersionOf(TopFile)
           /\ DeclaredTargets' = DeclaredTargets
           /\ Fits' = Fits
BY DEF DeclaredTargets, Fits, TopFile, FindFile, VersionOf, Read, Supported,
       TargetsOK, SectionsOK, TargetNames

LEMMA TargetInvInductive == Spec => []TargetInv
<1>1. LoadInv /\ TargetInv /\ [Next]_vars => TargetInv'
  <2> SUFFICES ASSUME LoadInv, TargetInv, [Next]_vars PROVE TargetInv'
    OBVIOUS
  <2>1. UNCHANGED <<conf, call>>
    BY DEF Next, vars, inputs, LoadArguments, OpenTop, LoadFlat, SelectTarget,
           Mistargeted, OpenSection, BeginBlocks, LoadBlock, BlockFails, FileDone,
           Validate, Fail, Over
  <2>2. /\ VersionOf(TopFile)' = VersionOf(TopFile)
        /\ DeclaredTargets' = DeclaredTargets
        /\ Fits' = Fits
    BY <2>1, SameTargets
  <2>3. CASE OpenTop
    BY <2>2, <2>3 DEF OpenTop, TopOK, Supported, TargetInv
  <2>4. CASE LoadFlat
    <3>1. /\ phase = "flat" /\ phase' = "blocks" /\ call.target = None
      BY <2>4 DEF LoadFlat, FlatOK, BeginBlocks
    <3>2. DeclaredTargets = NoTargets
      BY <3>1, DeclaredByOpenFiles DEF LoadInv, TargetInv
    <3> QED BY <2>2, <3>1, <3>2 DEF TargetInv, Fits
  <2>5. CASE SelectTarget
    <3>1. /\ phase = "target" /\ phase' = "sections" /\ TargetsOK(TopFile)
          /\ \E i \in DOMAIN TopFile.targets : TopFile.targets[i].name = call.target
      BY <2>5 DEF SelectTarget, TargetFileOK, Chosen
    <3>2. call.target \in TargetNames(TopFile)
      BY <3>1 DEF TargetNames
    <3>3. Fits
      BY <3>1, <3>2, DeclaredByOpenFiles DEF LoadInv, TargetInv, Fits
    <3> QED BY <2>2, <3>1, <3>3 DEF TargetInv
  <2>6. CASE Mistargeted
    <3>1. phase' = "mistargeted"
      BY <2>6 DEF Mistargeted
    <3>2. CASE phase = "flat"
      <4>1. call.target # None
        BY <2>6, <3>2 DEF Mistargeted
      <4>2. DeclaredTargets = NoTargets /\ NoTargets # Malformed
        BY <3>2, DeclaredByOpenFiles DEF LoadInv, TargetInv
      <4> QED BY <2>2, <3>1, <4>1, <4>2 DEF TargetInv, Fits
    <3>3. CASE phase = "target"
      <4>1. /\ TargetsOK(TopFile)
            /\ ~\E i \in DOMAIN TopFile.targets : TopFile.targets[i].name = call.target
        BY <2>6, <3>3 DEF Mistargeted, TargetFileOK, Chosen
      <4>2. call.target \notin TargetNames(TopFile)
        BY <4>1 DEF TargetNames
      <4>3. DeclaredTargets # Malformed /\ ~Fits
        BY <3>3, <4>1, <4>2, DeclaredByOpenFiles DEF LoadInv, TargetInv, Fits
      <4> QED BY <2>2, <3>1, <4>3 DEF TargetInv
    <3> QED BY <2>6, <3>2, <3>3 DEF Mistargeted
  <2>7. CASE LoadArguments \/ Fail
    BY <2>7 DEF LoadArguments, Fail, TargetInv
  <2>8. CASE \/ OpenSection \/ FileDone \/ Validate
             \/ \E b \in Block : LoadBlock(b) \/ BlockFails(b)
    <3>1. /\ phase \in {"sections", "blocks", "loaded", "accepted"}
          /\ phase' \in {"sections", "blocks", "loaded", "accepted", "failed"}
      BY <2>8 DEF OpenSection, BeginBlocks, FileDone, Validate, LoadBlock, BlockFails,
                  vars
    <3> QED BY <2>2, <3>1 DEF TargetInv
  <2>9. CASE UNCHANGED phase
    BY <2>2, <2>9 DEF TargetInv
  <2> QED BY <2>3, <2>4, <2>5, <2>6, <2>7, <2>8, <2>9 DEF Next, Over, vars
<1> QED BY <1>1, TargetInit, LoadInvInductive, PTL DEF Spec

\* generate() and declared_targets come to one conclusion about the target of a
\* call.
THEOREM TargetsAlwaysAgree == Spec => []DeclaredTargetsAgree
<1>1. TargetInv => DeclaredTargetsAgree
  BY DEF TargetInv, DeclaredTargetsAgree, Fits, Loaded
<1> QED BY <1>1, TargetInvInductive, PTL
-----------------------------------------------------------------------------
(* Sections. *)

\* The first n of some sequences, one after the other.
Joined(seqs) ==
    LET joined[n \in Nat] == IF n = 0 \/ n > Len(seqs) THEN << >>
                             ELSE joined[n - 1] \o seqs[n]
    IN  joined

\* What an entry of section s refers to, of all that block b has there, and of all
\* the sections of a target.
EntriesIn(s, b) ==
    IF Read(SectionFile(s)) /\ b \in SectionFile(s).keys
    THEN SectionFile(s).entries[b] ELSE << >>
RefsIn(s, b) == [k \in DOMAIN EntriesIn(s, b) |-> InSection(s, EntriesIn(s, b)[k])]
RefsOf(t, b) == [i \in DOMAIN t.sections |-> RefsIn(t.sections[i], b)]

\* What configs refer to.
Refs(seq) == [k \in DOMAIN seq |-> <<seq[k].source, seq[k].files>>]

\* How many sections of the selected target have been opened.
Opened == Len(selected.sections) - Len(pending)

\* Block b has been given its entries in the first n sections.
Has(b, n) == Refs(configs[b]) = Joined(RefsOf(selected, b))[n]

\* The target is one the caller chose; what is pending is the rest of its sections.
SelectedInv ==
    /\ selected.name = call.target /\ selected \in Range(TopFile.targets)
    /\ selected.sections \in Seq(Section)
    /\ Opened \in 0..Len(selected.sections)
    /\ \A i \in DOMAIN pending : pending[i] = selected.sections[Opened + i]
    /\ \A i \in 1..Opened : Read(SectionFile(selected.sections[i]))

\* Blocks have been given the entries of the sections opened so far, but for the
\* blocks that the last one has yet to be handed to.
SectionInv ==
    selected # None =>
        /\ SelectedInv
        /\ phase = "blocks" =>
              /\ Opened # 0 /\ place = selected.sections[Opened]
              /\ todo \subseteq Present(CurrentFile)
              /\ \A b \in Registered : Has(b, IF b \in todo THEN Opened - 1 ELSE Opened)
        /\ phase \in {"sections"} \cup Loaded => \A b \in Registered : Has(b, Opened)
        /\ phase \in Loaded => pending = << >>

LEMMA JoinedDefined ==
    ASSUME NEW S, NEW seqs \in Seq(Seq(S))
    PROVE  /\ Joined(seqs) = [n \in Nat |-> IF n = 0 \/ n > Len(seqs) THEN << >>
                                            ELSE Joined(seqs)[n - 1] \o seqs[n]]
           /\ \A n \in Nat : Joined(seqs)[n] \in Seq(S)
<1> DEFINE F == [p \in Nat \X Seq(S) |-> IF p[1] > Len(seqs) THEN << >>
                                         ELSE p[2] \o seqs[p[1]]]
           Def(f) == f = [n \in Nat |-> IF n = 0 \/ n > Len(seqs) THEN << >>
                                        ELSE f[n - 1] \o seqs[n]]
<1>1. Len(seqs) \in Nat /\ \A n \in 1..Len(seqs) : seqs[n] \in Seq(S)
  BY ElementOfSeq, LenProperties
<1>2. << >> \in Seq(S)
  BY EmptySeq
<1>3. PICK f : Recursion(f, << >>, F)
  <2> HIDE DEF F
  <2> QED BY RecursionExists
<1> DEFINE T == {n \in Nat : f[n] \in Seq(S)}
<1>4. ASSUME NEW n \in Nat, n \in T
      PROVE  /\ f[n + 1] = IF n + 1 > Len(seqs) THEN << >> ELSE f[n] \o seqs[n + 1]
             /\ f[n + 1] \in Seq(S)
  <2>1. n + 1 \in Nat /\ n + 1 # 0 /\ (n + 1) - 1 = n
    OBVIOUS
  <2>2. f[n + 1] = F[<<n + 1, f[n]>>]
    <3> HIDE DEF F
    <3> QED BY <1>3, <2>1 DEF Recursion
  <2>3. f[n + 1] = IF n + 1 > Len(seqs) THEN << >> ELSE f[n] \o seqs[n + 1]
    BY <1>4, <2>1, <2>2
  <2>4. CASE n + 1 > Len(seqs)
    BY <1>2, <2>3, <2>4
  <2>5. CASE ~(n + 1 > Len(seqs))
    <3>1. seqs[n + 1] \in Seq(S) /\ f[n] \in Seq(S)
      BY <1>1, <1>4, <2>5
    <3> QED BY <2>3, <2>5, <3>1, ConcatProperties
  <2> QED BY <2>3, <2>4, <2>5
<1>5. Nat \subseteq T
  <2>1. f[0] = << >>
    <3> HIDE DEF F
    <3> QED BY <1>3 DEF Recursion
  <2>2. 0 \in T
    BY <1>2, <2>1
  <2>3. \A n \in Nat : n \in T => n + 1 \in T
    BY <1>4
  <2> HIDE DEF T
  <2> QED BY <2>2, <2>3, SetInduction
<1>6. Def(f)
  <2> DEFINE g == [n \in Nat |-> IF n = 0 \/ n > Len(seqs) THEN << >>
                                 ELSE f[n - 1] \o seqs[n]]
  <2>1. ASSUME NEW n \in Nat PROVE f[n] = g[n]
    <3>1. CASE n = 0
      <4> HIDE DEF F
      <4> QED BY <1>3, <3>1 DEF Recursion
    <3>2. CASE n # 0
      <4>1. n - 1 \in Nat /\ n - 1 \in T /\ (n - 1) + 1 = n
        <5>1. n - 1 \in Nat
          BY <3>2
        <5> HIDE DEF T
        <5> QED BY <1>5, <5>1
      <4>2. f[(n - 1) + 1] = IF (n - 1) + 1 > Len(seqs) THEN << >>
                             ELSE f[n - 1] \o seqs[(n - 1) + 1]
        BY <1>4, <4>1
      <4>3. f[n] = IF n > Len(seqs) THEN << >> ELSE f[n - 1] \o seqs[n]
        BY <4>1, <4>2
      <4> QED BY <3>2, <4>3
    <3> QED BY <3>1, <3>2
  <2>2. f = [n \in Nat |-> f[n]]
    <3> HIDE DEF F
    <3> QED BY <1>3 DEF Recursion
  <2> HIDE DEF T
  <2> QED BY <2>1, <2>2
<1> DEFINE j == CHOOSE g : Def(g)
<1>7. Joined(seqs) = j
  BY DEF Joined
<1>8. Def(j)
  <2> HIDE DEF Def
  <2> QED BY <1>6
<1> HIDE DEF j
<1>9. ASSUME NEW n \in Nat PROVE j[n] \in Seq(S)
  <2> DEFINE U == {m \in Nat : j[m] \in Seq(S)}
  <2>1. 0 \in U
    BY <1>2, <1>8
  <2>2. ASSUME NEW m \in Nat, m \in U PROVE m + 1 \in U
    <3>1. j[m + 1] = IF m + 1 > Len(seqs) THEN << >> ELSE j[m] \o seqs[m + 1]
      <4>1. m + 1 \in Nat /\ m + 1 # 0 /\ (m + 1) - 1 = m
        OBVIOUS
      <4> QED BY <1>8, <4>1
    <3>2. j[m + 1] \in Seq(S)
      <4>1. CASE m + 1 > Len(seqs)
        BY <1>2, <3>1, <4>1
      <4>2. CASE ~(m + 1 > Len(seqs))
        <5>1. seqs[m + 1] \in Seq(S) /\ j[m] \in Seq(S)
          BY <1>1, <2>2, <4>2
        <5>2. j[m] \o seqs[m + 1] \in Seq(S)
          BY <5>1, ConcatProperties
        <5> QED BY <3>1, <4>2, <5>2
      <4> QED BY <4>1, <4>2
    <3> QED BY <3>2
  <2>3. Nat \subseteq U
    <3> HIDE DEF U
    <3> QED BY <2>1, <2>2, SetInduction
  <2> QED BY <2>3
<1> QED BY <1>7, <1>8, <1>9

\* One more sequence is appended to those before it.
LEMMA JoinedSteps ==
    ASSUME NEW S, NEW seqs \in Seq(Seq(S))
    PROVE  /\ Joined(seqs)[0] = << >>
           /\ \A n \in 0..Len(seqs) : Joined(seqs)[n] \in Seq(S)
           /\ \A n \in 1..Len(seqs) : Joined(seqs)[n] = Joined(seqs)[n - 1] \o seqs[n]
<1>1. Len(seqs) \in Nat
  BY LenProperties
<1>2. Joined(seqs)[0] = << >>
  BY JoinedDefined
<1>3. \A n \in 0..Len(seqs) : Joined(seqs)[n] \in Seq(S)
  <2>1. \A n \in Nat : Joined(seqs)[n] \in Seq(S)
    BY JoinedDefined
  <2> QED BY <1>1, <2>1
<1>4. ASSUME NEW n \in 1..Len(seqs) PROVE Joined(seqs)[n] = Joined(seqs)[n - 1] \o seqs[n]
  <2>1. n \in Nat /\ n # 0 /\ ~(n > Len(seqs))
    BY <1>1
  <2> QED BY <2>1, JoinedDefined
<1> QED BY <1>2, <1>3, <1>4

\* All of them make the flat sequence.
LEMMA FlattenedIsJoined ==
    ASSUME NEW S, NEW seqs \in Seq(Seq(S))
    PROVE  FlattenSeq(seqs) = Joined(seqs)[Len(seqs)]
<1> DEFINE j == Joined(seqs)
           Def(f) == f = [i \in 1..Len(seqs) |-> IF i = 1 THEN seqs[i]
                                                 ELSE f[i - 1] \o seqs[i]]
           flat == CHOOSE f : Def(f)
<1>1. Len(seqs) \in Nat /\ \A n \in 1..Len(seqs) : seqs[n] \in Seq(S)
  BY ElementOfSeq, LenProperties
<1>2. /\ j[0] = << >>
      /\ \A n \in 1..Len(seqs) : j[n] = j[n - 1] \o seqs[n]
  BY JoinedSteps
<1> HIDE DEF j
<1>3. CASE Len(seqs) = 0
  <2>1. seqs = << >>
    BY <1>3, EmptySeq
  <2> QED BY <1>2, <1>3, <2>1 DEF FlattenSeq, j
<1>4. CASE Len(seqs) # 0
  <2> DEFINE g == [i \in 1..Len(seqs) |-> j[i]]
  <2>1. ASSUME NEW i \in 1..Len(seqs)
        PROVE  g[i] = IF i = 1 THEN seqs[i] ELSE g[i - 1] \o seqs[i]
    <3>1. CASE i = 1
      <4>1. j[1] = << >> \o seqs[1]
        <5>1. 1 \in 1..Len(seqs) /\ 1 - 1 = 0
          BY <1>1, <1>4
        <5> QED BY <1>2, <5>1
      <4>2. seqs[1] \in Seq(S)
        BY <1>1, <3>1
      <4>3. << >> \o seqs[1] = seqs[1]
        BY <4>2, ConcatEmptySeq
      <4> QED BY <3>1, <4>1, <4>3
    <3>2. CASE i # 1
      <4>1. i - 1 \in 1..Len(seqs)
        BY <1>1, <3>2
      <4> QED BY <1>2, <3>2, <4>1
    <3> QED BY <3>1, <3>2
  <2>2. Def(g)
    BY <2>1
  <2>3. Def(flat)
    <3> HIDE DEF Def, g
    <3> QED BY <2>2
  <2> HIDE DEF flat, g
  <2> DEFINE T == {n \in Nat : n \in 1..Len(seqs) => flat[n] = j[n]}
  <2>4. 0 \in T
    OBVIOUS
  <2>5. ASSUME NEW n \in Nat, n \in T PROVE n + 1 \in T
    <3> SUFFICES ASSUME n + 1 \in 1..Len(seqs) PROVE flat[n + 1] = j[n + 1]
      OBVIOUS
    <3>1. j[n + 1] = j[n] \o seqs[n + 1]
      <4>1. (n + 1) - 1 = n
        OBVIOUS
      <4> QED BY <1>2, <4>1
    <3>2. CASE n = 0
      <4>1. flat[1] = seqs[1]
        BY <2>3, <3>2
      <4>2. seqs[1] \in Seq(S)
        BY <1>1, <3>2
      <4>3. << >> \o seqs[1] = seqs[1]
        BY <4>2, ConcatEmptySeq
      <4>4. n + 1 = 1 /\ j[n] = << >>
        BY <1>2, <3>2
      <4> QED BY <3>1, <4>1, <4>3, <4>4
    <3>3. CASE n # 0
      <4>1. n \in 1..Len(seqs) /\ n + 1 # 1 /\ (n + 1) - 1 = n
        BY <1>1, <3>3
      <4>2. flat[n] = j[n]
        BY <2>5, <4>1
      <4>3. flat[n + 1] = flat[n] \o seqs[n + 1]
        BY <2>3, <4>1
      <4> QED BY <3>1, <4>2, <4>3
    <3> QED BY <3>2, <3>3
  <2>6. Nat \subseteq T
    <3> HIDE DEF T
    <3> QED BY <2>4, <2>5, SetInduction
  <2>7. flat[Len(seqs)] = j[Len(seqs)]
    BY <1>1, <1>4, <2>6
  <2>8. FlattenSeq(seqs) = flat[Len(seqs)]
    BY <1>4 DEF FlattenSeq, flat
  <2> QED BY <2>7, <2>8 DEF j
<1> QED BY <1>3, <1>4

\* What configs refer to, one table after the other.
LEMMA RefsOfConcat ==
    ASSUME NEW A, NEW s \in Seq(A), NEW t \in Seq(A)
    PROVE  Refs(s \o t) = Refs(s) \o Refs(t)
<1> DEFINE R == {<<x.source, x.files>> : x \in A}
<1>1. ASSUME NEW seq \in Seq(A)
      PROVE  /\ Refs(seq) \in Seq(R) /\ Len(Refs(seq)) = Len(seq)
             /\ \A k \in 1..Len(seq) : Refs(seq)[k] = <<seq[k].source, seq[k].files>>
  <2>1. /\ Len(seq) \in Nat /\ DOMAIN seq = 1..Len(seq)
        /\ \A k \in 1..Len(seq) : seq[k] \in A
    BY ElementOfSeq, LenProperties
  <2>2. Refs(seq) \in [1..Len(seq) -> R]
    BY <2>1 DEF Refs
  <2>3. \A k \in 1..Len(seq) : Refs(seq)[k] = <<seq[k].source, seq[k].files>>
    BY <2>1 DEF Refs
  <2> HIDE DEF R
  <2>4. Refs(seq) \in Seq(R)
    BY <2>1, <2>2, SeqDef
  <2>5. Len(Refs(seq)) = Len(seq)
    BY <2>1, <2>2, <2>4, LenProperties
  <2> QED BY <2>3, <2>4, <2>5
<1> HIDE DEF R
<1>2. /\ s \o t \in Seq(A) /\ Len(s \o t) = Len(s) + Len(t)
      /\ \A i \in 1..(Len(s) + Len(t)) : (s \o t)[i] =
            IF i <= Len(s) THEN s[i] ELSE t[i - Len(s)]
      /\ Len(s) \in Nat /\ Len(t) \in Nat
  BY ConcatProperties, LenProperties
<1>3. /\ Refs(s) \o Refs(t) \in Seq(R) /\ Len(Refs(s) \o Refs(t)) = Len(s) + Len(t)
      /\ \A i \in 1..(Len(s) + Len(t)) : (Refs(s) \o Refs(t))[i] =
            IF i <= Len(s) THEN Refs(s)[i] ELSE Refs(t)[i - Len(s)]
  <2>1. /\ Refs(s) \in Seq(R) /\ Len(Refs(s)) = Len(s)
        /\ Refs(t) \in Seq(R) /\ Len(Refs(t)) = Len(t)
    BY <1>1
  <2>2. /\ Refs(s) \o Refs(t) \in Seq(R)
        /\ Len(Refs(s) \o Refs(t)) = Len(Refs(s)) + Len(Refs(t))
        /\ \A i \in 1..(Len(Refs(s)) + Len(Refs(t))) : (Refs(s) \o Refs(t))[i] =
              IF i <= Len(Refs(s)) THEN Refs(s)[i] ELSE Refs(t)[i - Len(Refs(s))]
    BY <2>1, ConcatProperties
  <2> QED BY <2>1, <2>2
<1>4. ASSUME NEW i \in 1..(Len(s) + Len(t))
      PROVE  Refs(s \o t)[i] = (Refs(s) \o Refs(t))[i]
  <2>1. Refs(s \o t)[i] = <<(s \o t)[i].source, (s \o t)[i].files>>
    BY <1>1, <1>2
  <2>2. CASE i <= Len(s)
    <3>1. i \in 1..Len(s)
      BY <1>2, <2>2
    <3> QED BY <1>1, <1>2, <1>3, <2>1, <2>2, <3>1
  <2>3. CASE ~(i <= Len(s))
    <3>1. i - Len(s) \in 1..Len(t)
      BY <1>2, <2>3
    <3> QED BY <1>1, <1>2, <1>3, <2>1, <2>3, <3>1
  <2> QED BY <2>2, <2>3
<1>5. Refs(s \o t) \in Seq(R) /\ Len(Refs(s \o t)) = Len(s) + Len(t)
  BY <1>1, <1>2
<1> QED BY <1>3, <1>4, <1>5, SeqEqual

\* The file FindFile finds is the one the names prefer.
LEMMA PreferredFile ==
    ASSUME conf \in ConfDirs, NEW s \in Section, Read(SectionFile(s))
    PROVE  Preferred(s) = SectionFile(s)
<1> DEFINE at == conf.at[s]
           names == SectionFileNames
           found == {i \in DOMAIN names : at # NoDirectory /\ at[names[i]] # Absent}
           there == {n \in FileName : at[n] # Absent}
           Best(n) == /\ "section.toml" \in there => n = "section.toml"
                      /\ "config.toml" \in there => n # "manifest-builder.toml"
<1>1. /\ DOMAIN names = 1..3 /\ names[1] = "section.toml"
      /\ names[2] = "config.toml" /\ names[3] = "manifest-builder.toml"
      /\ FileName = {"section.toml", "config.toml", "manifest-builder.toml"}
  BY NamesInOrder
<1>2. found # {} /\ SectionFile(s) = at[names[CHOOSE i \in found : \A k \in found : i <= k]]
  BY DEF SectionFile, FindFile, Read
<1>3. Preferred(s) = at[CHOOSE n \in there : Best(n)]
  BY DEF Preferred
<1>4. found \subseteq {1, 2, 3}
  BY <1>1
<1>5. ASSUME NEW i \in found, \A k \in found : i <= k
      PROVE  names[i] \in there /\ \A n \in there : Best(n) <=> n = names[i]
  <2>1. names[i] \in there
    BY <1>1
  <2>2. /\ "section.toml" \in there <=> 1 \in found
        /\ "config.toml" \in there <=> 2 \in found
        /\ "manifest-builder.toml" \in there <=> 3 \in found
    BY <1>1
  <2>3. there \subseteq {"section.toml", "config.toml", "manifest-builder.toml"}
    BY <1>1
  <2> HIDE DEF names, found, there
  <2>4. CASE i = 1
    BY <1>1, <2>1, <2>2, <2>3, <2>4
  <2>5. CASE i = 2
    <3>1. 1 \notin found
      BY <1>5, <2>5
    <3> QED BY <1>1, <2>1, <2>2, <2>3, <2>5, <3>1
  <2>6. CASE i = 3
    <3>1. 1 \notin found /\ 2 \notin found
      BY <1>5, <2>6
    <3> QED BY <1>1, <2>1, <2>2, <2>3, <2>6, <3>1
  <2> QED BY <1>4, <2>4, <2>5, <2>6
<1>6. \E i \in found : \A k \in found : i <= k
  <2> HIDE DEF found
  <2>1. CASE 1 \in found
    BY <1>4, <2>1
  <2>2. CASE 1 \notin found /\ 2 \in found
    BY <1>4, <2>2
  <2>3. CASE found = {3}
    BY <2>3
  <2> QED BY <1>2, <1>4, <2>1, <2>2, <2>3
<1> HIDE DEF at, names, found, there, Best
<1>7. PICK i \in found : /\ \A k \in found : i <= k
                         /\ SectionFile(s) = at[names[i]]
  BY <1>2, <1>6
<1>8. PICK n \in there : Best(n) /\ Preferred(s) = at[n]
  BY <1>3, <1>5, <1>7
<1> QED BY <1>5, <1>7, <1>8

\* What a reference to a section's entry looks like.
Ref == (Section \X Optional(Rel)) \X SUBSET (Section \X Rel)

LEMMA RefsTyped ==
    ASSUME conf \in ConfDirs, NEW s \in Section, NEW b \in Block
    PROVE  /\ EntriesIn(s, b) \in Seq(Entry) /\ RefsIn(s, b) \in Seq(Ref)
           /\ Len(RefsIn(s, b)) = Len(EntriesIn(s, b))
<1> DEFINE entries == EntriesIn(s, b)
<1>1. entries \in Seq(Entry)
  BY ReadFiles, EmptySeq DEF EntriesIn, File
<1>2. /\ Len(entries) \in Nat /\ DOMAIN entries = 1..Len(entries)
      /\ \A k \in 1..Len(entries) : entries[k] \in Entry
  BY <1>1, ElementOfSeq, LenProperties
<1>3. ASSUME NEW e \in Entry PROVE InSection(s, e) \in Ref
  <2>1. e.source \in Optional(Rel) /\ e.files \subseteq Rel
    BY DEF Entry
  <2>2. {s} \X e.files \subseteq Section \X Rel
    BY <2>1
  <2> QED BY <2>1, <2>2 DEF InSection, Ref
<1>4. RefsIn(s, b) \in [1..Len(entries) -> Ref]
  BY <1>2, <1>3 DEF RefsIn
<1>5. RefsIn(s, b) \in Seq(Ref)
  BY <1>2, <1>4, SeqDef
<1>6. Len(RefsIn(s, b)) = Len(entries)
  BY <1>2, <1>4, <1>5, LenProperties
<1> QED BY <1>1, <1>5, <1>6

LEMMA RefsOfTyped ==
    ASSUME conf \in ConfDirs, NEW t, t.sections \in Seq(Section), NEW b \in Block
    PROVE  /\ RefsOf(t, b) \in Seq(Seq(Ref)) /\ Len(RefsOf(t, b)) = Len(t.sections)
           /\ \A i \in 1..Len(t.sections) : RefsOf(t, b)[i] = RefsIn(t.sections[i], b)
<1>1. /\ Len(t.sections) \in Nat /\ DOMAIN t.sections = 1..Len(t.sections)
      /\ \A i \in 1..Len(t.sections) : t.sections[i] \in Section
  BY ElementOfSeq, LenProperties
<1>2. \A i \in 1..Len(t.sections) : RefsIn(t.sections[i], b) \in Seq(Ref)
  BY <1>1, RefsTyped
<1>3. \A i \in 1..Len(t.sections) : RefsOf(t, b)[i] = RefsIn(t.sections[i], b)
  BY <1>1 DEF RefsOf
<1>4. RefsOf(t, b) \in [1..Len(t.sections) -> Seq(Ref)]
  BY <1>1, <1>2 DEF RefsOf
<1>5. RefsOf(t, b) \in Seq(Seq(Ref))
  BY <1>1, <1>4, SeqDef
<1>6. Len(RefsOf(t, b)) = Len(t.sections)
  BY <1>1, <1>4, <1>5, LenProperties
<1> QED BY <1>3, <1>5, <1>6

\* The table of one more section.
LEMMA OneMoreSection ==
    ASSUME conf \in ConfDirs, selected.sections \in Seq(Section), NEW b \in Block,
           NEW n \in 1..Len(selected.sections)
    PROVE  LET j == Joined(RefsOf(selected, b))
           IN  /\ j[n - 1] \in Seq(Ref)
               /\ j[n] = j[n - 1] \o RefsIn(selected.sections[n], b)
               /\ selected.sections[n] \in Section
<1> DEFINE seqs == RefsOf(selected, b)
<1>1. /\ seqs \in Seq(Seq(Ref)) /\ Len(seqs) = Len(selected.sections)
      /\ seqs[n] = RefsIn(selected.sections[n], b)
  BY RefsOfTyped
<1>2. n \in 1..Len(seqs) /\ n - 1 \in 0..Len(seqs) /\ selected.sections[n] \in Section
  BY <1>1, ElementOfSeq, LenProperties
<1> HIDE DEF seqs
<1>3. Joined(seqs)[n - 1] \in Seq(Ref) /\ Joined(seqs)[n] = Joined(seqs)[n - 1] \o seqs[n]
  BY <1>1, <1>2, JoinedSteps
<1> QED BY <1>1, <1>2, <1>3 DEF seqs

LEMMA SameSelection ==
    ASSUME UNCHANGED <<conf, call, selected>>
    PROVE  /\ UNCHANGED pending => SelectedInv' = SelectedInv /\ Opened' = Opened
           /\ Registered' = Registered
           /\ UNCHANGED place => CurrentFile' = CurrentFile
<1>1. ASSUME UNCHANGED pending PROVE SelectedInv' = SelectedInv /\ Opened' = Opened
  BY <1>1 DEF SelectedInv, Opened, TopFile, SectionFile, FindFile, Read
<1>2. Registered' = Registered
  BY DEF Registered
<1>3. ASSUME UNCHANGED place PROVE CurrentFile' = CurrentFile
  BY <1>3 DEF CurrentFile, TopFile, SectionFile, FindFile
<1> QED BY <1>1, <1>2, <1>3

LEMMA SelectTargetKeepsSections == LoadInv /\ SelectTarget => SectionInv'
<1> SUFFICES ASSUME LoadInv, SelectTarget PROVE SectionInv'
  OBVIOUS
<1>1. /\ phase = "target" /\ phase' = "sections" /\ TargetsOK(TopFile)
      /\ UNCHANGED <<conf, call, configs>>
  BY DEF SelectTarget, inputs, TargetFileOK
<1>2. PICK i \in DOMAIN TopFile.targets :
         /\ TopFile.targets[i].name = call.target
         /\ selected' = TopFile.targets[i]
         /\ pending' = TopFile.targets[i].sections
  BY DEF SelectTarget, Chosen
<1>3. Read(TopFile) /\ conf \in ConfDirs
  BY <1>1 DEF LoadInv, TopOK, TypeOK
<1>4. selected'.sections \in Seq(Section) /\ pending' = selected'.sections
  BY <1>1, <1>2, <1>3, WellFormedTargets
<1>5. Len(pending') \in Nat /\ DOMAIN pending' = 1..Len(pending')
  BY <1>4, LenProperties
<1>6. Opened' = 0
  BY <1>4, <1>5 DEF Opened
<1>7. TopFile' = TopFile
  BY <1>1 DEF TopFile, FindFile
<1>8. SelectedInv'
  <2>1. selected' \in Range(TopFile.targets)
    BY <1>2 DEF Range
  <2>2. \A k \in DOMAIN pending' : pending'[k] = selected'.sections[Opened' + k]
    BY <1>4, <1>5, <1>6
  <2>3. Opened' \in 0..Len(selected'.sections) /\ \A k \in 1..Opened' : FALSE
    BY <1>4, <1>5, <1>6
  <2> QED BY <1>1, <1>2, <1>4, <1>7, <2>1, <2>2, <2>3 DEF SelectedInv
<1>9. ASSUME NEW b \in Registered' PROVE Has(b, Opened)'
  <2>1. b \in Block
    BY <1>1, Arguments DEF LoadInv, TypeOK, Registered
  <2>2. configs'[b] = << >>
    BY <1>1, <2>1 DEF LoadInv, Early
  <2>3. Refs(configs'[b]) = << >>
    BY <2>2 DEF Refs
  <2>4. /\ conf' \in ConfDirs /\ selected'.sections \in Seq(Section)
    BY <1>1, <1>3, <1>4
  <2>5. RefsOf(selected, b)' \in Seq(Seq(Ref))
    <3>1. RefsOf(selected', b) \in Seq(Seq(Ref))
      BY <1>3, <1>4, <2>1, RefsOfTyped
    <3>2. RefsOf(selected, b)' = RefsOf(selected', b)
      BY <1>1 DEF RefsOf, RefsIn, EntriesIn, SectionFile, FindFile, Read
    <3> QED BY <3>1, <3>2
  <2>6. Joined(RefsOf(selected, b)')[0] = << >>
    BY <2>5, JoinedSteps
  <2> QED BY <1>6, <2>3, <2>6 DEF Has
<1> QED BY <1>1, <1>8, <1>9 DEF SectionInv, Loaded

LEMMA OpenSectionKeepsSections == LoadInv /\ SectionInv /\ OpenSection => SectionInv'
<1> SUFFICES ASSUME LoadInv, SectionInv, OpenSection PROVE SectionInv'
  OBVIOUS
<1> DEFINE s == Head(pending)
           n == Opened + 1
<1>1. /\ phase = "sections" /\ phase' = "blocks" /\ place' = s
      /\ UNCHANGED <<conf, call, selected, configs>>
      /\ pending' = Tail(pending) /\ todo' = Present(SectionFile(s)) /\ SectionOK(s)
  BY DEF OpenSection, BeginBlocks, inputs
<1>2. /\ s \in Section /\ s # Top /\ Read(SectionFile(s)) /\ selected # None
      /\ conf \in ConfDirs /\ pending \in Seq(Section) /\ pending # << >>
  BY <1>1, NextSection DEF LoadInv, TypeOK
<1>3. SelectedInv /\ \A b \in Registered : Has(b, Opened)
  BY <1>1, <1>2 DEF SectionInv
<1>4. /\ Len(pending) \in Nat /\ Len(pending) > 0 /\ DOMAIN pending = 1..Len(pending)
      /\ s = pending[1] /\ Len(pending') = Len(pending) - 1
      /\ DOMAIN pending' = 1..(Len(pending) - 1)
      /\ \A i \in 1..(Len(pending) - 1) : pending'[i] = pending[i + 1]
  BY <1>1, <1>2, HeadTailProperties, LenProperties, EmptySeq
<1>5. selected.sections \in Seq(Section) /\ Len(selected.sections) \in Nat
  BY <1>3, LenProperties DEF SelectedInv
<1>6. /\ n \in 1..Len(selected.sections) /\ n - 1 = Opened /\ Opened' = n
      /\ s = selected.sections[n]
  <2>1. /\ Opened = Len(selected.sections) - Len(pending)
        /\ Opened' = Len(selected'.sections) - Len(pending')
    BY DEF Opened
  <2>2. Opened \in 0..Len(selected.sections)
    BY <1>3 DEF SelectedInv
  <2>3. n \in 1..Len(selected.sections) /\ n - 1 = Opened
    BY <1>4, <1>5, <2>1, <2>2
  <2>4. Len(pending') = Len(pending) - 1 /\ selected'.sections = selected.sections
    BY <1>1, <1>4
  <2>5. Opened' = n
    <3> HIDE DEF s
    <3> QED BY <1>4, <1>5, <2>1, <2>3, <2>4
  <2>6. 1 \in DOMAIN pending
    BY <1>4
  <2>7. pending[1] = selected.sections[Opened + 1]
    BY <1>3, <2>6 DEF SelectedInv
  <2> QED BY <1>4, <2>3, <2>5, <2>7
<1>7. /\ \A x \in Section : SectionFile(x)' = SectionFile(x)
      /\ TopFile' = TopFile /\ Registered' = Registered
  BY <1>1 DEF SectionFile, TopFile, FindFile, Registered
<1> HIDE DEF s, n
<1>8. SelectedInv'
  <2>1. \A i \in DOMAIN pending' : pending'[i] = selected.sections[Opened' + i]
    <3> SUFFICES ASSUME NEW i \in 1..(Len(pending) - 1)
                 PROVE  pending[i + 1] = selected.sections[n + i]
      BY <1>4, <1>6
    <3>1. i + 1 \in DOMAIN pending /\ Opened + (i + 1) = n + i
      BY <1>3, <1>4, <1>6 DEF n
    <3>2. pending[i + 1] = selected.sections[Opened + (i + 1)]
      BY <1>3, <3>1 DEF SelectedInv
    <3> QED BY <3>1, <3>2
  <2>2. \A i \in 1..Opened' : Read(SectionFile(selected.sections[i])')
    <3> SUFFICES ASSUME NEW i \in 1..n PROVE Read(SectionFile(selected.sections[i]))
      BY <1>1, <1>5, <1>6, <1>7, ElementOfSeq
    <3>1. CASE i = n
      BY <1>2, <1>6, <3>1
    <3>2. CASE i # n
      <4>1. i \in 1..Opened
        BY <1>6, <3>2
      <4> QED BY <1>3, <4>1 DEF SelectedInv
    <3> QED BY <3>1, <3>2
  <2>3. Opened' \in 0..Len(selected.sections)
    BY <1>5, <1>6
  <2> QED BY <1>1, <1>3, <1>7, <2>1, <2>2, <2>3 DEF SelectedInv, Read
<1>9. todo' \subseteq Present(CurrentFile)'
  <2>1. CurrentFile' = SectionFile(s)
    BY <1>1, <1>2, <1>7 DEF CurrentFile
  <2> QED BY <1>1, <1>7, <2>1 DEF Present
<1>10. ASSUME NEW b \in Registered
       PROVE  Refs(configs[b]) = Joined(RefsOf(selected, b))
                                    [IF b \in todo' THEN n - 1 ELSE n]
  <2>1. b \in Block
    BY Arguments DEF LoadInv, TypeOK
  <2>2. Refs(configs[b]) = Joined(RefsOf(selected, b))[n - 1]
    BY <1>3, <1>6 DEF Has
  <2>3. CASE b \in todo'
    BY <2>2, <2>3
  <2>4. CASE b \notin todo'
    <3>1. b \notin SectionFile(s).keys
      BY <1>1, <2>4 DEF Present
    <3>2. RefsIn(s, b) = << >>
      BY <3>1 DEF RefsIn, EntriesIn
    <3>3. /\ Joined(RefsOf(selected, b))[n - 1] \in Seq(Ref)
          /\ Joined(RefsOf(selected, b))[n] = Joined(RefsOf(selected, b))[n - 1] \o << >>
      BY <1>2, <1>5, <1>6, <2>1, <3>2, OneMoreSection
    <3>4. Joined(RefsOf(selected, b))[n] = Joined(RefsOf(selected, b))[n - 1]
      BY <3>3, ConcatEmptySeq
    <3> QED BY <2>2, <2>4, <3>4
  <2> QED BY <2>3, <2>4
<1>11. ASSUME NEW b \in Registered'
       PROVE  (Has(b, IF b \in todo THEN Opened - 1 ELSE Opened))'
  <2>1. RefsOf(selected, b)' = RefsOf(selected, b)
    BY <1>1 DEF RefsOf, RefsIn, EntriesIn, SectionFile, FindFile, Read
  <2>2. Refs(configs[b])' = Refs(configs[b])
    BY <1>1
  <2> QED BY <1>6, <1>7, <1>10, <2>1, <2>2 DEF Has
<1>12. Opened' # 0 /\ place' = selected'.sections[Opened']
  BY <1>1, <1>6
<1> QED BY <1>1, <1>8, <1>9, <1>11, <1>12 DEF SectionInv, Loaded

\* A table goes to its block, as what the section's entries refer to.
LEMMA LoadBlockKeepsSections ==
    ASSUME LoadInv, SectionInv, NEW b \in Block, LoadBlock(b)
    PROVE  SectionInv'
<1> DEFINE entries == CurrentFile.entries[b]
           more == [k \in 1..Len(entries) |-> Parsed(entries[k])]
<1>1. /\ phase = "blocks" /\ b \in todo /\ todo' = todo \ {b}
      /\ UNCHANGED <<conf, call, phase, selected, pending, place>>
      /\ configs' = Given(b, Len(entries))
  BY DEF LoadBlock, inputs
<1> SUFFICES ASSUME selected # None PROVE SectionInv'
  BY <1>1 DEF SectionInv
<1>2. /\ SelectedInv /\ Opened # 0 /\ place = selected.sections[Opened]
      /\ todo \subseteq Present(CurrentFile)
      /\ \A d \in Registered : Has(d, IF d \in todo THEN Opened - 1 ELSE Opened)
  BY <1>1 DEF SectionInv
<1>3. /\ conf \in ConfDirs /\ Read(CurrentFile) /\ DOMAIN configs = Block
      /\ Listing(configs[b]) /\ b \in Registered /\ b \in CurrentFile.keys
      /\ Len(entries) \in Nat /\ DOMAIN entries = 1..Len(entries)
  <2>1. b \in Registered /\ b \in CurrentFile.keys
    BY <1>1, <1>2 DEF Present
  <2> QED BY <1>1, <2>1, EntriesAreListed DEF LoadInv, TypeOK
<1>4. /\ selected.sections \in Seq(Section) /\ Opened \in 1..Len(selected.sections)
      /\ place \in Section /\ place # Top
  <2>1. selected.sections \in Seq(Section) /\ Opened \in 1..Len(selected.sections)
    BY <1>2 DEF SelectedInv
  <2>2. place \in Section
    BY <1>2, <2>1, ElementOfSeq
  <2> QED BY <2>1, <2>2, ConfigAssumption
<1>5. CurrentFile = SectionFile(place)
  BY <1>4 DEF CurrentFile
<1>6. EntriesIn(place, b) = entries
  BY <1>3, <1>5 DEF EntriesIn
<1>7. Refs(more) = RefsIn(place, b)
  <2>1. Refs(more) = [k \in 1..Len(entries) |-> <<more[k].source, more[k].files>>]
    BY DEF Refs
  <2>2. RefsIn(place, b) = [k \in 1..Len(entries) |-> InSection(place, entries[k])]
    <3> HIDE DEF entries, more
    <3> QED BY <1>3, <1>6 DEF RefsIn
  <2>3. ASSUME NEW k \in 1..Len(entries)
        PROVE  <<more[k].source, more[k].files>> = InSection(place, entries[k])
    BY DEF Parsed, InSection
  <2> HIDE DEF entries, more
  <2> QED BY <2>1, <2>2, <2>3
<1>8. configs'[b] = configs[b] \o more /\ \A d \in Block \ {b} : configs'[d] = configs[d]
  BY <1>1, <1>3 DEF Given
<1>9. Refs(configs'[b]) = Refs(configs[b]) \o Refs(more)
  <2> DEFINE A == {configs[b][k] : k \in DOMAIN configs[b]}
                  \cup {more[k] : k \in 1..Len(entries)}
  <2>1. configs[b] \in Seq(A)
    BY <1>3, SeqMonotonic DEF Listing
  <2>2. more \in Seq(A)
    <3>1. more \in [1..Len(entries) -> A]
      OBVIOUS
    <3> HIDE DEF A, more
    <3> QED BY <1>3, <3>1, SeqDef
  <2> HIDE DEF A, more
  <2>3. Refs(configs[b] \o more) = Refs(configs[b]) \o Refs(more)
    BY <2>1, <2>2, RefsOfConcat
  <2> QED BY <1>8, <2>3
<1> HIDE DEF entries, more
<1>10. Refs(configs'[b]) = Joined(RefsOf(selected, b))[Opened]
  <2>1. Joined(RefsOf(selected, b))[Opened]
           = Joined(RefsOf(selected, b))[Opened - 1] \o RefsIn(place, b)
    BY <1>2, <1>3, <1>4, OneMoreSection
  <2>2. Refs(configs[b]) = Joined(RefsOf(selected, b))[Opened - 1]
    BY <1>1, <1>2, <1>3 DEF Has
  <2> QED BY <1>7, <1>9, <2>1, <2>2
<1>11. /\ SelectedInv' /\ Opened' = Opened /\ Registered' = Registered
       /\ CurrentFile' = CurrentFile
  BY <1>1, <1>2, SameSelection
<1>12. ASSUME NEW d \in Registered'
       PROVE  (Has(d, IF d \in todo THEN Opened - 1 ELSE Opened))'
  <2>1. RefsOf(selected, d)' = RefsOf(selected, d)
    BY <1>1 DEF RefsOf, RefsIn, EntriesIn, SectionFile, FindFile, Read
  <2>2. d \in Block /\ d \in Registered
    BY <1>11, Arguments DEF LoadInv, TypeOK
  <2>3. CASE d = b
    <3>1. d \notin todo'
      BY <1>1, <2>3
    <3> QED BY <1>10, <1>11, <2>1, <2>3, <3>1 DEF Has
  <2>4. CASE d # b
    <3>1. configs'[d] = configs[d] /\ (d \in todo' <=> d \in todo)
      BY <1>1, <1>8, <2>2, <2>4
    <3>2. Refs(configs[d])' = Refs(configs[d])
      BY <3>1 DEF Refs
    <3>3. Refs(configs[d]) = Joined(RefsOf(selected, d))
                                [IF d \in todo THEN Opened - 1 ELSE Opened]
      BY <1>2, <2>2 DEF Has
    <3> QED BY <1>11, <2>1, <3>1, <3>2, <3>3 DEF Has
  <2> QED BY <2>3, <2>4
<1>13. todo' \subseteq Present(CurrentFile)'
  <2>1. Present(CurrentFile)' = Present(CurrentFile)
    BY <1>11 DEF Present
  <2> QED BY <1>1, <1>2, <2>1
<1> QED BY <1>1, <1>2, <1>11, <1>12, <1>13 DEF SectionInv, Loaded

\* The other steps leave the target and what blocks were given alone.
LEMMA OthersKeepSections ==
    ASSUME LoadInv, SectionInv,
           \/ FileDone \/ Validate \/ Fail \/ Mistargeted \/ UNCHANGED vars
           \/ \E b \in Block : BlockFails(b)
    PROVE  SectionInv'
<1>1. UNCHANGED <<conf, call, selected, pending, place, todo>>
  BY DEF FileDone, Validate, Fail, Mistargeted, BlockFails, vars, inputs
<1> SUFFICES ASSUME selected # None PROVE SectionInv'
  BY <1>1 DEF SectionInv
<1>2. /\ SelectedInv' /\ Opened' = Opened /\ Registered' = Registered
      /\ CurrentFile' = CurrentFile
  BY <1>1, SameSelection DEF SectionInv
<1>3. ASSUME phase' \in {"failed", "mistargeted"} PROVE SectionInv'
  BY <1>2, <1>3 DEF SectionInv, Loaded
<1>4. ASSUME UNCHANGED configs, NEW b
      PROVE  /\ RefsOf(selected, b)' = RefsOf(selected, b)
             /\ Refs(configs[b])' = Refs(configs[b])
  BY <1>1, <1>4 DEF RefsOf, RefsIn, EntriesIn, SectionFile, FindFile, Read
<1>5. CASE FileDone
  <2>1. /\ phase = "blocks" /\ todo = {} /\ UNCHANGED configs
        /\ phase' = IF pending = << >> THEN "loaded" ELSE "sections"
    BY <1>5 DEF FileDone, inputs
  <2>2. \A b \in Registered : Has(b, Opened)
    BY <2>1 DEF SectionInv
  <2>3. \A b \in Registered' : Has(b, Opened)'
    <3> SUFFICES ASSUME NEW b \in Registered PROVE Has(b, Opened)'
      BY <1>2
    <3>1. Refs(configs[b]) = Joined(RefsOf(selected, b))[Opened]
      BY <2>2 DEF Has
    <3> QED BY <1>2, <1>4, <2>1, <3>1 DEF Has
  <2> QED BY <1>1, <1>2, <2>1, <2>3 DEF SectionInv, Loaded
<1>6. CASE Validate
  <2>1. phase = "loaded" /\ phase' \in {"accepted", "failed"} /\ UNCHANGED configs
    BY <1>6 DEF Validate, inputs
  <2>2. pending = << >> /\ \A b \in Registered : Has(b, Opened)
    BY <2>1 DEF SectionInv, Loaded
  <2>3. \A b \in Registered' : Has(b, Opened)'
    <3> SUFFICES ASSUME NEW b \in Registered PROVE Has(b, Opened)'
      BY <1>2
    <3>1. Refs(configs[b]) = Joined(RefsOf(selected, b))[Opened]
      BY <2>2 DEF Has
    <3> QED BY <1>2, <1>4, <2>1, <3>1 DEF Has
  <2> QED BY <1>1, <1>2, <2>1, <2>2, <2>3 DEF SectionInv, Loaded
<1>7. CASE Fail \/ Mistargeted \/ \E b \in Block : BlockFails(b)
  BY <1>3, <1>7 DEF Fail, Mistargeted, BlockFails
<1>8. CASE UNCHANGED vars
  <2>1. UNCHANGED <<phase, configs>>
    BY <1>8 DEF vars
  <2>2. Present(CurrentFile)' = Present(CurrentFile)
    BY <1>2 DEF Present
  <2>3. ASSUME phase = "blocks", NEW b \in Registered'
        PROVE  (Has(b, IF b \in todo THEN Opened - 1 ELSE Opened))'
    <3>1. Refs(configs[b]) = Joined(RefsOf(selected, b))
                                [IF b \in todo THEN Opened - 1 ELSE Opened]
      BY <1>2, <2>3 DEF SectionInv, Has
    <3> QED BY <1>1, <1>2, <1>4, <2>1, <3>1 DEF Has
  <2>4. ASSUME phase \in {"sections"} \cup Loaded, NEW b \in Registered'
        PROVE  Has(b, Opened)'
    <3>1. Refs(configs[b]) = Joined(RefsOf(selected, b))[Opened]
      BY <1>2, <2>4 DEF SectionInv, Has
    <3> QED BY <1>2, <1>4, <2>1, <3>1 DEF Has
  <2> QED BY <1>1, <1>2, <2>1, <2>2, <2>3, <2>4 DEF SectionInv, Loaded
<1> QED BY <1>5, <1>6, <1>7, <1>8

LEMMA SectionInvInductive == Spec => []SectionInv
<1>1. Init => SectionInv
  BY DEF Init, SectionInv
<1>2. LoadInv /\ SectionInv /\ [Next]_vars => SectionInv'
  <2> SUFFICES ASSUME LoadInv, SectionInv, [Next]_vars PROVE SectionInv'
    OBVIOUS
  <2>1. CASE LoadArguments \/ OpenTop \/ LoadFlat
    <3>1. selected = None /\ selected' = selected
      BY <2>1 DEF LoadInv, Early, LoadArguments, OpenTop, LoadFlat, BeginBlocks
    <3> QED BY <3>1 DEF SectionInv
  <2>2. CASE \E b \in Block : LoadBlock(b)
    BY <2>2, LoadBlockKeepsSections
  <2>3. CASE SelectTarget \/ OpenSection
    BY <2>3, SelectTargetKeepsSections, OpenSectionKeepsSections
  <2>4. CASE \/ FileDone \/ Validate \/ Fail \/ Mistargeted \/ UNCHANGED vars
             \/ \E b \in Block : BlockFails(b)
    BY <2>4, OthersKeepSections
  <2> QED BY <2>1, <2>2, <2>3, <2>4 DEF Next, Over
<1> QED BY <1>1, <1>2, LoadInvInductive, PTL DEF Spec

\* However many sections the target lists, a load gives every block what each of
\* them holds for it, whole, once and in that order, and nothing of another section.
THEOREM SectionsAlwaysLoadWhole == Spec => []SectionsLoadWhole
<1>1. LoadInv /\ SectionInv => SectionsLoadWhole
  <2> SUFFICES ASSUME LoadInv, SectionInv, phase \in Loaded, selected # None,
                      NEW b \in Registered
               PROVE  \E t \in {t \in Range(TopFile.targets) : t.name = call.target} :
                         /\ \A s \in Range(t.sections) : Read(Preferred(s))
                         /\ Refs(configs[b]) =
                            FlattenSeq([i \in DOMAIN t.sections |->
                               LET s == t.sections[i]
                                   entries == IF b \in Preferred(s).keys
                                              THEN Preferred(s).entries[b] ELSE << >>
                               IN  [k \in DOMAIN entries |-> InSection(s, entries[k])]])
    BY DEF SectionsLoadWhole, Refs
  <2>1. /\ SelectedInv /\ Has(b, Opened) /\ pending = << >> /\ conf \in ConfDirs
        /\ b \in Block
    BY Arguments DEF SectionInv, LoadInv, TypeOK
  <2>2. /\ selected.sections \in Seq(Section) /\ Len(selected.sections) \in Nat
        /\ Opened = Len(selected.sections)
    BY <2>1, LenProperties, EmptySeq DEF SelectedInv, Opened
  <2>3. ASSUME NEW i \in DOMAIN selected.sections
        PROVE  /\ Preferred(selected.sections[i]) = SectionFile(selected.sections[i])
               /\ Read(SectionFile(selected.sections[i]))
    <3>1. i \in 1..Opened /\ selected.sections[i] \in Section
      BY <2>2, ElementOfSeq, LenProperties
    <3>2. Read(SectionFile(selected.sections[i]))
      BY <2>1, <3>1 DEF SelectedInv
    <3> QED BY <2>1, <3>1, <3>2, PreferredFile
  <2> DEFINE EntriesOf(s) == IF b \in Preferred(s).keys
                             THEN Preferred(s).entries[b] ELSE << >>
             seqs == [i \in DOMAIN selected.sections |->
                        [k \in DOMAIN EntriesOf(selected.sections[i]) |->
                           InSection(selected.sections[i],
                                     EntriesOf(selected.sections[i])[k])]]
  <2>4. seqs = RefsOf(selected, b)
    <3>1. ASSUME NEW i \in DOMAIN selected.sections
          PROVE  EntriesOf(selected.sections[i]) = EntriesIn(selected.sections[i], b)
      BY <2>3 DEF EntriesIn
    <3> HIDE DEF EntriesOf
    <3> QED BY <3>1 DEF RefsOf, RefsIn
  <2>5. Refs(configs[b]) = FlattenSeq(RefsOf(selected, b))
    <3>1. /\ RefsOf(selected, b) \in Seq(Seq(Ref))
          /\ Len(RefsOf(selected, b)) = Len(selected.sections)
      BY <2>1, <2>2, RefsOfTyped
    <3>2. FlattenSeq(RefsOf(selected, b))
             = Joined(RefsOf(selected, b))[Len(RefsOf(selected, b))]
      BY <3>1, FlattenedIsJoined
    <3> QED BY <2>1, <2>2, <3>1, <3>2 DEF Has
  <2>6. Refs(configs[b]) = FlattenSeq(seqs)
    <3> HIDE DEF seqs
    <3> QED BY <2>4, <2>5
  <2>7. \A s \in Range(selected.sections) : Read(Preferred(s))
    BY <2>3 DEF Range
  <2>8. selected \in {t \in Range(TopFile.targets) : t.name = call.target}
    BY <2>1 DEF SelectedInv
  <2> QED BY <2>6, <2>7, <2>8
<1> QED BY <1>1, LoadInvInductive, SectionInvInductive, PTL
=============================================================================
