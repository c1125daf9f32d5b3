--------------------------- MODULE ConfigLoading ----------------------------
(***************************************************************************)
(* One call of load_configs(), with the arguments generate() gives it and  *)
(* the validation that follows: the top-level config file either declares  *)
(* config blocks itself (version 1) or targets (version 2), each with the  *)
(* sections it is built from and variables of its own.  Every section's    *)
(* file is read in turn, its variables are merged with the target's and    *)
(* the caller's, and its entries are appended to the blocks' configs.      *)
(***************************************************************************)
EXTENDS SequencesExt

CONSTANTS
    SectionName,  \* what targets list as sections
    Section,      \* those that name a directory in the config directory
    Top,          \* the config directory itself
    TargetName,   \* names of targets
    Block,        \* the top-level keys config blocks may own
    Var,          \* names of template variables
    NotScalar,    \* the variables whose value is a table or a list
    Namespace, EntryName, Rel,  \* values of an entry's fields
    ConfDirs,     \* the config directories considered
    Calls,        \* the arguments considered
    None,         \* a field or argument that is not set
    Absent,       \* a file that does not exist
    Unparsable,   \* a file that is not TOML
    NoDirectory   \* a directory that does not exist

Place == Section \cup {Top}

\* CONFIG_FILE_NAMES and SECTION_FILE_NAMES, the first one that exists counts.
ConfigFileNames == <<"config.toml", "manifest-builder.toml">>
SectionFileNames == <<"section.toml">> \o ConfigFileNames
FileName == Range(SectionFileNames)

Optional(S) == {None} \cup S

\* An entry of a block: odd says that it has a field nobody knows.
Entry == [odd : BOOLEAN, name : Optional(EntryName),
          namespace : Optional(Namespace), source : Optional(Rel),
          files : SUBSET Rel]

\* A [[target]]: odd as above; a section may also be no name of a directory.
Target == [odd : BOOLEAN, name : Optional(TargetName),
           sections : Optional(Seq(SectionName)), vars : SUBSET Var]

\* A parsed TOML file: its top-level keys, and what is below those it has.
File == [keys : SUBSET (Block \cup {"version", "target", "variables", "odd"}),
         version : Nat, targets : Seq(Target), vars : SUBSET Var,
         entries : [Block -> Seq(Entry)]]

\* at[p]: the config files in directory p; dirs, files: what else is there.
ConfDir == [at : [Place -> {NoDirectory} \cup
                           [FileName -> {Absent, Unparsable} \cup File]],
            dirs : SUBSET (Place \X Rel), files : SUBSET (Place \X Rel)]

\* varsFrom and vars: the variables in the vars_from file, if there is such a
\* file, and those passed as an argument; blocks: what discovery registered.
Call == [target : Optional(TargetName), namespace : Optional(Namespace),
         varsFrom : {Absent} \cup SUBSET Var, vars : SUBSET Var,
         blocks : Seq(Block)]

ASSUME ConfigAssumption ==
    /\ Section \subseteq SectionName
    /\ Top \notin SectionName
    /\ NotScalar \subseteq Var
    /\ None \notin Target \cup TargetName \cup {<< >>}
    /\ \A names \in SUBSET Var : names # Absent
    /\ ConfDirs \subseteq ConfDir /\ Calls \subseteq Call

VARIABLES
    conf,       \* the config directory
    call,       \* the arguments of generate()
    phase,      \* where the call is
    extra,      \* extra_variables
    selected,   \* the target selected, if any
    pending,    \* the sections it has yet to load
    place,      \* the directory of the file being loaded
    variables,  \* the variables of that file, merged
    todo,       \* the blocks it has yet to hand their entries to
    configs     \* configs[b]: what block b has been given

inputs == <<conf, call>>
vars == <<conf, call, phase, extra, selected, pending, place, variables, todo,
          configs>>
-----------------------------------------------------------------------------
(* Files. *)

\* Mutant of FindFile: the last of the names counts.
FindFile_Last(p, names) ==
    LET there == {i \in DOMAIN names : conf.at[p] # NoDirectory
                                       /\ conf.at[p][names[i]] # Absent}
    IN  IF there = {} THEN Absent
        ELSE conf.at[p][names[CHOOSE i \in there : \A k \in there : k <= i]]

\* find_config_file: what the first of names that exists in directory p holds.
FindFile(p, names) ==
    LET there == {i \in DOMAIN names : conf.at[p] # NoDirectory
                                       /\ conf.at[p][names[i]] # Absent}
    IN  IF there = {} THEN Absent
        ELSE conf.at[p][names[CHOOSE i \in there : \A k \in there : i <= k]]

TopFile == FindFile(Top, ConfigFileNames)
SectionFile(s) == FindFile(s, SectionFileNames)

Read(file) == file \notin {Absent, Unparsable}

\* config_version: a file that states none declares blocks.
BlocksVersion == 1
TargetsVersion == 2
VersionOf(file) ==
    IF "version" \in file.keys THEN file.version ELSE BlocksVersion
Supported(file) == VersionOf(file) \in {BlocksVersion, TargetsVersion}
-----------------------------------------------------------------------------
(* Targets. *)

Distinct(seq) == \A i, k \in DOMAIN seq : seq[i] = seq[k] => i = k

\* parse_variables takes scalar values only.
Scalar(names) == names \cap NotScalar = {}

\* _parse_sections
SectionsOK(t) ==
    /\ t.sections \notin {None, << >>}
    /\ \A i \in DOMAIN t.sections : t.sections[i] \in Section
    /\ Distinct(t.sections)

\* parse_targets: every entry is well-formed, and the names are distinct.
TargetsOK(file) ==
    /\ "target" \in file.keys
    /\ \A i \in DOMAIN file.targets :
          LET t == file.targets[i]
          IN  ~t.odd /\ t.name # None /\ SectionsOK(t) /\ Scalar(t.vars)
    /\ Distinct([i \in DOMAIN file.targets |-> file.targets[i].name])

TargetNames(file) == {file.targets[i].name : i \in DOMAIN file.targets}

\* declared_targets: the names, no targets at all, or an error.
NoTargets == [kind |-> "none", names |-> {}]
Malformed == [kind |-> "raises", names |-> {}]
DeclaredTargets ==
    IF TopFile = Absent THEN NoTargets
    ELSE IF ~Read(TopFile) \/ ~Supported(TopFile) THEN Malformed
    ELSE IF VersionOf(TopFile) # TargetsVersion THEN NoTargets
    ELSE IF ~TargetsOK(TopFile) THEN Malformed
    ELSE [kind |-> "targets", names |-> TargetNames(TopFile)]
-----------------------------------------------------------------------------
(* Variables: a function from names to where the value is from. *)

From(names, source) == [v \in names |-> source]
TargetVars(t) == From(t.vars, <<"target", t.name>>)
FileVars(p, file) ==
    From(IF "variables" \in file.keys THEN file.vars ELSE {}, <<"file", p>>)
ExtraVars == From(extra, <<"extra", Top>>)

\* Mutant of Mergeable: the later of two values wins.
Mergeable_Always(base, added) == TRUE

\* merge_variables
Mergeable(base, added) == DOMAIN base \cap DOMAIN added = {}
Merged(base, added) ==
    [v \in DOMAIN base \cup DOMAIN added |->
        IF v \in DOMAIN added THEN added[v] ELSE base[v]]

\* Mutant of OfTarget: the variables of the last section are merged in, too.
OfTarget_Leaks == Merged(TargetVars(selected), variables)

\* What the variables of a section's file are merged with.
OfTarget == TargetVars(selected)
-----------------------------------------------------------------------------
Init ==
    /\ conf \in ConfDirs
    /\ call \in Calls
    /\ phase = "arguments"
    /\ extra = {}
    /\ selected = None
    /\ pending = << >>
    /\ place = Top
    /\ variables = << >>
    /\ todo = {}
    /\ configs = [b \in Block |-> << >>]

\* _load_api_variables: vars_from and vars share no name.
ArgumentsOK ==
    /\ call.varsFrom # Absent
    /\ Scalar(call.varsFrom \cup call.vars)
    /\ call.varsFrom \cap call.vars = {}

LoadArguments ==
    /\ phase = "arguments"
    /\ ArgumentsOK
    /\ extra' = call.varsFrom \cup call.vars
    /\ phase' = "top"
    /\ UNCHANGED <<inputs, selected, pending, place, variables, todo, configs>>

\* load_configs: the top-level file, its version, and the registered blocks.
TopOK ==
    /\ Read(TopFile)
    /\ call.blocks # << >> /\ Distinct(call.blocks)
    /\ Supported(TopFile)

Registered == Range(call.blocks)

OpenTop ==
    /\ phase = "top"
    /\ TopOK
    /\ phase' = IF VersionOf(TopFile) = TargetsVersion THEN "target" ELSE "flat"
    /\ UNCHANGED <<inputs, extra, selected, pending, place, variables, todo, configs>>

\* _load_config_blocks: the blocks with entries in a file, and its other keys.
Present(file) == file.keys \cap Registered
KeysOK(file, allowed) ==
    /\ file.keys \subseteq Registered \cup {"variables"} \cup allowed
    /\ Present(file) # {}

\* Merge the variables and hand the file's tables to the blocks.
BeginBlocks(p, file, merged) ==
    /\ place' = p
    /\ variables' = merged
    /\ todo' = Present(file)
    /\ phase' = "blocks"
    /\ UNCHANGED <<inputs, extra, selected, configs>>

\* A top-level file that declares blocks.
FlatOK ==
    /\ call.target = None
    /\ Scalar(DOMAIN FileVars(Top, TopFile))
    /\ Mergeable(FileVars(Top, TopFile), ExtraVars)
    /\ KeysOK(TopFile, {"version"})

LoadFlat ==
    /\ phase = "flat"
    /\ FlatOK
    /\ BeginBlocks(Top, TopFile, Merged(FileVars(Top, TopFile), ExtraVars))
    /\ UNCHANGED pending

\* A top-level file that declares targets declares nothing else.
TargetFileOK == TopFile.keys \subseteq {"version", "target"} /\ TargetsOK(TopFile)

\* Mutant of Chosen: without a target argument the first one is taken.
Chosen_Default(t) ==
    \/ t.name = call.target
    \/ call.target = None /\ t = TopFile.targets[1]

\* select_target
Chosen(t) == t.name = call.target

SelectTarget ==
    /\ phase = "target"
    /\ TargetFileOK
    /\ \E i \in DOMAIN TopFile.targets :
          /\ Chosen(TopFile.targets[i])
          /\ selected' = TopFile.targets[i]
          /\ pending' = TopFile.targets[i].sections
    /\ phase' = "sections"
    /\ UNCHANGED <<inputs, extra, place, variables, todo, configs>>

\* The target argument does not fit the file: it is missing, unknown, or there
\* are no targets to choose between.
Mistargeted ==
    /\ \/ phase = "flat" /\ call.target # None
       \/ /\ phase = "target"
          /\ TargetFileOK
          /\ ~\E i \in DOMAIN TopFile.targets : Chosen(TopFile.targets[i])
    /\ phase' = "mistargeted"
    /\ UNCHANGED <<inputs, extra, selected, pending, place, variables, todo, configs>>

\* The next section: its directory, its file, and the variables of the target,
\* the file and the caller, none of them defined twice.
SectionOK(s) ==
    LET file == SectionFile(s)
        own == FileVars(s, file)
    IN  /\ Read(file)
        /\ Scalar(DOMAIN own)
        /\ Mergeable(OfTarget, own)
        /\ Mergeable(Merged(OfTarget, own), ExtraVars)
        /\ KeysOK(file, {})

OpenSection ==
    /\ phase = "sections"
    /\ SectionOK(Head(pending))
    /\ LET s == Head(pending)
           file == SectionFile(s)
       IN  BeginBlocks(s, file,
               Merged(Merged(OfTarget, FileVars(s, file)), ExtraVars))
    /\ pending' = Tail(pending)

\* The file being loaded.
CurrentFile == IF place = Top THEN TopFile ELSE SectionFile(place)
-----------------------------------------------------------------------------
(* Blocks. *)

\* _parse_copy_config
NamespaceOf(e) == IF e.namespace = None THEN call.namespace ELSE e.namespace
NameOf(e) == IF e.name = None THEN NamespaceOf(e) ELSE e.name
EntryOK(e) == ~e.odd /\ e.source # None /\ NameOf(e) # None

\* Mutant of Parsed: paths resolve in the config directory.
Parsed_AtTop(e) ==
    [name |-> NameOf(e), namespace |-> NamespaceOf(e), place |-> place,
     source |-> <<Top, e.source>>, files |-> {Top} \X e.files,
     variables |-> variables]

Parsed(e) ==
    [name |-> NameOf(e), namespace |-> NamespaceOf(e), place |-> place,
     source |-> <<place, e.source>>, files |-> {place} \X e.files,
     variables |-> variables]

\* The block gets the first n entries of its table.
Given(b, n) ==
    LET entries == CurrentFile.entries[b]
    IN  [configs EXCEPT ![b] = @ \o [k \in 1..n |-> Parsed(entries[k])]]

\* load_config of the block that owns a table.  (The blocks get their tables in
\* the order of their names, which nothing depends on.)
LoadBlock(b) ==
    LET entries == CurrentFile.entries[b]
    IN  /\ phase = "blocks"
        /\ b \in todo
        /\ \A k \in DOMAIN entries : EntryOK(entries[k])
        /\ configs' = Given(b, Len(entries))
        /\ todo' = todo \ {b}
        /\ UNCHANGED <<inputs, phase, extra, selected, pending, place, variables>>

\* An entry is malformed: the block keeps those before it.
BlockFails(b) ==
    LET entries == CurrentFile.entries[b]
    IN  /\ phase = "blocks"
        /\ b \in todo
        /\ \E i \in DOMAIN entries :
              /\ ~EntryOK(entries[i])
              /\ \A k \in 1..(i - 1) : EntryOK(entries[k])
              /\ configs' = Given(b, i - 1)
        /\ phase' = "failed"
        /\ UNCHANGED <<inputs, extra, selected, pending, place, variables, todo>>

\* The file is done: go on with the next section, if any.
FileDone ==
    /\ phase = "blocks"
    /\ todo = {}
    /\ phase' = IF pending = << >> THEN "loaded" ELSE "sections"
    /\ UNCHANGED <<inputs, extra, selected, pending, place, variables, todo, configs>>

\* validate_copy_config: the source is a directory, and the files exist.
Sound(c) ==
    /\ c.source \in conf.dirs
    /\ c.files \subseteq conf.dirs \cup conf.files

Validate ==
    /\ phase = "loaded"
    /\ phase' = IF \A b \in Block : \A k \in DOMAIN configs[b] : Sound(configs[b][k])
                THEN "accepted" ELSE "failed"
    /\ UNCHANGED <<inputs, extra, selected, pending, place, variables, todo, configs>>

\* Anything else that is wrong raises on the spot.
Fail ==
    /\ \/ phase = "arguments" /\ ~ArgumentsOK
       \/ phase = "top" /\ ~TopOK
       \/ phase = "flat" /\ call.target = None /\ ~FlatOK
       \/ phase = "target" /\ ~TargetFileOK
       \/ phase = "sections" /\ ~SectionOK(Head(pending))
    /\ phase' = "failed"
    /\ UNCHANGED <<inputs, extra, selected, pending, place, variables, todo, configs>>

Ended == {"accepted", "mistargeted", "failed"}
Over == phase \in Ended /\ UNCHANGED vars

Next ==
    \/ LoadArguments \/ OpenTop \/ LoadFlat \/ SelectTarget \/ Mistargeted
    \/ OpenSection
    \/ \E b \in Block : LoadBlock(b) \/ BlockFails(b)
    \/ FileDone \/ Validate \/ Fail \/ Over

Spec == Init /\ [][Next]_vars
-----------------------------------------------------------------------------
Phases == {"arguments", "top", "flat", "target", "sections", "blocks", "loaded"}
          \cup Ended

TypeOK ==
    /\ conf \in ConfDirs /\ call \in Calls
    /\ phase \in Phases
    /\ extra \subseteq Var
    /\ selected \in Optional(Target)
    /\ pending \in Seq(Section)
    /\ place \in Place
    /\ DOMAIN variables \subseteq Var
    /\ todo \subseteq Block
    /\ DOMAIN configs = Block

Loaded == {"loaded", "accepted"}

\* The sources a config of place p may get variables from, with their names.
Sources(p) ==
    LET file == IF p = Top THEN TopFile ELSE SectionFile(p)
    IN  {<<v, <<"extra", Top>>>> : v \in extra}
        \cup {<<v, <<"file", p>>>> :
                 v \in IF "variables" \in file.keys THEN file.vars ELSE {}}
        \cup (IF selected = None THEN {}
              ELSE {<<v, <<"target", selected.name>>>> : v \in selected.vars})

\* "A variable defined by more than one of these is an error rather than one
\* silently winning": every config is rendered with all the variables of its
\* target, of its own section and of the caller, none of them defined twice, and
\* with none of another section or target.  (merge_variables.)
VariablesHaveOneSource ==
    \A b \in Block : \A k \in DOMAIN configs[b] :
        LET c == configs[b][k]
        IN  /\ {<<v, c.variables[v]>> : v \in DOMAIN c.variables} = Sources(c.place)
            /\ \A s, t \in Sources(c.place) : s[1] = t[1] => s = t

\* The file a section is read from: "section.toml wins if more than one is
\* present".
Preferred(s) ==
    LET there == {n \in FileName : conf.at[s][n] # Absent}
    IN  conf.at[s][CHOOSE n \in there :
            /\ "section.toml" \in there => n = "section.toml"
            /\ "config.toml" \in there => n # "manifest-builder.toml"]

\* What entry e of section s refers to.
InSection(s, e) == <<<<s, e.source>>, {s} \X e.files>>

\* "Only the sections the selected target names are loaded", each of them whole
\* and once, in the order the target lists them, and "the paths they reference
\* resolve inside the section directory": two sections may use one path.
SectionsLoadWhole ==
    phase \in Loaded /\ selected # None =>
        \A b \in Registered :
            LET EntriesOf(s) == IF b \in Preferred(s).keys
                                THEN Preferred(s).entries[b] ELSE << >>
                asked == {t \in Range(TopFile.targets) : t.name = call.target}
            IN  \E t \in asked :
                   /\ \A s \in Range(t.sections) : Read(Preferred(s))
                   /\ [k \in DOMAIN configs[b] |->
                         <<configs[b][k].source, configs[b][k].files>>] =
                      FlattenSeq([i \in DOMAIN t.sections |->
                         [k \in DOMAIN EntriesOf(t.sections[i]) |->
                            InSection(t.sections[i], EntriesOf(t.sections[i])[k])]])

\* A caller of declared_targets "cannot come to a different conclusion about it
\* than generate() does": a call that loads named one of the declared targets, or
\* none where there are none; a call is turned down for its target only if it did
\* not; and what declared_targets rejects never loads.
DeclaredTargetsAgree ==
    LET fits == IF DeclaredTargets = NoTargets THEN call.target = None
                ELSE call.target \in DeclaredTargets.names
    IN  /\ phase \in Loaded => fits
        /\ phase = "mistargeted" => DeclaredTargets # Malformed /\ ~fits
=============================================================================
