------------------------------ MODULE MCConfig ------------------------------
(* Small config directories and the calls that load them, for TLC. *)
EXTENDS ConfigLoading

MCSectionName == {"base", "app", "../app"}
MCSection == {"base", "app"}
MCBlock == {"copy", "helm"}
MCNotScalar == {"table"}

\* Entries: complete, with names of their own, and with a mistake.
Plain == [odd |-> FALSE, name |-> None, namespace |-> "ns", source |-> "m",
          files |-> {}]
Named == [Plain EXCEPT !.name = "n", !.files = {"f"}]
Unplaced == [Plain EXCEPT !.namespace = None]
Odd == [Plain EXCEPT !.odd = TRUE]
Sourceless == [Plain EXCEPT !.source = None]

NoEntries == [b \in MCBlock |-> << >>]
Copies(entries) == [NoEntries EXCEPT !["copy"] = entries]

\* Files that declare blocks, with variables if they have any.
Blocks(entries, names) ==
    [keys |-> {b \in MCBlock : entries[b] # << >>}
              \cup (IF names = {} THEN {} ELSE {"variables"}),
     version |-> 1, targets |-> << >>, vars |-> names, entries |-> entries]
With(file, key) == [file EXCEPT !.keys = @ \cup {key}]

BlockFiles ==
    {Blocks(Copies(<<Plain, Named>>), {"w"}),
     Blocks([copy |-> <<Plain>>, helm |-> <<Named>>], {}),
     Blocks(Copies(<<Unplaced>>), {"v"}),
     Blocks(Copies(<<Plain>>), {"table"}),
     Blocks(Copies(<<Named, Odd, Plain>>), {}),
     Blocks(Copies(<<Sourceless>>), {}),
     Blocks(NoEntries, {"w"}),
     With(Blocks(Copies(<<Plain>>), {}), "odd"),
     With(Blocks(Copies(<<Plain>>), {"v"}), "version")}

\* Files that declare targets.
T(name, sections, names) ==
    [odd |-> FALSE, name |-> name, sections |-> sections, vars |-> names]
Targets(targets) ==
    [keys |-> {"version", "target"}, version |-> 2, targets |-> targets,
     vars |-> {}, entries |-> NoEntries]

Dev == T("dev", <<"base", "app">>, {"v"})
Prod == T("prod", <<"app">>, {})
DevProd == Targets(<<Dev, Prod>>)

TargetFiles ==
    {Targets(<< >>), Targets(<<Dev, T("dev", <<"app">>, {})>>),
     Targets(<<Prod, T("dev", None, {})>>), Targets(<<T("dev", << >>, {}), Prod>>),
     Targets(<<Prod, T("dev", <<"app", "app">>, {})>>),
     Targets(<<Prod, T("dev", <<"../app">>, {})>>),
     Targets(<<T(None, <<"app">>, {})>>), Targets(<<T("dev", <<"app">>, {"table"})>>),
     Targets(<<[Dev EXCEPT !.odd = TRUE]>>),
     With(DevProd, "copy"), With(DevProd, "variables"),
     [DevProd EXCEPT !.keys = {"version"}], [DevProd EXCEPT !.version = 3]}

\* Directories of config files.
Only(name, file) == [n \in FileName |-> IF n = name THEN file ELSE Absent]
Both(section, config) ==
    [Only("section.toml", section) EXCEPT !["config.toml"] = config]
OneFile == Blocks(Copies(<<Plain>>), {})
OtherFile == Blocks(Copies(<<Named>>), {"w"})

TopDirs ==
    {Only("config.toml", f) : f \in BlockFiles \cup TargetFiles \cup {Unparsable}}
    \cup {Only("manifest-builder.toml", f) : f \in {OneFile, DevProd}}
    \cup {[Only("config.toml", OneFile) EXCEPT !["manifest-builder.toml"] = DevProd],
          Only("section.toml", OneFile), NoDirectory}

SectionDirs ==
    {Only("section.toml", f) : f \in BlockFiles \cup {Unparsable}}
    \cup {Only(n, OtherFile) : n \in FileName}
    \cup {Both(OneFile, OtherFile), Both(Unparsable, OneFile),
          Only("section.toml", Absent), NoDirectory}

\* Everything the entries refer to exists, or the app section lacks it.
D(top, base, app, complete) ==
    [at |-> [p \in MCSection \cup {Top} |->
                IF p = Top THEN top ELSE IF p = "base" THEN base ELSE app],
     dirs |-> {<<Top, "m">>, <<"base", "m">>}
              \cup (IF complete THEN {<<"app", "m">>} ELSE {}),
     files |-> {<<Top, "f">>, <<"base", "f">>, <<"app", "f">>}]

MCConfDirs ==
    {D(top, Only("section.toml", OneFile), Only("section.toml", OtherFile), TRUE) :
        top \in TopDirs}
    \cup {D(Only("config.toml", DevProd), base, app, complete) :
             base \in SectionDirs, app \in SectionDirs, complete \in BOOLEAN}

MCCalls ==
    {[target |-> t, namespace |-> n, varsFrom |-> f, vars |-> a, blocks |-> r] :
        t \in {None, "dev", "prod", "other"}, n \in {None, "mine"},
        f \in {{}, {"w"}}, a \in {{}, {"u"}}, r \in {<<"copy", "helm">>}}
    \cup {[target |-> "dev", namespace |-> None, varsFrom |-> f, vars |-> a,
           blocks |-> r] :
             f \in {{"u"}, {"table"}, Absent}, a \in {{"u"}},
             r \in {<<"copy", "helm">>}}
    \cup {[target |-> "prod", namespace |-> None, varsFrom |-> {}, vars |-> {},
           blocks |-> r] : r \in {<< >>, <<"copy">>, <<"copy", "copy">>}}
=============================================================================
