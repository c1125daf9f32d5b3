CONSTANTS
    SectionName <- MCSectionName
    Section <- MCSection
    Top = Top
    TargetName = {"dev", "prod", "other"}
    Block <- MCBlock
    Var = {"u", "v", "w", "table"}
    NotScalar <- MCNotScalar
    Namespace = {"ns", "mine"}
    EntryName = {"n", "ns", "mine"}
    Rel = {"m", "f"}
    ConfDirs <- MCConfDirs
    Calls <- MCCalls
    None = None
    Absent = Absent
    Unparsable = Unparsable
    NoDirectory = NoDirectory
SPECIFICATION Spec
INVARIANTS
    VariablesHaveOneSource
    SectionsLoadWhole
    DeclaredTargetsAgree
