CONSTANTS
    Missing = Missing
    Null = Null
    NotAMapping = NotAMapping
    Root <- MCRoot
    Cluster = "cluster"
    Kind <- MCKind
    Name <- MCName
    Group <- MCGroup
    Scope <- MCScope
    Id <- MCId
    Doc <- MCDoc
    ClusterKinds <- MCClusterKinds
    DeclaredScopes <- MCDeclared
    FileName <- MCFileName
    Mount <- MCMount
    Suffix <- MCSuffix
    Runs <- MCRuns
    Depth = 2
SPECIFICATION Spec
INVARIANTS
    EveryObjectHasAFile
    ItemsFollowTheirList
    CRDsDecideScope
    DirectoryIsNamespace
PROPERTIES
    NothingReplaced
