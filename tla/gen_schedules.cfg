CONSTANTS
    Root <- MCRoot
    File <- MCFile
    NsFile <- MCNsFile
    Cluster = "cluster"
    NoAutoNs <- MCNoAutoNs
    Hidden <- MCHidden
    Owned <- MCOwned
    Managed <- MCManaged
    Plans <- MCPlans
    Block <- MCBlock
    ParallelSafe <- MCParallel
    MaxWorkers = 2
    Cleanup = TRUE
    OutputFaults = TRUE
    EarlierClaims <- MCEarlierClaims
    EarlierFiles <- MCEarlierFiles
    Disturbed <- MCDisturbed
    Absent = Absent
    Stale = Stale
    Torn = Torn
    NamespaceDoc = NamespaceDoc
SPECIFICATION Spec
INVARIANTS
    TypeOK
    UndisturbedDocumentsLand
    QuietAtTheEnd
    ClashesAreReal
    NoSharedOpenFile
    SequentialBlocksAlone
    NamespacesExist
    ConfigsKeptApart
    TornWhereItFailed
PROPERTIES
    StaleRemovalIsLast
    Terminates
    RefinesSequential
