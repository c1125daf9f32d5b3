CONSTANTS
    Root <- MCRoot
    File <- MCFile
    NsFile <- MCNsFile
    Cluster = "cluster"
    NoAutoNs <- MCNoAutoNs
    Hidden <- MCHidden
    Owned <- MCOwned
    Managed <- MCRoot
    Plans <- SelfPlans
    Block <- MCBlock
    ParallelSafe <- MCParallel
    MaxWorkers = 2
    Cleanup = FALSE
    OutputFaults = TRUE
    EarlierClaims <- NoClaims
    EarlierFiles <- NoFiles
    Disturbed <- SelfPlans
    Absent = Absent
    Stale = Stale
    Torn = Torn
    NamespaceDoc = NamespaceDoc
SPECIFICATION Spec
INVARIANTS
    EveryDocumentLands
