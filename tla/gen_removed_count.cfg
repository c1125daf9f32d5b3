CONSTANTS
    Root <- MCRoot
    File <- MCFile
    NsFile <- MCNsFile
    Cluster = "cluster"
    NoAutoNs <- MCNoAutoNs
    Hidden <- MCHidden
    Owned <- MCOwned
    Managed <- MCRoot
    Plans <- Undisturbed
    Block <- MCBlock
    ParallelSafe <- MCParallel
    MaxWorkers = 2
    Cleanup = TRUE
    OutputFaults = TRUE
    EarlierClaims <- MCEarlierClaims
    EarlierFiles <- MCEarlierFiles
    Disturbed <- NoPlans
    Absent = Absent
    Stale = Stale
    Torn = Torn
    NamespaceDoc = NamespaceDoc
SPECIFICATION Spec
INVARIANTS
    ReportsRemovals
