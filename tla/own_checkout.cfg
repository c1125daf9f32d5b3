CONSTANTS
    Root <- SharedRoot
    File <- SharedFile
    NsFile <- SharedNsFile
    Cluster = "cluster"
    NoAutoNs = {"cluster"}
    Hidden = {}
    System = "full"
    NsBuilders <- MCNsBuilders
    Claimed = {"shared"}
    Deployments <- MCDeployments
    Overlap = FALSE
    Nobody = Nobody
    NoFile = NoFile
SPECIFICATION Spec
INVARIANTS
    OwnersDisjoint
PROPERTIES
    DeletesOnlyUnclaimed
    ReportIsTheCommit
    CommitIsExact
    DroppedRootsLeaveHead
