CONSTANTS
    Root <- MCRoot
    File <- MCFile
    NsFile <- MCNsFile
    Cluster = "cluster"
    NoAutoNs = {"cluster"}
    Hidden = {}
    System = "full"
    NsBuilders <- MCNsBuilders
    Claimed = {}
    Deployments <- KilledInCommit
    Overlap = FALSE
    Nobody = Nobody
    NoFile = NoFile
SPECIFICATION Spec
PROPERTIES
    CommitsStayInTheirRoots
