CONSTANTS
    Root <- NamedSystem
    File <- NamedFile
    NsFile <- NamedNsFile
    Cluster = "cluster"
    NoAutoNs = {"cluster"}
    Hidden = {}
    System = "full"
    NsBuilders = {"system"}
    Claimed = {}
    Deployments <- NamedDeployments
    Overlap = FALSE
    Nobody = Nobody
    NoFile = NoFile
SPECIFICATION Spec
PROPERTIES
    ReplacesOwnDeclaration
