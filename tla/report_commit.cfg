CONSTANTS
    Root = {"a", "b"}
    Outside = ".."
    OwnerRoot = "owners"
    Path <- MCPath
    Yaml <- MCYaml
    OwnerFile <- Owner
    Ref = {"r1", "r2", "r3"}
    Content <- MCContent
    Refs <- MCRefs
    Writable <- MCWritable
    Ignorable <- MCIgnorable
    Mergeable <- MCMergeable
    Absent = Absent
    Conflicted = Conflicted
SPECIFICATION Spec
INVARIANTS
    RemovedObjectsAreGone
PROPERTIES
    ReportedIsCommitted
