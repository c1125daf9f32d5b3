CONSTANTS
    Run <- MCRun
    Dir <- MCDir
    Name <- MCName
    Offers <- MCOffers
    Private <- MCPrivate
    Siblings <- MCSiblings
    Broken <- MCBroken
    Kind <- MCKind
    Scope <- MCScope
    AnyScope <- MCAnyScope
    Declares <- MCDeclares
    Settings <- MCSettings
    Free = Free
    None = None
SPECIFICATION Spec
INVARIANTS
    OwnPluginsOnly
    NoStalePlugins
    NoPluginMissing
    FlagIsRestored
    AloneRoutedByOwnScopes
PROPERTIES
    NoBytecodeWritten
    EveryLoadEnds
CHECK_DEADLOCK FALSE
