CONSTANTS
    Run <- MCRun
    Dir <- MCDir
    Name <- MCName
    Offers <- MCOffers
    Private <- MCPrivate
    Siblings <- MCSiblings
    Broken <- MCBroken
    Kind <- MCKind
    Scope <- MCScope
    AnyScope <- MCAnyScope
    Declares <- MCDeclares
    Settings <- OneCallEach
    Free = Free
    None = None
SPECIFICATION Spec
INVARIANTS
    RoutedByOwnScopes
CHECK_DEADLOCK FALSE
