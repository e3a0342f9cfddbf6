CONSTANTS
    Tokens <- MCTokens
    MaxDeps = 2
    ModuleClasses <- MCModuleClasses
    Decorated <- MCDecorated
    StaticMetadata <- MCStaticMetadata
    DepsOf <- MCDepsOf
    Controllers <- MCControllers
    Entries <- MCEntries
    Roots <- MCRoots
    Bus = "bus"
    EventHandlers <- MCEventHandlers
    CommandHandlers <- MCCommandHandlers
    Parameters <- MCParameters
    GatewayPath <- MCGatewayPath
    Programs <- MCPrograms
    Urls <- MCUrls
    Methods <- MCMethods
    Callers = {c1}
SPECIFICATION Spec
INVARIANTS
    TypeOK
    ModulesCompose
    BusesReachHandlers
    RoutesAreFound
CHECK_DEADLOCK FALSE
