\* Four groups of editors on three starting configurations.
SPECIFICATION DnsSpec
CONSTANTS
    None = None
    Tags = {"a", "b", "c"}
    Sets = {"s"}
    Codes = {"NXDOMAIN"}
    Others = {"YXDOMAIN"}
    Inputs <- MCInputs
    RouteInputs <- MCRoutes
    Starts <- MCStarts
    Scopes <- MCScopes
    MaxServers = 3
    MaxRules = 5
    MaxRoutes = 2
    MaxExits = 3
    Exits = {"direct", "x", "g", "awg"}
    Reserved = "awg"
    OutInputs <- MCOuts
    MaxOps = 4
INVARIANTS
    ResolverPinned
    ReferencesHold
    FallbackStays
    FallbackWritable
    OptimisticSafe
    ReorderLands
CHECK_DEADLOCK FALSE
