\* Well-formed and malformed configurations of two credentials and two names,
\* one UpdateUser in flight, a users.toml that may turn read-only.
SPECIFICATION Spec
CONSTANTS
    MaxCred = 2
    MaxName = 2
    MaxId = 8
    Configs <- MCConfigs
    p1 = p1
    Patchers = {p1}
    Nobody = Nobody
    ConfigMayBreak = FALSE
    MaxOps = 4
INVARIANTS
    TokenOrRevoked
    MemoryIsFile
PROPERTIES
    ApplyMirrors
    UndisputedUserKept
CHECK_DEADLOCK FALSE
