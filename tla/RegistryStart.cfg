\* A start that cannot read config.json reconciles the registry with nothing.
SPECIFICATION Spec
CONSTANTS
    MaxCred = 2
    MaxName = 2
    MaxId = 8
    Configs <- MCOneUser
    p1 = p1
    Patchers = {p1}
    Nobody = Nobody
    ConfigMayBreak = TRUE
    MaxOps = 4
PROPERTIES
    EmptyStartIsNoOp
CHECK_DEADLOCK FALSE
