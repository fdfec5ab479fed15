\* One repair at a time beside the operations, and two failures.
SPECIFICATION Spec
CONSTANTS
    Pids = {1, 2}
    Paths = {"A", "B"}
    UnitFileCfg = "B"
    Builds = {"v1"}
    Repairs = {h1}
    Faults = {"exit", "respawn", "hand", "systemctl", "reload", "read", "outside", "boot", "save"}
    Pinned = TRUE
    None = None
    h1 = h1
    h2 = h2
    MaxOps = 3
    MaxFaults = 2
INVARIANTS
    GateIsTruthful
    RestartReplaces
PROPERTIES
    OperationEnds
CHECK_DEADLOCK FALSE
