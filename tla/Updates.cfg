\* Two requests, a pinned binary, two operations and two outside events.
SPECIFICATION UpdSpec
CONSTANTS
    Pids = {1, 2}
    Paths = {"A"}
    UnitFileCfg = "A"
    Builds = {"v1", "v2"}
    Repairs = {}
    Faults = {"exit", "respawn", "systemctl", "rename", "network", "boot"}
    Pinned = TRUE
    None = None
    r1 = r1
    r2 = r2
    Asks = {r1, r2}
    Controls = {"stop"}
    Rejects = {"v1"}
    MaxOps = 2
    MaxFaults = 2
INVARIANTS
    OneProcess
    BinarySurvives
    FailureRollsBack
    UpdatedIsRunning
PROPERTIES
    UpdateEnds
CHECK_DEADLOCK FALSE
