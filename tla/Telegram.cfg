\* Two clients, two overlapping requests beside the sweep and the flush.
SPECIFICATION TeleSpec
CONSTANTS
    a = a
    b = b
    r1 = r1
    r2 = r2
    None = None
    Names = {a, b}
    Outs = {"x"}
    Ports = {1080}
    Metered = {a}
    Requests = {r1, r2}
    Kinds = {"create", "delete", "update", "rotate", "settings", "enable", "disable"}
    Faults = {"roster", "listen", "settings", "config", "stage", "boot", "upsert"}
    MaxMints = 2
    MaxOps = 3
    MaxFaults = 1
    MaxBytes = 1
INVARIANTS
    ServesRoster
    BilledOnce
    RoutingMatchesSettings
PROPERTIES
    ExpiredLeaves
CHECK_DEADLOCK FALSE
