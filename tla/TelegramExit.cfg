\* One request at a time and nothing fails: does a running proxy follow its
\* settings?
SPECIFICATION TeleSpec
CONSTANTS
    a = a
    b = b
    r1 = r1
    r2 = r2
    None = None
    Names = {a}
    Outs = {"x"}
    Ports = {1080}
    Metered = {a}
    Requests = {r1}
    Kinds = {"create", "enable", "settings"}
    Faults = {}
    MaxMints = 2
    MaxOps = 3
    MaxFaults = 0
    MaxBytes = 1
INVARIANTS
    ExitFollowsSettings
CHECK_DEADLOCK FALSE
