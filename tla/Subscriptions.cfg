\* Two overlapping requests beside the refresh loop.
SPECIFICATION SubSpec
CONSTANTS
    None = None
    r1 = r1
    r2 = r2
    dotted = dotted
    joined = joined
    Loop = loop
    Names = {dotted, joined}
    Ids = {"home-vpn", "homevpn"}
    Groups = {"HomeVPN"}
    Urls = {"u"}
    Slug <- MCSlug
    Group <- MCGroup
    Requests = {r1, r2}
    Faults = {"fetch", "draft", "store", "restart"}
    MaxOps = 3
    MaxFaults = 1
INVARIANTS
    NoOrphans
    FreshHasNodes
PROPERTIES
    EventuallyRefreshed
CHECK_DEADLOCK FALSE
