\* Both backends, two peers, five requests, switches or restarts, two failures.
SPECIFICATION Spec
CONSTANTS
    p1 = p1
    p2 = p2
    Peers <- MCPeers
    MaxAddr = 2
    Ports <- MCPorts
    Backends <- MCBackends
    NoPeer = NoPeer
    MaxOps = 5
    MaxFaults = 2
INVARIANTS
    AddressesDistinct
    Served
PROPERTIES
    EventuallyHealed
CHECK_DEADLOCK FALSE
