\* Inbound editors, the raw editor and two overlapping staging requests.
SPECIFICATION InSpec
CONSTANTS
    None = None
    r1 = r1
    r2 = r2
    Tags = {"i1", "i2", "i3"}
    Reserved = "routebox-mtproto"
    Names = {"ann", "bob"}
    Forms <- MCForms
    Texts <- MCTexts
    Starts <- MCStarts
    Requests = {r1, r2}
    Scopes <- MCScopes
    MaxInbounds = 3
    MaxMints = 4
    MaxOps = 4
SYMMETRY Interchangeable
INVARIANTS
    NoContention
    BoundOnce
    MieruKeepsOne
CHECK_DEADLOCK FALSE
