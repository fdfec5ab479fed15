SPECIFICATION Spec
CONSTANTS
  good = good
  bad = bad
  c1 = c1
  c2 = c2
  NoDoc = NoDoc
  Bodies = {good, bad}
  GoodBodies = {good}
  Blocks = {"reject", "v2ray"}
  Vals = {0, 1}
  DeferringBlocks = {"reject"}
  QuietBlocks = {"reject", "v2ray"}
  Clients = {c1, c2}
  FsStates = {"rw", "ro", "locked"}
  MaxOps = 5
INVARIANTS TypeOK ActiveIsDisk DraftIsOnDisk CheckedIsDraft
PROPERTIES ApplyPublishesChecked ImplementsPublished
SYMMETRY MCClients
CHECK_DEADLOCK FALSE
