SPECIFICATION PipeSpec
CONSTANTS
  u1 = u1
  u2 = u2
  c1 = c1
  c2 = c2
  p1 = p1
  Names = {u1}
  Bodies = {{}, {u1}}
  GoodBodies = {{}, {u1}}
  Vals = {{}, {u1}}
  Blocks = {"reject", "v2ray"}
  DeferringBlocks = {"reject"}
  QuietBlocks = {"reject", "v2ray"}
  FsStates = {"rw", "full"}
  Clients = {c1}
  Patchers = {p1}
  NoDoc = NoDoc
  MaxOps = 4
  ReloadMayFail = TRUE
INVARIANTS RunsPublished RegistryMirrorsActive
PROPERTIES EnforcedOnDisk
