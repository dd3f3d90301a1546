CONSTANTS
  Calls = {c1, c2, c3}
  Keys = {k1}
  Entries = {e1, e2}
  NoEntry = NoEntry
  kMaxEntries = 1
  requireGpuDirect_ = FALSE
  Parts = {1, 2}
  Copies = {x1, x2}
  NoCopy = NoCopy
  RecordCanFail = FALSE
SYMMETRY CallSymmetry
SPECIFICATION Spec
INVARIANTS
  OwnersAreCounted
  CopyUsesLiveMemory
  PartIsUnshared
  RunningCopiesAreTracked
  AbandonedStay
  MrCoversLiveMemory
