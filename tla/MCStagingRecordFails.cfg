CONSTANTS
  Calls = {c1, c2}
  Keys = {k1}
  Entries = {e1, e2}
  NoEntry = NoEntry
  kMaxEntries = 1
  requireGpuDirect_ = FALSE
  Parts = {1, 2}
  Copies = {x1, x2}
  NoCopy = NoCopy
  RecordCanFail = TRUE
SYMMETRY CallSymmetry
SPECIFICATION Spec
INVARIANTS
  RunningCopiesAreTracked
