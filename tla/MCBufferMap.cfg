CONSTANTS
  Calls = {c1, c2, c3}
  Keys = {k1, k2, k3}
  Entries = {e1, e2, e3, e4}
  NoEntry = NoEntry
  kMaxEntries = 2
  requireGpuDirect_ = FALSE
SPECIFICATION MapSpec
SYMMETRY MapSymmetry
INVARIANTS
  HeldStaysRegistered
  NothingLeaks
  NeverOverfull
PROPERTIES
  NeverOverwritten
