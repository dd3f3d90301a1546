CONSTANTS
  Threads = {t1, t2, t3}
  N = 2
  MaxNest = 2
  CqDepth = 1
SPECIFICATION Spec
SYMMETRY ThreadSymmetry
INVARIANTS
  LeasesAreClean
  HoldersNeverWait
  RefusalsAreHonest
  NoLostWakeup
PROPERTIES
  LeasePoolSpec
