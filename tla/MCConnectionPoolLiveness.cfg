CONSTANTS
  Threads = {t1, t2, t3, t4}
  N = 1
  MaxNest = 1
  CqDepth = 1
SPECIFICATION FairSpec
PROPERTIES
  WaitersAreAnswered
  CloseEndsWaits
