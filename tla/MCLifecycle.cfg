\* Two threads, with calls inside callbacks, two instances and one transfer at a
\* time.  Callbacks may never return.
SPECIFICATION RunningSpec
CONSTANTS
  Threads = {t1, t2}
  MaxDepth = 2
  Instances = {i1, i2}
  NoInstance = NoInstance
  MaxTransfers = 1
INVARIANT InUseIsWhole
PROPERTIES InstanceLifeSpec ShutdownEndsWaits ShutdownReleases
