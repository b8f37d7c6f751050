\* Two calls for one key race notifications and a clear on two threads.
SPECIFICATION Spec
CONSTANTS
  Calls = {c1, c2}
  Threads = {t1, t2}
  Keys = {k}
  Monikers = {m}
  Depends <- EveryMoniker
  Tokens = {d1, d2, d3}
  MaxVersion = 1
  MaxQueue = 1
  MaxLocks = 2
  None = None
SYMMETRY Permutable
INVARIANTS TypeOK LiveItemIsFresh LiveItemIsReachable
PROPERTIES ClearWaitsForCalls
