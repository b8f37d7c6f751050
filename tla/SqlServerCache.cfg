\* Two threads, one key with one moniker, one change of the data.
SPECIFICATION Spec
CONSTANTS
  Callers = {c1, c2}
  Keys = {k}
  Monikers = {m}
  MonikersOf <- EveryMoniker
  Options <- SomeOptions
  DefaultSlidingExpiration = 1
  ExpiredItemsDeletionInterval = 1
  Horizon = 2
  MaxChanges = 1
  Never = Never
SYMMETRY CallerPermutations
INVARIANTS TypeOK NoReadPastAbsoluteExpiration SwallowedOnlyForARival ChangesReachSettledItems
PROPERTIES ScansAreSpaced
