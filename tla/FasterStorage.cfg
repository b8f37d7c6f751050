\* Two clients update one record and contend for its lock while time passes.
SPECIFICATION Spec
CONSTANTS
  Clients = {c1, c2}
  Keys = {k}
  UseLocks = TRUE
  Ttl = 2
  Horizon = 3
  MaxGuids = 4
  Star = Star
  None = None
SYMMETRY ClientPermutations
INVARIANTS TypeOK NoLostUpdate LockExclusion
PROPERTIES OnlyTheHolderReleases
\* The clock and the ETags run out.
CHECK_DEADLOCK FALSE
