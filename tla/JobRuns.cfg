\* Three runs contend for a singleton job and an ordinary one, under each kind of
\* lock.
SPECIFICATION FairSpec
CONSTANTS
  Jobs = {j1, j2}
  Singletons = {j1}
  Instances = {i1, i2, i3}
  MaxFailures = 1
  None = None
INVARIANTS TypeOK SingletonExclusion LockOwnerLives
PROPERTIES LockIsReleased
