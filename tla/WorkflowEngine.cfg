\* Two runs of four workflows with one name.
SPECIFICATION Spec
CONSTANTS
  a = a b = b c = c d = d x = x e = e
  k1 = k1 k2 = k2
  Runs = {r1, r2}
  Workflows = {"w1", "w2", "w3", "w4"}
  Steps <- SomeSteps
  Roots <- SomeRoots
  Kids <- SomeKids
  Definition <- SomeDefinitions
  Operator <- SomeOperators
  HasPredicate = {b, c, d, x}
  HasAction = {a, c, e}
  Disabled = {e}
  PropertyKeys = {k1, k2}
  PropertyValues = {a, b, d, x}
  OwnProperties <- SomeProperties
  InputTypes = {t1, t2}
  Root = Root
  None = None
INVARIANTS StepsFollowTheOperators ResultsFollowTheSteps CompiledFromItsDefinition PropertiesAreInherited
PROPERTIES RunsEnd
\* All runs have ended.
CHECK_DEADLOCK FALSE
