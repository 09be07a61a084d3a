SPECIFICATION Spec
CONSTANTS
  r1 = r1
  r2 = r2
  Rows = {r1, r2}
  NewRow = r2
  MaxOthers = 1
  None = None
  Instances <- MCInstances
INVARIANTS
  TypeOK
  ShownIsCurrent
  NoClickTwice
PROPERTY
  ComesToRest
CHECK_DEADLOCK FALSE
