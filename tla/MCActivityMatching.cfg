SPECIFICATION Spec
CONSTANTS
  m1 = m1
  m2 = m2
  k1 = k1
  k2 = k2
  o1 = o1
  o2 = o2
  p1 = p1
  NoToken = NoToken
  None = None
  Members <- MCMembers
  TaskIds <- MCTaskIds
  Score <- MCScore
  Priority <- MCPriority
  MatcherCalls = {m1, m2}
  CompletionCalls = {}
  Overrides = {o1}
  Patches = {p1}
  Activities <- MatchingActivities
  OverrideStatuses = {}
  MaxSlotEdits = 1
  CrashesAllowed = TRUE
  RedisFaults = FALSE
  KeysExpire = FALSE
INVARIANTS
  TypeOK
  MatcherRowsDistinct
  MatcherWithinSlots
CHECK_DEADLOCK FALSE
