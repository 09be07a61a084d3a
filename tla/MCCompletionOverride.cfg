SPECIFICATION Spec
CONSTANTS
  m1 = m1
  m2 = m2
  k1 = k1
  k2 = k2
  o1 = o1
  o2 = o2
  p1 = p1
  NoToken = NoToken
  None = None
  Members <- MCMembers
  TaskIds <- MCTaskIds
  Score <- MCScore
  Priority <- MCPriority
  MatcherCalls = {}
  CompletionCalls = {k1}
  Overrides = {o1}
  Patches = {}
  Activities <- CompletionActivities
  OverrideStatuses = {"CONFIRMED", "CANCELLED"}
  MaxSlotEdits = 0
  CrashesAllowed = FALSE
  RedisFaults = FALSE
  KeysExpire = FALSE
INVARIANTS
  CompletedAreAnnounced
CHECK_DEADLOCK FALSE
