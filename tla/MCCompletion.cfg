SPECIFICATION Spec
CONSTANTS
  m1 = m1
  m2 = m2
  k1 = k1
  k2 = k2
  o1 = o1
  o2 = o2
  p1 = p1
  NoToken = NoToken
  None = None
  Members <- MCMembers
  TaskIds <- MCTaskIds
  Score <- MCScore
  Priority <- MCPriority
  MatcherCalls = {}
  CompletionCalls = {k1, k2}
  Overrides = {o1}
  Patches = {p1}
  Activities <- CompletionActivities
  OverrideStatuses = {"CONFIRMED"}
  MaxSlotEdits = 0
  CrashesAllowed = TRUE
  RedisFaults = TRUE
  KeysExpire = TRUE
SYMMETRY SameCompletions
INVARIANTS
  AnnouncedOnce
CHECK_DEADLOCK FALSE
