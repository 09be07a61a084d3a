SPECIFICATION MCSpec
CONSTANTS
  j1 = j1
  j2 = j2
  j3 = j3
  j4 = j4
  a1 = a1
  a2 = a2
  a3 = a3
  POINTS_100 = POINTS_100
  Jobs <- MCJobs
  AssignmentOf <- MCAssignmentOf
  Badges <- MCBadges
  Threshold <- MCThreshold
  Points = 10
  MaxAttempts = 2
  MaxDay = 4
  MaxFaults = 1
SYMMETRY SamePayloads
INVARIANTS
  TypeOK
  StreakIsEarned
  StreakIsExact
  UnlocksAreEarned
  BadgesFollowPoints
CHECK_DEADLOCK FALSE
