-------------------------- MODULE MCActivityMatching --------------------------
(***************************************************************************)
(* Two members, two tasks; both members would rather have task 1.          *)
(***************************************************************************)
EXTENDS ActivityMatching, TLC

CONSTANTS m1, m2, k1, k2, o1, o2, p1

MCMembers  == 1..2
MCTaskIds  == 1..2
MCScore    == [m \in MCMembers |-> [t \in MCTaskIds |-> 3 - t]]
MCPriority == [t \in MCTaskIds |-> 0]

OneSlotEach == [t \in MCTaskIds |-> 1]

AssignmentRow(id, m, t, st) ==
  [id |-> id, userId |-> m, taskId |-> t, source |-> IF st = "PROPOSED" THEN "MATCHER" ELSE "MANUAL", status |-> st]

(* Registration is over, nothing is assigned.                               *)
ClosedActivity == [status |-> "CLOSED", registered |-> <<2, 1>>, slots |-> OneSlotEach, rows |-> {}]

(* Registration is on, and one member is in.                                *)
OpenActivity == [status |-> "OPEN", registered |-> <<2>>, slots |-> OneSlotEach, rows |-> {}]

(* Matched, one assignment confirmed by an admin and one proposed.          *)
MatchedActivity ==
  [ status |-> "MATCHED", registered |-> <<2, 1>>, slots |-> OneSlotEach,
    rows |-> {AssignmentRow(0, 2, 1, "CONFIRMED"), AssignmentRow(1, 1, 2, "PROPOSED")} ]

MatchingActivities   == {ClosedActivity, OpenActivity}
CompletionActivities == {MatchedActivity}

(* The two completions are alike.                                           *)
SameCompletions == Permutations({k1, k2})
=============================================================================
