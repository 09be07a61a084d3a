--------------------------- MODULE MCGreedyMatcher ---------------------------
(***************************************************************************)
(* Bounded inputs for GreedyMatcher: three members and two tasks, every    *)
(* score in 0..2 for each pair, every slot count in 0..2, ties and         *)
(* differences of submission time and of priority, and the edge cases of   *)
(* docs/OVERVIEW.md (no tasks, no registrations, zero slots).              *)
(***************************************************************************)
EXTENDS GreedyMatcher

CONSTANTS MaxScore, MaxSlots

MCMembers == 1..3
MCTaskIds == 1..2

InputsWith(tasks, registrations, fairness, times, priorities, maxScore) ==
  [ tasks         : tasks,
    slotCount     : [MCTaskIds -> 0..MaxSlots],
    priority      : priorities,
    registrations : registrations,
    fairnessScore : fairness,
    submittedAt   : times,
    score         : [MCMembers -> [MCTaskIds -> 0..maxScore]] ]

SamePriority == [t \in MCTaskIds |-> 0]
SecondFirst  == [t \in MCTaskIds |-> t]
AllZero      == [m \in MCMembers |-> 0]
LastFirst    == [m \in MCMembers |-> 3 - m]
FirstLast    == [m \in MCMembers |-> IF m = 1 THEN 1 ELSE 0]

(* Everyone registered, all at once or the first member late; the second    *)
(* task as urgent as the first or more so.                                  *)
Usual == InputsWith({MCTaskIds}, {MCMembers}, {AllZero}, {AllZero, FirstLast},
                    {SamePriority, SecondFirst}, MaxScore)

(* Fairness scores that turn the order round, a member who did not          *)
(* register, nobody registered, no tasks, and a preference for a task that  *)
(* is not in the input.                                                     *)
Edge == InputsWith({{1}, {}, MCTaskIds}, {{1, 3}, {}, MCMembers}, {LastFirst}, {AllZero},
                   {SamePriority}, 1)

MCInputs == Usual \cup Edge
=============================================================================
