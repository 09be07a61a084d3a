--------------------------- MODULE GreedyMatching ---------------------------
(***************************************************************************)
(* The vocabulary of the activity matcher                                  *)
(* (backend/src/modules/matching/matcher.ts): what the matcher is given,   *)
(* the two orders it sorts by, and the assignments it promises to return.  *)
(*                                                                         *)
(* User ids and task ids are strings that the code compares with `<`; only *)
(* their order matters, so they are natural numbers here.  A preference    *)
(* that is absent and one with score 0 are skipped alike by the code, so   *)
(* both are score 0 here.                                                  *)
(***************************************************************************)
EXTENDS Integers, FiniteSets

CONSTANTS
  Members,   \* user ids
  TaskIds    \* task ids that a preference may name

ASSUME MembersAssumption == Members \subseteq Nat /\ IsFiniteSet(Members)
ASSUME TaskIdsAssumption == TaskIds \subseteq Nat

-----------------------------------------------------------------------------

(* A call's argument.  `tasks` are the activity's tasks; a preference may   *)
(* name a task outside of them, for which the code has no entry.            *)
MatcherInput ==
  [ tasks         : SUBSET TaskIds,
    slotCount     : [TaskIds -> Nat],
    priority      : [TaskIds -> Int],
    registrations : SUBSET Members,
    fairnessScore : [Members -> Int],
    submittedAt   : [Members -> Int],
    score         : [Members -> [TaskIds -> Nat]] ]

Assignment == [userId : Members, taskId : TaskIds]

(* A call's result.                                                         *)
MatcherResult ==
  [ assignments   : SUBSET Assignment,
    waitlist      : SUBSET Members,
    unfilledTasks : SUBSET [taskId : TaskIds, remainingSlots : Nat] ]

(* sortRegistrations: the one with the lower fairness score first, then the *)
(* earlier one, then the one with the lower user id.                        *)
Before(in, a, b) ==
  \/ in.fairnessScore[a] < in.fairnessScore[b]
  \/ /\ in.fairnessScore[a] = in.fairnessScore[b]
     /\ \/ in.submittedAt[a] < in.submittedAt[b]
        \/ /\ in.submittedAt[a] = in.submittedAt[b]
           /\ a < b

(* A task the input does not hold counts as priority 0.                     *)
PriorityOf(in, t) == IF t \in in.tasks THEN in.priority[t] ELSE 0

(* sortPreferences: m's higher score first, then the higher task priority,  *)
(* then the lower task id.                                                  *)
Prefers(in, m, s, t) ==
  \/ in.score[m][s] > in.score[m][t]
  \/ /\ in.score[m][s] = in.score[m][t]
     /\ \/ PriorityOf(in, s) > PriorityOf(in, t)
        \/ /\ PriorityOf(in, s) = PriorityOf(in, t)
           /\ s < t

(* t comes first in m's sorted preferences among the tasks of S.            *)
IsFirstChoice(in, m, t, S) ==
  t \in S /\ \A s \in S \ {t} : Prefers(in, m, t, s)

-----------------------------------------------------------------------------

(* What the matcher promises, said without a loop: every registration gets  *)
(* the first of its scored tasks that the registrations before it have left *)
(* a slot on.                                                               *)
HeldBefore(in, A, m, t) == {n \in Members :
                              [userId |-> n, taskId |-> t] \in A /\ Before(in, n, m)}

LeftFor(in, A, m) == {t \in in.tasks : /\ in.score[m][t] > 0
                                       /\ Cardinality(HeldBefore(in, A, m, t)) < in.slotCount[t]}

IsGreedyResult(in, A) ==
  /\ A \subseteq [userId : in.registrations, taskId : in.tasks]
  /\ \A m \in in.registrations : \A t \in in.tasks :
       [userId |-> m, taskId |-> t] \in A <=> IsFirstChoice(in, m, t, LeftFor(in, A, m))

(* The members that A assigns, and the members assigned to task t.          *)
Assigned(A)     == {a.userId : a \in A}
Holders(A, t)   == {m \in Members : [userId |-> m, taskId |-> t] \in A}

(* The whole answer that goes with the assignments A.                       *)
AnswerFor(in, A) ==
  [ assignments   |-> A,
    waitlist      |-> in.registrations \ Assigned(A),
    unfilledTasks |-> {[taskId |-> t, remainingSlots |-> in.slotCount[t] - Cardinality(Holders(A, t))] :
                         t \in {u \in in.tasks : Cardinality(Holders(A, u)) < in.slotCount[u]}} ]

IsGreedyAnswer(in, ans) ==
  IsGreedyResult(in, ans.assignments) /\ ans = AnswerFor(in, ans.assignments)
=============================================================================
