---------------------------- MODULE GreedyMatcher ----------------------------
(***************************************************************************)
(* runGreedyMatcher (backend/src/modules/matching/matcher.ts), one step    *)
(* per registration: the body of its `for (const reg of sortedRegs)` loop, *)
(* with the inner scan of the sorted preferences as the choice of the      *)
(* first task that passes the two `continue` guards.                       *)
(***************************************************************************)
EXTENDS GreedyMatching

CONSTANTS
  Inputs,    \* the inputs a call may be given
  NoAnswer   \* stands for a call that has not returned

ASSUME InputsAssumption == Inputs \subseteq MatcherInput
ASSUME NoAnswerAssumption == NoAnswer \notin MatcherResult

VARIABLES
  input,        \* the argument of the call
  pending,      \* the registrations the loop has not visited
  remaining,    \* slots left on each task
  assignments,  \* the assignments pushed so far
  waitlist,     \* the users pushed on the waitlist so far
  unfilled,     \* unfilledTasks, computed after the loop
  pc            \* "loop" until the function returns, then "returned"

vars == <<input, pending, remaining, assignments, waitlist, unfilled, pc>>

-----------------------------------------------------------------------------
(* The loop *)

Init ==
  /\ input \in Inputs
  /\ pending = input.registrations
  /\ remaining = [t \in input.tasks |-> input.slotCount[t]]
  /\ assignments = {}
  /\ waitlist = {}
  /\ unfilled = {}
  /\ pc = "loop"

(* m is the next registration of sortedRegs.  (Broken: in arrival order.)   *)
NextRegistrationUnsorted(m) == m \in pending /\ \A n \in pending \ {m} : m < n

NextRegistration(m) ==
  m \in pending /\ \A n \in pending \ {m} : Before(input, m, n)

(* The tasks that neither `continue` of the inner loop skips.  (Broken: the *)
(* slot guard is missing.)                                                  *)
OpenToFullTasksToo(m) == {t \in input.tasks : input.score[m][t] > 0}

OpenTo(m) == {t \in input.tasks : input.score[m][t] > 0 /\ remaining[t] > 0}

(* The inner loop reaches t, pushes the assignment and breaks.  (Broken: it *)
(* does not break, and pushes every open task.)                             *)
AssignWithoutBreak(m, t) ==
  /\ pc = "loop"
  /\ NextRegistration(m)
  /\ IsFirstChoice(input, m, t, OpenTo(m))
  /\ assignments' = assignments \cup {[userId |-> m, taskId |-> u] : u \in OpenTo(m)}
  /\ remaining' = [remaining EXCEPT ![t] = @ - 1]
  /\ pending' = pending \ {m}
  /\ UNCHANGED <<input, waitlist, unfilled, pc>>

AssignMember(m, t) ==
  /\ pc = "loop"
  /\ NextRegistration(m)
  /\ IsFirstChoice(input, m, t, OpenTo(m))
  /\ assignments' = assignments \cup {[userId |-> m, taskId |-> t]}
  /\ remaining' = [remaining EXCEPT ![t] = @ - 1]
  /\ pending' = pending \ {m}
  /\ UNCHANGED <<input, waitlist, unfilled, pc>>

(* The inner loop ends with `assigned` still false.                         *)
WaitlistMember(m) ==
  /\ pc = "loop"
  /\ NextRegistration(m)
  /\ OpenTo(m) = {}
  /\ waitlist' = waitlist \cup {m}
  /\ pending' = pending \ {m}
  /\ UNCHANGED <<input, remaining, assignments, unfilled, pc>>

(* Every registration is visited: compute unfilledTasks and return.         *)
Return ==
  /\ pc = "loop"
  /\ pending = {}
  /\ unfilled' = {[taskId |-> t, remainingSlots |-> remaining[t]] :
                    t \in {u \in input.tasks : remaining[u] > 0}}
  /\ pc' = "returned"
  /\ UNCHANGED <<input, pending, remaining, assignments, waitlist>>

(* The function has returned; the only state the loop may stay in.          *)
Returned == pc = "returned" /\ UNCHANGED vars

Next ==
  \/ \E m \in Members : WaitlistMember(m) \/ \E t \in TaskIds : AssignMember(m, t)
  \/ Return
  \/ Returned

Spec == Init /\ [][Next]_vars

-----------------------------------------------------------------------------
(* Properties *)

TypeOK ==
  /\ input \in Inputs
  /\ pending \subseteq input.registrations
  /\ remaining \in [input.tasks -> Nat]
  /\ assignments \subseteq [userId : input.registrations, taskId : input.tasks]
  /\ waitlist \subseteq input.registrations
  /\ unfilled \subseteq [taskId : input.tasks, remainingSlots : Nat]
  /\ pc \in {"loop", "returned"}

Visited == input.registrations \ pending

(* Slots are neither lost nor invented: at every point of the loop the      *)
(* members on a task and the slots left on it add up to its slotCount, so   *)
(* no task gets more members than it has slots (docs/OVERVIEW.md).          *)
SlotsConserved ==
  \A t \in input.tasks :
    Cardinality(Holders(assignments, t)) + remaining[t] = input.slotCount[t]

(* Every visited registration ends up in exactly one place: on one task, or *)
(* on the waitlist; nobody is dropped, assigned twice, or both assigned and *)
(* waitlisted (docs/OVERVIEW.md: assignments and waitlist are together all  *)
(* submitted registrations, at most one assignment per member).             *)
EachInOnePlace ==
  /\ Assigned(assignments) \cup waitlist = Visited
  /\ Assigned(assignments) \cap waitlist = {}
  /\ \A a, b \in assignments : a.userId = b.userId => a = b

(* Nobody can complain: a task that a visited member scored and would       *)
(* rather have than what the loop gave them is full, and everyone on it     *)
(* comes earlier in the order of registrations.                             *)
WouldRatherHave(m, t) ==
  /\ input.score[m][t] > 0
  /\ \A a \in assignments : a.userId = m => Prefers(input, m, t, a.taskId)

NoJustifiedEnvy ==
  \A m \in Visited, t \in input.tasks :
    WouldRatherHave(m, t) =>
      /\ remaining[t] = 0
      /\ \A a \in assignments : a.taskId = t => Before(input, a.userId, m)

(* The loop implements the one-step promise of MatcherPromise: what it      *)
(* returns is the greedy answer, with its waitlist and its unfilled tasks.  *)
answer == IF pc = "returned"
            THEN [assignments |-> assignments, waitlist |-> waitlist, unfilledTasks |-> unfilled]
            ELSE NoAnswer
Promise == INSTANCE MatcherPromise WITH IsAnswer <- IsGreedyAnswer
ImplementsPromise == Promise!Spec
=============================================================================
