------------------------- MODULE GreedyMatcherProofs -------------------------
(***************************************************************************)
(* For every set of members, tasks and inputs: the loop of                 *)
(* runGreedyMatcher keeps its invariants and implements the promise of     *)
(* MatcherPromise.                                                         *)
(***************************************************************************)
EXTENDS GreedyMatcher, FiniteSetTheorems, TLAPS

-----------------------------------------------------------------------------
(* The two orders *)

(* The comparator of sortRegistrations never puts each of two registrations *)
(* before the other, nor one before itself.                                 *)
LEMMA BeforeAsymmetric ==
  ASSUME NEW in \in MatcherInput, NEW a \in Members, NEW b \in Members, Before(in, a, b)
  PROVE  a # b /\ ~Before(in, b, a)
<1>1. /\ in.fairnessScore[a] \in Int /\ in.fairnessScore[b] \in Int
      /\ in.submittedAt[a] \in Int /\ in.submittedAt[b] \in Int
  BY DEF MatcherInput
<1>2. a \in Nat /\ b \in Nat
  BY MembersAssumption
<1> QED
  BY <1>1, <1>2 DEF Before

(* Nor does the comparator of sortPreferences.                              *)
LEMMA PrefersAsymmetric ==
  ASSUME NEW in \in MatcherInput, NEW m \in Members, NEW s \in TaskIds, NEW t \in TaskIds,
         Prefers(in, m, s, t)
  PROVE  ~Prefers(in, m, t, s)
<1>1. in.score[m][s] \in Nat /\ in.score[m][t] \in Nat
  BY DEF MatcherInput
<1>2. PriorityOf(in, s) \in Int /\ PriorityOf(in, t) \in Int
  BY DEF MatcherInput, PriorityOf
<1>3. s \in Nat /\ t \in Nat
  BY TaskIdsAssumption
<1> QED
  BY <1>1, <1>2, <1>3 DEF Prefers

-----------------------------------------------------------------------------
(* Counting the members on a task *)

(* The members on a task are finitely many, so their number is one.         *)
LEMMA HoldersFinite ==
  ASSUME NEW A, NEW t
  PROVE  IsFiniteSet(Holders(A, t)) /\ Cardinality(Holders(A, t)) \in Nat
<1>1. Holders(A, t) \subseteq Members
  BY DEF Holders
<1> QED
  BY <1>1, MembersAssumption, FS_Subset, FS_CardinalityType

(* One more assignment is one more member on its task, and none elsewhere.  *)
LEMMA HoldersGrow ==
  ASSUME NEW A, NEW m \in Members, NEW t \in TaskIds, NEW u \in TaskIds,
         \A a \in A : a.userId # m
  PROVE  Cardinality(Holders(A \cup {[userId |-> m, taskId |-> t]}, u)) =
           IF u = t THEN Cardinality(Holders(A, u)) + 1 ELSE Cardinality(Holders(A, u))
<1> DEFINE B == A \cup {[userId |-> m, taskId |-> t]}
<1>1. CASE u = t
  <2>1. Holders(B, u) = Holders(A, u) \cup {m}
    BY <1>1 DEF Holders
  <2>2. m \notin Holders(A, u)
    BY DEF Holders
  <2> QED
    BY <1>1, <2>1, <2>2, HoldersFinite, FS_AddElement
<1>2. CASE u # t
  <2>1. Holders(B, u) = Holders(A, u)
    BY <1>2 DEF Holders
  <2> QED
    BY <1>2, <2>1
<1> QED
  BY <1>1, <1>2

-----------------------------------------------------------------------------
(* The inductive invariant *)

(* The loop visits registrations in their order.                            *)
VisitedFirst == \A m \in Visited, n \in pending : Before(input, m, n)

(* So far everyone visited has what the promise gives them.                 *)
GreedySoFar ==
  \A m \in Visited, t \in input.tasks :
    [userId |-> m, taskId |-> t] \in assignments
      <=> IsFirstChoice(input, m, t, LeftFor(input, assignments, m))

(* What the function returns is complete.                                   *)
ReturnedComplete ==
  pc = "returned" =>
    /\ pending = {}
    /\ unfilled = {[taskId |-> t, remainingSlots |-> remaining[t]] :
                     t \in {u \in input.tasks : remaining[u] > 0}}

IInv ==
  /\ TypeOK
  /\ SlotsConserved
  /\ EachInOnePlace
  /\ VisitedFirst
  /\ GreedySoFar
  /\ NoJustifiedEnvy
  /\ ReturnedComplete

(* Facts about the types that most steps use.                               *)
LEMMA InputTyped ==
  ASSUME TypeOK
  PROVE  /\ input \in MatcherInput
         /\ input.tasks \subseteq TaskIds
         /\ input.registrations \subseteq Members
         /\ pending \subseteq Members
         /\ input.slotCount \in [TaskIds -> Nat]
         /\ remaining \in [input.tasks -> Nat]
<1>1. input \in MatcherInput
  BY InputsAssumption DEF TypeOK
<1> QED
  BY <1>1 DEF TypeOK, MatcherInput

LEMMA InitIInv == Init => IInv
<1> SUFFICES ASSUME Init PROVE IInv
  OBVIOUS
<1>1. input \in MatcherInput
  BY InputsAssumption DEF Init
<1>2. TypeOK
  BY <1>1 DEF Init, TypeOK, MatcherInput
<1>3. Visited = {}
  BY DEF Init, Visited
<1>4. SlotsConserved
  <2>1. \A t : Holders({}, t) = {}
    BY DEF Holders
  <2> QED
    <3> SUFFICES ASSUME NEW t \in input.tasks
                 PROVE  Cardinality(Holders(assignments, t)) + remaining[t] = input.slotCount[t]
      BY DEF SlotsConserved
    <3>1. remaining[t] = input.slotCount[t] /\ input.slotCount[t] \in Nat
      BY <1>1 DEF Init, MatcherInput
    <3>2. Cardinality(Holders(assignments, t)) = 0
      BY <2>1, FS_EmptySet DEF Init
    <3> QED
      BY <3>1, <3>2
<1>5. EachInOnePlace
  BY <1>3 DEF Init, EachInOnePlace, Assigned
<1>6. VisitedFirst /\ GreedySoFar /\ NoJustifiedEnvy
  BY <1>3 DEF VisitedFirst, GreedySoFar, NoJustifiedEnvy
<1>7. ReturnedComplete
  BY DEF Init, ReturnedComplete
<1> QED
  BY <1>2, <1>4, <1>5, <1>6, <1>7 DEF IInv

-----------------------------------------------------------------------------
(* One step of the loop *)

(* Everyone visited comes before whoever the loop is at.                    *)
LEMMA VisitedBeforeNext ==
  ASSUME IInv, NEW m \in pending
  PROVE  \A n \in Visited : Before(input, n, m) /\ ~Before(input, m, n) /\ n # m /\ n \in Members
<1>1. input \in MatcherInput /\ pending \subseteq Members /\ input.registrations \subseteq Members
  BY InputTyped DEF IInv
<1> QED
  BY <1>1, BeforeAsymmetric DEF IInv, VisitedFirst, Visited

(* What the promise leaves for the next registration is what the loop's     *)
(* counters say is open to it, whatever that registration itself gets.      *)
LEMMA LeftIsOpen ==
  ASSUME IInv, NEW m \in pending, NEW B,
         \A n \in Members \ {m}, v \in TaskIds :
           [userId |-> n, taskId |-> v] \in B <=> [userId |-> n, taskId |-> v] \in assignments
  PROVE  LeftFor(input, B, m) = OpenTo(m)
<1> USE DEF IInv
<1>1. /\ input \in MatcherInput /\ input.tasks \subseteq TaskIds
      /\ pending \subseteq Members
      /\ input.slotCount \in [TaskIds -> Nat]
      /\ remaining \in [input.tasks -> Nat]
  BY InputTyped
<1>2. ASSUME NEW v \in input.tasks
      PROVE  HeldBefore(input, B, m, v) = Holders(assignments, v)
  <2>1. ~Before(input, m, m)
    BY <1>1, BeforeAsymmetric
  <2>2. ASSUME NEW x \in Members, [userId |-> x, taskId |-> v] \in assignments
        PROVE  x # m /\ Before(input, x, m)
    <3>1. x \in Visited
      BY <2>2 DEF EachInOnePlace, Assigned
    <3> QED
      BY <3>1, VisitedBeforeNext
  <2> QED
    BY <1>1, <2>1, <2>2 DEF HeldBefore, Holders
<1>3. \A v \in input.tasks :
        Cardinality(HeldBefore(input, B, m, v)) < input.slotCount[v] <=> remaining[v] > 0
  <2> TAKE v \in input.tasks
  <2>1. Cardinality(Holders(assignments, v)) + remaining[v] = input.slotCount[v]
    BY DEF SlotsConserved
  <2>2. Cardinality(Holders(assignments, v)) \in Nat /\ remaining[v] \in Nat
    BY <1>1, HoldersFinite
  <2> QED
    BY <1>2, <2>1, <2>2
<1> QED
  BY <1>3 DEF LeftFor, OpenTo

(* `assignments.push`, the slot taken and the break keep the invariant.     *)
LEMMA AssignPreserves ==
  ASSUME IInv, NEW m \in Members, NEW t \in TaskIds, AssignMember(m, t)
  PROVE  IInv'
<1> USE DEF IInv
<1>0. /\ input' = input /\ waitlist' = waitlist /\ unfilled' = unfilled /\ pc' = pc
      /\ pc = "loop"
      /\ m \in pending /\ pending' = pending \ {m}
      /\ \A n \in pending \ {m} : Before(input, m, n)
      /\ assignments' = assignments \cup {[userId |-> m, taskId |-> t]}
      /\ remaining' = [remaining EXCEPT ![t] = @ - 1]
      /\ IsFirstChoice(input, m, t, OpenTo(m))
  BY DEF AssignMember, NextRegistration
<1>1. /\ input \in MatcherInput /\ input.tasks \subseteq TaskIds
      /\ input.registrations \subseteq Members /\ pending \subseteq Members
      /\ input.slotCount \in [TaskIds -> Nat]
      /\ remaining \in [input.tasks -> Nat]
  BY InputTyped
<1>2. t \in input.tasks /\ remaining[t] > 0 /\ input.score[m][t] > 0
  BY <1>0 DEF IsFirstChoice, OpenTo
<1>3. m \in input.registrations /\ m \notin Visited /\ Visited' = Visited \cup {m}
  BY <1>0 DEF Visited, TypeOK
<1>4. \A a \in assignments : a.userId # m
  BY <1>3 DEF EachInOnePlace, Assigned
<1>5. m \notin waitlist
  BY <1>3 DEF EachInOnePlace
<1>6. /\ remaining'[t] = remaining[t] - 1
      /\ \A u \in input.tasks \ {t} : remaining'[u] = remaining[u]
      /\ remaining' \in [input.tasks -> Nat]
  BY <1>0, <1>1, <1>2
<1>7. TypeOK'
  BY <1>0, <1>1, <1>2, <1>3, <1>6 DEF TypeOK
<1>8. SlotsConserved'
  <2> SUFFICES ASSUME NEW u \in input.tasks
               PROVE  Cardinality(Holders(assignments', u)) + remaining'[u] = input.slotCount[u]
    BY <1>0 DEF SlotsConserved
  <2>1. Cardinality(Holders(assignments', u)) =
          IF u = t THEN Cardinality(Holders(assignments, u)) + 1
                   ELSE Cardinality(Holders(assignments, u))
    BY <1>0, <1>1, <1>4, HoldersGrow
  <2>2. Cardinality(Holders(assignments, u)) + remaining[u] = input.slotCount[u]
    BY DEF SlotsConserved
  <2>3. Cardinality(Holders(assignments, u)) \in Nat /\ remaining[u] \in Nat
    BY <1>1, HoldersFinite
  <2> QED
    BY <1>2, <1>6, <2>1, <2>2, <2>3
<1>9. EachInOnePlace'
  <2>1. Assigned(assignments') = Assigned(assignments) \cup {m}
    <3> DEFINE new == [userId |-> m, taskId |-> t]
    <3>1. new.userId = m
      OBVIOUS
    <3> HIDE DEF new
    <3>2. {a.userId : a \in assignments \cup {new}} = {a.userId : a \in assignments} \cup {new.userId}
      OBVIOUS
    <3> QED
      BY <1>0, <3>1, <3>2 DEF Assigned, new
  <2>2. \A a, b \in assignments' : a.userId = b.userId => a = b
    BY <1>0, <1>4 DEF EachInOnePlace
  <2> QED
    BY <1>0, <1>3, <1>5, <2>1, <2>2 DEF EachInOnePlace
<1>10. VisitedFirst'
  BY <1>0, <1>3 DEF VisitedFirst
<1>11. \A n \in Visited : Before(input, n, m) /\ ~Before(input, m, n) /\ n # m /\ n \in Members
  BY <1>0, VisitedBeforeNext
<1>12. GreedySoFar'
  <2> SUFFICES ASSUME NEW n \in Visited', NEW u \in input.tasks
               PROVE  [userId |-> n, taskId |-> u] \in assignments'
                        <=> IsFirstChoice(input, n, u, LeftFor(input, assignments', n))
    BY <1>0 DEF GreedySoFar
  <2>1. CASE n \in Visited
    <3>1. n # m /\ ~Before(input, m, n)
      BY <1>11, <2>1
    <3>2. \A v : HeldBefore(input, assignments', n, v) = HeldBefore(input, assignments, n, v)
      BY <1>0, <3>1 DEF HeldBefore
    <3>3. LeftFor(input, assignments', n) = LeftFor(input, assignments, n)
      BY <3>2 DEF LeftFor
    <3>4. [userId |-> n, taskId |-> u] \in assignments'
            <=> [userId |-> n, taskId |-> u] \in assignments
      BY <1>0, <3>1
    <3> QED
      BY <2>1, <3>3, <3>4 DEF GreedySoFar
  <2>2. CASE n = m
    <3>1. LeftFor(input, assignments', m) = OpenTo(m)
      <4>1. \A n1 \in Members \ {m}, v \in TaskIds :
              [userId |-> n1, taskId |-> v] \in assignments'
                <=> [userId |-> n1, taskId |-> v] \in assignments
        BY <1>0
      <4> QED
        BY <1>0, <4>1, LeftIsOpen DEF NextRegistration
    <3>2. [userId |-> m, taskId |-> u] \in assignments' <=> u = t
      BY <1>0, <1>4
    <3>3. IsFirstChoice(input, m, u, OpenTo(m)) => u = t
      <4> SUFFICES ASSUME IsFirstChoice(input, m, u, OpenTo(m)), u # t PROVE FALSE
        OBVIOUS
      <4>1. Prefers(input, m, u, t) /\ Prefers(input, m, t, u)
        BY <1>0 DEF IsFirstChoice
      <4> QED
        BY <1>1, <4>1, PrefersAsymmetric
    <3> QED
      BY <1>0, <2>2, <3>1, <3>2, <3>3
  <2> QED
    BY <1>3, <2>1, <2>2
<1>13. NoJustifiedEnvy'
  <2> SUFFICES ASSUME NEW n \in Visited', NEW u \in input.tasks, WouldRatherHave(n, u)'
               PROVE  /\ remaining'[u] = 0
                      /\ \A a \in assignments' : a.taskId = u => Before(input, a.userId, n)
    BY <1>0 DEF NoJustifiedEnvy
  <2>1. CASE n \in Visited
    <3>1. WouldRatherHave(n, u)
      BY <1>0 DEF WouldRatherHave
    <3>2. remaining[u] = 0 /\ \A a \in assignments : a.taskId = u => Before(input, a.userId, n)
      BY <2>1, <3>1 DEF NoJustifiedEnvy
    <3>3. u # t
      BY <1>2, <3>2
    <3> QED
      BY <1>0, <1>6, <3>2, <3>3
  <2>2. CASE n = m
    <3>1. input.score[m][u] > 0 /\ Prefers(input, m, u, t)
      <4>1. [userId |-> m, taskId |-> t] \in assignments'
        BY <1>0
      <4>2. [userId |-> m, taskId |-> t].userId = m /\ [userId |-> m, taskId |-> t].taskId = t
        OBVIOUS
      <4>3. /\ input.score[m][u] > 0
            /\ \A a \in assignments' : a.userId = m => Prefers(input, m, u, a.taskId)
        BY <1>0, <2>2 DEF WouldRatherHave, Prefers, PriorityOf
      <4> QED
        BY <4>1, <4>2, <4>3
    <3>2. u # t
      BY <1>1, <3>1, PrefersAsymmetric
    <3>3. u \notin OpenTo(m)
      <4>1. u \in OpenTo(m) => Prefers(input, m, t, u)
        BY <1>0, <3>2 DEF IsFirstChoice
      <4> QED
        BY <1>1, <3>1, <4>1, PrefersAsymmetric
    <3>4. remaining[u] = 0
      BY <1>1, <3>1, <3>3 DEF OpenTo
    <3>5. ASSUME NEW a \in assignments', a.taskId = u PROVE Before(input, a.userId, m)
      <4>1. a \in assignments
        BY <1>0, <3>2, <3>5
      <4>2. a.userId \in Visited
        BY <4>1 DEF EachInOnePlace, Assigned
      <4> QED
        BY <1>11, <4>2
    <3> QED
      BY <1>6, <2>2, <3>2, <3>4, <3>5
  <2> QED
    BY <1>3, <2>1, <2>2
<1>14. ReturnedComplete'
  BY <1>0 DEF ReturnedComplete
<1> QED
  BY <1>7, <1>8, <1>9, <1>10, <1>12, <1>13, <1>14

(* Nor does `waitlist.push` break it.                                       *)
LEMMA WaitlistPreserves ==
  ASSUME IInv, NEW m \in Members, WaitlistMember(m)
  PROVE  IInv'
<1> USE DEF IInv
<1>0. /\ input' = input /\ remaining' = remaining /\ assignments' = assignments
      /\ unfilled' = unfilled /\ pc' = pc /\ pc = "loop"
      /\ m \in pending /\ pending' = pending \ {m}
      /\ \A n \in pending \ {m} : Before(input, m, n)
      /\ OpenTo(m) = {}
      /\ waitlist' = waitlist \cup {m}
  BY DEF WaitlistMember, NextRegistration
<1>1. /\ input \in MatcherInput
      /\ remaining \in [input.tasks -> Nat]
      /\ input.tasks \subseteq TaskIds
  BY InputTyped
<1>2. m \in input.registrations /\ m \notin Visited /\ Visited' = Visited \cup {m}
  BY <1>0 DEF Visited, TypeOK
<1>3. m \notin Assigned(assignments)
  BY <1>2 DEF EachInOnePlace
<1>4. TypeOK'
  BY <1>0, <1>2 DEF TypeOK
<1>5. SlotsConserved'
  BY <1>0 DEF SlotsConserved
<1>6. EachInOnePlace'
  BY <1>0, <1>2, <1>3 DEF EachInOnePlace
<1>7. VisitedFirst'
  BY <1>0, <1>2 DEF VisitedFirst
<1>8. GreedySoFar'
  <2>1. ASSUME NEW u \in input.tasks
        PROVE  [userId |-> m, taskId |-> u] \in assignments
                 <=> IsFirstChoice(input, m, u, LeftFor(input, assignments, m))
    <3>1. [userId |-> m, taskId |-> u] \notin assignments
      BY <1>3 DEF Assigned
    <3>2. LeftFor(input, assignments, m) = {}
      BY <1>0, LeftIsOpen
    <3> QED
      BY <3>1, <3>2 DEF IsFirstChoice
  <2> QED
    BY <1>0, <1>2, <2>1 DEF GreedySoFar
<1>9. NoJustifiedEnvy'
  <2> SUFFICES ASSUME NEW n \in Visited', NEW u \in input.tasks, WouldRatherHave(n, u)
               PROVE  /\ remaining[u] = 0
                      /\ \A a \in assignments : a.taskId = u => Before(input, a.userId, n)
    BY <1>0 DEF NoJustifiedEnvy, WouldRatherHave
  <2>1. CASE n \in Visited
    BY <2>1 DEF NoJustifiedEnvy
  <2>2. CASE n = m
    <3>1. remaining[u] = 0
      BY <1>0, <1>1, <2>2 DEF WouldRatherHave, OpenTo
    <3>2. \A a \in assignments : a.userId \in Visited
      BY DEF EachInOnePlace, Assigned
    <3> QED
      BY <1>0, <2>2, <3>1, <3>2, VisitedBeforeNext
  <2> QED
    BY <1>2, <2>1, <2>2
<1>10. ReturnedComplete'
  BY <1>0 DEF ReturnedComplete
<1> QED
  BY <1>4, <1>5, <1>6, <1>7, <1>8, <1>9, <1>10

LEMMA ReturnPreserves ==
  ASSUME IInv, Return
  PROVE  IInv'
<1> USE DEF IInv
<1>0. /\ UNCHANGED <<input, pending, remaining, assignments, waitlist>>
      /\ pending = {} /\ pc' = "returned"
      /\ unfilled' = {[taskId |-> t, remainingSlots |-> remaining[t]] :
                        t \in {u \in input.tasks : remaining[u] > 0}}
  BY DEF Return
<1>1. TypeOK'
  <2>1. remaining \in [input.tasks -> Nat]
    BY InputTyped
  <2> QED
    BY <1>0, <2>1 DEF TypeOK
<1>2. Visited' = Visited
  BY <1>0 DEF Visited
<1>3. SlotsConserved' /\ EachInOnePlace' /\ VisitedFirst'
  BY <1>0, <1>2 DEF SlotsConserved, EachInOnePlace, VisitedFirst
<1>4. GreedySoFar' /\ NoJustifiedEnvy'
  BY <1>0, <1>2 DEF GreedySoFar, NoJustifiedEnvy, WouldRatherHave
<1>5. ReturnedComplete'
  BY <1>0 DEF ReturnedComplete
<1> QED
  BY <1>1, <1>3, <1>4, <1>5

LEMMA StutterPreserves == IInv /\ UNCHANGED vars => IInv'
<1> SUFFICES ASSUME IInv, UNCHANGED vars PROVE IInv'
  OBVIOUS
<1>1. Visited' = Visited
  BY DEF vars, Visited
<1>2. (TypeOK /\ SlotsConserved /\ EachInOnePlace)'
  BY <1>1 DEF vars, IInv, TypeOK, SlotsConserved, EachInOnePlace
<1>3. (VisitedFirst /\ GreedySoFar /\ NoJustifiedEnvy /\ ReturnedComplete)'
  BY <1>1 DEF vars, IInv, VisitedFirst, GreedySoFar, NoJustifiedEnvy, WouldRatherHave, ReturnedComplete
<1> QED
  BY <1>2, <1>3 DEF IInv

-----------------------------------------------------------------------------
(* The theorems *)

(* The strengthened invariant holds in every state of every run.            *)
THEOREM Invariance == Spec => []IInv
<1>1. Init => IInv
  BY InitIInv
<1>2. IInv /\ [Next]_vars => IInv'
  <2> SUFFICES ASSUME IInv, [Next]_vars PROVE IInv'
    OBVIOUS
  <2>1. CASE \E m \in Members : WaitlistMember(m)
    BY <2>1, WaitlistPreserves
  <2>2. CASE \E m \in Members : \E t \in TaskIds : AssignMember(m, t)
    BY <2>2, AssignPreserves
  <2>3. CASE Return
    BY <2>3, ReturnPreserves
  <2>4. CASE Returned \/ UNCHANGED vars
    BY <2>4, StutterPreserves DEF Returned
  <2> QED
    BY <2>1, <2>2, <2>3, <2>4 DEF Next
<1> QED
  BY <1>1, <1>2, PTL DEF Spec

(* runGreedyMatcher's variables keep their types; in particular no slot     *)
(* count ever goes below zero.                                              *)
THEOREM TypeCorrect == Spec => []TypeOK
  BY Invariance, PTL DEF IInv

(* No task is given more members than it has slots.                         *)
THEOREM SlotsAreConserved == Spec => []SlotsConserved
  BY Invariance, PTL DEF IInv

(* Every visited registration is assigned once or waitlisted, not both.     *)
THEOREM EachIsInOnePlace == Spec => []EachInOnePlace
  BY Invariance, PTL DEF IInv

(* Nobody would rather have a task that is free or held by a later one.     *)
THEOREM NobodyEnvies == Spec => []NoJustifiedEnvy
  BY Invariance, PTL DEF IInv

-----------------------------------------------------------------------------
(* Refinement *)

(* When every registration is visited, what the loop has built is the       *)
(* promised result, and `unfilled` the slots that result leaves.            *)
LEMMA LoopEndIsGreedy ==
  ASSUME IInv, pending = {}
  PROVE  /\ IsGreedyResult(input, assignments)
         /\ waitlist = input.registrations \ Assigned(assignments)
         /\ {[taskId |-> t, remainingSlots |-> remaining[t]] : t \in {u \in input.tasks : remaining[u] > 0}}
              = AnswerFor(input, assignments).unfilledTasks
<1> USE DEF IInv
<1>1. Visited = input.registrations
  BY DEF Visited
<1>2. /\ input.tasks \subseteq TaskIds
      /\ input.slotCount \in [TaskIds -> Nat]
      /\ remaining \in [input.tasks -> Nat]
  BY InputTyped
<1>3. IsGreedyResult(input, assignments)
  BY <1>1 DEF IsGreedyResult, GreedySoFar, TypeOK
<1>4. waitlist = input.registrations \ Assigned(assignments)
  BY <1>1 DEF EachInOnePlace
<1>5. \A t \in input.tasks : /\ remaining[t] = input.slotCount[t] - Cardinality(Holders(assignments, t))
                             /\ remaining[t] > 0 <=> Cardinality(Holders(assignments, t)) < input.slotCount[t]
  <2> TAKE t \in input.tasks
  <2>1. Cardinality(Holders(assignments, t)) + remaining[t] = input.slotCount[t]
    BY DEF SlotsConserved
  <2>2. /\ Cardinality(Holders(assignments, t)) \in Nat
        /\ remaining[t] \in Nat /\ input.slotCount[t] \in Nat
    BY <1>2, HoldersFinite
  <2> QED
    BY <2>1, <2>2
<1>6. {u \in input.tasks : remaining[u] > 0}
        = {u \in input.tasks : Cardinality(Holders(assignments, u)) < input.slotCount[u]}
  BY <1>5
<1>7. {[taskId |-> t, remainingSlots |-> remaining[t]] : t \in {u \in input.tasks : remaining[u] > 0}}
        = {[taskId |-> t, remainingSlots |-> input.slotCount[t] - Cardinality(Holders(assignments, t))] :
             t \in {u \in input.tasks : Cardinality(Holders(assignments, u)) < input.slotCount[u]}}
  BY <1>5, <1>6
<1> QED
  BY <1>3, <1>4, <1>7 DEF AnswerFor

(* The loop refines the one-step promise: the call returns the greedy       *)
(* answer to its input, and changes nothing before it returns.              *)
THEOREM LoopImplementsPromise == Spec => ImplementsPromise
<1>1. Init => Promise!Init
  BY DEF Init, Promise!Init, answer
<1>2. IInv /\ [Next]_vars => [Promise!Return]_(Promise!vars)
  <2> SUFFICES ASSUME IInv, [Next]_vars PROVE [Promise!Return]_(Promise!vars)
    OBVIOUS
  <2>1. CASE Return
    <3>1. /\ pc = "loop" /\ pc' = "returned" /\ pending = {}
          /\ input' = input /\ assignments' = assignments /\ waitlist' = waitlist
          /\ unfilled' = {[taskId |-> t, remainingSlots |-> remaining[t]] :
                            t \in {u \in input.tasks : remaining[u] > 0}}
      BY <2>1 DEF Return
    <3>2. answer = NoAnswer
      BY <3>1 DEF answer
    <3>3. answer' = AnswerFor(input, assignments)
      <4>1. answer' = [assignments |-> assignments, waitlist |-> waitlist, unfilledTasks |-> unfilled']
        BY <3>1 DEF answer
      <4>2. /\ waitlist = input.registrations \ Assigned(assignments)
            /\ unfilled' = AnswerFor(input, assignments).unfilledTasks
        BY <3>1, LoopEndIsGreedy
      <4> QED
        BY <4>1, <4>2, Zenon DEF AnswerFor
    <3> QED
      <4>1. answer'.assignments = assignments
        BY <3>3 DEF AnswerFor
      <4>2. IsGreedyAnswer(input, answer')
        BY <3>1, <3>3, <4>1, LoopEndIsGreedy DEF IsGreedyAnswer
      <4>3. answer' \in MatcherResult
        <5>1. TypeOK'
          BY <2>1, ReturnPreserves DEF IInv
        <5>2. input \in MatcherInput
          BY InputTyped DEF IInv
        <5>3. /\ assignments \subseteq Assignment /\ waitlist \subseteq Members
              /\ unfilled' \subseteq [taskId : TaskIds, remainingSlots : Nat]
          BY <3>1, <5>1, <5>2 DEF TypeOK, MatcherInput, Assignment
        <5>4. answer' = [assignments |-> assignments, waitlist |-> waitlist, unfilledTasks |-> unfilled']
          BY <3>1 DEF answer
        <5> QED
          BY <5>3, <5>4 DEF MatcherResult
      <4> QED
        BY <3>1, <3>2, <4>2, <4>3, NoAnswerAssumption DEF Promise!Return
  <2>2. CASE \E m \in Members : WaitlistMember(m) \/ \E t \in TaskIds : AssignMember(m, t)
    BY <2>2 DEF WaitlistMember, AssignMember, Promise!vars, answer
  <2>3. CASE Returned \/ UNCHANGED vars
    BY <2>3 DEF Returned, vars, Promise!vars, answer
  <2> QED
    BY <2>1, <2>2, <2>3 DEF Next
<1> QED
  BY <1>1, <1>2, Invariance, PTL DEF Spec, ImplementsPromise, Promise!Spec
=============================================================================
