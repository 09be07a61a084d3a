------------------------ MODULE ActivityMatchingProofs ------------------------
(***************************************************************************)
(* For any members, tasks, requests, overrides, crashes and Redis errors:  *)
(* matcher runs that were locked leave nobody two tasks and no task more   *)
(* rows than it had slots; and where no status is replaced that was not    *)
(* read, completions that were locked announce an assignment once.         *)
(***************************************************************************)
EXTENDS ActivityMatching, FiniteSetTheorems, TLAPS

(* Nothing is cached or counted here: of the clients of Redis only the lock *)
(* is used.                                                                 *)
Redis == INSTANCE RedisClientsProofs WITH
  Resources   <- {"matcher", "activity-complete"},
  ResourceOf  <- [c \in Calls |-> IF c \in MatcherCalls THEN "matcher" ELSE "activity-complete"],
  Readers     <- {}, Writers <- {}, Keys <- {}, KeyOf <- <<>>, Plan <- <<>>,
  Queries     <- <<>>, Needs <- <<>>, NullKeys <- {},
  Nothing     <- None, CacheFaults <- FALSE,
  db          <- <<>>, cache <- <<>>, read <- <<>>, wipe <- <<>>,
  Requests    <- {}, Limit <- 1, LimitFaults <- FALSE,
  asked       <- <<>>, counter <- 0, timed <- FALSE, memory <- 0,
  windows     <- <<>>, orphaned <- FALSE

LEMMA LockAssumptions == Redis!CallsAssumption
  BY RequestsAssumption DEF Calls, Redis!CallsAssumption

-----------------------------------------------------------------------------
(* The lock *)

LEMMA SameLock ==
  /\ Lock!LockInit <=> Redis!LockInit
  /\ \A c : Lock!Step(c) <=> Redis!Step(c)
  /\ \A r : Lock!Expire(r) <=> Redis!Expire(r)
  /\ Lock!ConnectionChanges <=> Redis!ConnectionChanges
  /\ Lock!Crash <=> Redis!Crash
  /\ Lock!TypeOK <=> Redis!TypeOK
<1> USE DEF Lock!InFn, Redis!InFn
<1>1. Lock!LockInit <=> Redis!LockInit
  BY DEF Lock!LockInit, Redis!LockInit
<1>2. \A c : Lock!Step(c) <=> Redis!Step(c)
  BY DEF Lock!Step, Lock!EnterUnlocked, Lock!AskForLock, Lock!Enter, Lock!Refuse,
         Lock!AcquireFails, Lock!Leave, Lock!Release, Lock!ReleaseFails,
         Redis!Step, Redis!EnterUnlocked, Redis!AskForLock, Redis!Enter,
         Redis!Refuse, Redis!AcquireFails, Redis!Leave, Redis!Release,
         Redis!ReleaseFails
<1>3. \A r : Lock!Expire(r) <=> Redis!Expire(r)
  BY DEF Lock!Expire, Redis!Expire
<1>4. Lock!ConnectionChanges <=> Redis!ConnectionChanges
  BY DEF Lock!ConnectionChanges, Redis!ConnectionChanges
<1>5. Lock!Crash <=> Redis!Crash
  BY DEF Lock!Crash, Redis!Crash
<1>6. Lock!TypeOK <=> Redis!TypeOK
  BY DEF Lock!TypeOK, Redis!TypeOK, Lock!Phases, Redis!Phases
<1> QED
  BY <1>1, <1>2, <1>3, <1>4, <1>5, <1>6

(* What a request does inside fn either leaves the lock alone or leaves fn. *)
LEMMA RequestsUseTheLock ==
  ASSUME NEW c \in Calls, RunMatcher(c) \/ CompleteActivity(c)
  PROVE  (UNCHANGED lockVars) \/ (Lock!Leave(c) /\ at' = [at EXCEPT ![c] = "settled"])
  BY DEF RunMatcher, ReadActivity, ReadTasks, ReadRegistrationsAndMatch, DeleteRows, CreateRows,
         SetMatched, EmitRun, CompleteActivity, ReadForCompletion, FindConfirmed, UpdateMany,
         SetCompleted, Announce, Settle, Goto

LEMMA OthersLeaveTheLock ==
  ASSUME \/ \E o \in Overrides : OverrideAssignment(o)
         \/ \E p \in Patches : PatchReads(p) \/ PatchWrites(p)
         \/ \E t \in TaskIds : EditSlots(t)
         \/ \E m \in Members : SubmitChecks(m) \/ SubmitCreates(m)
         \/ UNCHANGED vars
  PROVE  UNCHANGED <<at, view, nextId, lastSlots, completed, announced, lockVars>>
  BY DEF OverrideAssignment, OverrideReads, OverrideReadsTask, OverrideCounts, OverrideChecksUser,
         OverrideWrites, PatchReads, PatchWrites, EditSlots, SubmitChecks, SubmitCreates,
         vars, dbVars, reqVars, history

LEMMA LockSteps == [Next]_vars => [Lock!Next]_lockVars
<1> SUFFICES ASSUME [Next]_vars PROVE [Lock!Next]_lockVars
  OBVIOUS
<1>1. ASSUME NEW c \in Calls, RunMatcher(c) \/ CompleteActivity(c) PROVE [Lock!Next]_lockVars
  BY <1>1, RequestsUseTheLock DEF Lock!Next, Lock!Step
<1>2. CASE LockStep
  BY <1>2 DEF LockStep, Lock!Next, Lock!Step
<1>3. CASE Crash
  BY <1>3 DEF Crash, Lock!Next
<1> QED
  BY <1>1, <1>2, <1>3, OthersLeaveTheLock DEF Next, Calls

-----------------------------------------------------------------------------
(* What the matcher answers *)

(* At most one task for each member, no more members on a task than slots.  *)
Fits(A, slotCount) ==
  /\ A \subseteq Assignment
  /\ \A a, b \in A : a.userId = b.userId => a = b
  /\ \A t \in TaskIds : Cardinality({a \in A : a.taskId = t}) <= slotCount[t]

LEMMA InputIsTyped ==
  ASSUME NEW s \in [TaskIds -> Nat], NEW regs \in Seq(Members)
  PROVE  InputFrom(s, regs) \in MatcherInput
<1>1. {regs[i] : i \in DOMAIN regs} \subseteq Members
  OBVIOUS
<1>2. \A m \in Members : (IF \E i \in DOMAIN regs : regs[i] = m
                            THEN CHOOSE i \in DOMAIN regs : regs[i] = m ELSE 0) \in Int
  OBVIOUS
<1> QED
  BY <1>1, <1>2, PreferencesAssumption DEF InputFrom, MatcherInput

(* sortPreferences is strict, sortRegistrations a strict total order.       *)
LEMMA PreferencesAreStrict ==
  ASSUME NEW in \in MatcherInput, NEW m \in Members, NEW s \in TaskIds, NEW t \in TaskIds,
         Prefers(in, m, s, t)
  PROVE  ~Prefers(in, m, t, s)
<1>1. in.score[m][s] \in Nat /\ in.score[m][t] \in Nat
  BY DEF MatcherInput
<1>2. PriorityOf(in, s) \in Int /\ PriorityOf(in, t) \in Int
  BY DEF MatcherInput, PriorityOf
<1> QED
  BY <1>1, <1>2, TaskIdsAssumption DEF Prefers

LEMMA RegistrationsAreOrdered ==
  ASSUME NEW in \in MatcherInput
  PROVE  /\ \A m \in Members : ~Before(in, m, m)
         /\ \A m, n \in Members : m # n => Before(in, m, n) \/ Before(in, n, m)
         /\ \A l, m, n \in Members : Before(in, l, m) /\ Before(in, m, n) => Before(in, l, n)
<1>1. \A m \in Members : in.fairnessScore[m] \in Int /\ in.submittedAt[m] \in Int /\ m \in Nat
  BY MembersAssumption DEF MatcherInput
<1> QED
  BY <1>1 DEF Before

LEMMA IntervalSize ==
  ASSUME NEW n \in Nat, NEW k \in Nat
  PROVE  IsFiniteSet(n .. n + k - 1) /\ Cardinality(n .. n + k - 1) = k
<1> DEFINE last == n + k - 1
<1>1. last \in Int
  OBVIOUS
<1> HIDE DEF last
<1>2. IsFiniteSet(n .. last) /\ Cardinality(n .. last) = IF n > last THEN 0 ELSE last - n + 1
  BY <1>1, FS_Interval
<1>3. (IF n > last THEN 0 ELSE last - n + 1) = k
  BY DEF last
<1> QED
  BY <1>2, <1>3 DEF last

(* The members that hold a task rank differently: each has another number   *)
(* of holders before it, less than there are slots.                         *)
LEMMA GreedyHolders ==
  ASSUME NEW in \in MatcherInput, NEW A, IsGreedyResult(in, A), NEW t \in in.tasks
  PROVE  IsFiniteSet(Holders(A, t)) /\ Cardinality(Holders(A, t)) <= in.slotCount[t]
<1> DEFINE H == Holders(A, t)
           n == in.slotCount[t]
           before(m) == HeldBefore(in, A, m, t)
           rank == [m \in H |-> Cardinality(before(m))]
<1>0. /\ n \in Nat /\ in.registrations \subseteq Members /\ H \subseteq Members /\ in.tasks \subseteq TaskIds
      /\ \A m \in H : m \in in.registrations
  BY DEF MatcherInput, Holders, IsGreedyResult
<1>1. \A m \in Members : IsFiniteSet(before(m)) /\ Cardinality(before(m)) \in Nat
  <2>1. \A m \in Members : before(m) \subseteq Members
    BY DEF HeldBefore
  <2> QED
    BY <2>1, MembersAssumption, FS_Subset, FS_CardinalityType
<1>2. \A m \in H : rank[m] \in 0 .. n - 1
  <2> SUFFICES ASSUME NEW m \in H PROVE Cardinality(before(m)) \in 0 .. n - 1
    OBVIOUS
  <2>1. t \in LeftFor(in, A, m)
    BY <1>0 DEF IsGreedyResult, IsFirstChoice, Holders
  <2>2. Cardinality(before(m)) < n
    BY <2>1 DEF LeftFor
  <2> QED
    BY <1>0, <1>1, <2>2
<1>3. ASSUME NEW l \in H, NEW m \in H, Before(in, l, m) PROVE rank[l] # rank[m]
  <2>1. before(l) \subseteq before(m) /\ l \in before(m) /\ l \notin before(l)
    BY <1>0, <1>3, RegistrationsAreOrdered DEF HeldBefore, Holders
  <2>2. Cardinality(before(m)) = Cardinality(before(l)) => before(m) = before(l)
    BY <1>0, <1>1, <2>1, FS_Subset
  <2> QED
    BY <2>1, <2>2
<1>4. rank \in Injection(H, 0 .. n - 1)
  <2>1. \A l, m \in H : rank[l] = rank[m] => l = m
    BY <1>0, <1>3, RegistrationsAreOrdered
  <2> QED
    BY <1>2, <2>1 DEF Injection, IsInjective
<1>5. IsFiniteSet(0 .. n - 1) /\ Cardinality(0 .. n - 1) = n
  BY <1>0, IntervalSize
<1> QED
  BY <1>4, <1>5, FS_Injection

LEMMA GreedyFits ==
  ASSUME NEW in \in MatcherInput, in.tasks = TaskIds, NEW A, IsGreedyResult(in, A)
  PROVE  Fits(A, in.slotCount)
<1>0. A \subseteq [userId : in.registrations, taskId : TaskIds] /\ in.registrations \subseteq Members
  BY DEF IsGreedyResult, MatcherInput
<1>1. A \subseteq Assignment
  BY <1>0 DEF Assignment
<1>2. ASSUME NEW a \in A, NEW b \in A, a.userId = b.userId PROVE a = b
  <2>1. /\ a.taskId \in TaskIds /\ b.taskId \in TaskIds /\ a.userId \in in.registrations
        /\ a = [userId |-> a.userId, taskId |-> a.taskId] /\ b = [userId |-> a.userId, taskId |-> b.taskId]
    BY <1>0, <1>2
  <2>2. /\ IsFirstChoice(in, a.userId, a.taskId, LeftFor(in, A, a.userId))
        /\ IsFirstChoice(in, a.userId, b.taskId, LeftFor(in, A, a.userId))
    BY <2>1 DEF IsGreedyResult
  <2>3. a.taskId = b.taskId
    BY <1>0, <2>1, <2>2, PreferencesAreStrict DEF IsFirstChoice
  <2> QED
    BY <2>1, <2>3
<1>3. ASSUME NEW t \in TaskIds PROVE Cardinality({a \in A : a.taskId = t}) <= in.slotCount[t]
  <2> DEFINE on == {a \in A : a.taskId = t}
             who == [a \in on |-> a.userId]
  <2>1. who \in Injection(on, Holders(A, t))
    <3>1. \A a \in on : a = [userId |-> a.userId, taskId |-> t] /\ a.userId \in Members
      BY <1>1 DEF Assignment
    <3>2. \A a \in on : who[a] \in Holders(A, t)
      BY <3>1 DEF Holders
    <3> QED
      BY <1>2, <3>2 DEF Injection, IsInjective
  <2>2. IsFiniteSet(Holders(A, t)) /\ Cardinality(Holders(A, t)) <= in.slotCount[t]
    BY GreedyHolders
  <2>3. IsFiniteSet(on) /\ Cardinality(on) <= Cardinality(Holders(A, t))
    BY <2>1, <2>2, FS_Injection
  <2>4. in.slotCount[t] \in Nat /\ Cardinality(on) \in Nat /\ Cardinality(Holders(A, t)) \in Nat
    BY <2>2, <2>3, FS_CardinalityType DEF MatcherInput
  <2> QED
    BY <2>2, <2>3, <2>4
<1> QED
  BY <1>1, <1>2, <1>3 DEF Fits

(* createMany has as many ids as it needs.                                  *)
LEMMA IdsForAll ==
  ASSUME NEW A, NEW s, Fits(A, s), NEW n \in Nat
  PROVE  /\ IsFiniteSet(A) /\ Cardinality(A) \in Nat
         /\ \E f \in [A -> n .. n + Cardinality(A) - 1] : \A a, b \in A : f[a] = f[b] => a = b
<1>1. [a \in A |-> a.userId] \in Injection(A, Members)
  BY DEF Fits, Assignment, Injection, IsInjective
<1>2. IsFiniteSet(A) /\ Cardinality(A) \in Nat
  BY <1>1, MembersAssumption, FS_Injection, FS_CardinalityType
<1>3. IsFiniteSet(n .. n + Cardinality(A) - 1) /\ Cardinality(n .. n + Cardinality(A) - 1) = Cardinality(A)
  BY <1>2, IntervalSize
<1>4. PICK f : f \in Bijection(A, n .. n + Cardinality(A) - 1)
  BY <1>2, <1>3, FS_SameCardinalityBij DEF ExistsBijection
<1> QED
  BY <1>2, <1>4 DEF Bijection, Injection, IsInjective

-----------------------------------------------------------------------------
(* Types: the rows, where each request is, and what it has read *)

MatcherSteps    == {"readTasks", "readRegistrations", "delete", "create", "setMatched", "emitRun"}
CompletionSteps == {"findConfirmed", "updateMany", "setCompleted", "announce"}

WithinFn ==
  /\ at \in [Calls -> {"readActivity", "settled"} \cup MatcherSteps \cup CompletionSteps]
  /\ \A c \in MatcherCalls : at[c] \notin CompletionSteps
  /\ \A c \in CompletionCalls : at[c] \notin MatcherSteps
  /\ \A c \in Calls : at[c] \in MatcherSteps \cup CompletionSteps => phase[c] = "inside"

ViewsOK ==
  /\ view = [c \in Calls |-> view[c]]
  /\ \A c \in Calls :
       /\ at[c] \in {"readRegistrations", "delete", "create"} => view[c].slots \in [TaskIds -> Nat]
       /\ at[c] \in {"delete", "create"} => Fits(view[c].result, view[c].slots)
       /\ at[c] \in {"updateMany", "setCompleted", "announce"} => view[c].confirmed \subseteq 0 .. nextId - 1

Dto == [taskId : TaskIds \cup {None}, userId : Members \cup {None}, status : OverrideStatuses \cup {None}]

OverridesOK ==
  /\ override = [o \in Overrides |-> override[o]]
  /\ \A o \in Overrides :
       /\ override[o].at \in {"readTask", "count"} => override[o].dto \in Dto /\ override[o].row \in Row
       /\ override[o].at \in {"checkUser", "write"} =>
            override[o] \in [at : {"checkUser", "write"}, dto : Dto, row : Row]

PatchesOK ==
  /\ patch = [p \in Patches |-> patch[p]]
  /\ \A p \in Patches :
       patch[p].at = "write" => patch[p].to \in Statuses /\ IsAllowedTransition(patch[p].read, patch[p].to)

StateOK ==
  status \in Statuses /\ slots \in [TaskIds -> Nat] /\ registered \in Seq(Members)

RowsOK ==
  /\ rows \subseteq Row /\ IsFiniteSet(rows) /\ nextId \in Nat
  /\ \A r, q \in rows : r.id = q.id => r = q
  /\ \A r \in rows : r.id < nextId
  /\ lastSlots \in [TaskIds -> Nat]
  /\ completed \subseteq 0 .. nextId - 1
  /\ announced \subseteq Calls \X (0 .. nextId - 1)

TypesInv == Redis!LockIInv /\ WithinFn /\ ViewsOK /\ OverridesOK /\ PatchesOK /\ StateOK /\ RowsOK

LEMMA InitTypes == Init => TypesInv
<1> SUFFICES ASSUME Init PROVE TypesInv
  OBVIOUS
<1>1. Redis!LockIInv
  BY LockAssumptions, SameLock, Redis!LockInitIInv DEF Init
<1>2. PICK a \in Activities : /\ status = a.status /\ registered = a.registered
                              /\ slots = a.slots /\ rows = a.rows
                              /\ nextId = Cardinality(a.rows) /\ lastSlots = a.slots
  BY DEF Init
<1>3. StateOK
  BY <1>2, ActivitiesAssumption DEF StateOK, Activity
<1>4. RowsOK
  BY <1>2, ActivitiesAssumption, FS_CardinalityType DEF Init, RowsOK, Activity
<1>5. WithinFn /\ ViewsOK
  BY DEF Init, Calls, WithinFn, ViewsOK, MatcherSteps, CompletionSteps
<1>6. OverridesOK
  <2>1. override = [o \in Overrides |-> [at |-> "read"]]
    BY DEF Init
  <2>2. \A o \in Overrides : override[o].at = "read"
    BY <2>1
  <2> QED
    BY <2>1, <2>2 DEF OverridesOK
<1>7. PatchesOK
  <2>1. patch = [p \in Patches |-> [at |-> "read"]]
    BY DEF Init
  <2>2. \A p \in Patches : patch[p].at = "read"
    BY <2>1
  <2> QED
    BY <2>1, <2>2 DEF PatchesOK
<1> QED
  BY <1>1, <1>3, <1>4, <1>5, <1>6, <1>7 DEF TypesInv

LEMMA LockPreserved == TypesInv /\ [Next]_vars => Redis!LockIInv'
<1>1. [Next]_vars => [Redis!Next]_(Redis!lockVars)
  BY LockSteps, SameLock DEF Lock!Next, Redis!Next, lockVars, Lock!lockVars, Redis!lockVars
<1> QED
  BY <1>1, LockAssumptions, Redis!LockStepPreserves DEF TypesInv

(* A request that is past its first read is in fn; so is it after any step  *)
(* of the others.                                                           *)
LEMMA WithinFnPreserved ==
  ASSUME TypesInv, [Next]_vars
  PROVE  WithinFn'
<1> USE DEF TypesInv, WithinFn, MatcherSteps, CompletionSteps
<1>0. phase = [c \in Calls |-> phase[c]]
  BY DEF Redis!LockIInv, Redis!TypeOK
<1>1. ASSUME NEW c \in MatcherCalls, RunMatcher(c) PROVE WithinFn'
  <2>1. /\ c \in Calls /\ c \notin CompletionCalls /\ at' = [at EXCEPT ![c] = at'[c]] /\ phase[c] = "inside"
        /\ \/ at'[c] \in MatcherSteps /\ UNCHANGED phase
           \/ at'[c] = "settled" /\ phase' = [phase EXCEPT ![c] = phase'[c]]
    BY <1>0, <1>1, RequestsAssumption
    DEF Calls, RunMatcher, ReadActivity, ReadTasks, ReadRegistrationsAndMatch, DeleteRows, AfterDelete,
        CreateRows, SetMatched, EmitRun, Settle, Lock!Leave, Runs, Goto, lockVars
  <2>2. \A d \in Calls \ {c} : at'[d] = at[d] /\ phase'[d] = phase[d]
    BY <1>0, <2>1
  <2>3. at' \in [Calls -> {"readActivity", "settled"} \cup MatcherSteps \cup CompletionSteps]
    BY <2>1
  <2> QED
    BY <2>1, <2>2, <2>3 DEF Calls
<1>2. ASSUME NEW c \in CompletionCalls, CompleteActivity(c) PROVE WithinFn'
  <2>1. /\ c \in Calls /\ c \notin MatcherCalls /\ at' = [at EXCEPT ![c] = at'[c]] /\ phase[c] = "inside"
        /\ \/ at'[c] \in CompletionSteps /\ UNCHANGED phase
           \/ at'[c] = "settled" /\ phase' = [phase EXCEPT ![c] = phase'[c]]
    BY <1>0, <1>2, RequestsAssumption
    DEF Calls, CompleteActivity, ReadForCompletion, FindConfirmed, UpdateMany, SetCompleted, Announce,
        Settle, Lock!Leave, Runs, Goto, lockVars
  <2>2. \A d \in Calls \ {c} : at'[d] = at[d] /\ phase'[d] = phase[d]
    BY <1>0, <2>1
  <2>3. at' \in [Calls -> {"readActivity", "settled"} \cup MatcherSteps \cup CompletionSteps]
    BY <2>1
  <2> QED
    BY <2>1, <2>2, <2>3 DEF Calls
<1>3. CASE LockStep
  <2>1. \A c \in Calls : phase[c] = "inside" => phase'[c] = "inside"
    BY <1>0, <1>3 DEF LockStep, Lock!EnterUnlocked, Lock!AskForLock, Lock!Enter, Lock!Refuse,
       Lock!AcquireFails, Lock!Release, Lock!ReleaseFails, Lock!Expire, Lock!ConnectionChanges
  <2> QED
    BY <1>3, <2>1 DEF LockStep, reqVars
<1>4. CASE Crash
  <2>1. /\ \A c \in Calls : phase'[c] = IF phase[c] \in {"locking", "inside", "releasing"} THEN "crashed" ELSE phase[c]
        /\ at' = [c \in Calls |-> IF phase'[c] = "crashed" THEN "settled" ELSE at[c]]
    BY <1>4 DEF Crash, Lock!Crash
  <2> QED
    BY <2>1 DEF Calls
<1> QED
  BY <1>1, <1>2, <1>3, <1>4, OthersLeaveTheLock DEF Next, lockVars

-----------------------------------------------------------------------------
(* What a step does to the rows *)

(* createMany adds, with ids of their own, one row for each assignment of   *)
(* the result.                                                              *)
CreatedRow(ids, a) ==
  [id |-> ids[a], userId |-> a.userId, taskId |-> a.taskId, source |-> "MATCHER", status |-> "PROPOSED"]

LEMMA CreatesItsResult ==
  ASSUME TypesInv, NEW c \in Calls, CreateRows(c)
  PROVE  \E A, ids :
           /\ A = view[c].result /\ Fits(A, view[c].slots) /\ IsFiniteSet(A) /\ Cardinality(A) \in Nat
           /\ ids \in [A -> nextId .. nextId + Cardinality(A) - 1]
           /\ \A a, b \in A : ids[a] = ids[b] => a = b
           /\ rows' = rows \cup {CreatedRow(ids, a) : a \in A}
           /\ nextId' = nextId + Cardinality(A) /\ lastSlots' = view[c].slots
<1> DEFINE A == view[c].result
           Own(f) == \A a, b \in A : f[a] = f[b] => a = b
           ids == CHOOSE f \in [A -> nextId .. nextId + Cardinality(A) - 1] : Own(f)
<1>1. Fits(A, view[c].slots) /\ nextId \in Nat
  BY DEF TypesInv, ViewsOK, RowsOK, CreateRows, Runs
<1>2. /\ IsFiniteSet(A) /\ Cardinality(A) \in Nat
      /\ \E f \in [A -> nextId .. nextId + Cardinality(A) - 1] : Own(f)
  BY <1>1, IdsForAll
<1>3. ids \in [A -> nextId .. nextId + Cardinality(A) - 1] /\ Own(ids)
  BY <1>2
<1>4. /\ rows' = rows \cup {CreatedRow(ids, a) : a \in A}
      /\ nextId' = nextId + Cardinality(A) /\ lastSlots' = view[c].slots
  BY DEF CreateRows, CreatedRow
<1> HIDE DEF A, ids
<1> QED
  BY <1>1, <1>2, <1>3, <1>4 DEF A

(* The updates of an override and of a completion leave each row its id; an *)
(* override makes it MANUAL, a completion changes its status alone.         *)
UpdatesRows(g) ==
  /\ g \in [rows -> Row] /\ rows' = {g[r] : r \in rows}
  /\ \A r \in rows :
       /\ g[r].id = r.id
       /\ g[r].source = "MATCHER" =>
            r.source = "MATCHER" /\ g[r].userId = r.userId /\ g[r].taskId = r.taskId

LEMMA UpdatingRows ==
  ASSUME TypesInv, \/ \E o \in Overrides : OverrideWrites(o)
                   \/ \E c \in Calls : UpdateMany(c)
  PROVE  \E g : UpdatesRows(g)
<1>1. ASSUME NEW o \in Overrides, OverrideWrites(o) PROVE \E g : UpdatesRows(g)
  <2> DEFINE dto == override[o].dto
             old == override[o].row
             Written(r) == [ r EXCEPT !.taskId = IF dto.taskId = None THEN old.taskId ELSE dto.taskId,
                                      !.userId = IF dto.userId = None THEN old.userId ELSE dto.userId,
                                      !.status = IF dto.status = None THEN @ ELSE dto.status,
                                      !.source = "MANUAL" ]
             g == [r \in rows |-> IF r.id = old.id THEN Written(r) ELSE r]
  <2>1. dto \in Dto /\ old \in Row /\ rows \subseteq Row
    BY <1>1 DEF TypesInv, OverridesOK, RowsOK, OverrideWrites
  <2>2. /\ old.taskId \in TaskIds /\ old.userId \in Members
        /\ dto.taskId \in TaskIds \cup {None} /\ dto.userId \in Members \cup {None}
        /\ dto.status \in AssignmentStatuses \cup {None}
    BY <2>1, RequestsAssumption DEF Dto, Row
  <2>3. ASSUME NEW r \in rows PROVE Written(r) \in Row /\ Written(r).id = r.id /\ Written(r).source = "MANUAL"
    BY <2>1, <2>2 DEF Row
  <2>4. g \in [rows -> Row] /\ \A r \in rows : g[r].id = r.id /\ (g[r].source = "MATCHER" => g[r] = r)
    BY <2>1, <2>3
  <2>5. rows' = {g[r] : r \in rows}
    BY <1>1 DEF OverrideWrites
  <2>6. UpdatesRows(g)
    BY <2>4, <2>5 DEF UpdatesRows
  <2> HIDE DEF g
  <2> QED
    BY <2>6
<1>2. ASSUME NEW c \in Calls, UpdateMany(c) PROVE \E g : UpdatesRows(g)
  <2> DEFINE g == [r \in rows |-> IF r.id \in ConfirmedIds THEN [r EXCEPT !.status = "COMPLETED"] ELSE r]
  <2>1. rows \subseteq Row /\ rows' = {g[r] : r \in rows}
    BY <1>2 DEF UpdateMany, TypesInv, RowsOK
  <2>2. ASSUME NEW r \in rows
        PROVE  /\ g[r] \in Row /\ g[r].id = r.id /\ g[r].source = r.source
               /\ g[r].userId = r.userId /\ g[r].taskId = r.taskId
    BY <2>1 DEF Row, AssignmentStatuses
  <2>3. UpdatesRows(g)
    BY <2>1, <2>2 DEF UpdatesRows
  <2> HIDE DEF g
  <2> QED
    BY <2>3
<1> QED
  BY <1>1, <1>2

(* All other steps leave the rows alone, or delete some.                    *)
LEMMA RowsElse ==
  ASSUME [Next]_vars,
         ~ \E c \in Calls : CreateRows(c) \/ UpdateMany(c) \/ DeleteRows(c),
         ~ \E o \in Overrides : OverrideWrites(o)
  PROVE  UNCHANGED <<rows, nextId, lastSlots, completed>>
  BY DEF Next, Calls, RunMatcher, ReadActivity, ReadTasks, ReadRegistrationsAndMatch, SetMatched, EmitRun,
     CompleteActivity, ReadForCompletion, FindConfirmed, SetCompleted, Announce,
     OverrideAssignment, OverrideReads, OverrideReadsTask, OverrideCounts, OverrideChecksUser,
     PatchReads, PatchWrites, EditSlots, SubmitChecks, SubmitCreates, LockStep, Crash,
     vars, dbVars, reqVars, history

LEMMA AnnouncedElse ==
  ASSUME [Next]_vars, ~ \E c \in Calls : Announce(c)
  PROVE  UNCHANGED announced
  BY DEF Next, Calls, RunMatcher, ReadActivity, ReadTasks, ReadRegistrationsAndMatch, DeleteRows, CreateRows,
     SetMatched, EmitRun, CompleteActivity, ReadForCompletion, FindConfirmed, UpdateMany, SetCompleted,
     OverrideAssignment, OverrideReads, OverrideReadsTask, OverrideCounts, OverrideChecksUser, OverrideWrites,
     PatchReads, PatchWrites, EditSlots, SubmitChecks, SubmitCreates, LockStep, Crash,
     vars, dbVars, reqVars, history

LEMMA CreatedRowsAreNew ==
  ASSUME TypesInv, NEW c \in Calls, CreateRows(c)
  PROVE  /\ rows' \subseteq Row /\ IsFiniteSet(rows') /\ nextId' \in Nat /\ nextId <= nextId'
         /\ \A r, q \in rows' : r.id = q.id => r = q
         /\ \A r \in rows' : r.id < nextId'
         /\ lastSlots' \in [TaskIds -> Nat]
<1> PICK A, ids :
      /\ A = view[c].result /\ Fits(A, view[c].slots) /\ IsFiniteSet(A) /\ Cardinality(A) \in Nat
      /\ ids \in [A -> nextId .. nextId + Cardinality(A) - 1]
      /\ \A a, b \in A : ids[a] = ids[b] => a = b
      /\ rows' = rows \cup {CreatedRow(ids, a) : a \in A}
      /\ nextId' = nextId + Cardinality(A) /\ lastSlots' = view[c].slots
  BY CreatesItsResult
<1> DEFINE new == {CreatedRow(ids, a) : a \in A}
<1>0. /\ rows \subseteq Row /\ IsFiniteSet(rows) /\ nextId \in Nat
      /\ \A r, q \in rows : r.id = q.id => r = q
      /\ \A r \in rows : r.id < nextId
  BY DEF TypesInv, RowsOK
<1>1. ASSUME NEW a \in A
      PROVE  CreatedRow(ids, a) \in Row /\ CreatedRow(ids, a).id = ids[a] /\ ids[a] \in nextId .. nextId' - 1
  <2>1. ids[a] \in nextId .. nextId' - 1 /\ a \in Assignment
    BY <1>0 DEF Fits
  <2>2. ids[a] \in Nat
    BY <1>0, <2>1
  <2> QED
    BY <2>1, <2>2 DEF CreatedRow, Row, Assignment, AssignmentStatuses
<1>2. \A r \in new : r \in Row /\ \E a \in A : r = CreatedRow(ids, a) /\ r.id = ids[a] /\ ids[a] \in nextId .. nextId' - 1
  BY <1>1
<1>3. IsFiniteSet(new)
  <2>1. [a \in A |-> CreatedRow(ids, a)] \in Surjection(A, new)
    BY DEF Surjection
  <2> QED
    BY <2>1, FS_Surjection
<1>4. rows' \subseteq Row /\ IsFiniteSet(rows') /\ nextId' \in Nat /\ nextId <= nextId'
  <2>1. rows' = rows \cup new
    OBVIOUS
  <2>2. IsFiniteSet(rows \cup new)
    BY <1>0, <1>3, FS_Union
  <2>3. rows' \subseteq Row
    BY <1>0, <1>2, <2>1
  <2> HIDE DEF new
  <2>4. IsFiniteSet(rows')
    BY <2>1, <2>2
  <2>5. nextId' \in Nat /\ nextId <= nextId'
    BY <1>0
  <2> QED
    BY <2>3, <2>4, <2>5
<1>5. \A r \in rows : r.id \in Nat /\ r.id < nextId /\ r.id < nextId'
  BY <1>0, <1>4 DEF Row
<1>6. \A r, q \in rows' : r.id = q.id => r = q
  <2> SUFFICES ASSUME NEW r \in rows', NEW q \in rows', r.id = q.id PROVE r = q
    OBVIOUS
  <2>1. rows' = rows \cup new
    OBVIOUS
  <2>2. CASE r \in new /\ q \in new
    BY <1>2, <2>2
  <2>3. CASE r \in rows /\ q \in rows
    BY <1>0, <2>3
  <2>4. ASSUME NEW x \in rows, NEW y \in new PROVE x.id # y.id
    BY <1>0, <1>2, <1>4, <1>5
  <2> HIDE DEF new
  <2> QED
    BY <2>1, <2>2, <2>3, <2>4
<1>7. \A r \in rows' : r.id < nextId'
  BY <1>2, <1>4, <1>5
<1>8. lastSlots' \in [TaskIds -> Nat]
  BY DEF TypesInv, ViewsOK, CreateRows, Runs
<1> QED
  BY <1>4, <1>6, <1>7, <1>8

LEMMA RowsPreserved ==
  ASSUME TypesInv, [Next]_vars
  PROVE  RowsOK'
<1>0. /\ rows \subseteq Row /\ IsFiniteSet(rows) /\ nextId \in Nat
      /\ \A r, q \in rows : r.id = q.id => r = q
      /\ \A r \in rows : r.id < nextId
      /\ lastSlots \in [TaskIds -> Nat]
      /\ completed \subseteq 0 .. nextId - 1
      /\ announced \subseteq Calls \X (0 .. nextId - 1)
      /\ RowsOK
  BY DEF TypesInv, RowsOK
<1>1. ASSUME NEW c \in Calls, CreateRows(c) PROVE RowsOK'
  <2>1. 0 .. nextId - 1 \subseteq 0 .. nextId' - 1
    BY <1>0, <1>1, CreatedRowsAreNew
  <2>2. UNCHANGED <<completed, announced>>
    BY <1>1 DEF CreateRows
  <2>3. completed' \subseteq 0 .. nextId' - 1 /\ announced' \subseteq Calls \X (0 .. nextId' - 1)
    BY <1>0, <2>1, <2>2
  <2> QED
    BY <1>1, <2>3, CreatedRowsAreNew DEF RowsOK
<1>2. ASSUME NEW c \in Calls, DeleteRows(c) PROVE RowsOK'
  <2>1. rows' \subseteq rows /\ UNCHANGED <<nextId, lastSlots, completed, announced>>
    BY <1>2 DEF DeleteRows, history
  <2>2. IsFiniteSet(rows')
    BY <1>0, <2>1, FS_Subset
  <2> QED
    BY <1>0, <2>1, <2>2 DEF RowsOK
<1>3. ASSUME \/ \E o \in Overrides : OverrideWrites(o)
             \/ \E c \in Calls : UpdateMany(c)
      PROVE  RowsOK'
  <2> PICK g : UpdatesRows(g)
    BY <1>3, UpdatingRows
  <2>1. rows' \subseteq Row /\ \A r \in rows' : \E q \in rows : r = g[q] /\ r.id = q.id
    BY DEF UpdatesRows
  <2>2. IsFiniteSet(rows')
    <3>1. g \in Surjection(rows, rows')
      BY <2>1 DEF UpdatesRows, Surjection
    <3> QED
      BY <1>0, <3>1, FS_Surjection
  <2>3. (\A r, q \in rows' : r.id = q.id => r = q) /\ \A r \in rows' : r.id < nextId
    BY <1>0, <2>1
  <2>4. UNCHANGED <<nextId, lastSlots, announced>>
    BY <1>3 DEF OverrideWrites, UpdateMany, history
  <2>5. completed' \subseteq 0 .. nextId - 1
    <3>1. ConfirmedIds \subseteq 0 .. nextId - 1
      BY <1>0 DEF ConfirmedIds, Row
    <3> QED
      BY <1>0, <1>3, <3>1 DEF OverrideWrites, UpdateMany, history
  <2> QED
    BY <1>0, <2>1, <2>2, <2>3, <2>4, <2>5 DEF RowsOK
<1>4. ASSUME NEW c \in Calls, Announce(c) PROVE RowsOK'
  <2>1. view[c].confirmed \subseteq 0 .. nextId - 1
    BY <1>4 DEF TypesInv, ViewsOK, Announce, Runs
  <2>2. UNCHANGED <<rows, nextId, lastSlots, completed>> /\ announced' = announced \cup ({c} \X view[c].confirmed)
    BY <1>4 DEF Announce, dbVars
  <2>3. announced' \subseteq Calls \X (0 .. nextId - 1)
    BY <1>0, <2>1, <2>2
  <2> QED
    BY <1>0, <2>2, <2>3 DEF RowsOK
<1>5. CASE UNCHANGED <<rows, nextId, lastSlots, completed, announced>>
  BY <1>0, <1>5 DEF RowsOK
<1> QED
  BY <1>1, <1>2, <1>3, <1>4, <1>5, RowsElse, AnnouncedElse

LEMMA IntervalsGrow ==
  ASSUME NEW m \in Nat, NEW n \in Nat, m <= n
  PROVE  0 .. m - 1 \subseteq 0 .. n - 1
  OBVIOUS

LEMMA IdsGrow ==
  ASSUME TypesInv, [Next]_vars, RowsOK'
  PROVE  0 .. nextId - 1 \subseteq 0 .. nextId' - 1
<1>1. ASSUME NEW c \in Calls, CreateRows(c) PROVE nextId <= nextId'
  BY <1>1, CreatedRowsAreNew
<1>2. nextId \in Nat /\ nextId' \in Nat
  BY DEF TypesInv, RowsOK
<1>3. nextId' = nextId => nextId <= nextId'
  BY <1>2
<1>4. nextId <= nextId'
  BY <1>1, <1>3, RowsElse DEF DeleteRows, UpdateMany, OverrideWrites
<1> QED
  BY <1>2, <1>4, IntervalsGrow

LEMMA ViewsPreserved ==
  ASSUME TypesInv, [Next]_vars, RowsOK'
  PROVE  ViewsOK'
<1> USE DEF ViewsOK
<1>0. /\ at \in [Calls -> {"readActivity", "settled"} \cup MatcherSteps \cup CompletionSteps]
      /\ slots \in [TaskIds -> Nat] /\ registered \in Seq(Members) /\ ViewsOK
  BY DEF TypesInv, WithinFn, StateOK
<1>1. 0 .. nextId - 1 \subseteq 0 .. nextId' - 1
  BY IdsGrow
<1>2. ASSUME NEW c \in Calls, NEW v, NEW step,
             view' = [view EXCEPT ![c] = v], at' = [at EXCEPT ![c] = step],
             step \in {"readRegistrations", "delete", "create"} => v.slots \in [TaskIds -> Nat],
             step \in {"delete", "create"} => Fits(v.result, v.slots),
             step \in {"updateMany", "setCompleted", "announce"} => v.confirmed \subseteq 0 .. nextId' - 1
      PROVE  ViewsOK'
  <2>1. view'[c] = v /\ at'[c] = step /\ view' = [d \in Calls |-> view'[d]]
    BY <1>0, <1>2
  <2>2. \A d \in Calls \ {c} : view'[d] = view[d] /\ at'[d] = at[d]
    BY <1>0, <1>2
  <2>3. ASSUME NEW d \in Calls
        PROVE  /\ at'[d] \in {"readRegistrations", "delete", "create"} => view'[d].slots \in [TaskIds -> Nat]
               /\ at'[d] \in {"delete", "create"} => Fits(view'[d].result, view'[d].slots)
               /\ at'[d] \in {"updateMany", "setCompleted", "announce"} => view'[d].confirmed \subseteq 0 .. nextId' - 1
    <3>1. CASE d = c
      BY <1>2, <2>1, <3>1
    <3>2. CASE d # c
      BY <1>0, <1>1, <2>2, <3>2
    <3> QED
      BY <3>1, <3>2
  <2> QED
    BY <2>1, <2>3 DEF Fits
<1>3. ASSUME NEW c \in Calls, ReadTasks(c) PROVE ViewsOK'
  BY <1>0, <1>2, <1>3 DEF ReadTasks, Goto
<1>4. ASSUME NEW c \in Calls, ReadRegistrationsAndMatch(c) PROVE ViewsOK'
  <2> DEFINE s == view[c].slots
  <2>1. s \in [TaskIds -> Nat]
    BY <1>0, <1>4 DEF ReadRegistrationsAndMatch, Runs
  <2>2. PICK A : IsGreedyResult(InputFrom(s, registered), A) /\ view' = [view EXCEPT ![c] = [slots |-> s, result |-> A]]
    BY <1>0, <1>4 DEF ReadRegistrationsAndMatch
  <2>3. InputFrom(s, registered).tasks = TaskIds /\ InputFrom(s, registered).slotCount = s
    BY DEF InputFrom
  <2>4. Fits(A, s)
    BY <1>0, <2>1, <2>2, <2>3, InputIsTyped, GreedyFits
  <2>5. at' = [at EXCEPT ![c] = "delete"]
    BY <1>4 DEF ReadRegistrationsAndMatch, Goto
  <2> QED
    BY <1>2, <2>1, <2>2, <2>4, <2>5
<1>5. ASSUME NEW c \in Calls, FindConfirmed(c) PROVE ViewsOK'
  <2>1. ConfirmedIds \subseteq 0 .. nextId' - 1
    BY <1>1 DEF TypesInv, RowsOK, ConfirmedIds, Row
  <2> QED
    BY <1>2, <1>5, <2>1 DEF FindConfirmed, Goto
<1>6. ASSUME NEW c \in Calls, Settle(c) PROVE ViewsOK'
  BY <1>2, <1>6 DEF Settle, Goto
<1>7. ASSUME NEW c \in Calls, UNCHANGED view, NEW step, at' = [at EXCEPT ![c] = step],
             \/ step \in {"readTasks", "setMatched", "emitRun", "findConfirmed"}
             \/ at[c] = "delete" /\ step = "create"
             \/ at[c] = "updateMany" /\ step = "setCompleted"
             \/ at[c] = "setCompleted" /\ step = "announce"
      PROVE  ViewsOK'
  BY <1>0, <1>1, <1>7
<1>8. CASE Crash
  <2>1. /\ \A c \in Calls : at'[c] \in {"settled", at[c]} /\ (phase[c] = "inside" => at'[c] = "settled")
        /\ view' = [c \in Calls |-> None]
    BY <1>8 DEF Crash, Lock!Crash
  <2>2. \A c \in Calls : at'[c] \in {"readActivity", "settled"}
    BY <1>0, <2>1 DEF TypesInv, WithinFn
  <2> QED
    BY <2>1, <2>2
<1>9. CASE UNCHANGED <<at, view>>
  BY <1>0, <1>1, <1>9
<1>10. ASSUME NEW c \in Calls, RunMatcher(c) \/ CompleteActivity(c) PROVE ViewsOK'
  <2>1. CASE ReadTasks(c) \/ ReadRegistrationsAndMatch(c) \/ FindConfirmed(c) \/ Settle(c)
    BY <1>3, <1>4, <1>5, <1>6, <2>1
  <2>2. CASE \/ ReadActivity(c) \/ DeleteRows(c) \/ CreateRows(c) \/ SetMatched(c)
            \/ ReadForCompletion(c) \/ UpdateMany(c) \/ SetCompleted(c)
    BY <1>6, <1>7, <2>2 DEF ReadActivity, DeleteRows, AfterDelete, CreateRows, SetMatched,
       ReadForCompletion, UpdateMany, SetCompleted, Runs, Goto
  <2> QED
    BY <1>10, <2>1, <2>2 DEF RunMatcher, EmitRun, CompleteActivity, Announce
<1> QED
  BY <1>8, <1>9, <1>10, OthersLeaveTheLock DEF Next, Calls, LockStep, reqVars

LEMMA OverridesPreserved ==
  ASSUME TypesInv, [Next]_vars
  PROVE  OverridesOK'
<1> USE DEF OverridesOK
<1>0. OverridesOK /\ rows \subseteq Row
  BY DEF TypesInv, RowsOK
<1>1. ASSUME NEW o \in Overrides, NEW r, override' = [override EXCEPT ![o] = r],
             \/ r.at \in {"read", "done"}
             \/ r.at \in {"readTask", "count"} /\ r.dto \in Dto /\ r.row \in Row
             \/ r \in [at : {"checkUser", "write"}, dto : Dto, row : Row]
      PROVE  OverridesOK'
  <2>1. override'[o] = r /\ \A p \in Overrides \ {o} : override'[p] = override[p]
    BY <1>0, <1>1
  <2>2. override' = [p \in Overrides |-> override'[p]]
    BY <1>0, <1>1
  <2>3. ASSUME NEW p \in Overrides
        PROVE  /\ override'[p].at \in {"readTask", "count"} => override'[p].dto \in Dto /\ override'[p].row \in Row
               /\ override'[p].at \in {"checkUser", "write"} =>
                    override'[p] \in [at : {"checkUser", "write"}, dto : Dto, row : Row]
    <3>1. CASE p # o
      BY <1>0, <2>1, <3>1
    <3>2. CASE p = o
      BY <1>1, <2>1, <3>2
    <3> QED
      BY <3>1, <3>2
  <2> QED
    BY <2>2, <2>3 DEF Dto, Row, AssignmentStatuses
<1>2. ASSUME NEW o \in Overrides, NEW dto \in Dto, NEW row \in Row, NEW place \in {"readTask", "checkUser", "write"},
             override' = [override EXCEPT ![o] = [at |-> place, dto |-> dto, row |-> row]]
      PROVE  OverridesOK'
  <2> DEFINE r == [at |-> place, dto |-> dto, row |-> row]
  <2>1. \/ r.at = "readTask" /\ r.dto \in Dto /\ r.row \in Row
        \/ r \in [at : {"checkUser", "write"}, dto : Dto, row : Row]
    OBVIOUS
  <2> QED
    BY <1>1, <1>2, <2>1
<1>3. ASSUME NEW o \in Overrides, OverrideReads(o) PROVE OverridesOK'
  <2>1. PICK r \in rows, task \in TaskIds \cup {None}, user \in Members \cup {None}, st \in OverrideStatuses \cup {None} :
          LET dto == [taskId |-> task, userId |-> user, status |-> st]
          IN  override' = [override EXCEPT ![o] = [at |-> AfterRead(dto), dto |-> dto, row |-> r]]
    BY <1>3 DEF OverrideReads, SetOverride
  <2> DEFINE dto == [taskId |-> task, userId |-> user, status |-> st]
  <2>2. dto \in Dto /\ r \in Row /\ AfterRead(dto) \in {"readTask", "checkUser", "write"}
    BY <1>0 DEF Dto, AfterRead
  <2>3. override' = [override EXCEPT ![o] = [at |-> AfterRead(dto), dto |-> dto, row |-> r]]
    BY <2>1
  <2> HIDE DEF dto
  <2> QED
    BY <1>2, <2>2, <2>3
<1>4. ASSUME NEW o \in Overrides, OverrideReadsTask(o) PROVE OverridesOK'
  <2> DEFINE r == [at |-> "count", dto |-> override[o].dto, row |-> override[o].row,
                   slotCount |-> slots[override[o].dto.taskId]]
  <2>1. r.at = "count" /\ r.dto \in Dto /\ r.row \in Row
    BY <1>0, <1>4 DEF OverrideReadsTask
  <2>2. override' = [override EXCEPT ![o] = r]
    BY <1>4 DEF OverrideReadsTask, SetOverride
  <2> HIDE DEF r
  <2> QED
    BY <1>1, <2>1, <2>2
<1>5. ASSUME NEW o \in Overrides, override' = [override EXCEPT ![o] = [at |-> "done"]] PROVE OverridesOK'
  BY <1>1, <1>5
<1>6. ASSUME NEW o \in Overrides, OverrideCounts(o) PROVE OverridesOK'
  <2>1. override[o].dto \in Dto /\ override[o].row \in Row /\ AfterCount(override[o].dto) \in {"checkUser", "write"}
    BY <1>0, <1>6 DEF OverrideCounts, AfterCount
  <2> QED
    BY <1>2, <1>5, <1>6, <2>1 DEF OverrideCounts, SetOverride, FailOverride
<1>7. ASSUME NEW o \in Overrides, OverrideChecksUser(o) PROVE OverridesOK'
  <2>1. /\ override[o] \in [at : {"checkUser", "write"}, dto : Dto, row : Row]
        /\ [override[o] EXCEPT !.at = "write"] \in [at : {"checkUser", "write"}, dto : Dto, row : Row]
    BY <1>0, <1>7 DEF OverrideChecksUser
  <2> QED
    BY <1>1, <1>5, <1>7, <2>1 DEF OverrideChecksUser, SetOverride, FailOverride
<1>8. ASSUME NEW o \in Overrides, OverrideWrites(o) PROVE OverridesOK'
  BY <1>5, <1>8 DEF OverrideWrites, SetOverride, FailOverride
<1>9. CASE Crash
  <2>1. override' = [o \in Overrides |-> IF override[o].at = "read" THEN override[o] ELSE [at |-> "done"]]
    BY <1>9 DEF Crash
  <2>2. \A o \in Overrides : override'[o].at \in {"read", "done"}
    BY <2>1
  <2> QED
    BY <2>1, <2>2
<1>10. CASE UNCHANGED override
  BY <1>0, <1>10
<1>11. ASSUME ~(\E o \in Overrides : OverrideAssignment(o)), ~Crash PROVE UNCHANGED override
  BY <1>11 DEF Next, RunMatcher, ReadActivity, ReadTasks, ReadRegistrationsAndMatch, DeleteRows, CreateRows,
     SetMatched, EmitRun, CompleteActivity, ReadForCompletion, FindConfirmed, UpdateMany, SetCompleted, Announce,
     PatchReads, PatchWrites, EditSlots, SubmitChecks, SubmitCreates, LockStep, vars, reqVars
<1> QED
  BY <1>3, <1>4, <1>6, <1>7, <1>8, <1>9, <1>10, <1>11 DEF OverrideAssignment

(* A status that is about to be written is one that what was read allows.   *)
LEMMA PatchesPreserved ==
  ASSUME TypesInv, [Next]_vars
  PROVE  PatchesOK'
<1> USE DEF PatchesOK
<1>0. PatchesOK
  BY DEF TypesInv
<1>1. ASSUME NEW p \in Patches, NEW q, patch' = [patch EXCEPT ![p] = q],
             q.at = "write" => q.to \in Statuses /\ IsAllowedTransition(q.read, q.to)
      PROVE  PatchesOK'
  <2>1. patch'[p] = q /\ \A o \in Patches \ {p} : patch'[o] = patch[o]
    BY <1>0, <1>1
  <2> QED
    BY <1>0, <1>1, <2>1
<1>2. ASSUME NEW p \in Patches, PatchReads(p) PROVE PatchesOK'
  BY <1>1, <1>2 DEF PatchReads
<1>3. ASSUME NEW p \in Patches, PatchWrites(p) PROVE PatchesOK'
  BY <1>1, <1>3 DEF PatchWrites
<1>4. CASE Crash
  <2>1. patch' = [p \in Patches |-> IF patch[p].at = "read" THEN patch[p] ELSE [at |-> "done"]]
    BY <1>4 DEF Crash
  <2>2. \A p \in Patches : patch'[p].at \in {"read", "done"}
    BY <2>1
  <2> QED
    BY <2>1, <2>2
<1>5. CASE UNCHANGED patch
  BY <1>0, <1>5
<1>6. ASSUME ~(\E p \in Patches : PatchReads(p) \/ PatchWrites(p)), ~Crash PROVE UNCHANGED patch
  BY <1>6 DEF Next, RunMatcher, ReadActivity, ReadTasks, ReadRegistrationsAndMatch, DeleteRows, CreateRows,
     SetMatched, EmitRun, CompleteActivity, ReadForCompletion, FindConfirmed, UpdateMany, SetCompleted, Announce,
     OverrideAssignment, OverrideReads, OverrideReadsTask, OverrideCounts, OverrideChecksUser, OverrideWrites,
     EditSlots, SubmitChecks, SubmitCreates, LockStep, vars, reqVars
<1> QED
  BY <1>2, <1>3, <1>4, <1>5, <1>6

LEMMA StatePreserved ==
  ASSUME TypesInv, [Next]_vars
  PROVE  StateOK'
<1> USE DEF TypesInv, StateOK, PatchesOK, Statuses, WriteStatus
<1>1. CASE \E t \in TaskIds : EditSlots(t)
  BY <1>1 DEF EditSlots, SlotCounts
<1>2. CASE \E m \in Members : SubmitCreates(m)
  BY <1>2 DEF SubmitCreates
<1>3. CASE UNCHANGED <<slots, registered>> /\ status' \in Statuses
  BY <1>3
<1> QED
  BY <1>1, <1>2, <1>3
  DEF Next, RunMatcher, ReadActivity, ReadTasks, ReadRegistrationsAndMatch, DeleteRows, CreateRows,
     SetMatched, EmitRun, CompleteActivity, ReadForCompletion, FindConfirmed, UpdateMany, SetCompleted, Announce,
     OverrideAssignment, OverrideReads, OverrideReadsTask, OverrideCounts, OverrideChecksUser, OverrideWrites,
     PatchReads, PatchWrites, SubmitChecks, LockStep, Crash, vars, dbVars

THEOREM TypesInvariance == Spec => []TypesInv
<1>1. Init => TypesInv
  BY InitTypes
<1>2. TypesInv /\ [Next]_vars => TypesInv'
  <2> SUFFICES ASSUME TypesInv, [Next]_vars PROVE TypesInv'
    OBVIOUS
  <2>1. RowsOK' /\ WithinFn' /\ OverridesOK' /\ PatchesOK' /\ StateOK' /\ Redis!LockIInv'
    BY RowsPreserved, WithinFnPreserved, OverridesPreserved, PatchesPreserved, StatePreserved, LockPreserved
  <2>2. ViewsOK'
    BY <2>1, ViewsPreserved
  <2> QED
    BY <2>1, <2>2 DEF TypesInv
<1> QED
  BY <1>1, <1>2, PTL DEF Spec

(* The rows stay well-formed with ids of their own, and what is completed   *)
(* or announced is among the ids that were given out, whichever requests    *)
(* interleave, crash or lose their lock.                                    *)
THEOREM MatchingTypeCorrect == Spec => []TypeOK
<1>1. TypesInv => TypeOK
  BY SameLock DEF TypesInv, TypeOK, StateOK, RowsOK, Redis!LockIInv
<1> QED
  BY <1>1, TypesInvariance, PTL

-----------------------------------------------------------------------------
(* The matcher's rows *)

(* Once exposed, a call stays on record.                                    *)
LEMMA ExposedGrows == [Next]_vars => exposed \subseteq exposed'
<1> SUFFICES ASSUME [Next]_vars PROVE exposed \subseteq exposed'
  OBVIOUS
<1>1. [Lock!Next]_lockVars
  BY LockSteps
<1> QED
  BY <1>1 DEF Lock!Next, Lock!Step, Lock!EnterUnlocked, Lock!AskForLock, Lock!Enter, Lock!Refuse,
     Lock!AcquireFails, Lock!Leave, Lock!Release, Lock!ReleaseFails, Lock!Expire, Lock!ConnectionChanges,
     Lock!Crash, lockVars

(* Locked runs, and locked completions, are in fn one at a time.            *)
LEMMA OneInFn ==
  ASSUME TypesInv, NEW calls \in {MatcherCalls, CompletionCalls}, Locked(calls),
         NEW c \in calls, NEW d \in calls,
         at[c] \in MatcherSteps \cup CompletionSteps, at[d] \in MatcherSteps \cup CompletionSteps
  PROVE  c = d
<1>1. c \in Calls /\ d \in Calls /\ phase[c] = "inside" /\ phase[d] = "inside" /\ {c, d} \cap exposed = {}
  BY DEF TypesInv, WithinFn, Calls, Locked
<1>2. c \in MatcherCalls <=> d \in MatcherCalls
  BY RequestsAssumption
<1>3. Redis!MutualExclusion
  BY LockAssumptions, Redis!IInvExcludes DEF TypesInv
<1> QED
  BY <1>1, <1>2, <1>3 DEF Redis!MutualExclusion, Redis!InFn

(* A locked run that is about to write its rows has deleted all others.     *)
CreatesOnNone == Locked(MatcherCalls) => \A c \in Calls : at[c] = "create" => MatcherRows = {}

MatcherInv == CreatesOnNone /\ MatcherRowsDistinct /\ MatcherWithinSlots

LEMMA InitMatcherInv == Init => MatcherInv
<1> SUFFICES ASSUME Init PROVE MatcherInv
  OBVIOUS
<1>1. PICK a \in Activities : rows = a.rows /\ lastSlots = a.slots
  BY DEF Init
<1>2. CreatesOnNone
  BY DEF Init, CreatesOnNone
<1>3. NobodyMatchedTwice
  <2> SUFFICES ASSUME NEW r \in MatcherRows, NEW q \in MatcherRows, r.userId = q.userId PROVE r = q
    BY DEF NobodyMatchedTwice
  <2>1. r \in a.rows /\ q \in a.rows /\ {r.source, q.source} = {"MATCHER"}
    BY <1>1 DEF MatcherRows
  <2> QED
    BY <2>1, ActivitiesAssumption
<1>4. MatcherWithinSlots
  <2> SUFFICES ASSUME NEW t \in TaskIds PROVE Cardinality(OnTask(t) \cap MatcherRows) <= lastSlots[t]
    BY DEF MatcherWithinSlots
  <2>1. OnTask(t) \cap MatcherRows = {r \in a.rows : r.taskId = t /\ r.source = "MATCHER"}
    BY <1>1 DEF OnTask, MatcherRows
  <2> QED
    BY <1>1, <2>1, ActivitiesAssumption
<1> QED
  BY <1>2, <1>3, <1>4 DEF MatcherInv, MatcherRowsDistinct

LEMMA CreatingPreserves ==
  ASSUME TypesInv, MatcherInv, Locked(MatcherCalls), NEW c \in MatcherCalls, CreateRows(c)
  PROVE  MatcherInv'
<1>0. c \in Calls /\ at[c] = "create" /\ at' = [at EXCEPT ![c] = "setMatched"] /\ MatcherRows = {}
  BY DEF Calls, CreateRows, Runs, Goto, MatcherInv, CreatesOnNone
<1> PICK A, ids :
      /\ A = view[c].result /\ Fits(A, view[c].slots) /\ IsFiniteSet(A) /\ Cardinality(A) \in Nat
      /\ ids \in [A -> nextId .. nextId + Cardinality(A) - 1]
      /\ \A a, b \in A : ids[a] = ids[b] => a = b
      /\ rows' = rows \cup {CreatedRow(ids, a) : a \in A}
      /\ nextId' = nextId + Cardinality(A) /\ lastSlots' = view[c].slots
  BY <1>0, CreatesItsResult
<1>1. MatcherRows' = {CreatedRow(ids, a) : a \in A}
  <2>1. \A a \in A : CreatedRow(ids, a).source = "MATCHER"
    BY DEF CreatedRow
  <2> QED
    BY <1>0, <2>1 DEF MatcherRows
<1>2. \A a \in A : CreatedRow(ids, a).userId = a.userId /\ CreatedRow(ids, a).taskId = a.taskId
  BY DEF CreatedRow
<1>3. CreatesOnNone'
  <2>1. \A d \in MatcherCalls \ {c} : at[d] # "create"
    BY <1>0, OneInFn DEF MatcherSteps
  <2>2. \A d \in CompletionCalls : at[d] # "create"
    BY DEF TypesInv, WithinFn, MatcherSteps
  <2>3. \A d \in Calls : at'[d] # "create"
    BY <1>0, <2>1, <2>2 DEF Calls, TypesInv, WithinFn
  <2> QED
    BY <2>3 DEF CreatesOnNone
<1>4. MatcherRowsDistinct'
  <2>1. \A r, q \in MatcherRows' : r.userId = q.userId => r = q
    BY <1>1, <1>2 DEF Fits
  <2> QED
    BY <2>1 DEF MatcherRowsDistinct, NobodyMatchedTwice
<1>5. MatcherWithinSlots'
  <2> SUFFICES ASSUME NEW t \in TaskIds PROVE Cardinality((OnTask(t) \cap MatcherRows)') <= lastSlots'[t]
    BY DEF MatcherWithinSlots
  <2> DEFINE on   == {a \in A : a.taskId = t}
             made == (OnTask(t) \cap MatcherRows)'
  <2>1. made = {CreatedRow(ids, a) : a \in on}
    <3>1. \A r \in MatcherRows' : r \in rows'
      BY DEF MatcherRows
    <3> QED
      BY <1>1, <1>2, <3>1 DEF OnTask
  <2>2. [a \in on |-> CreatedRow(ids, a)] \in Surjection(on, made)
    BY <2>1 DEF Surjection
  <2>3. IsFiniteSet(on)
    BY FS_Subset
  <2>4. Cardinality(made) <= Cardinality(on) /\ Cardinality(on) <= lastSlots'[t]
    BY <2>2, <2>3, FS_Surjection DEF Fits
  <2>5. Cardinality(made) \in Nat /\ Cardinality(on) \in Nat /\ lastSlots'[t] \in Nat
    <3>1. lastSlots' \in [TaskIds -> Nat]
      BY <1>0, CreatedRowsAreNew
    <3>2. IsFiniteSet(made)
      BY <2>2, <2>3, FS_Surjection
    <3> QED
      BY <2>3, <3>1, <3>2, FS_CardinalityType
  <2> QED
    BY <2>4, <2>5
<1> QED
  BY <1>3, <1>4, <1>5 DEF MatcherInv

LEMMA DeletingPreserves ==
  ASSUME TypesInv, NEW c \in Calls, DeleteRows(c)
  PROVE  MatcherInv'
<1>1. MatcherRows' = {}
  BY DEF DeleteRows, MatcherRows
<1>2. CreatesOnNone' /\ MatcherRowsDistinct'
  BY <1>1 DEF CreatesOnNone, MatcherRowsDistinct, NobodyMatchedTwice
<1>3. MatcherWithinSlots'
  <2> SUFFICES ASSUME NEW t \in TaskIds PROVE Cardinality((OnTask(t) \cap MatcherRows)') <= lastSlots'[t]
    BY DEF MatcherWithinSlots
  <2>1. (OnTask(t) \cap MatcherRows)' = {}
    BY <1>1
  <2>2. Cardinality({}) = 0
    BY FS_EmptySet
  <2>3. lastSlots'[t] \in Nat
    BY DEF DeleteRows, history, TypesInv, RowsOK
  <2> QED
    BY <2>1, <2>2, <2>3
<1> QED
  BY <1>2, <1>3 DEF MatcherInv

LEMMA UpdatingPreserves ==
  ASSUME TypesInv, MatcherInv, Locked(MatcherCalls),
         \/ \E o \in Overrides : OverrideWrites(o)
         \/ \E c \in Calls : UpdateMany(c)
  PROVE  MatcherInv'
<1> PICK g : UpdatesRows(g)
  BY UpdatingRows
<1>1. \A r \in MatcherRows' : \E q \in MatcherRows : r = g[q] /\ r.userId = q.userId /\ r.taskId = q.taskId
  BY DEF UpdatesRows, MatcherRows
<1>2. /\ \A c \in Calls : at'[c] = "create" => at[c] = "create"
      /\ lastSlots' = lastSlots
  BY DEF OverrideWrites, UpdateMany, history, Goto, TypesInv, WithinFn
<1>3. CreatesOnNone'
  BY <1>1, <1>2 DEF MatcherInv, CreatesOnNone
<1>4. MatcherRowsDistinct'
  <2>1. \A r, q \in MatcherRows' : r.userId = q.userId => r = q
    BY <1>1 DEF MatcherInv, MatcherRowsDistinct, NobodyMatchedTwice
  <2> QED
    BY <2>1 DEF MatcherRowsDistinct, NobodyMatchedTwice
<1>5. MatcherWithinSlots'
  <2> SUFFICES ASSUME NEW t \in TaskIds PROVE Cardinality((OnTask(t) \cap MatcherRows)') <= lastSlots'[t]
    BY DEF MatcherWithinSlots
  <2> DEFINE old  == OnTask(t) \cap MatcherRows
             kept == {q \in old : g[q] \in (OnTask(t) \cap MatcherRows)'}
             new  == (OnTask(t) \cap MatcherRows)'
  <2>1. \A r \in new : \E q \in kept : r = g[q]
    <3> SUFFICES ASSUME NEW r \in new PROVE \E q \in kept : r = g[q]
      OBVIOUS
    <3>1. PICK q \in MatcherRows : r = g[q] /\ r.taskId = q.taskId
      BY <1>1
    <3>2. q \in old
      BY <3>1 DEF OnTask, MatcherRows
    <3> QED
      BY <3>1, <3>2
  <2>2. [q \in kept |-> g[q]] \in Surjection(kept, new)
    BY <2>1 DEF Surjection
  <2>3. old \subseteq rows /\ IsFiniteSet(rows)
    BY DEF OnTask, TypesInv, RowsOK
  <2>4. IsFiniteSet(old) /\ IsFiniteSet(kept) /\ Cardinality(kept) <= Cardinality(old)
    BY <2>3, FS_Subset
  <2>5. IsFiniteSet(new) /\ Cardinality(new) <= Cardinality(kept)
    BY <2>2, <2>4, FS_Surjection
  <2>6. Cardinality(old) <= lastSlots[t] /\ lastSlots[t] \in Nat
    BY DEF MatcherInv, MatcherWithinSlots, TypesInv, RowsOK
  <2>7. Cardinality(new) \in Nat /\ Cardinality(kept) \in Nat /\ Cardinality(old) \in Nat
    BY <2>4, <2>5, FS_CardinalityType
  <2> QED
    BY <1>2, <2>4, <2>5, <2>6, <2>7
<1> QED
  BY <1>3, <1>4, <1>5 DEF MatcherInv

(* No other step lets a run go on to createMany.                            *)
LEMMA CreatesAfterDelete ==
  ASSUME TypesInv, [Next]_vars, NEW c \in Calls, at'[c] = "create", at[c] # "create"
  PROVE  \E d \in Calls : DeleteRows(d)
<1>0. at = [d \in Calls |-> at[d]]
  BY DEF TypesInv, WithinFn
<1>1. ASSUME NEW d \in Calls, RunMatcher(d) \/ CompleteActivity(d) PROVE DeleteRows(d)
  BY <1>0, <1>1 DEF RunMatcher, ReadActivity, ReadTasks, ReadRegistrationsAndMatch, CreateRows, SetMatched, EmitRun,
     CompleteActivity, ReadForCompletion, FindConfirmed, UpdateMany, SetCompleted, Announce, Settle, Goto
<1>2. UNCHANGED at \/ Crash \/ \E d \in Calls : RunMatcher(d) \/ CompleteActivity(d)
  BY OthersLeaveTheLock DEF Next, Calls, LockStep, reqVars
<1>3. ~Crash
  BY DEF Crash
<1> QED
  BY <1>1, <1>2, <1>3

LEMMA MatcherInvPreserved ==
  ASSUME TypesInv, MatcherInv, [Next]_vars
  PROVE  MatcherInv'
<1>1. CASE ~Locked(MatcherCalls)'
  BY <1>1 DEF MatcherInv, CreatesOnNone, MatcherRowsDistinct, MatcherWithinSlots
<1>2. CASE Locked(MatcherCalls)'
  <2>0. Locked(MatcherCalls)
    BY <1>2, ExposedGrows DEF Locked
  <2>1. ASSUME NEW c \in Calls, CreateRows(c) PROVE MatcherInv'
    <3>1. c \in MatcherCalls
      BY <2>1 DEF CreateRows, Runs, TypesInv, WithinFn, Calls, MatcherSteps
    <3> QED
      BY <2>0, <2>1, <3>1, CreatingPreserves
  <2>2. CASE UNCHANGED <<rows, lastSlots>> /\ ~ \E c \in Calls : DeleteRows(c)
    <3>1. \A c \in Calls : at'[c] = "create" => at[c] = "create"
      BY <2>2, CreatesAfterDelete
    <3>2. MatcherRows' = MatcherRows /\ \A t : OnTask(t)' = OnTask(t)
      BY <2>2 DEF MatcherRows, OnTask
    <3> QED
      BY <2>0, <2>2, <3>1, <3>2 DEF MatcherInv, CreatesOnNone, MatcherRowsDistinct, NobodyMatchedTwice, MatcherWithinSlots
  <2> QED
    BY <2>0, <2>1, <2>2, DeletingPreserves, UpdatingPreserves, RowsElse
<1> QED
  BY <1>1, <1>2

THEOREM MatcherInvariance == Spec => []MatcherInv
<1>1. Init => MatcherInv
  BY InitMatcherInv
<1>2. TypesInv /\ MatcherInv /\ [Next]_vars => MatcherInv'
  BY MatcherInvPreserved
<1> QED
  BY <1>1, <1>2, TypesInvariance, PTL DEF Spec

(* However often the matcher is run, crashes and is run again, and whatever *)
(* overrides and edits come in between, locked runs leave nobody two tasks. *)
THEOREM NobodyIsMatchedTwice == Spec => []MatcherRowsDistinct
  BY MatcherInvariance, PTL DEF MatcherInv

(* ... and no task more of their rows than it had slots for the last one.   *)
THEOREM MatcherStaysWithinSlots == Spec => []MatcherWithinSlots
  BY MatcherInvariance, PTL DEF MatcherInv

-----------------------------------------------------------------------------
(* The completion's announcements *)

(* While every status that is replaced has been read, a completed activity  *)
(* stays completed.  So a locked completion, which has read MATCHED, finds  *)
(* MATCHED or COMPLETED to its end and comes before all announcements:      *)
(* after them the status is COMPLETED and no completion begins.             *)
CompletedForGood ==
  Locked(CompletionCalls) /\ ~overwritten =>
    /\ \A c \in CompletionCalls :
         /\ at[c] \in CompletionSteps => announced = {} /\ status \in {"MATCHED", "COMPLETED"}
         /\ at[c] = "announce" => status = "COMPLETED"
    /\ announced # {} => status = "COMPLETED"
    /\ \A a, b \in announced : a[2] = b[2] => a = b

(* A status that follows the one that was read never takes the activity     *)
(* from COMPLETED, and from MATCHED only there.                             *)
LEMMA WritesGoOn ==
  ASSUME NEW read, NEW to, IsAllowedTransition(read, to), WriteStatus(read, to), ~overwritten'
  PROVE  /\ ~overwritten
         /\ status = "COMPLETED" => status' = "COMPLETED"
         /\ status \in {"MATCHED", "COMPLETED"} => status' \in {"MATCHED", "COMPLETED"}
  BY DEF IsAllowedTransition, WriteStatus

LEMMA OverwrittenElse ==
  ASSUME [Next]_vars,
         ~ \E c \in Calls : SetMatched(c) \/ SetCompleted(c), ~ \E p \in Patches : PatchWrites(p)
  PROVE  UNCHANGED <<status, overwritten>>
  BY DEF Next, Calls, RunMatcher, ReadActivity, ReadTasks, ReadRegistrationsAndMatch, DeleteRows, CreateRows, EmitRun,
     CompleteActivity, ReadForCompletion, FindConfirmed, UpdateMany, Announce,
     OverrideAssignment, OverrideReads, OverrideReadsTask, OverrideCounts, OverrideChecksUser, OverrideWrites,
     PatchReads, EditSlots, SubmitChecks, SubmitCreates, LockStep, Crash, vars, dbVars, history

LEMMA CompletedForGoodPreserved ==
  ASSUME TypesInv, CompletedForGood, [Next]_vars
  PROVE  CompletedForGood'
<1> SUFFICES ASSUME Locked(CompletionCalls)', ~overwritten' PROVE CompletedForGood'
  BY DEF CompletedForGood
<1> USE DEF CompletedForGood
<1>0. Locked(CompletionCalls)
  BY ExposedGrows DEF Locked
<1>1. /\ at \in [Calls -> {"readActivity", "settled"} \cup MatcherSteps \cup CompletionSteps]
      /\ \A c \in MatcherCalls : at[c] \notin CompletionSteps
      /\ \A c \in CompletionCalls : at[c] \notin MatcherSteps
      /\ MatcherCalls \subseteq Calls /\ CompletionCalls \subseteq Calls /\ Calls = MatcherCalls \cup CompletionCalls
  BY DEF TypesInv, WithinFn, Calls
<1>2. ASSUME NEW read, NEW to, IsAllowedTransition(read, to), WriteStatus(read, to), UNCHANGED announced,
             \A c \in CompletionCalls : at'[c] = at[c]
      PROVE  CompletedForGood'
  BY <1>0, <1>2, WritesGoOn
<1>3. ASSUME NEW p \in Patches, PatchWrites(p) PROVE CompletedForGood'
  <2>1. IsAllowedTransition(patch[p].read, patch[p].to)
    BY <1>3 DEF TypesInv, PatchesOK, PatchWrites
  <2> QED
    BY <1>2, <1>3, <2>1 DEF PatchWrites
<1>4. ASSUME NEW c \in Calls, SetMatched(c) PROVE CompletedForGood'
  <2>1. IsAllowedTransition("CLOSED", "MATCHED")
    BY DEF IsAllowedTransition
  <2>2. \A d \in CompletionCalls : at'[d] = at[d]
    BY <1>1, <1>4 DEF SetMatched, Runs, Goto, MatcherSteps
  <2> QED
    BY <1>2, <1>4, <2>1, <2>2 DEF SetMatched
<1>5. ASSUME NEW c \in Calls, SetCompleted(c) PROVE CompletedForGood'
  <2>1. /\ c \in CompletionCalls /\ at[c] = "setCompleted" /\ at' = [at EXCEPT ![c] = "announce"]
        /\ status' = "COMPLETED" /\ ~overwritten /\ UNCHANGED announced
    BY <1>1, <1>5 DEF SetCompleted, WriteStatus, Runs, Goto, CompletionSteps
  <2>2. announced = {}
    BY <1>0, <2>1 DEF CompletionSteps
  <2> QED
    BY <2>1, <2>2
<1>6. ASSUME UNCHANGED <<status, overwritten>> PROVE CompletedForGood'
  <2>1. ASSUME NEW c \in Calls, Announce(c) PROVE CompletedForGood'
    <3>1. /\ c \in CompletionCalls /\ at[c] = "announce" /\ at' = [at EXCEPT ![c] = "settled"]
          /\ announced' = announced \cup ({c} \X view[c].confirmed)
      BY <1>1, <2>1 DEF Announce, Settle, Runs, Goto, CompletionSteps
    <3>2. status = "COMPLETED" /\ announced = {}
      BY <1>0, <1>6, <3>1 DEF CompletionSteps
    <3>3. \A d \in CompletionCalls : at'[d] \notin CompletionSteps
      <4>1. \A d \in CompletionCalls \ {c} : at[d] \notin CompletionSteps
        BY <1>0, <3>1, OneInFn DEF CompletionSteps
      <4> QED
        BY <1>1, <3>1, <4>1 DEF CompletionSteps
    <3>4. \A a, b \in announced' : a[2] = b[2] => a = b
      BY <3>1, <3>2
    <3> QED
      BY <1>6, <3>2, <3>3, <3>4 DEF CompletionSteps
  <2>2. ASSUME UNCHANGED announced,
               \A c \in CompletionCalls :
                 at'[c] \in CompletionSteps =>
                   (at[c] \in CompletionSteps \/ status = "MATCHED") /\ (at'[c] = "announce" => at[c] = "announce")
        PROVE  CompletedForGood'
    <3>1. ASSUME NEW c \in CompletionCalls, at'[c] \in CompletionSteps
          PROVE  announced' = {} /\ status' \in {"MATCHED", "COMPLETED"}
      BY <1>0, <1>6, <2>2, <3>1
    <3>2. \A c \in CompletionCalls : at'[c] = "announce" => status' = "COMPLETED"
      BY <1>0, <1>6, <2>2 DEF CompletionSteps
    <3> QED
      BY <1>0, <1>6, <2>2, <3>1, <3>2
  <2>3. ASSUME UNCHANGED announced, UNCHANGED at PROVE CompletedForGood'
    BY <2>2, <2>3
  <2>4. CASE Crash
    <3>1. UNCHANGED announced /\ \A c \in Calls : at'[c] \in {at[c], "settled"}
      BY <2>4 DEF Crash, history
    <3> QED
      BY <1>1, <2>2, <3>1 DEF CompletionSteps
  <2>5. ASSUME NEW c \in Calls, RunMatcher(c) \/ CompleteActivity(c),
               ~SetMatched(c), ~SetCompleted(c), ~Announce(c)
        PROVE  CompletedForGood'
    <3>1. /\ UNCHANGED announced /\ at' = [at EXCEPT ![c] = at'[c]]
          /\ \/ at'[c] \notin CompletionSteps
             \/ at'[c] \in CompletionSteps \ {"announce"} /\ (at[c] \in CompletionSteps \/ status = "MATCHED")
      BY <1>1, <2>5 DEF RunMatcher, ReadActivity, ReadTasks, ReadRegistrationsAndMatch, DeleteRows,
         AfterDelete, CreateRows, EmitRun, CompleteActivity, ReadForCompletion, MayComplete, FindConfirmed, UpdateMany,
         Settle, Runs, Goto, MatcherSteps, CompletionSteps, history
    <3>2. \A d \in Calls \ {c} : at'[d] = at[d]
      BY <1>1, <3>1
    <3> QED
      BY <1>1, <2>2, <3>1, <3>2
  <2>6. CASE LockStep
    BY <2>3, <2>6 DEF LockStep, reqVars, history
  <2>7. ASSUME NEW c \in Calls, SetMatched(c) \/ SetCompleted(c) PROVE CompletedForGood'
    BY <1>4, <1>5, <2>7
  <2> QED
    BY <2>1, <2>3, <2>4, <2>5, <2>6, <2>7, OthersLeaveTheLock DEF Next, Calls
<1> QED
  BY <1>3, <1>4, <1>5, <1>6, OverwrittenElse

(* No assignment is announced by two locked completions, whatever matcher   *)
(* runs, status updates, overrides and crashes there are in between, as     *)
(* long as nobody replaced a status that he had not read.                   *)
THEOREM AnnouncesOnce == Spec => []AnnouncedOnce
<1>1. Init => CompletedForGood
  <2> SUFFICES ASSUME Init PROVE CompletedForGood
    OBVIOUS
  <2>1. announced = {} /\ \A c \in Calls : at[c] = "readActivity"
    BY DEF Init
  <2> QED
    BY <2>1 DEF CompletedForGood, CompletionSteps, Calls
<1>2. TypesInv /\ CompletedForGood /\ [Next]_vars => CompletedForGood'
  BY CompletedForGoodPreserved
<1>3. CompletedForGood => AnnouncedOnce
  BY DEF CompletedForGood, AnnouncedOnce
<1> QED
  BY <1>1, <1>2, <1>3, TypesInvariance, PTL DEF Spec
=============================================================================
