--------------------------- MODULE ActivityMatching ---------------------------
(***************************************************************************)
(* One activity from registration to completion: MatchingService           *)
(* (modules/matching/matching.service.ts), ActivitiesService.update,       *)
(* TasksService.update and RegistrationsService.submit                     *)
(* (modules/activities), over PostgreSQL, with LockService around the      *)
(* matcher and the completion.                                             *)
(*                                                                         *)
(* Every `await` of a request is a step of its own: requests of one        *)
(* process interleave at each database call.  No request runs inside a     *)
(* transaction, but for the two statements of completeActivityAssignments, *)
(* which see each other's commits in between (READ COMMITTED).             *)
(***************************************************************************)
EXTENDS GreedyMatching, Sequences

CONSTANTS
  MatcherCalls,     \* requests POST activities/:id/matcher/run
  CompletionCalls,  \* requests PATCH activities/:id/complete
  Overrides,        \* requests PATCH assignments/:id
  Patches,          \* requests PATCH activities/:id with a status
  Activities,       \* the states the activity may be found in, see Activity
  Score,            \* the scores each member gives when registering
  Priority,         \* the priority of each task
  MaxSlotEdits,     \* bound: changes of a task's slotCount
  OverrideStatuses, \* the statuses an override may ask for
  CrashesAllowed,   \* TRUE: the process may die in the middle of a request
  RedisFaults, KeysExpire, NoToken,    \* see LockService
  None              \* an absent field, an absent answer

VARIABLES
  (* PostgreSQL *)
  status,       \* activities.status
  slots,        \* tasks.slot_count
  registered,   \* activity_registrations, in the order of submitted_at
  rows,         \* assignments
  nextId,       \* the id the next assignment gets
  edits,        \* slotCount changes so far
  (* requests in progress *)
  at,           \* where each matcher and completion call is inside fn
  view,         \* what each of them has read and computed
  override,     \* each override request: where it is and what it has read
  patch,        \* each status request: where it is, what it has read and writes
  submit,       \* each member's registration request
  (* history *)
  lastSlots,    \* the slots that the last createMany was computed from
  completed,    \* ids of the assignments that a completion completed
  announced,    \* <<call, id>>: the call emitted assignmentCompleted for the assignment
  overwritten,  \* a status was replaced that the request replacing it had not read
  (* LockService *)
  ready, key, phase, held, exposed

Calls == MatcherCalls \cup CompletionCalls

Lock == INSTANCE LockService WITH
  Resources  <- {"matcher", "activity-complete"},
  ResourceOf <- [c \in Calls |-> IF c \in MatcherCalls THEN "matcher" ELSE "activity-complete"]

lockVars == <<ready, key, phase, held, exposed>>
dbVars   == <<status, slots, registered, rows, nextId, edits>>
reqVars  == <<at, view, override, patch, submit>>
history  == <<lastSlots, completed, announced, overwritten>>
vars     == <<dbVars, reqVars, history, lockVars>>

-----------------------------------------------------------------------------
(* Data *)

Statuses           == {"DRAFT", "OPEN", "CLOSED", "MATCHED", "COMPLETED"}
AssignmentStatuses == {"PROPOSED", "CONFIRMED", "COMPLETED", "CANCELLED"}
Row == [ id : Nat, userId : Members, taskId : TaskIds,
         source : {"MATCHER", "MANUAL"}, status : AssignmentStatuses ]

(* How the activity is found: its status, registrations, tasks' slots and   *)
(* assignments.                                                             *)
Activity == [status : Statuses, registered : Seq(Members), slots : [TaskIds -> Nat], rows : SUBSET Row]

(* It is found as matcher runs and overrides leave it: the matcher's rows   *)
(* give nobody two tasks and fit in the slots.                              *)
ASSUME ActivitiesAssumption ==
  \A a \in Activities :
    /\ a \in Activity /\ IsFiniteSet(a.rows)
    /\ \A r \in a.rows : r.id < Cardinality(a.rows)
    /\ \A r, q \in a.rows : r.id = q.id \/ (r.userId = q.userId /\ {r.source, q.source} = {"MATCHER"}) => r = q
    /\ \A t \in TaskIds : Cardinality({r \in a.rows : r.taskId = t /\ r.source = "MATCHER"}) <= a.slots[t]

ASSUME PreferencesAssumption ==
  Score \in [Members -> [TaskIds -> Nat]] /\ Priority \in [TaskIds -> Int]

ASSUME RequestsAssumption ==
  /\ MatcherCalls \cap CompletionCalls = {} /\ NoToken \notin Calls
  /\ OverrideStatuses \subseteq AssignmentStatuses
  /\ RedisFaults \in BOOLEAN /\ KeysExpire \in BOOLEAN

Registrants == {registered[i] : i \in DOMAIN registered}

(* ALLOWED_TRANSITIONS; a status may always be written over itself.         *)
IsAllowedTransition(from, to) ==
  \/ from = to
  \/ <<from, to>> \in { <<"DRAFT", "OPEN">>, <<"OPEN", "CLOSED">>, <<"CLOSED", "MATCHED">>,
                        <<"CLOSED", "OPEN">>, <<"MATCHED", "COMPLETED">> }

(* The argument runMatcherLocked builds from the slots and registrations it *)
(* has read; every fairnessScore is 0, and submittedAt is the position.     *)
InputFrom(slotsRead, regs) ==
  [ tasks         |-> TaskIds,
    slotCount     |-> slotsRead,
    priority      |-> Priority,
    registrations |-> {regs[i] : i \in DOMAIN regs},
    fairnessScore |-> [m \in Members |-> 0],
    submittedAt   |-> [m \in Members |-> IF \E i \in DOMAIN regs : regs[i] = m
                                           THEN CHOOSE i \in DOMAIN regs : regs[i] = m ELSE 0],
    score         |-> Score ]

OnTask(t)        == {r \in rows : r.taskId = t}
MatcherRows      == {r \in rows : r.source = "MATCHER"}
ConfirmedIds     == {r.id : r \in {q \in rows : q.status = "CONFIRMED"}}

Init ==
  /\ \E a \in Activities :
       /\ status = a.status /\ registered = a.registered
       /\ slots = a.slots /\ rows = a.rows
       /\ nextId = Cardinality(a.rows)
       /\ lastSlots = a.slots
  /\ edits = 0
  /\ at = [c \in Calls |-> "readActivity"]
  /\ view = [c \in Calls |-> None]
  /\ override = [o \in Overrides |-> [at |-> "read"]]
  /\ patch = [p \in Patches |-> [at |-> "read"]]
  /\ submit = [m \in Members |-> IF m \in Registrants THEN "done" ELSE "check"]
  /\ completed = {}
  /\ announced = {}
  /\ overwritten = FALSE
  /\ Lock!LockInit

-----------------------------------------------------------------------------
(* The matcher's fn: runMatcherLocked *)

(* c is inside fn, and its next database call is the one named.             *)
Runs(c, step) == phase[c] = "inside" /\ at[c] = step
Goto(c, step) == at' = [at EXCEPT ![c] = step]

(* fn settles: its answer or exception is out, what it had read is gone.    *)
Settle(c) ==
  /\ Lock!Leave(c)
  /\ view' = [view EXCEPT ![c] = None]
  /\ Goto(c, "settled")

(* findById, and the 409 or 422 unless the activity is CLOSED.              *)
MayMatch == status = "CLOSED"

ReadActivity(c) ==
  /\ c \in MatcherCalls /\ Runs(c, "readActivity")
  /\ IF MayMatch
       THEN Goto(c, "readTasks") /\ UNCHANGED <<view, lockVars>>
       ELSE Settle(c)
  /\ UNCHANGED <<dbVars, override, patch, submit, history>>

ReadTasks(c) ==
  /\ Runs(c, "readTasks")
  /\ Goto(c, "readRegistrations")
  /\ view' = [view EXCEPT ![c] = [slots |-> slots]]
  /\ UNCHANGED <<dbVars, override, patch, submit, history, lockVars>>

(* findByActivity, then runGreedyMatcher without an await.                  *)
ReadRegistrationsAndMatch(c) ==
  /\ Runs(c, "readRegistrations")
  /\ \E A \in SUBSET [userId : Registrants, taskId : TaskIds] :
       /\ IsGreedyResult(InputFrom(view[c].slots, registered), A)
       /\ view' = [view EXCEPT ![c] = [slots |-> @.slots, result |-> A]]
  /\ Goto(c, "delete")
  /\ UNCHANGED <<dbVars, override, patch, submit, history, lockVars>>

(* deleteByActivity: the MATCHER rows, whoever made them; createMany is     *)
(* called only if there is something to create.  (Broken: no delete.)       *)
AfterDelete(c) == IF view[c].result = {} THEN "setMatched" ELSE "create"

KeepOldRows(c) ==
  /\ Runs(c, "delete")
  /\ Goto(c, AfterDelete(c))
  /\ UNCHANGED <<dbVars, view, override, patch, submit, history, lockVars>>

DeleteRows(c) ==
  /\ Runs(c, "delete")
  /\ rows' = rows \ MatcherRows
  /\ Goto(c, AfterDelete(c))
  /\ UNCHANGED <<status, slots, registered, nextId, edits, view, override, patch, submit, history, lockVars>>

(* createMany: one PROPOSED row of source MATCHER per assignment, each with *)
(* an id of its own.                                                        *)
CreateRows(c) ==
  /\ Runs(c, "create")
  /\ LET A   == view[c].result
         ids == CHOOSE f \in [A -> nextId .. nextId + Cardinality(A) - 1] :
                  \A a, b \in A : f[a] = f[b] => a = b
     IN  rows' = rows \cup {[ id |-> ids[a], userId |-> a.userId, taskId |-> a.taskId,
                              source |-> "MATCHER", status |-> "PROPOSED" ] : a \in A}
  /\ nextId' = nextId + Cardinality(view[c].result)
  /\ lastSlots' = view[c].slots
  /\ Goto(c, "setMatched")
  /\ UNCHANGED <<status, slots, registered, edits, view, override, patch, submit,
                 completed, announced, overwritten, lockVars>>

(* activities.update of a request that has read one status and writes       *)
(* another, whatever the status is by now.                                  *)
WriteStatus(read, to) ==
  /\ status' = to
  /\ overwritten' = (overwritten \/ status \notin {read, to})

SetMatched(c) ==
  /\ Runs(c, "setMatched")
  /\ WriteStatus("CLOSED", "MATCHED")
  /\ Goto(c, "emitRun")
  /\ UNCHANGED <<slots, registered, rows, nextId, edits, view, override, patch, submit,
                 lastSlots, completed, announced, lockVars>>

(* matcherRun is emitted for each assignment and fn returns its result.     *)
EmitRun(c) ==
  /\ Runs(c, "emitRun")
  /\ Settle(c)
  /\ UNCHANGED <<dbVars, override, patch, submit, history>>

-----------------------------------------------------------------------------
(* The completion's fn: completeActivityLocked *)

(* findById, and the 409 or 422 unless the activity is MATCHED.  (Broken: a *)
(* completed activity is completed again.)                                  *)
MayCompleteAgain == status \in {"MATCHED", "COMPLETED"}
MayComplete == status = "MATCHED"

ReadForCompletion(c) ==
  /\ c \in CompletionCalls /\ Runs(c, "readActivity")
  /\ IF MayComplete
       THEN Goto(c, "findConfirmed") /\ UNCHANGED <<view, lockVars>>
       ELSE Settle(c)
  /\ UNCHANGED <<dbVars, override, patch, submit, history>>

(* The transaction's findMany; with nothing to complete it ends there.      *)
FindConfirmed(c) ==
  /\ Runs(c, "findConfirmed")
  /\ view' = [view EXCEPT ![c] = [confirmed |-> ConfirmedIds]]
  /\ Goto(c, IF ConfirmedIds = {} THEN "setCompleted" ELSE "updateMany")
  /\ UNCHANGED <<dbVars, override, patch, submit, history, lockVars>>

(* The transaction's updateMany and its commit: the rows CONFIRMED by now,  *)
(* which need not be those found.                                           *)
UpdateMany(c) ==
  /\ Runs(c, "updateMany")
  /\ rows' = {IF r.id \in ConfirmedIds THEN [r EXCEPT !.status = "COMPLETED"] ELSE r : r \in rows}
  /\ completed' = completed \cup ConfirmedIds
  /\ Goto(c, "setCompleted")
  /\ UNCHANGED <<status, slots, registered, nextId, edits, view, override, patch, submit,
                 lastSlots, announced, overwritten, lockVars>>

SetCompleted(c) ==
  /\ Runs(c, "setCompleted")
  /\ WriteStatus("MATCHED", "COMPLETED")
  /\ Goto(c, "announce")
  /\ UNCHANGED <<slots, registered, rows, nextId, edits, view, override, patch, submit,
                 lastSlots, completed, announced, lockVars>>

(* assignmentCompleted is emitted for each assignment found, and fn returns *)
Announce(c) ==
  /\ Runs(c, "announce")
  /\ announced' = announced \cup ({c} \X view[c].confirmed)
  /\ Settle(c)
  /\ UNCHANGED <<dbVars, override, patch, submit, lastSlots, completed, overwritten>>

-----------------------------------------------------------------------------
(* overrideAssignment *)

SetOverride(o, r) == override' = [override EXCEPT ![o] = r]
FailOverride(o)   == SetOverride(o, [at |-> "done"])

(* The step that follows the one named: the checks a field asks for, and    *)
(* the write.                                                               *)
AfterRead(dto)  == IF dto.taskId # None THEN "readTask" ELSE IF dto.userId # None THEN "checkUser" ELSE "write"
AfterCount(dto) == IF dto.userId # None THEN "checkUser" ELSE "write"

(* The assignment is read, with a body that may set any of its fields.      *)
OverrideReads(o) ==
  /\ override[o].at = "read"
  /\ \E r \in rows, task \in TaskIds \cup {None}, user \in Members \cup {None}, st \in OverrideStatuses \cup {None} :
       LET dto == [taskId |-> task, userId |-> user, status |-> st]
       IN  SetOverride(o, [at |-> AfterRead(dto), dto |-> dto, row |-> r])
  /\ UNCHANGED <<dbVars, at, view, patch, submit, history, lockVars>>

OverrideReadsTask(o) ==
  /\ override[o].at = "readTask"
  /\ SetOverride(o, [at |-> "count", dto |-> override[o].dto, row |-> override[o].row,
                     slotCount |-> slots[override[o].dto.taskId]])
  /\ UNCHANGED <<dbVars, at, view, patch, submit, history, lockVars>>

(* countByTask without the assignment itself: 422 if no slot is left.       *)
OverrideCounts(o) ==
  /\ override[o].at = "count"
  /\ LET used == {r \in OnTask(override[o].dto.taskId) : r.id # override[o].row.id}
     IN  IF Cardinality(used) >= override[o].slotCount
           THEN FailOverride(o)
           ELSE SetOverride(o, [at |-> AfterCount(override[o].dto), dto |-> override[o].dto, row |-> override[o].row])
  /\ UNCHANGED <<dbVars, at, view, patch, submit, history, lockVars>>

(* findUserConflict: 409 if the user has another assignment.                *)
OverrideChecksUser(o) ==
  /\ override[o].at = "checkUser"
  /\ IF \E r \in rows : r.userId = override[o].dto.userId /\ r.id # override[o].row.id
       THEN FailOverride(o)
       ELSE SetOverride(o, [override[o] EXCEPT !.at = "write"])
  /\ UNCHANGED <<dbVars, at, view, patch, submit, history, lockVars>>

(* updateManual: task and user from the body or as they were read, the      *)
(* status only if the body has one; the update of a deleted row throws.     *)
OverrideWrites(o) ==
  /\ override[o].at = "write"
  /\ LET dto == override[o].dto
         old == override[o].row
         Written(r) == [ r EXCEPT !.taskId = IF dto.taskId = None THEN old.taskId ELSE dto.taskId,
                                  !.userId = IF dto.userId = None THEN old.userId ELSE dto.userId,
                                  !.status = IF dto.status = None THEN @ ELSE dto.status,
                                  !.source = "MANUAL" ]
     IN  rows' = {IF r.id = old.id THEN Written(r) ELSE r : r \in rows}
  /\ FailOverride(o)
  /\ UNCHANGED <<status, slots, registered, nextId, edits, at, view, patch, submit, history, lockVars>>

-----------------------------------------------------------------------------
(* ActivitiesService.update, TasksService.update, RegistrationsService.submit *)

(* The status is read and the transition checked (422 unless allowed) ...   *)
PatchReads(p) ==
  /\ patch[p].at = "read"
  /\ \E to \in Statuses :
       /\ IsAllowedTransition(status, to)
       /\ patch' = [patch EXCEPT ![p] = [at |-> "write", read |-> status, to |-> to]]
  /\ UNCHANGED <<dbVars, at, view, override, submit, history, lockVars>>

(* ... and then written.                                                    *)
PatchWrites(p) ==
  /\ patch[p].at = "write"
  /\ WriteStatus(patch[p].read, patch[p].to)
  /\ patch' = [patch EXCEPT ![p] = [at |-> "done"]]
  /\ UNCHANGED <<slots, registered, rows, nextId, edits, at, view, override, submit,
                 lastSlots, completed, announced, lockVars>>

(* UpdateTaskDto's slotCount, up to a bound.  (Broken: without its @Min(0).)*)
SlotCountsUnchecked == -1 .. 2
SlotCounts == 0..2

(* An admin changes a task's slotCount, in any status of the activity.      *)
EditSlots(t) ==
  /\ edits < MaxSlotEdits
  /\ \E n \in SlotCounts : slots' = [slots EXCEPT ![t] = n]
  /\ edits' = edits + 1
  /\ UNCHANGED <<status, registered, rows, nextId, reqVars, history, lockVars>>

(* The status must be OPEN and the member not registered yet ...            *)
SubmitChecks(m) ==
  /\ submit[m] = "check"
  /\ submit' = [submit EXCEPT ![m] = IF status = "OPEN" THEN "create" ELSE "done"]
  /\ UNCHANGED <<dbVars, at, view, override, patch, history, lockVars>>

(* ... and then the registration is created, whatever the status is by now. *)
SubmitCreates(m) ==
  /\ submit[m] = "create"
  /\ registered' = Append(registered, m)
  /\ submit' = [submit EXCEPT ![m] = "done"]
  /\ UNCHANGED <<status, slots, rows, nextId, edits, at, view, override, patch, history, lockVars>>

-----------------------------------------------------------------------------
(* The lock, the process and the whole *)

(* withLock up to the start of fn, its release, and Redis on its own.       *)
LockStep ==
  /\ \/ \E c \in Calls : \/ Lock!EnterUnlocked(c) \/ Lock!AskForLock(c)
                         \/ Lock!Enter(c) \/ Lock!Refuse(c) \/ Lock!AcquireFails(c)
                         \/ Lock!Release(c) \/ Lock!ReleaseFails(c)
     \/ \E r \in {"matcher", "activity-complete"} : Lock!Expire(r)
     \/ Lock!ConnectionChanges
  /\ UNCHANGED <<dbVars, reqVars, history>>

(* The process dies: requests that had started are gone, the transaction    *)
(* that had not committed is rolled back, and what they wrote stays.        *)
Crash ==
  /\ CrashesAllowed
  /\ Lock!Crash
  /\ view' = [c \in Calls |-> None]
  /\ at' = [c \in Calls |-> IF phase'[c] = "crashed" THEN "settled" ELSE at[c]]
  /\ override' = [o \in Overrides |-> IF override[o].at = "read" THEN override[o] ELSE [at |-> "done"]]
  /\ patch' = [p \in Patches |-> IF patch[p].at = "read" THEN patch[p] ELSE [at |-> "done"]]
  /\ submit' = [m \in Members |-> IF submit[m] = "check" THEN "check" ELSE "done"]
  /\ UNCHANGED <<dbVars, history>>

RunMatcher(c) ==
  \/ ReadActivity(c) \/ ReadTasks(c) \/ ReadRegistrationsAndMatch(c)
  \/ DeleteRows(c) \/ CreateRows(c) \/ SetMatched(c) \/ EmitRun(c)

CompleteActivity(c) ==
  \/ ReadForCompletion(c) \/ FindConfirmed(c) \/ UpdateMany(c) \/ SetCompleted(c) \/ Announce(c)

OverrideAssignment(o) ==
  \/ OverrideReads(o) \/ OverrideReadsTask(o) \/ OverrideCounts(o)
  \/ OverrideChecksUser(o) \/ OverrideWrites(o)

Next ==
  \/ \E c \in MatcherCalls : RunMatcher(c)
  \/ \E c \in CompletionCalls : CompleteActivity(c)
  \/ \E o \in Overrides : OverrideAssignment(o)
  \/ \E p \in Patches : PatchReads(p) \/ PatchWrites(p)
  \/ \E t \in TaskIds : EditSlots(t)
  \/ \E m \in Members : SubmitChecks(m) \/ SubmitCreates(m)
  \/ LockStep
  \/ Crash

Spec == Init /\ [][Next]_vars

-----------------------------------------------------------------------------
(* Properties *)

TypeOK ==
  /\ status \in Statuses
  /\ slots \in [TaskIds -> Nat]
  /\ registered \in Seq(Members)
  /\ rows \subseteq Row
  /\ \A r, q \in rows : r.id = q.id => r = q
  /\ \A r \in rows : r.id < nextId
  /\ completed \subseteq 0 .. nextId - 1
  /\ announced \subseteq Calls \X (0 .. nextId - 1)
  /\ Lock!TypeOK

(* No matcher run, or completion, has been in fn without its key: none has  *)
(* found Redis not ready or outlived its TTL.                               *)
Locked(calls) == exposed \cap calls = {}

(* Nobody is assigned twice by the matcher: no two rows of source MATCHER   *)
(* are of one user, whichever runs wrote them, however often the matcher    *)
(* was run, crashed and run again ...                                       *)
NobodyMatchedTwice ==
  \A r, q \in MatcherRows : r.userId = q.userId => r = q

(* ... as long as the runs were locked.                                     *)
MatcherRowsDistinct == Locked(MatcherCalls) => NobodyMatchedTwice

(* The rows that locked runs leave on a task fit in the slots that the run  *)
(* that wrote them was given: rows of two runs never add up on one task.    *)
MatcherWithinSlots ==
  Locked(MatcherCalls) =>
    \A t \in TaskIds : Cardinality(OnTask(t) \cap MatcherRows) <= lastSlots[t]

(* As long as completions were locked and nobody replaced a status that he  *)
(* had not read, an assignment is announced by one of them at most, so that *)
(* its points are asked for once: whatever the matcher, status updates,     *)
(* overrides and crashes do in between.                                     *)
AnnouncedOnce ==
  Locked(CompletionCalls) /\ ~overwritten => \A a, b \in announced : a[2] = b[2] => a = b

(* What a completion announces is what it has completed: with no completion *)
(* between its update and its announcements, every assignment it completed  *)
(* has been announced, and no other.                                        *)
CompletedAreAnnounced ==
  (\A c \in CompletionCalls : at[c] \in {"readActivity", "findConfirmed", "settled"})
    => completed = {a[2] : a \in announced}
================================================================================
