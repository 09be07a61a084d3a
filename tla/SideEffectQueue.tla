--------------------------- MODULE SideEffectQueue ---------------------------
(***************************************************************************)
(* QueueService (backend/src/common/queue/queue.service.ts): calls of      *)
(* enqueue for one queue, the retries of its handler, the dead-letter list *)
(* and the Redis keys they leave behind.                                   *)
(*                                                                         *)
(* A job is pushed and then processed by the call that pushed it: nothing  *)
(* reads the pending list back.  The 24 hours of the idempotency key are   *)
(* taken to be longer than a run of the model, and a handler to be         *)
(* registered before the first call, as the modules do when they start.    *)
(***************************************************************************)
EXTENDS Naturals

CONSTANTS
  Enqueues,         \* calls of enqueue
  JobId,            \* JobId[e]: the job id that call e is given
  MaxAttempts,      \* maxAttempts of every job
  QueueEnabled,     \* QUEUE_ENABLED is not 'false'
  HandlerMayFail,   \* TRUE: the handler may throw
  RedisFaults,      \* TRUE: the connection drops, commands fail, replies are lost
  CrashesAllowed    \* TRUE: the process may die

ASSUME MaxAttemptsAssumption == MaxAttempts \in Nat \ {0}
ASSUME RedisFaultsAssumption == RedisFaults \in BOOLEAN

VARIABLES
  ready,     \* RedisService.isReady()
  idem,      \* Redis: the job ids whose idempotency key exists
  pending,   \* Redis: the calls whose job is in the pending list
  dead,      \* Redis: the calls whose job is in the dead-letter list
  at,        \* where each call, or the processing it started, is
  attempts,  \* handler attempts made for each call's job
  stopped,   \* the calls that a crash stopped where they were
  faulted    \* history: Redis has been away, or a command has failed

vars == <<ready, idem, pending, dead, at, attempts, stopped, faulted>>

JobIds    == {JobId[e] : e \in Enqueues}
InFlight  == {"denied", "push", "handle", "remove", "deadRemove", "deadPush"}
Ended     == {"skipped", "accepted", "handled", "dead"}
Locations == {"new"} \cup InFlight \cup Ended

Init ==
  /\ ready \in {TRUE, ~RedisFaults}
  /\ idem = {} /\ pending = {} /\ dead = {}
  /\ at = [e \in Enqueues |-> "new"]
  /\ attempts = [e \in Enqueues |-> 0]
  /\ stopped = {}
  /\ faulted = ~ready

-----------------------------------------------------------------------------
(* enqueue *)

IsAt(e, place)   == at[e] = place /\ e \notin stopped
Move(e, place)   == at' = [at EXCEPT ![e] = place]
Faults           == RedisFaults /\ faulted' = TRUE

(* setIfAbsent answers OK: the job id is this call's.  (Broken: SET without *)
(* NX.)                                                                     *)
ReserveAgain(e) ==
  /\ IsAt(e, "new") /\ ready
  /\ idem' = idem \cup {JobId[e]}
  /\ Move(e, "push")
  /\ UNCHANGED <<ready, pending, dead, attempts, stopped, faulted>>

Reserve(e) ==
  /\ IsAt(e, "new") /\ ready
  /\ JobId[e] \notin idem
  /\ idem' = idem \cup {JobId[e]}
  /\ Move(e, "push")
  /\ UNCHANGED <<ready, pending, dead, attempts, stopped, faulted>>

(* setIfAbsent answers false: the key is there, or the command threw; then  *)
(* the key may have been set all the same.                                  *)
ReserveDenied(e) ==
  /\ IsAt(e, "new")
  /\ \/ ready /\ JobId[e] \in idem /\ UNCHANGED <<idem, faulted>>
     \/ Faults /\ UNCHANGED idem
     \/ Faults /\ ready /\ idem' = idem \cup {JobId[e]}
  /\ Move(e, "denied")
  /\ UNCHANGED <<ready, pending, dead, attempts, stopped>>

(* `if (!reserved && this.redis.isReady())`: with Redis ready the job is a  *)
(* duplicate, without Redis there is no telling and it goes on.             *)
Decide(e) ==
  /\ IsAt(e, "denied")
  /\ Move(e, IF ready THEN "skipped" ELSE "push")
  /\ UNCHANGED <<ready, idem, pending, dead, attempts, stopped, faulted>>

(* A list command: done, or failed before it was run, which is only logged. *)
Commanded(list, after) ==
  \/ ready /\ list' = after /\ UNCHANGED faulted
  \/ Faults /\ list' = list

(* LPUSH to the pending list; then, if the queue is enabled, processStored  *)
(* is started and not awaited.  (Broken: processed without a push.)         *)
ProcessWithoutPush(e) ==
  /\ IsAt(e, "push")
  /\ Move(e, IF QueueEnabled THEN "handle" ELSE "accepted")
  /\ UNCHANGED <<ready, idem, pending, dead, attempts, stopped, faulted>>

Push(e) ==
  /\ IsAt(e, "push")
  /\ Commanded(pending, pending \cup {e})
  /\ Move(e, IF QueueEnabled THEN "handle" ELSE "accepted")
  /\ UNCHANGED <<ready, idem, dead, attempts, stopped>>

-----------------------------------------------------------------------------
(* processStored: run, then remove or dead-letter *)

(* The handler resolves.                                                    *)
HandlerSucceeds(e) ==
  /\ IsAt(e, "handle")
  /\ attempts[e] < MaxAttempts
  /\ attempts' = [attempts EXCEPT ![e] = @ + 1]
  /\ Move(e, "remove")
  /\ UNCHANGED <<ready, idem, pending, dead, stopped, faulted>>

(* The handler throws: it is tried again, after a sleep, until the attempts *)
(* are used up.  (Broken: one attempt too many; pushed again for ever.)    *)
HandlerThrowsOnceMore(e) ==
  /\ IsAt(e, "handle")
  /\ attempts' = [attempts EXCEPT ![e] = @ + 1]
  /\ Move(e, IF attempts[e] + 1 <= MaxAttempts THEN "handle" ELSE "deadRemove")
  /\ UNCHANGED <<ready, idem, pending, dead, stopped, faulted>>

HandlerRequeues(e) ==
  /\ IsAt(e, "handle")
  /\ Move(e, "push")
  /\ UNCHANGED <<ready, idem, pending, dead, attempts, stopped, faulted>>

HandlerThrows(e) ==
  /\ IsAt(e, "handle")
  /\ HandlerMayFail /\ attempts[e] < MaxAttempts
  /\ attempts' = [attempts EXCEPT ![e] = @ + 1]
  /\ Move(e, IF attempts[e] + 1 < MaxAttempts THEN "handle" ELSE "deadRemove")
  /\ UNCHANGED <<ready, idem, pending, dead, stopped, faulted>>

(* LREM from the pending list: the job is done.                             *)
Remove(e) ==
  /\ IsAt(e, "remove")
  /\ Commanded(pending, pending \ {e})
  /\ Move(e, "handled")
  /\ UNCHANGED <<ready, idem, dead, attempts, stopped>>

(* deadLetter: LREM from pending, then LPUSH to dead.                       *)
DeadLetterRemoves(e) ==
  /\ IsAt(e, "deadRemove")
  /\ Commanded(pending, pending \ {e})
  /\ Move(e, "deadPush")
  /\ UNCHANGED <<ready, idem, dead, attempts, stopped>>

DeadLetterPushes(e) ==
  /\ IsAt(e, "deadPush")
  /\ Commanded(dead, dead \cup {e})
  /\ Move(e, "dead")
  /\ UNCHANGED <<ready, idem, pending, attempts, stopped>>

-----------------------------------------------------------------------------
(* The surroundings *)

ConnectionChanges ==
  /\ Faults
  /\ ready' = ~ready
  /\ UNCHANGED <<idem, pending, dead, at, attempts, stopped>>

(* The process dies.  Its calls stop where they are, and no later process   *)
(* takes them up; calls that have not begun are made to the next process.   *)
Crash ==
  /\ CrashesAllowed
  /\ \E e \in Enqueues \ stopped : at[e] \in InFlight
  /\ stopped' = stopped \cup {e \in Enqueues : at[e] \in InFlight}
  /\ UNCHANGED <<ready, idem, pending, dead, at, attempts, faulted>>

Proceed(e) ==
  \/ Decide(e) \/ Push(e)
  \/ HandlerSucceeds(e) \/ HandlerThrows(e)
  \/ Remove(e) \/ DeadLetterRemoves(e) \/ DeadLetterPushes(e)

Next ==
  \/ \E e \in Enqueues : Reserve(e) \/ ReserveDenied(e) \/ Proceed(e)
  \/ ConnectionChanges
  \/ Crash

(* Every promise of a call settles while the process lives.                 *)
Fairness == \A e \in Enqueues : WF_vars(Proceed(e))

Spec == Init /\ [][Next]_vars /\ Fairness

-----------------------------------------------------------------------------
(* Properties *)

TypeOK ==
  /\ ready \in BOOLEAN
  /\ idem \subseteq JobIds
  /\ pending \subseteq Enqueues /\ dead \subseteq Enqueues
  /\ at \in [Enqueues -> Locations]
  /\ attempts \in [Enqueues -> 0 .. MaxAttempts]
  /\ stopped \subseteq Enqueues
  /\ faulted \in BOOLEAN

(* The job of a call has got past the duplicate check.                      *)
Taken(e) == at[e] \notin {"new", "denied", "skipped"}

(* As long as Redis has answered, one job id is taken by one call: an event *)
(* that is delivered twice, or again after a crash, has its side effect run *)
(* by one call only, and a call only skips a job that another has taken.    *)
OneCallPerJob ==
  ~faulted => \A e \in Enqueues :
    /\ \A f \in Enqueues : Taken(e) /\ Taken(f) /\ JobId[e] = JobId[f] => e = f
    /\ at[e] = "skipped" => \E f \in Enqueues : JobId[f] = JobId[e] /\ Taken(f)

(* As long as Redis has answered, a job whose processing is not over is in  *)
(* the pending list, also when a crash stopped it, and one that was given   *)
(* up is in the dead-letter list; between the two commands of deadLetter it *)
(* is in neither.                                                           *)
NothingVanishes ==
  ~faulted =>
    \A e \in Enqueues :
      /\ at[e] \in {"handle", "remove", "deadRemove", "accepted"} <=> e \in pending
      /\ at[e] = "dead" <=> e \in dead

(* Every job whose call went past its check is handled or given up, unless  *)
(* the process dies; Redis has no say in it.                                *)
EveryJobIsProcessed ==
  \A e \in Enqueues : at[e] = "push" ~> (at[e] \in {"handled", "dead"} \/ e \in stopped)
=============================================================================
