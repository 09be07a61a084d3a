----------------------------- MODULE Notifications -----------------------------
(***************************************************************************)
(* In-app notifications (backend/src/modules/notifications): the events    *)
(* that NotificationsListener enqueues, the handler that SideEffectQueue   *)
(* runs and retries, the rows it writes, and a member who reads them, with *)
(* the bell that polls for the number he has not read                      *)
(* (frontend/hooks/useUnreadCount.ts).                                     *)
(*                                                                         *)
(* A call of enqueue is an event: one action of an admin emits one.  Order *)
(* events carry no user and so have no recipient.                          *)
(***************************************************************************)
EXTENDS SideEffectQueue, FiniteSets

CONSTANTS
  Recipients,   \* Recipients[e]: the users that event e names
  Users,
  Reader,       \* the user whose browser is modelled
  Events,       \* sets of events that happen in one behaviour
  Polls,        \* bound: polls of the bell in flight at once
  Watching,     \* those of them that are made in each of these behaviours
  NoPoll

ASSUME RecipientsAssumption ==
  /\ Recipients \in [Enqueues -> SUBSET Users] /\ Reader \in Users /\ IsFiniteSet(Users)
  /\ Events \subseteq SUBSET Enqueues /\ Watching \in [Events -> SUBSET Polls]

VARIABLES
  happen,   \* the events of this behaviour
  rows,     \* notifications: the event, the attempt of its handler, the user
  read,     \* those with is_read
  polling,  \* the bell's polls in flight, with the number the server answered
  bell,     \* the number on the bell
  relapsed, \* history: events whose handler threw after it had written
  outdated, \* history: polls in flight that counted before the last change
  behind    \* history: since the last change no answer was heard of a poll that
            \* counted after it, or the last poll heard of was outdated or failed

bellVars == <<polling, bell, outdated, behind>>
noteVars == <<happen, rows, read, relapsed, bellVars>>
queueVars == <<ready, idem, pending, dead, at, attempts, stopped, faulted>>

NotificationsOf(u) == {n \in rows : n.user = u}
Unread             == Cardinality(NotificationsOf(Reader) \ read)

NoteInit ==
  /\ Init
  /\ happen \in Events
  /\ rows = {} /\ read = {}
  /\ polling = [p \in Polls |-> NoPoll]
  /\ bell = 0
  /\ relapsed = {} /\ outdated = {} /\ behind = FALSE

-----------------------------------------------------------------------------
(* NotificationsListener *)

(* The reader's notifications change, or do not.                            *)
NewsIf(changed) ==
  /\ IF changed THEN outdated' = {p \in Polls : polling[p] # NoPoll} /\ behind' = TRUE
                ELSE UNCHANGED <<outdated, behind>>
  /\ UNCHANGED <<polling, bell>>

(* createForUsers: one createMany for each user once.  (Broken: it stops at *)
(* the first row.)                                                          *)
WrittenFirst(e) ==
  IF Recipients[e] = {} THEN {}
  ELSE {[event |-> e, attempt |-> attempts[e], user |-> CHOOSE u \in Recipients[e] : TRUE]}

Written(e) == {[event |-> e, attempt |-> attempts[e], user |-> u] : u \in Recipients[e]}

(* The handler resolves: the rows are there.                                *)
Notify(e) ==
  /\ HandlerSucceeds(e)
  /\ rows' = rows \cup Written(e)
  /\ NewsIf(Reader \in Recipients[e])
  /\ UNCHANGED <<happen, read, relapsed>>

(* The handler throws, before the rows are written or after, when only the  *)
(* database's answer is lost; the queue tries it again either way.          *)
NotifyFails(e) ==
  /\ HandlerThrows(e)
  /\ \/ UNCHANGED <<rows, relapsed, bellVars>>
     \/ /\ rows' = rows \cup Written(e) /\ relapsed' = relapsed \cup {e}
        /\ NewsIf(Reader \in Recipients[e])
  /\ UNCHANGED <<happen, read>>

(* The rest of the queue, which the notifications see nothing of.           *)
QueueWorks ==
  /\ \/ \E e \in happen :
          \/ Reserve(e) \/ ReserveDenied(e) \/ Decide(e) \/ Push(e)
          \/ Remove(e) \/ DeadLetterRemoves(e) \/ DeadLetterPushes(e)
     \/ ConnectionChanges
     \/ Crash
  /\ UNCHANGED noteVars

-----------------------------------------------------------------------------
(* NotificationsService, and the member *)

(* markRead: one UPDATE of a row of his that is not read.                   *)
MarkRead(n) ==
  /\ n \in NotificationsOf(Reader) \ read
  /\ read' = read \cup {n}
  /\ NewsIf(TRUE)
  /\ UNCHANGED <<happen, rows, relapsed, queueVars>>

(* markAllRead: one UPDATE of those there are.                              *)
MarkAllRead ==
  /\ Unread > 1
  /\ read' = read \cup NotificationsOf(Reader)
  /\ NewsIf(TRUE)
  /\ UNCHANGED <<happen, rows, relapsed, queueVars>>

(* useUnreadCount: every pollMs another request, whether or not the last    *)
(* one has been answered; the server counts as it answers.                  *)
Poll(p) ==
  /\ p \in Watching[happen] /\ polling[p] = NoPoll
  /\ polling' = [polling EXCEPT ![p] = Unread]
  /\ outdated' = outdated \ {p}
  /\ UNCHANGED <<happen, rows, read, bell, behind, relapsed, queueVars>>

(* The answer of poll p arrives, or the news that there is none.            *)
Heard(p, failed) ==
  /\ polling[p] # NoPoll
  /\ polling' = [polling EXCEPT ![p] = NoPoll]
  /\ behind' = (failed \/ p \in outdated)
  /\ UNCHANGED <<happen, rows, read, relapsed, outdated, queueVars>>

(* The number is shown, maybe after that of a later poll.  (Broken: a second*)
(* answer is no longer looked at.)                                          *)
HearFirst(p) == Heard(p, FALSE) /\ bell' = IF bell = 0 THEN polling[p] ELSE bell
Hear(p)      == Heard(p, FALSE) /\ bell' = polling[p]

(* A failed poll shows none.  (Broken: what is shown stays undefined.)      *)
PollFailsUnset(p) == Heard(p, TRUE) /\ bell' = NoPoll
PollFails(p)      == Heard(p, TRUE) /\ bell' = 0

-----------------------------------------------------------------------------
NoteNext ==
  \/ \E e \in happen : Notify(e) \/ NotifyFails(e)
  \/ QueueWorks
  \/ \E n \in rows : MarkRead(n)
  \/ MarkAllRead
  \/ \E p \in Polls : Poll(p) \/ Hear(p) \/ PollFails(p)

allVars == <<noteVars, queueVars>>

(* The queue's own fairness: every promise of a call settles.  The member   *)
(* and his polls owe nothing.                                               *)
NoteSpec == NoteInit /\ [][NoteNext]_allVars /\ Fairness

-----------------------------------------------------------------------------
(* Properties *)

NoteTypeOK ==
  /\ TypeOK
  /\ rows \subseteq [event : happen, attempt : 0 .. MaxAttempts, user : Users]
  /\ read \subseteq NotificationsOf(Reader)
  /\ \A p \in Polls : polling[p] = NoPoll \/ polling[p] \in Nat
  /\ bell \in Nat

(* A user hears once of what happened to him: two notifications of one job  *)
(* id take a handler that failed after it had written, or a Redis that did  *)
(* not answer; and everyone an event names has his when its job is done.    *)
NotifiedOnce ==
  /\ ~faulted => \A n, m \in rows :
       /\ n.user = m.user /\ JobId[n.event] = JobId[m.event]
       /\ {n.event, m.event} \cap relapsed = {}
       => n = m
  /\ \A e \in happen : at[e] \in {"remove", "handled"} =>
       \A u \in Recipients[e] : \E n \in rows : n.event = e /\ n.user = u

(* The bell shows what is not read, for as long as nothing changes, once an *)
(* answer was heard of a poll that counted after the last change: answers   *)
(* out of order are harmless but for one that counted before a change and   *)
(* arrives last, and a failed poll is made up for by the next one.          *)
BellIsCurrent == ~behind => bell = Unread
=============================================================================
