------------------------- MODULE NotificationsProofs -------------------------
(***************************************************************************)
(* For any number of calls, job ids, attempts, users and polls:            *)
(* QueueService keeps its types whatever Redis does, and as long as Redis  *)
(* answers gives a job id to one call only, skips only what another call   *)
(* has taken and keeps every unfinished job in a list.  What it runs here, *)
(* the handler of the notifications, keeps the types of its rows and of    *)
(* the bell, and tells every user of an event once.                        *)
(***************************************************************************)
EXTENDS Notifications, FiniteSetTheorems, TLAPS

-----------------------------------------------------------------------------
(* The queue *)

(* Redis answers: the key of a job id is there from the moment a call takes *)
(* the job, and whoever is turned away was turned away by such a call.      *)
KeysAreTaken ==
  ~faulted =>
    /\ ready = TRUE
    /\ \A e \in Enqueues : Taken(e) => JobId[e] \in idem
    /\ \A j \in idem : \E f \in Enqueues : JobId[f] = j /\ Taken(f)
    /\ \A e \in Enqueues : at[e] = "denied" => JobId[e] \in idem

QueueIInv == TypeOK /\ KeysAreTaken /\ OneCallPerJob /\ NothingVanishes

LEMMA InitQueueIInv == Init => QueueIInv
<1> SUFFICES ASSUME Init PROVE QueueIInv
  OBVIOUS
<1>1. at \in [Enqueues -> Locations]
  BY DEF Init, Locations
<1>2. attempts \in [Enqueues -> 0 .. MaxAttempts]
  BY MaxAttemptsAssumption DEF Init
<1>3. TypeOK
  BY <1>1, <1>2, RedisFaultsAssumption DEF Init, TypeOK
<1>4. \A e \in Enqueues : at[e] = "new"
  BY DEF Init
<1>5. KeysAreTaken /\ OneCallPerJob
  BY <1>4, RedisFaultsAssumption DEF Init, KeysAreTaken, OneCallPerJob, Taken
<1>6. NothingVanishes
  BY <1>4 DEF Init, NothingVanishes
<1> QED
  BY <1>3, <1>5, <1>6 DEF QueueIInv

(* Every step keeps the types.                                              *)
LEMMA StepKeepsTypes ==
  ASSUME TypeOK, [Next]_vars
  PROVE  TypeOK'
<1> USE MaxAttemptsAssumption DEF TypeOK, Locations, InFlight, Ended, IsAt, Move, Commanded, Faults
<1>1. ASSUME NEW e \in Enqueues, Reserve(e) \/ ReserveDenied(e) PROVE TypeOK'
  BY <1>1 DEF Reserve, ReserveDenied, JobIds
<1>2. ASSUME NEW e \in Enqueues, Decide(e) PROVE TypeOK'
  BY <1>2 DEF Decide
<1>3. ASSUME NEW e \in Enqueues, Push(e) PROVE TypeOK'
  BY <1>3 DEF Push
<1>4. ASSUME NEW e \in Enqueues, HandlerSucceeds(e) \/ HandlerThrows(e) PROVE TypeOK'
  BY <1>4 DEF HandlerSucceeds, HandlerThrows
<1>5. ASSUME NEW e \in Enqueues, Remove(e) \/ DeadLetterRemoves(e) \/ DeadLetterPushes(e) PROVE TypeOK'
  BY <1>5 DEF Remove, DeadLetterRemoves, DeadLetterPushes
<1>6. CASE ConnectionChanges \/ Crash \/ UNCHANGED vars
  BY <1>6 DEF ConnectionChanges, Crash, vars
<1> QED
  BY <1>1, <1>2, <1>3, <1>4, <1>5, <1>6 DEF Next, Proceed

(* Taking a job, or being turned away from it, with a Redis that answers.   *)
LEMMA ReservingPreserves ==
  ASSUME QueueIInv, ~faulted', NEW e \in Enqueues, Reserve(e) \/ ReserveDenied(e) \/ Decide(e)
  PROVE  (KeysAreTaken /\ OneCallPerJob /\ NothingVanishes)'
<1> USE DEF QueueIInv, TypeOK, IsAt, Move, Taken, Faults
<1>1. CASE Reserve(e)
  <2>1. (\A f \in Enqueues : Taken(f)' <=> (Taken(f) \/ f = e)) /\ ~Taken(e)
    BY <1>1 DEF Reserve
  <2>2. KeysAreTaken'
    BY <1>1, <2>1 DEF Reserve, KeysAreTaken
  <2>3. OneCallPerJob'
    <3>1. ~faulted /\ \A f \in Enqueues : Taken(f) => JobId[f] # JobId[e]
      BY <1>1 DEF Reserve, KeysAreTaken
    <3> QED
      BY <1>1, <2>1, <3>1 DEF Reserve, OneCallPerJob
  <2>4. NothingVanishes'
    BY <1>1 DEF Reserve, NothingVanishes
  <2> QED
    BY <2>2, <2>3, <2>4
<1>2. CASE ReserveDenied(e)
  <2>1. \A f \in Enqueues : Taken(f)' <=> Taken(f)
    BY <1>2 DEF ReserveDenied
  <2>2. KeysAreTaken'
    BY <1>2, <2>1 DEF ReserveDenied, KeysAreTaken
  <2>3. OneCallPerJob' /\ NothingVanishes'
    BY <1>2, <2>1 DEF ReserveDenied, OneCallPerJob, NothingVanishes
  <2> QED
    BY <2>2, <2>3
<1>3. CASE Decide(e)
  <2>1. at' = [at EXCEPT ![e] = "skipped"] /\ at[e] = "denied" /\ UNCHANGED <<ready, idem, pending, dead, faulted>>
    BY <1>3 DEF Decide, KeysAreTaken
  <2>2. \A f \in Enqueues : Taken(f)' <=> Taken(f)
    BY <2>1
  <2>3. KeysAreTaken'
    BY <2>1, <2>2 DEF KeysAreTaken
  <2>4. NothingVanishes'
    BY <2>1, <2>2 DEF NothingVanishes
  <2>5. OneCallPerJob'
    <3>1. \E f \in Enqueues : JobId[f] = JobId[e] /\ Taken(f)
      BY <2>1 DEF KeysAreTaken
    <3> QED
      BY <2>1, <2>2, <3>1 DEF OneCallPerJob
  <2> QED
    BY <2>3, <2>4, <2>5
<1> QED
  BY <1>1, <1>2, <1>3

(* What a call does with a job it has taken.                                *)
LEMMA ProcessingPreserves ==
  ASSUME QueueIInv, ~faulted', NEW e \in Enqueues,
         \/ Push(e) \/ HandlerSucceeds(e) \/ HandlerThrows(e)
         \/ Remove(e) \/ DeadLetterRemoves(e) \/ DeadLetterPushes(e)
  PROVE  (KeysAreTaken /\ OneCallPerJob /\ NothingVanishes)'
<1> USE DEF QueueIInv, TypeOK, IsAt, Move, Commanded, Faults
<1>1. /\ \A f \in Enqueues : Taken(f)' <=> Taken(f)
      /\ \A f \in Enqueues : at'[f] \in {"denied", "skipped"} => at'[f] = at[f]
      /\ UNCHANGED <<ready, idem, faulted>>
  BY DEF Taken, Push, HandlerSucceeds, HandlerThrows, Remove, DeadLetterRemoves, DeadLetterPushes
<1>2. KeysAreTaken' /\ OneCallPerJob'
  BY <1>1 DEF KeysAreTaken, OneCallPerJob
<1>3. NothingVanishes'
  <2>1. CASE Push(e)
    BY <2>1 DEF Push, NothingVanishes
  <2>2. CASE HandlerSucceeds(e) \/ HandlerThrows(e)
    BY <2>2 DEF HandlerSucceeds, HandlerThrows, NothingVanishes
  <2>3. CASE Remove(e) \/ DeadLetterRemoves(e)
    BY <2>3 DEF Remove, DeadLetterRemoves, NothingVanishes
  <2>4. CASE DeadLetterPushes(e)
    BY <2>4 DEF DeadLetterPushes, NothingVanishes
  <2> QED
    BY <2>1, <2>2, <2>3, <2>4
<1> QED
  BY <1>2, <1>3

LEMMA QueueIInvPreserved ==
  ASSUME QueueIInv, [Next]_vars
  PROVE  QueueIInv'
<1>1. TypeOK'
  BY StepKeepsTypes DEF QueueIInv
<1>2. CASE faulted'
  BY <1>1, <1>2 DEF QueueIInv, KeysAreTaken, OneCallPerJob, NothingVanishes
<1>3. CASE ~faulted'
  <2>1. CASE \E e \in Enqueues : Reserve(e) \/ ReserveDenied(e) \/ Proceed(e)
    BY <1>1, <1>3, <2>1, ReservingPreserves, ProcessingPreserves DEF QueueIInv, Proceed
  <2>2. CASE Crash \/ UNCHANGED vars
    BY <1>1, <2>2 DEF Crash, vars, QueueIInv, KeysAreTaken, OneCallPerJob, Taken, NothingVanishes
  <2> QED
    BY <1>3, <2>1, <2>2 DEF Next, ConnectionChanges, Faults
<1> QED
  BY <1>2, <1>3

-----------------------------------------------------------------------------
(* The notifications *)

(* A step of the notifications is a step of the queue or leaves it alone.   *)
LEMMA QueueSteps ==
  ASSUME happen \subseteq Enqueues, [NoteNext]_allVars
  PROVE  [Next]_vars
<1>1. ASSUME NEW e \in happen, Notify(e) \/ NotifyFails(e) PROVE Next
  BY <1>1 DEF Notify, NotifyFails, Next, Proceed
<1>2. ASSUME QueueWorks PROVE Next
  BY <1>2 DEF QueueWorks, Next, Proceed
<1>3. ASSUME ~(\E e \in happen : Notify(e) \/ NotifyFails(e)), ~QueueWorks PROVE UNCHANGED vars
  BY <1>3 DEF NoteNext, MarkRead, MarkAllRead, Poll, Hear, PollFails, Heard, allVars, queueVars, vars
<1> QED
  BY <1>1, <1>2, <1>3

(* The rows of an event whose handler never threw after it had written are  *)
(* those of its one attempt that resolved; and once an attempt has          *)
(* resolved, each recipient has a row.                                      *)
RowsOfOneAttempt ==
  \A n \in rows : n.event \notin relapsed =>
    at[n.event] \in {"remove", "handled"} /\ attempts[n.event] = n.attempt + 1

EveryoneIsTold ==
  \A e \in happen : at[e] \in {"remove", "handled"} =>
    \A u \in Recipients[e] : \E n \in rows : n.event = e /\ n.user = u

(* A poll that is not outdated has counted what is unread now.              *)
PollsCountRight == \A p \in Polls : polling[p] # NoPoll /\ p \notin outdated => polling[p] = Unread

NoteIInv ==
  /\ QueueIInv /\ NoteTypeOK
  /\ happen \subseteq Enqueues /\ IsFiniteSet(rows)
  /\ polling \in [Polls -> Nat \cup {NoPoll}]
  /\ RowsOfOneAttempt /\ EveryoneIsTold
  /\ PollsCountRight /\ BellIsCurrent

(* What an attempt writes.                                                  *)
LEMMA WrittenRows ==
  ASSUME NEW e \in Enqueues
  PROVE  /\ IsFiniteSet(Written(e))
         /\ \A n \in Written(e) :
              /\ n.event = e /\ n.attempt = attempts[e] /\ n.user \in Recipients[e]
              /\ \A E, A : e \in E /\ attempts[e] \in A => n \in [event : E, attempt : A, user : Users]
         /\ \A u \in Recipients[e] : \E n \in Written(e) : n.event = e /\ n.user = u
<1> DEFINE row(u) == [event |-> e, attempt |-> attempts[e], user |-> u]
           f == [u \in Recipients[e] |-> row(u)]
<1>1. Recipients[e] \subseteq Users /\ IsFiniteSet(Recipients[e])
  BY RecipientsAssumption, FS_Subset
<1>2. f \in Surjection(Recipients[e], Written(e))
  BY DEF Written, Surjection
<1>3. IsFiniteSet(Written(e))
  BY <1>1, <1>2, FS_Surjection
<1>4. ASSUME NEW n \in Written(e)
      PROVE  /\ n.event = e /\ n.attempt = attempts[e] /\ n.user \in Recipients[e]
             /\ \A E, A : e \in E /\ attempts[e] \in A => n \in [event : E, attempt : A, user : Users]
  <2>1. PICK u \in Recipients[e] : n = row(u)
    BY DEF Written
  <2> QED
    BY <1>1, <2>1
<1>5. ASSUME NEW u \in Recipients[e] PROVE \E n \in Written(e) : n.event = e /\ n.user = u
  <2>1. row(u) \in Written(e)
    BY DEF Written
  <2>2. row(u).event = e /\ row(u).user = u
    OBVIOUS
  <2> QED
    BY <2>1, <2>2
<1> QED
  BY <1>3, <1>4, <1>5

LEMMA UnreadIsNumber == ASSUME IsFiniteSet(rows) PROVE Unread \in Nat
<1>1. NotificationsOf(Reader) \ read \subseteq rows
  BY DEF NotificationsOf
<1>2. IsFiniteSet(NotificationsOf(Reader) \ read)
  BY <1>1, FS_Subset
<1> QED
  BY <1>2, FS_CardinalityType DEF Unread

(* Rows of an event are news for the reader where it names him.             *)
LEMMA WritingKeepsTheBell ==
  ASSUME NEW e \in Enqueues, rows' = rows \cup Written(e), read' = read, NewsIf(Reader \in Recipients[e]),
         PollsCountRight, BellIsCurrent
  PROVE  PollsCountRight' /\ BellIsCurrent'
<1>1. ASSUME Reader \notin Recipients[e] PROVE Unread' = Unread
  <2>1. \A n \in Written(e) : n.user # Reader
    BY <1>1, WrittenRows
  <2>2. NotificationsOf(Reader)' = NotificationsOf(Reader)
    BY <2>1 DEF NotificationsOf
  <2> QED
    BY <2>2 DEF Unread
<1>2. CASE Reader \in Recipients[e]
  BY <1>2 DEF NewsIf, PollsCountRight, BellIsCurrent
<1>3. CASE Reader \notin Recipients[e]
  BY <1>1, <1>3 DEF NewsIf, PollsCountRight, BellIsCurrent
<1> QED
  BY <1>2, <1>3

LEMMA InitNoteIInv == NoteInit => NoteIInv
<1> SUFFICES ASSUME NoteInit PROVE NoteIInv
  OBVIOUS
<1>1. QueueIInv /\ TypeOK
  BY InitQueueIInv DEF NoteInit, QueueIInv
<1>2. happen \subseteq Enqueues /\ rows = {} /\ read = {} /\ IsFiniteSet(rows)
  BY RecipientsAssumption, FS_EmptySet DEF NoteInit
<1>3. polling \in [Polls -> Nat \cup {NoPoll}] /\ bell \in Nat
  BY DEF NoteInit
<1>4. NoteTypeOK
  BY <1>1, <1>2, <1>3 DEF NoteTypeOK, NotificationsOf
<1>5. \A e \in happen : at[e] = "new"
  BY <1>2 DEF NoteInit, Init
<1>6. PollsCountRight /\ BellIsCurrent
  <2>1. NotificationsOf(Reader) \ read = {}
    BY <1>2 DEF NotificationsOf
  <2> QED
    BY <2>1, FS_EmptySet DEF NoteInit, PollsCountRight, BellIsCurrent, Unread
<1> QED
  BY <1>1, <1>2, <1>3, <1>4, <1>5, <1>6 DEF NoteIInv, RowsOfOneAttempt, EveryoneIsTold

(* A resolving attempt writes the rows of its event.                        *)
LEMMA NotifyPreserves ==
  ASSUME NoteIInv, NEW e \in happen, Notify(e), QueueIInv'
  PROVE  NoteIInv'
<1> USE DEF NoteIInv, NoteTypeOK
<1>0. /\ e \in Enqueues /\ attempts[e] \in 0 .. MaxAttempts
      /\ at[e] = "handle" /\ at' = [at EXCEPT ![e] = "remove"]
      /\ attempts' = [attempts EXCEPT ![e] = @ + 1]
      /\ rows' = rows \cup Written(e) /\ UNCHANGED <<happen, read, polling, bell, relapsed>>
      /\ NewsIf(Reader \in Recipients[e])
      /\ at \in [Enqueues -> Locations] /\ attempts \in [Enqueues -> 0 .. MaxAttempts]
  BY DEF Notify, NewsIf, HandlerSucceeds, IsAt, Move, TypeOK
<1>1. rows' \subseteq [event : happen, attempt : 0 .. MaxAttempts, user : Users]
  BY <1>0, WrittenRows
<1>2. IsFiniteSet(rows')
  BY <1>0, WrittenRows, FS_Union
<1>3. NoteTypeOK'
  BY <1>0, <1>1 DEF NotificationsOf, QueueIInv
<1>4. RowsOfOneAttempt'
  <2>1. \A n \in Written(e) : n.event = e /\ n.attempt = attempts[e]
    BY <1>0, WrittenRows
  <2>2. \A n \in rows : n.event \in Enqueues /\ (n.event \notin relapsed => n.event # e)
    BY <1>0 DEF RowsOfOneAttempt
  <2>3. ASSUME NEW n \in Written(e) PROVE at'[n.event] = "remove" /\ attempts'[n.event] = n.attempt + 1
    BY <1>0, <2>1
  <2>4. ASSUME NEW n \in rows, n.event \notin relapsed
        PROVE  at'[n.event] \in {"remove", "handled"} /\ attempts'[n.event] = n.attempt + 1
    BY <1>0, <2>2, <2>4 DEF RowsOfOneAttempt
  <2> QED
    BY <1>0, <2>3, <2>4 DEF RowsOfOneAttempt
<1>5. EveryoneIsTold'
  <2>1. \A u \in Recipients[e] : \E n \in Written(e) : n.event = e /\ n.user = u
    BY <1>0, WrittenRows
  <2>2. \A f \in happen \ {e} : at'[f] = at[f]
    BY <1>0
  <2> QED
    BY <1>0, <2>1, <2>2 DEF EveryoneIsTold
<1>6. PollsCountRight' /\ BellIsCurrent'
  BY <1>0, WritingKeepsTheBell
<1> QED
  BY <1>0, <1>1, <1>2, <1>3, <1>4, <1>5, <1>6

(* A throwing attempt may have written too; then its event has relapsed.    *)
LEMMA NotifyFailsPreserves ==
  ASSUME NoteIInv, NEW e \in happen, NotifyFails(e), QueueIInv'
  PROVE  NoteIInv'
<1> USE DEF NoteIInv, NoteTypeOK
<1>0. /\ e \in Enqueues /\ attempts[e] \in 0 .. MaxAttempts
      /\ at[e] = "handle" /\ at' = [at EXCEPT ![e] = at'[e]] /\ at'[e] \in {"handle", "deadRemove"}
      /\ attempts' = [attempts EXCEPT ![e] = @ + 1]
      /\ rows' \in {rows, rows \cup Written(e)} /\ relapsed \subseteq relapsed'
      /\ (rows' # rows => e \in relapsed') /\ UNCHANGED <<happen, read, polling, bell>>
      /\ \/ UNCHANGED <<rows, bellVars>>
         \/ rows' = rows \cup Written(e) /\ NewsIf(Reader \in Recipients[e])
      /\ at \in [Enqueues -> Locations] /\ attempts \in [Enqueues -> 0 .. MaxAttempts]
  BY DEF NotifyFails, NewsIf, bellVars, HandlerThrows, IsAt, Move, TypeOK
<1>1. rows' \subseteq [event : happen, attempt : 0 .. MaxAttempts, user : Users] /\ rows \subseteq rows'
  BY <1>0, WrittenRows
<1>2. IsFiniteSet(rows')
  <2>1. IsFiniteSet(rows \cup Written(e))
    BY <1>0, WrittenRows, FS_Union
  <2> QED
    BY <1>0, <2>1
<1>3. NoteTypeOK'
  BY <1>0, <1>1 DEF NotificationsOf, QueueIInv
<1>4. RowsOfOneAttempt'
  <2>1. ASSUME NEW n \in rows', n.event \notin relapsed' PROVE n \in rows /\ n.event \in Enqueues \ {e}
    <3>1. n \in rows \/ e \in relapsed'
      BY <1>0, <2>1
    <3>2. n \in rows \/ n.event = e
      BY <1>0, <2>1, WrittenRows
    <3>3. n \in rows
      BY <2>1, <3>1, <3>2
    <3> QED
      BY <1>0, <2>1, <3>3 DEF RowsOfOneAttempt
  <2>2. \A f \in Enqueues \ {e} : at'[f] = at[f] /\ attempts'[f] = attempts[f]
    BY <1>0
  <2> QED
    BY <1>0, <2>1, <2>2 DEF RowsOfOneAttempt
<1>5. EveryoneIsTold'
  <2>1. \A f \in happen \ {e} : at'[f] = at[f]
    BY <1>0
  <2> QED
    BY <1>0, <1>1, <2>1 DEF EveryoneIsTold
<1>6. PollsCountRight' /\ BellIsCurrent'
  <2>1. CASE UNCHANGED <<rows, bellVars>>
    BY <1>0, <2>1 DEF bellVars, PollsCountRight, BellIsCurrent, Unread, NotificationsOf
  <2>2. CASE rows' = rows \cup Written(e) /\ NewsIf(Reader \in Recipients[e])
    BY <1>0, <2>2, WritingKeepsTheBell
  <2> QED
    BY <1>0, <2>1, <2>2
<1> QED
  BY <1>0, <1>1, <1>2, <1>3, <1>4, <1>5, <1>6

(* What the queue does besides leaves the outcome of every handler.         *)
LEMMA QueueWorksPreserves ==
  ASSUME NoteIInv, QueueWorks, QueueIInv'
  PROVE  NoteIInv'
<1> USE DEF NoteIInv, NoteTypeOK
<1>0. UNCHANGED <<happen, rows, read, polling, bell, relapsed, outdated, behind>> /\ at \in [Enqueues -> Locations]
  BY DEF QueueWorks, noteVars, bellVars, TypeOK
<1>1. /\ UNCHANGED attempts
      /\ \A e \in Enqueues : at'[e] \in {"remove", "handled"} <=> at[e] \in {"remove", "handled"}
  BY <1>0 DEF QueueWorks, Reserve, ReserveDenied, Decide, Push, Remove, DeadLetterRemoves,
     DeadLetterPushes, ConnectionChanges, Crash, IsAt, Move
<1>2. NoteTypeOK'
  BY <1>0 DEF NotificationsOf, QueueIInv
<1>3. RowsOfOneAttempt' /\ EveryoneIsTold'
  BY <1>0, <1>1 DEF RowsOfOneAttempt, EveryoneIsTold
<1>4. PollsCountRight' /\ BellIsCurrent'
  BY <1>0 DEF PollsCountRight, BellIsCurrent, Unread, NotificationsOf
<1> QED
  BY <1>0, <1>2, <1>3, <1>4

(* The member reads and the bell polls.                                     *)
LEMMA ReadingPreserves ==
  ASSUME NoteIInv, QueueIInv',
         \/ \E n \in rows : MarkRead(n)
         \/ MarkAllRead \/ UNCHANGED allVars
         \/ \E p \in Polls : Poll(p) \/ Hear(p) \/ PollFails(p)
  PROVE  NoteIInv'
<1> USE DEF NoteIInv, NoteTypeOK
<1>0. UNCHANGED <<happen, rows, relapsed, at, attempts>>
  BY DEF MarkRead, MarkAllRead, NewsIf, Poll, Hear, PollFails, Heard, allVars, noteVars, bellVars, queueVars
<1>1. read' \subseteq NotificationsOf(Reader)'
  BY <1>0 DEF MarkRead, MarkAllRead, NewsIf, Poll, Hear, PollFails, Heard, allVars, noteVars, bellVars, NotificationsOf
<1>2. polling' \in [Polls -> Nat \cup {NoPoll}] /\ bell' \in Nat
  BY UnreadIsNumber DEF MarkRead, MarkAllRead, NewsIf, Poll, Hear, PollFails, Heard, allVars, noteVars, bellVars
<1>3. NoteTypeOK'
  BY <1>0, <1>1, <1>2 DEF QueueIInv
<1>4. RowsOfOneAttempt' /\ EveryoneIsTold'
  BY <1>0 DEF RowsOfOneAttempt, EveryoneIsTold
<1>5. PollsCountRight' /\ BellIsCurrent'
  <2>1. ASSUME (\E n \in rows : MarkRead(n)) \/ MarkAllRead PROVE PollsCountRight' /\ BellIsCurrent'
    BY <2>1 DEF MarkRead, MarkAllRead, NewsIf, PollsCountRight, BellIsCurrent
  <2>2. ASSUME UNCHANGED <<rows, read>> PROVE Unread' = Unread
    BY <2>2 DEF Unread, NotificationsOf
  <2>3. ASSUME NEW p \in Polls, Poll(p) PROVE PollsCountRight' /\ BellIsCurrent'
    BY <2>2, <2>3 DEF Poll, PollsCountRight, BellIsCurrent
  <2>4. ASSUME NEW p \in Polls, Hear(p) \/ PollFails(p) PROVE PollsCountRight' /\ BellIsCurrent'
    BY <2>2, <2>4 DEF Hear, PollFails, Heard, PollsCountRight, BellIsCurrent
  <2>5. CASE UNCHANGED allVars
    BY <2>2, <2>5 DEF allVars, noteVars, bellVars, PollsCountRight, BellIsCurrent
  <2> QED
    BY <2>1, <2>3, <2>4, <2>5
<1> QED
  BY <1>0, <1>2, <1>3, <1>4, <1>5

THEOREM NoteInvariance == NoteSpec => []NoteIInv
<1>1. NoteInit => NoteIInv
  BY InitNoteIInv
<1>2. NoteIInv /\ [NoteNext]_allVars => NoteIInv'
  <2> SUFFICES ASSUME NoteIInv, [NoteNext]_allVars PROVE NoteIInv'
    OBVIOUS
  <2>1. QueueIInv'
    BY QueueSteps, QueueIInvPreserved DEF NoteIInv
  <2> QED
    BY <2>1, NotifyPreserves, NotifyFailsPreserves, QueueWorksPreserves, ReadingPreserves DEF NoteNext
<1> QED
  BY <1>1, <1>2, PTL DEF NoteSpec

(* The rows are of events that happened and of users, those marked read are *)
(* the reader's own, and the bell shows a number, whatever fails.           *)
THEOREM NoteTypeCorrect == NoteSpec => []NoteTypeOK
  BY NoteInvariance, PTL DEF NoteIInv

(* With a Redis that answers, no job id is taken by two calls, and a call   *)
(* skips only what another has taken.                                       *)
THEOREM JobsHaveOneCall == NoteSpec => []OneCallPerJob
  BY NoteInvariance, PTL DEF NoteIInv, QueueIInv

(* With a Redis that answers, an unfinished job is in a list, as is one     *)
(* that was given up.                                                       *)
THEOREM JobsStayVisible == NoteSpec => []NothingVanishes
  BY NoteInvariance, PTL DEF NoteIInv, QueueIInv

(* The bell shows the number of the reader's unread notifications whenever  *)
(* the last poll it heard of counted after their last change, in whatever   *)
(* order the answers of any number of polls arrive.                         *)
THEOREM BellStaysCurrent == NoteSpec => []BellIsCurrent
  BY NoteInvariance, PTL DEF NoteIInv

(* With a Redis that answers, a user has one notification of a job id, but  *)
(* for a handler that failed after it had written; and once a handler has   *)
(* resolved, everyone the event names has his.                              *)
THEOREM NotifiedExactlyOnce == NoteSpec => []NotifiedOnce
<1>1. NoteIInv => NotifiedOnce
  <2> SUFFICES ASSUME NoteIInv PROVE NotifiedOnce
    OBVIOUS
  <2>1. ASSUME ~faulted, NEW n \in rows, NEW m \in rows, n.user = m.user,
               JobId[n.event] = JobId[m.event], {n.event, m.event} \cap relapsed = {}
        PROVE  n = m
    <3>1. /\ n.event \in Enqueues /\ m.event \in Enqueues
          /\ n \in [event : happen, attempt : 0 .. MaxAttempts, user : Users]
          /\ m \in [event : happen, attempt : 0 .. MaxAttempts, user : Users]
      BY DEF NoteIInv, NoteTypeOK
    <3>2. Taken(n.event) /\ Taken(m.event)
      BY <2>1 DEF NoteIInv, RowsOfOneAttempt, Taken
    <3>3. n.event = m.event
      BY <2>1, <3>1, <3>2 DEF NoteIInv, QueueIInv, OneCallPerJob
    <3>4. attempts[n.event] = n.attempt + 1 /\ attempts[m.event] = m.attempt + 1
      BY <2>1 DEF NoteIInv, RowsOfOneAttempt
    <3>5. n.attempt = m.attempt
      BY <3>1, <3>3, <3>4
    <3> QED
      BY <2>1, <3>1, <3>3, <3>5
  <2> QED
    BY <2>1 DEF NotifiedOnce, NoteIInv, EveryoneIsTold
<1> QED
  BY <1>1, NoteInvariance, PTL
=============================================================================
