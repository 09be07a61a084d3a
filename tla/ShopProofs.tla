------------------------------ MODULE ShopProofs ------------------------------
(***************************************************************************)
(* The orders keep their promises for any requests, orders, products,      *)
(* readers and limit.  Every step of Shop is a step, or a stutter, of      *)
(* LockService, CacheAside and RateLimit, whose invariants are taken from  *)
(* their own proofs; the invariants of the orders rest on these.           *)
(***************************************************************************)
EXTENDS Shop, TLAPS

Redis == INSTANCE RedisClientsProofs WITH
  Calls <- Updates, Resources <- Orders, ResourceOf <- OrderOf, RedisFaults <- Faults,
  Writers     <- Updates \cup Edits,
  Keys        <- Views,
  Plan        <- [w \in Updates \cup Edits |-> IF w \in Updates THEN ListenersDelete ELSE CampaignDeletes],
  Queries     <- QueriesOf,
  Needs       <- NeedsOf,
  NullKeys    <- {"one"},
  Nothing     <- None,
  CacheFaults <- Faults,
  db          <- [q \in AllQueries |-> DbAnswer(q)],
  Requests <- Creates, LimitFaults <- Faults

LEMMA ComponentAssumptions ==
  /\ Redis!KeysAssumption
  /\ Redis!CallsAssumption
  /\ Redis!LimitAssumption
  BY RequestsAssumption, BoundsAssumption, FaultsAssumption
  DEF ListenersDelete, CampaignDeletes, Views, Redis!Commands, Redis!KeysAssumption,
      Redis!CallsAssumption, Redis!LimitAssumption

-----------------------------------------------------------------------------
(* The components as Shop and as their proofs name them *)

LEMMA SameCache ==
  /\ Cache!CacheInit <=> Redis!CacheInit
  /\ \A r : Cache!ReaderStep(r) <=> Redis!ReaderStep(r)
  /\ \A w : Cache!WriterStep(w) <=> Redis!WriterStep(w)
  /\ \A w : Cache!Write(w) <=> Redis!Write(w)
  /\ \A v : Cache!CacheExpires(v) <=> Redis!CacheExpires(v)
  /\ \A keys : Cache!Outdated(keys) <=> Redis!Outdated(keys)
  /\ Cache!CacheCrash <=> Redis!CacheCrash
  /\ Cache!CacheTypeOK <=> Redis!CacheTypeOK
  /\ Cache!CacheIsFresh <=> Redis!CacheIsFresh
<1> USE DEF Cache!Entry, Redis!Entry, Cache!Reader, Redis!Reader,
            Cache!NoAnswers, Redis!NoAnswers,
            Cache!InFlight, Redis!InFlight, Cache!Overtake, Redis!Overtake,
            Cache!Mark, Redis!Mark, Cache!FoundNothing, Redis!FoundNothing,
            Cache!Awaited, Redis!Awaited, Cache!With, Redis!With,
            Cache!AfterQuery, Redis!AfterQuery, Cache!Complete, Redis!Complete,
            Cache!Current, Redis!Current,
            Cache!Outdated, Redis!Outdated, Cache!Due, Redis!Due,
            Cache!Answered, Redis!Answered
<1>1. Cache!CacheInit <=> Redis!CacheInit
  BY DEF Cache!CacheInit, Redis!CacheInit
<1>2. \A r : Cache!ReaderStep(r) <=> Redis!ReaderStep(r)
  BY DEF Cache!ReaderStep, Cache!Hit, Cache!Miss, Cache!Compute, Cache!Store, Cache!StoreFails,
         Redis!ReaderStep, Redis!Hit, Redis!Miss, Redis!Compute,
         Redis!Store, Redis!StoreFails
<1>3. \A w : Cache!WriterStep(w) <=> Redis!WriterStep(w)
  BY DEF Cache!WriterStep, Cache!Scan, Cache!Del, Cache!CommandFails,
         Redis!WriterStep, Redis!Scan, Redis!Del, Redis!CommandFails
<1>4. \A w : Cache!Write(w) <=> Redis!Write(w)
  BY DEF Cache!Write, Redis!Write
<1>5. \A v : Cache!CacheExpires(v) <=> Redis!CacheExpires(v)
  BY DEF Cache!CacheExpires, Redis!CacheExpires
<1>6. \A keys : Cache!Outdated(keys) <=> Redis!Outdated(keys)
  OBVIOUS
<1>7. Cache!CacheCrash <=> Redis!CacheCrash
  BY DEF Cache!CacheCrash, Redis!CacheCrash, Cache!LostKeys, Redis!LostKeys
<1>8. Cache!CacheTypeOK <=> Redis!CacheTypeOK
  BY DEF Cache!CacheTypeOK, Redis!CacheTypeOK, Cache!Commands, Redis!Commands
<1>9. Cache!CacheIsFresh <=> Redis!CacheIsFresh
  BY DEF Cache!CacheIsFresh, Redis!CacheIsFresh, Cache!Pending, Redis!Pending
<1> QED
  BY <1>1, <1>2, <1>3, <1>4, <1>5, <1>6, <1>7, <1>8, <1>9

LEMMA SameLock ==
  /\ Lock!LockInit <=> Redis!LockInit
  /\ \A u : Lock!Step(u) <=> Redis!Step(u)
  /\ \A o : Lock!Expire(o) <=> Redis!Expire(o)
  /\ Lock!ConnectionChanges <=> Redis!ConnectionChanges
  /\ Lock!Crash <=> Redis!Crash
  /\ Lock!TypeOK <=> Redis!TypeOK
  /\ Lock!MutualExclusion <=> Redis!MutualExclusion
  /\ Lock!NoLockIsLeftBehind <=> Redis!NoLockIsLeftBehind
<1> USE DEF Lock!InFn, Redis!InFn
<1>1. Lock!LockInit <=> Redis!LockInit
  BY DEF Lock!LockInit, Redis!LockInit
<1>2. \A u : Lock!Step(u) <=> Redis!Step(u)
  BY DEF Lock!Step, Lock!EnterUnlocked, Lock!AskForLock, Lock!Enter, Lock!Refuse,
         Lock!AcquireFails, Lock!Leave, Lock!Release, Lock!ReleaseFails,
         Redis!Step, Redis!EnterUnlocked, Redis!AskForLock, Redis!Enter,
         Redis!Refuse, Redis!AcquireFails, Redis!Leave, Redis!Release,
         Redis!ReleaseFails
<1>3. \A o : Lock!Expire(o) <=> Redis!Expire(o)
  BY DEF Lock!Expire, Redis!Expire
<1>4. Lock!ConnectionChanges <=> Redis!ConnectionChanges
  BY DEF Lock!ConnectionChanges, Redis!ConnectionChanges
<1>5. Lock!Crash <=> Redis!Crash
  BY DEF Lock!Crash, Redis!Crash
<1>6. Lock!TypeOK <=> Redis!TypeOK
  BY DEF Lock!TypeOK, Redis!TypeOK, Lock!Phases, Redis!Phases
<1>7. Lock!MutualExclusion <=> Redis!MutualExclusion
  BY DEF Lock!MutualExclusion, Redis!MutualExclusion
<1>8. Lock!NoLockIsLeftBehind <=> Redis!NoLockIsLeftBehind
  BY DEF Lock!NoLockIsLeftBehind, Redis!NoLockIsLeftBehind, Lock!CutOff, Redis!CutOff
<1> QED
  BY <1>1, <1>2, <1>3, <1>4, <1>5, <1>6, <1>7, <1>8

LEMMA SameGuard ==
  /\ Guard!LimitInit <=> Redis!LimitInit
  /\ \A c : Guard!GuardStep(c) <=> Redis!GuardStep(c)
  /\ Guard!WindowEnds <=> Redis!WindowEnds
  /\ Guard!MemoryWindowEnds <=> Redis!MemoryWindowEnds
  /\ Guard!LimitCrash <=> Redis!LimitCrash
  /\ Guard!LimitTypeOK <=> Redis!LimitTypeOK
  /\ Guard!LimitHolds <=> Redis!LimitHolds
  /\ Guard!EveryWindowEnds <=> Redis!EveryWindowEnds
<1> USE DEF Guard!Stores, Redis!Stores
<1>1. Guard!LimitInit <=> Redis!LimitInit
  BY DEF Guard!LimitInit, Redis!LimitInit
<1>2. \A c : Guard!GuardStep(c) <=> Redis!GuardStep(c)
  BY DEF Guard!GuardStep, Guard!Incr, Guard!SetTtl, Guard!IncrFails, Guard!SetTtlFails,
         Guard!CountInMemory, Guard!Decide, Guard!TooMany,
         Redis!GuardStep, Redis!Incr, Redis!SetTtl, Redis!IncrFails,
         Redis!SetTtlFails, Redis!CountInMemory, Redis!Decide, Redis!TooMany
<1>3. Guard!WindowEnds <=> Redis!WindowEnds
  BY DEF Guard!WindowEnds, Redis!WindowEnds
<1>4. Guard!MemoryWindowEnds <=> Redis!MemoryWindowEnds
  BY DEF Guard!MemoryWindowEnds, Redis!MemoryWindowEnds
<1>5. Guard!LimitCrash <=> Redis!LimitCrash
  BY DEF Guard!LimitCrash, Redis!LimitCrash
<1>6. Guard!LimitTypeOK <=> Redis!LimitTypeOK
  BY DEF Guard!LimitTypeOK, Redis!LimitTypeOK
<1>7. Guard!LimitHolds <=> Redis!LimitHolds
  BY DEF Guard!LimitHolds, Redis!LimitHolds
<1>8. Guard!EveryWindowEnds <=> Redis!EveryWindowEnds
  BY DEF Guard!EveryWindowEnds, Redis!EveryWindowEnds
<1> QED
  BY <1>1, <1>2, <1>3, <1>4, <1>5, <1>6, <1>7, <1>8

-----------------------------------------------------------------------------
(* The invariant *)

OrderTypeOK ==
  /\ status \in [Orders -> Statuses \cup {None}]
  /\ mail \in [Orders -> {"NOT_CONFIGURED", "SENT", "FAILED"}]
  /\ active \subseteq Products /\ open \in BOOLEAN /\ toggles \in 0..MaxToggles
  /\ stored \in [Headers -> Orders \cup {None}]
  /\ creating \in [Creates -> {"lookup", "check", "insert", "mail",
                               "done", "refused", "failed", "crashed"}]
  /\ answer \in [Creates -> Orders \cup {None}]
  /\ updating \in [Updates -> [at : {"find", "write", "end"}, from : Statuses \cup {None}]]
  /\ saving \subseteq Creates /\ careless \subseteq Creates

(* An order exists from its INSERT on, and every PATCH that is about to     *)
(* write has found it.                                                      *)
OrdersExist ==
  /\ \A c \in Creates : creating[c] \in {"lookup", "check", "insert", "refused"} => status[c] = None
  /\ \A u \in Updates : updating[u].at = "write" => status[OrderOf[u]] # None

(* A PATCH reads and writes inside the lock; what it read is still there as *)
(* long as nobody works on that order without one.                          *)
Guarded(o) == \A u \in Updates : OrderOf[u] = o => u \notin exposed

ReadsAreCurrent ==
  \A u \in Updates :
    /\ updating[u].at # "find" => phase[u] \notin {"new", "locking"}
    /\ updating[u].at = "write" /\ phase[u] = "inside" /\ Guarded(OrderOf[u]) =>
         /\ status[OrderOf[u]] = updating[u].from
         /\ isAllowedOrderTransition(updating[u].from, NewStatus[u])

(* An order has its POST still in progress, or its answer stored, or on its *)
(* way there; and one POST at most is working under a key.                  *)
Handled(c) == creating[c] \in {"check", "insert", "mail"} \/ status[c] # None

AnswersAreKept ==
  \A c \in Creates \ careless :
    IdemKey[c] # None /\ status[c] # None =>
      creating[c] = "mail" \/ c \in saving \/ stored[IdemKey[c]] # None

OneHandledPerKey ==
  \A c, d \in Creates \ careless :
    IdemKey[c] = IdemKey[d] /\ IdemKey[c] # None /\ Handled(c) /\ Handled(d) => c = d

SInv ==
  /\ OrderTypeOK /\ OrdersExist
  /\ moves = [o \in Orders |-> moves[o]]
  /\ ReadsAreCurrent /\ OrderFollowsTransitions
  /\ AnswersAreKept /\ OneHandledPerKey

Inv == Redis!LockIInv /\ Redis!CacheIInv /\ Redis!LimitIInv /\ SInv

LEMMA InitInv == Init => Inv
<1> SUFFICES ASSUME Init PROVE Inv
  OBVIOUS
<1>1. Redis!LockIInv /\ Redis!CacheIInv /\ Redis!LimitIInv
  BY ComponentAssumptions, SameLock, SameCache, SameGuard, Redis!LockInitIInv,
     Redis!CacheInitIInv, Redis!LimitInitIInv DEF Init
<1> USE RequestsAssumption, BoundsAssumption DEF Init, Orders
<1>2. OrderTypeOK
  BY DEF OrderTypeOK, Statuses
<1>3. OrdersExist /\ ReadsAreCurrent
  BY DEF OrdersExist, ReadsAreCurrent
<1>4. moves = [o \in Orders |-> moves[o]] /\ OrderFollowsTransitions
  BY DEF OrderFollowsTransitions
<1>5. AnswersAreKept /\ OneHandledPerKey
  BY DEF AnswersAreKept, OneHandledPerKey, Handled
<1> QED
  BY <1>1, <1>2, <1>3, <1>4, <1>5 DEF Inv, SInv

-----------------------------------------------------------------------------
(* Every step is one of each component's, or none                           *)

LEMMA LockSteps ==
  ASSUME [Next]_vars
  PROVE  [Redis!Next]_Redis!lockVars
<1> USE DEF Redis!lockVars, lockVars
<1>1. CASE \E c \in Creates : CreateStep(c)
  BY <1>1 DEF CreateStep, LookUp, Replay, CheckItems, Insert, Finish, FinishFails, SaveAnswer, KeepOthers
<1>2. CASE \E u \in Updates : Find(u) \/ WriteStatus(u)
  BY <1>2 DEF Find, WriteStatus
<1>3. CASE \E u \in Updates : LockStep(u)
  BY <1>3, SameLock DEF LockStep, Lock!Step, Redis!Next
<1>4. CASE LockKeysEnd
  BY <1>4, SameLock DEF LockKeysEnd, Redis!Next
<1>5. CASE ProcessDies
  BY <1>5, SameLock DEF ProcessDies, Redis!Next
<1>6. CASE (\E e \in Edits : EditCampaign(e)) \/ (\E p \in Products : ToggleProduct(p)) \/ CacheWorks \/ GuardWorks
  BY <1>6 DEF EditCampaign, ToggleProduct, CacheWorks, GuardWorks, KeepOrders
<1> QED
  BY <1>1, <1>2, <1>3, <1>4, <1>5, <1>6 DEF Next, vars

LEMMA GuardSteps ==
  ASSUME [Next]_vars
  PROVE  [Redis!LimitNext]_Redis!limitVars
<1> USE DEF Redis!limitVars, limitVars
<1>1. CASE \E c \in Creates : CreateStep(c)
  BY <1>1 DEF CreateStep, LookUp, Replay, CheckItems, Insert, Finish, FinishFails, SaveAnswer, KeepOthers
<1>2. CASE \E u \in Updates : Find(u) \/ WriteStatus(u) \/ LockStep(u)
  BY <1>2 DEF Find, WriteStatus, LockStep, KeepCreates
<1>3. CASE GuardWorks
  BY <1>3, SameGuard DEF GuardWorks, Redis!LimitNext
<1>4. CASE ProcessDies
  BY <1>4, SameGuard DEF ProcessDies, Redis!LimitNext
<1>5. CASE (\E e \in Edits : EditCampaign(e)) \/ (\E p \in Products : ToggleProduct(p)) \/ CacheWorks \/ LockKeysEnd
  BY <1>5 DEF EditCampaign, ToggleProduct, CacheWorks, LockKeysEnd, KeepOrders, KeepCreates
<1> QED
  BY <1>1, <1>2, <1>3, <1>4, <1>5 DEF Next, vars

(* What the views are computed from: a step that writes neither the orders  *)
(* nor the campaign changes no answer, a new order those of the dashboard   *)
(* only.                                                                    *)
LEMMA CacheSteps ==
  ASSUME OrderTypeOK, OrdersExist, [Next]_vars
  PROVE  [Redis!CacheNext]_<<[q \in AllQueries |-> DbAnswer(q)], Redis!cacheVars>>
<1> DEFINE db == [q \in AllQueries |-> DbAnswer(q)]
<1> USE DEF Redis!cacheVars, cacheVars
<1>0. ASSUME UNCHANGED <<status, open>> PROVE UNCHANGED db
  BY <1>0 DEF DbAnswer, Exists, Raised
<1>1. ASSUME NEW c \in Creates, LookUp(c) \/ Replay(c) \/ CheckItems(c) \/ FinishFails(c) \/ SaveAnswer(c)
      PROVE  UNCHANGED <<db, Redis!cacheVars>>
  BY <1>0, <1>1 DEF LookUp, Replay, CheckItems, FinishFails, SaveAnswer, orderVars
<1>2. ASSUME NEW c \in Creates, NEW result \in MailResults, Finish(c, result)
      PROVE  UNCHANGED <<db, Redis!cacheVars>>
  BY <1>0, <1>2 DEF Finish
<1>3. ASSUME NEW c \in Creates, Insert(c)
      PROVE  Redis!CacheNext
  <2>1. Redis!Outdated({"dashboard"}) /\ UNCHANGED wipe
    BY <1>3, SameCache DEF Insert
  <2>2. c \in Orders /\ status[c] = None
    BY <1>3 DEF Insert, Creating, OrdersExist, Orders
  <2>3. Raised' = Raised
    BY <1>3, <2>2, RequestsAssumption DEF Insert, Raised, Exists, OrderTypeOK, Statuses
  <2>4. db'["campaign"] = db["campaign"] /\ db'["progress"] = db["progress"]
    BY <1>3, <2>3 DEF Insert, DbAnswer, AllQueries
  <2>5. {"dashboard"} \in SUBSET Views
    BY DEF Views
  <2>6. Redis!UnchangedBut({"dashboard"})
    BY <2>4 DEF Redis!UnchangedBut, QueriesOf, Views
  <2> QED
    BY <2>1, <2>5, <2>6 DEF Redis!CacheNext
<1>4. ASSUME NEW u \in Updates, Find(u) \/ LockStep(u)
      PROVE  UNCHANGED <<db, Redis!cacheVars>>
  BY <1>0, <1>4 DEF Find, LockStep, KeepCreates
<1>5. ASSUME NEW u \in Updates, WriteStatus(u)
      PROVE  Redis!CacheNext
  <2>1. Redis!Write(u)
    BY <1>5, SameCache DEF WriteStatus
  <2>2. \A v \in Views : Redis!Covers(u, v)
    BY DEF Redis!Covers, ListenersDelete, Views
  <2>3. Redis!UnchangedBut({v \in Views : Redis!Covers(u, v)})
    BY <2>2 DEF Redis!UnchangedBut
  <2> QED
    BY <2>1, <2>3 DEF Redis!CacheNext
<1>6. ASSUME NEW e \in Edits, EditCampaign(e)
      PROVE  Redis!CacheNext
  <2>1. Redis!Write(e)
    BY <1>6, SameCache DEF EditCampaign
  <2>2. Redis!Covers(e, "list") /\ Redis!Covers(e, "one")
    BY DEF Redis!Covers, ListenersDelete, CampaignDeletes
  <2>3. db'["totals"] = db["totals"] /\ db'["breakdown"] = db["breakdown"]
    BY <1>6 DEF EditCampaign, DbAnswer, AllQueries, Exists, Raised
  <2>4. Redis!UnchangedBut({v \in Views : Redis!Covers(e, v)})
    BY <2>2, <2>3 DEF Redis!UnchangedBut, QueriesOf, Views
  <2> QED
    BY <2>1, <2>4 DEF Redis!CacheNext
<1>7. CASE CacheWorks
  <2>1. UNCHANGED db
    BY <1>0, <1>7 DEF CacheWorks, KeepOrders
  <2>2. Redis!CacheStep
    BY <1>7, SameCache DEF CacheWorks, Redis!CacheStep
  <2> QED
    BY <2>1, <2>2 DEF Redis!CacheNext
<1>8. CASE ProcessDies
  <2>1. UNCHANGED db
    BY <1>0, <1>8 DEF ProcessDies, orderVars
  <2> QED
    BY <1>8, <2>1, SameCache DEF ProcessDies, Redis!CacheNext
<1>9. CASE (\E p \in Products : ToggleProduct(p)) \/ GuardWorks \/ LockKeysEnd \/ UNCHANGED vars
  BY <1>0, <1>9 DEF ToggleProduct, GuardWorks, LockKeysEnd, KeepOrders, KeepCreates, orderVars, vars
<1> QED
  BY <1>1, <1>2, <1>3, <1>4, <1>5, <1>6, <1>7, <1>8, <1>9 DEF Next, CreateStep

-----------------------------------------------------------------------------
(* The orders *)

(* POST public/orders.                                                      *)
LEMMA CreatePreserves ==
  ASSUME SInv, NEW c \in Creates, CreateStep(c)
  PROVE  SInv'
<1> USE RequestsAssumption, MailAssumption DEF SInv, KeepOthers, Creating, To, Orders
<1>1. UNCHANGED <<updating, moves, exposed, phase>> /\ OrderFollowsTransitions'
  BY DEF CreateStep, LookUp, Replay, CheckItems, Insert, Finish, FinishFails, SaveAnswer,
         OrderFollowsTransitions, lockVars
<1>2. CASE LookUp(c)
  <2>1. OrderTypeOK' /\ OrdersExist'
    BY <1>2 DEF LookUp, orderVars, OrderTypeOK, OrdersExist
  <2>2. ReadsAreCurrent' /\ moves' = [o \in Orders |-> moves'[o]]
    BY <1>1, <1>2 DEF LookUp, orderVars, ReadsAreCurrent, Guarded
  <2>3. AnswersAreKept'
    BY <1>2 DEF LookUp, orderVars, OrderTypeOK, AnswersAreKept
  <2>4. c \notin careless' /\ IdemKey[c] # None => stored[IdemKey[c]] = None /\ ~Beside(c)
    BY <1>2 DEF LookUp
  <2>5. OneHandledPerKey'
    <3>1. ASSUME NEW d \in Creates \ careless', d # c, c \notin careless',
                 IdemKey[d] = IdemKey[c], IdemKey[c] # None, Handled(d)
          PROVE  FALSE
      <4>1. d \notin careless /\ d \notin Busy
        BY <1>2, <2>4, <3>1 DEF LookUp, Beside
      <4> QED
        BY <2>4, <3>1, <4>1 DEF Handled, Busy, AnswersAreKept
    <3>2. \A d \in Creates : d # c => Handled(d)' = Handled(d)
      BY <1>2 DEF LookUp, orderVars, OrderTypeOK, Handled
    <3>3. careless \subseteq careless'
      BY <1>2 DEF LookUp
    <3> QED
      BY <3>1, <3>2, <3>3 DEF OneHandledPerKey
  <2> QED
    BY <1>1, <2>1, <2>2, <2>3, <2>5
<1>3. CASE Replay(c) \/ CheckItems(c)
  <2>1. OrderTypeOK' /\ OrdersExist'
    BY <1>3 DEF Replay, CheckItems, orderVars, OrderTypeOK, OrdersExist, Headers
  <2>2. ReadsAreCurrent' /\ moves' = [o \in Orders |-> moves'[o]]
    BY <1>1, <1>3 DEF Replay, CheckItems, orderVars, ReadsAreCurrent, Guarded
  <2>3. AnswersAreKept' /\ OneHandledPerKey'
    BY <1>3 DEF Replay, CheckItems, orderVars, OrderTypeOK, AnswersAreKept, OneHandledPerKey, Handled
  <2> QED
    BY <1>1, <2>1, <2>2, <2>3
<1>4. CASE Insert(c)
  <2>1. status[c] = None
    BY <1>4 DEF Insert, OrdersExist
  <2>2. OrderTypeOK' /\ OrdersExist'
    BY <1>4 DEF Insert, OrderTypeOK, OrdersExist, Statuses
  <2>3. ReadsAreCurrent' /\ moves' = [o \in Orders |-> moves'[o]]
    BY <1>1, <1>4, <2>1 DEF Insert, OrderTypeOK, OrdersExist, ReadsAreCurrent, Guarded
  <2>4. AnswersAreKept' /\ OneHandledPerKey'
    BY <1>4 DEF Insert, OrderTypeOK, AnswersAreKept, OneHandledPerKey, Handled
  <2> QED
    BY <1>1, <2>2, <2>3, <2>4
<1>5. CASE (\E result \in MailResults : Finish(c, result)) \/ FinishFails(c)
  <2>1. OrderTypeOK' /\ OrdersExist'
    BY <1>5 DEF Finish, FinishFails, orderVars, OrderTypeOK, OrdersExist
  <2>2. ReadsAreCurrent' /\ moves' = [o \in Orders |-> moves'[o]]
    BY <1>1, <1>5 DEF Finish, FinishFails, orderVars, ReadsAreCurrent, Guarded
  <2>3. AnswersAreKept' /\ OneHandledPerKey'
    BY <1>5 DEF Finish, FinishFails, orderVars, OrderTypeOK, AnswersAreKept, OneHandledPerKey, Handled
  <2> QED
    BY <1>1, <2>1, <2>2, <2>3
<1>6. CASE SaveAnswer(c)
  <2>1. OrderTypeOK' /\ OrdersExist'
    BY <1>6 DEF SaveAnswer, orderVars, OrderTypeOK, OrdersExist
  <2>2. ReadsAreCurrent' /\ moves' = [o \in Orders |-> moves'[o]]
    BY <1>1, <1>6 DEF SaveAnswer, orderVars, ReadsAreCurrent, Guarded
  <2>3. AnswersAreKept' /\ OneHandledPerKey'
    BY <1>6 DEF SaveAnswer, orderVars, OrderTypeOK, Headers, AnswersAreKept, OneHandledPerKey, Handled
  <2> QED
    BY <1>1, <2>1, <2>2, <2>3
<1> QED
  BY <1>2, <1>3, <1>4, <1>5, <1>6 DEF CreateStep

(* PATCH admin/orders/:id: the read, and the write that finds what was read.*)
LEMMA FindPreserves ==
  ASSUME SInv, NEW u \in Updates, Find(u)
  PROVE  SInv'
<1> USE RequestsAssumption DEF SInv, Find, Updating, KeepCreates, idemVars
<1>1. OrderTypeOK' /\ OrdersExist'
  BY DEF OrderTypeOK, OrdersExist
<1>2. ReadsAreCurrent'
  BY DEF OrderTypeOK, ReadsAreCurrent, Guarded, lockVars
<1>3. OrderFollowsTransitions' /\ moves' = [o \in Orders |-> moves'[o]]
  BY DEF OrderFollowsTransitions, lockVars
<1>4. AnswersAreKept' /\ OneHandledPerKey'
  BY DEF AnswersAreKept, OneHandledPerKey, Handled
<1> QED
  BY <1>1, <1>2, <1>3, <1>4

LEMMA WritePreserves ==
  ASSUME SInv, Redis!LockIInv, NEW u \in Updates, WriteStatus(u)
  PROVE  SInv'
<1> USE RequestsAssumption DEF SInv, WriteStatus, Updating, KeepCreates, idemVars
<1> DEFINE o == OrderOf[u]
<1>1. o \in Orders /\ status[o] # None /\ NewStatus[u] # None /\ UNCHANGED <<phase, exposed>>
  BY DEF OrdersExist, lockVars
<1>2. OrderTypeOK' /\ OrdersExist'
  <2>1. status' \in [Orders -> Statuses \cup {None}]
    BY DEF OrderTypeOK
  <2>2. updating' \in [Updates -> [at : {"find", "write", "end"}, from : Statuses \cup {None}]]
    BY DEF OrderTypeOK
  <2>3. OrdersExist'
    BY <1>1 DEF OrderTypeOK, OrdersExist
  <2> QED
    BY <2>1, <2>2, <2>3 DEF OrderTypeOK
<1>3. ReadsAreCurrent'
  <2> SUFFICES ASSUME NEW v \in Updates, updating'[v].at = "write", phase[v] = "inside",
                      Guarded(OrderOf[v])
               PROVE  OrderOf[v] # o
    BY <1>1, <1>2 DEF OrderTypeOK, ReadsAreCurrent, Guarded
  <2>1. v # u
    BY DEF OrderTypeOK
  <2>2. Redis!MutualExclusion
    BY Redis!IInvExcludes, ComponentAssumptions
  <2> QED
    BY <2>1, <2>2 DEF Redis!MutualExclusion, Redis!InFn, Guarded
<1>4. OrderFollowsTransitions' /\ moves' = [p \in Orders |-> moves'[p]]
  <2>1. Guarded(o) => isAllowedOrderTransition(status[o], NewStatus[u])
    BY DEF ReadsAreCurrent
  <2>2. /\ moves'[o] = moves[o] \cup {<<status[o], NewStatus[u]>>}
        /\ \A p \in Orders : p # o => moves'[p] = moves[p]
    BY <1>1
  <2>3. OrderFollowsTransitions'
    BY <1>1, <2>1, <2>2 DEF OrderFollowsTransitions, Guarded, isAllowedOrderTransition
  <2> QED
    BY <2>3
<1>5. AnswersAreKept' /\ OneHandledPerKey'
  BY <1>1 DEF OrderTypeOK, AnswersAreKept, OneHandledPerKey, Handled
<1> QED
  BY <1>2, <1>3, <1>4, <1>5

(* withLock around them, and what Redis does to its keys.                   *)
LEMMA LockingPreserves ==
  ASSUME SInv, Redis!LockIInv, (\E u \in Updates : LockStep(u)) \/ LockKeysEnd
  PROVE  SInv'
<1> USE RequestsAssumption DEF SInv, LockStep, LockKeysEnd, KeepCreates, idemVars
<1>1. OrderTypeOK' /\ OrdersExist' /\ moves' = [o \in Orders |-> moves'[o]]
  BY DEF OrderTypeOK, OrdersExist
<1>2. exposed \subseteq exposed'
  BY DEF Lock!EnterUnlocked, Lock!AskForLock, Lock!Enter, Lock!Refuse, Lock!AcquireFails,
         Lock!Leave, Lock!Release, Lock!ReleaseFails, Lock!Expire, Lock!ConnectionChanges
<1>3. \A u \in Updates :
        /\ phase'[u] \in {"new", "locking"} => phase[u] \in {"new", "locking"}
        /\ phase'[u] = "inside" => phase[u] \in {"new", "locking", "inside"}
  BY DEF Lock!EnterUnlocked, Lock!AskForLock, Lock!Enter, Lock!Refuse, Lock!AcquireFails,
         Lock!Leave, Lock!Release, Lock!ReleaseFails, Lock!Expire, Lock!ConnectionChanges,
         Redis!LockIInv, Redis!TypeOK
<1>4. ReadsAreCurrent' /\ OrderFollowsTransitions'
  BY <1>2, <1>3 DEF ReadsAreCurrent, Guarded, OrderFollowsTransitions
<1>5. AnswersAreKept' /\ OneHandledPerKey'
  BY DEF AnswersAreKept, OneHandledPerKey, Handled
<1> QED
  BY <1>1, <1>4, <1>5

(* The rest: what the orders see nothing of, and the end of the process.    *)
LEMMA OthersPreserve ==
  ASSUME SInv,
         \/ (\E e \in Edits : EditCampaign(e)) \/ (\E p \in Products : ToggleProduct(p))
         \/ CacheWorks \/ GuardWorks \/ UNCHANGED vars
  PROVE  SInv'
<1> USE RequestsAssumption, BoundsAssumption
    DEF SInv, EditCampaign, ToggleProduct, CacheWorks, GuardWorks, KeepOrders, orderVars,
        idemVars, lockVars, vars
<1>1. active' \subseteq Products /\ open' \in BOOLEAN /\ toggles' \in 0..MaxToggles
  <2>1. active' \subseteq Products
    BY DEF OrderTypeOK
  <2>2. open' \in BOOLEAN
    BY DEF OrderTypeOK
  <2>3. toggles' \in 0..MaxToggles
    BY DEF OrderTypeOK
  <2> QED
    BY <2>1, <2>2, <2>3
<1>2. OrderTypeOK' /\ OrdersExist' /\ moves' = [o \in Orders |-> moves'[o]]
  BY <1>1 DEF OrderTypeOK, OrdersExist
<1>3. ReadsAreCurrent' /\ OrderFollowsTransitions'
  BY DEF ReadsAreCurrent, Guarded, OrderFollowsTransitions
<1>4. AnswersAreKept' /\ OneHandledPerKey'
  BY DEF AnswersAreKept, OneHandledPerKey, Handled
<1> QED
  BY <1>2, <1>3, <1>4

LEMMA DeathPreserves ==
  ASSUME SInv, ProcessDies
  PROVE  SInv'
<1> USE RequestsAssumption DEF SInv, ProcessDies, orderVars
<1>1. OrderTypeOK' /\ OrdersExist' /\ moves' = [o \in Orders |-> moves'[o]]
  BY DEF OrderTypeOK, OrdersExist, Unanswered
<1>2. exposed' = exposed /\ \A u \in Updates : phase'[u] \in {phase[u], "crashed"}
  BY DEF Lock!Crash, lockVars
<1>3. ReadsAreCurrent' /\ OrderFollowsTransitions'
  BY <1>2 DEF ReadsAreCurrent, Guarded, OrderFollowsTransitions
<1>4. \A c \in Creates : creating'[c] \in {creating[c], "crashed"}
  BY DEF OrderTypeOK
<1>5. \A c \in Creates \ careless' : c \notin careless /\ creating[c] # "mail" /\ c \notin saving
  BY DEF Unanswered
<1>6. AnswersAreKept' /\ OneHandledPerKey'
  BY <1>4, <1>5 DEF AnswersAreKept, OneHandledPerKey, Handled
<1> QED
  BY <1>1, <1>3, <1>6

LEMMA StepPreserves == Inv /\ [Next]_vars => Inv'
<1> SUFFICES ASSUME Inv, [Next]_vars PROVE Inv'
  OBVIOUS
<1>1. Redis!LockIInv'
  BY ComponentAssumptions, LockSteps, Redis!LockStepPreserves DEF Inv
<1>2. Redis!CacheIInv'
  BY ComponentAssumptions, CacheSteps, Redis!CacheStepPreserves DEF Inv, SInv
<1>3. Redis!LimitIInv'
  BY ComponentAssumptions, GuardSteps, Redis!LimitStepPreserves DEF Inv
<1>4. SInv'
  BY CreatePreserves, FindPreserves, WritePreserves, LockingPreserves, OthersPreserve, DeathPreserves
  DEF Inv, Next
<1> QED
  BY <1>1, <1>2, <1>3, <1>4 DEF Inv

LEMMA InvHolds == Spec => []Inv
  BY InitInv, StepPreserves, PTL DEF Spec

-----------------------------------------------------------------------------
(* What the checked properties promise, for any constants                   *)

(* Orders, requests, lock, cache and limit keep their types.                *)
THEOREM ShopTypeCorrect == Spec => []TypeOK
<1>1. Inv => TypeOK
  BY ComponentAssumptions, Redis!CacheIInvTyped, SameLock, SameCache, SameGuard
  DEF Inv, SInv, OrderTypeOK, TypeOK, Redis!LockIInv, Redis!LimitIInv
<1> QED
  BY <1>1, InvHolds, PTL

(* Two PATCH requests work on one order together only if one of them        *)
(* outlived its lock or entered without a token.                            *)
THEOREM OneUpdateAtATime == Spec => []MutualExclusion
<1>1. Inv => MutualExclusion
  BY ComponentAssumptions, SameLock, Redis!IInvExcludes DEF Inv, MutualExclusion
<1> QED
  BY <1>1, InvHolds, PTL

(* Only a PATCH that Redis did not answer, or that died, leaves its order   *)
(* locked.                                                                  *)
THEOREM OrdersAreNotLeftLocked == Spec => []NoLockIsLeftBehind
<1>1. Inv => NoLockIsLeftBehind
  BY SameLock, Redis!IInvLeavesNone DEF Inv, NoLockIsLeftBehind
<1> QED
  BY <1>1, InvHolds, PTL

(* An order whose requests all kept their lock only makes allowed moves.    *)
THEOREM OrdersFollowTransitions == Spec => []OrderFollowsTransitions
<1>1. Inv => OrderFollowsTransitions
  BY DEF Inv, SInv
<1> QED
  BY <1>1, InvHolds, PTL

(* One order for each Idempotency-Key, but for the cases the property names.*)
THEOREM KeysMakeOneOrder == Spec => []OneOrderPerKey
<1>1. Inv => OneOrderPerKey
  BY DEF Inv, SInv, OneHandledPerKey, Handled, OneOrderPerKey, Exists, Orders
<1> QED
  BY <1>1, InvHolds, PTL

(* A cached view that is not about to be deleted, and was not stored late,  *)
(* says what the orders and the campaign say.                               *)
THEOREM ViewsStayFresh == Spec => []ViewsAreFresh
<1>1. Inv => ViewsAreFresh
  BY ComponentAssumptions, SameCache, Redis!CacheIInvFresh DEF Inv, ViewsAreFresh
<1> QED
  BY <1>1, InvHolds, PTL

(* The limit on POST public/orders is kept, and its window ends.            *)
THEOREM TheLimitIsKept == Spec => []LimitIsKept
<1>1. Inv => LimitIsKept
  BY SameGuard DEF Inv, Redis!LimitIInv, LimitIsKept
<1> QED
  BY <1>1, InvHolds, PTL
=============================================================================
