-------------------------- MODULE RedisClientsProofs --------------------------
(***************************************************************************)
(* The three services that other modules are built on keep their promises, *)
(* for any constants and whatever Redis and the process do: withLock       *)
(* excludes, the cache says what the database says once its invalidations  *)
(* are through, and no window admits more than the limit.                  *)
(*                                                                         *)
(* They share no variable; ShopProofs and ActivityMatchingProofs take      *)
(* their invariants from here for the calls of their own.                  *)
(***************************************************************************)
EXTENDS LockService, CacheAside, RateLimit, TLAPS

-----------------------------------------------------------------------------
(* LockService: see OwnersKeepTheirKey for the exact promise.               *)

(* Whoever is in fn got there with a token, or is on record as exposed.     *)
HeldOrExposed == \A c \in Calls : InFn(c) => c \in held \/ c \in exposed

(* A key is the one its call asked for, and the call will release it or has *)
(* been cut off.                                                            *)
KeysHaveHolders ==
  \A r \in Resources : key[r] # NoToken =>
    ResourceOf[key[r]] = r /\ (key[r] \in held \/ CutOff(key[r]))

LockIInv == TypeOK /\ OwnersKeepTheirKey /\ HeldOrExposed /\ KeysHaveHolders

LEMMA LockInitIInv == ASSUME CallsAssumption PROVE LockInit => LockIInv
  BY DEF CallsAssumption, LockInit, LockIInv, TypeOK, Phases, OwnersKeepTheirKey, Owner, InFn, HeldOrExposed, KeysHaveHolders

(* Entering fn, with or without a token, and being refused.                 *)
LEMMA EnteringPreserves ==
  ASSUME CallsAssumption, LockIInv, NEW c \in Calls,
         EnterUnlocked(c) \/ AskForLock(c) \/ Enter(c) \/ Refuse(c) \/ AcquireFails(c)
  PROVE  LockIInv'
<1> USE DEF CallsAssumption, LockIInv, TypeOK, Phases, InFn
<1>1. TypeOK'
  BY DEF EnterUnlocked, AskForLock, Enter, Refuse, AcquireFails
<1>2. OwnersKeepTheirKey'
  <2> SUFFICES ASSUME NEW d \in Calls, Owner(d)' PROVE key'[ResourceOf[d]] = d
    BY DEF OwnersKeepTheirKey
  <2>1. CASE Enter(c)
    <3>1. CASE d = c
      BY <2>1, <3>1 DEF Enter
    <3>2. CASE d # c
      <4>1. key[ResourceOf[d]] = d
        BY <2>1, <3>2 DEF Enter, Owner, OwnersKeepTheirKey
      <4>2. ResourceOf[d] # ResourceOf[c]
        BY <2>1, <4>1 DEF Enter
      <4> QED
        BY <2>1, <4>1, <4>2 DEF Enter
    <3> QED
      BY <3>1, <3>2
  <2>2. CASE AcquireFails(c)
    <3>1. key[ResourceOf[d]] = d
      BY <2>2 DEF AcquireFails, Owner, OwnersKeepTheirKey
    <3>2. CASE UNCHANGED key
      BY <3>1, <3>2
    <3>3. CASE key[ResourceOf[c]] = NoToken /\ key' = [key EXCEPT ![ResourceOf[c]] = c]
      <4>1. ResourceOf[d] # ResourceOf[c]
        BY <3>1, <3>3
      <4> QED
        BY <3>1, <3>3, <4>1
    <3> QED
      BY <2>2, <3>2, <3>3 DEF AcquireFails
  <2>3. CASE EnterUnlocked(c) \/ AskForLock(c) \/ Refuse(c)
    BY <2>3 DEF EnterUnlocked, AskForLock, Refuse, Owner, OwnersKeepTheirKey
  <2> QED
    BY <2>1, <2>2, <2>3
<1>3. HeldOrExposed'
  BY DEF EnterUnlocked, AskForLock, Enter, Refuse, AcquireFails, HeldOrExposed
<1>4. KeysHaveHolders'
  <2>1. CASE Enter(c)
    BY <2>1 DEF Enter, KeysHaveHolders, CutOff
  <2>2. CASE EnterUnlocked(c) \/ AskForLock(c) \/ Refuse(c)
    BY <2>2 DEF EnterUnlocked, AskForLock, Refuse, KeysHaveHolders, CutOff
  <2>3. CASE AcquireFails(c)
    BY <2>3 DEF AcquireFails, KeysHaveHolders, CutOff
  <2> QED
    BY <2>1, <2>2, <2>3
<1> QED
  BY <1>1, <1>2, <1>3, <1>4

(* Leaving fn and releasing: the compare in the script spares others' keys. *)
LEMMA LeavingPreserves ==
  ASSUME CallsAssumption, LockIInv, NEW c \in Calls, Leave(c) \/ Release(c) \/ ReleaseFails(c)
  PROVE  LockIInv'
<1> USE DEF CallsAssumption, LockIInv, TypeOK, Phases, InFn
<1>1. TypeOK'
  BY DEF Leave, Release, ReleaseFails
<1>2. OwnersKeepTheirKey'
  <2> SUFFICES ASSUME NEW d \in Calls, Owner(d)' PROVE key'[ResourceOf[d]] = d
    BY DEF OwnersKeepTheirKey
  <2>1. Owner(d) /\ key[ResourceOf[d]] = d
    BY DEF Leave, Release, ReleaseFails, Owner, OwnersKeepTheirKey
  <2>2. CASE Release(c)
    <3>1. d # c
      BY <2>2 DEF Release, Owner
    <3> QED
      BY <2>1, <2>2, <3>1 DEF Release
  <2>3. CASE Leave(c) \/ ReleaseFails(c)
    BY <2>1, <2>3 DEF Leave, ReleaseFails
  <2> QED
    BY <2>2, <2>3
<1>3. HeldOrExposed'
  BY DEF Leave, Release, ReleaseFails, HeldOrExposed
<1>4. KeysHaveHolders'
  BY DEF Leave, Release, ReleaseFails, KeysHaveHolders, CutOff
<1> QED
  BY <1>1, <1>2, <1>3, <1>4

(* What Redis, the connection and the process do on their own.              *)
LEMMA EnvironmentPreserves ==
  ASSUME CallsAssumption, LockIInv, (\E r \in Resources : Expire(r)) \/ ConnectionChanges \/ Crash
  PROVE  LockIInv'
<1> USE DEF CallsAssumption, LockIInv, TypeOK, Phases, InFn
<1>1. CASE \E r \in Resources : Expire(r)
  <2> PICK r \in Resources : Expire(r)
    BY <1>1
  <2>1. TypeOK'
    BY DEF Expire
  <2>2. OwnersKeepTheirKey'
    <3> SUFFICES ASSUME NEW d \in Calls, Owner(d)' PROVE key'[ResourceOf[d]] = d
      BY DEF OwnersKeepTheirKey
    <3>1. key[ResourceOf[d]] = d /\ d # key[r]
      BY DEF Expire, Owner, OwnersKeepTheirKey
    <3> QED
      BY <3>1 DEF Expire
  <2>3. HeldOrExposed'
    BY DEF Expire, HeldOrExposed
  <2>4. KeysHaveHolders'
    BY DEF Expire, KeysHaveHolders, CutOff
  <2> QED
    BY <2>1, <2>2, <2>3, <2>4
<1>2. CASE ConnectionChanges
  BY <1>2 DEF ConnectionChanges, Owner, OwnersKeepTheirKey, HeldOrExposed, KeysHaveHolders, CutOff
<1>3. CASE Crash
  BY <1>3 DEF Crash, Owner, OwnersKeepTheirKey, HeldOrExposed, KeysHaveHolders, CutOff
<1> QED
  BY <1>1, <1>2, <1>3

LEMMA LockStepPreserves == ASSUME CallsAssumption PROVE LockIInv /\ [Next]_lockVars => LockIInv'
<1> SUFFICES ASSUME LockIInv, [Next]_lockVars PROVE LockIInv'
  OBVIOUS
<1>1. CASE \E c \in Calls : Step(c)
  BY <1>1, EnteringPreserves, LeavingPreserves DEF Step
<1>2. CASE (\E r \in Resources : Expire(r)) \/ ConnectionChanges \/ Crash
  BY <1>2, EnvironmentPreserves
<1>3. CASE UNCHANGED lockVars
  BY <1>3 DEF lockVars, LockIInv, TypeOK, OwnersKeepTheirKey, Owner, InFn, HeldOrExposed,
               KeysHaveHolders, CutOff
<1> QED
  BY <1>1, <1>2, <1>3 DEF Next

LEMMA IInvExcludes == ASSUME CallsAssumption PROVE LockIInv => MutualExclusion
  BY DEF CallsAssumption, LockIInv, OwnersKeepTheirKey, MutualExclusion, HeldOrExposed, Owner

LEMMA IInvLeavesNone == LockIInv => NoLockIsLeftBehind
  BY DEF LockIInv, TypeOK, KeysHaveHolders, NoLockIsLeftBehind

(* The inductive invariant holds in every state of every run.               *)
THEOREM LockInvariance == ASSUME CallsAssumption PROVE Spec => []LockIInv
  BY LockInitIInv, LockStepPreserves, PTL DEF Spec

(* LockService's variables keep their types.                                *)
THEOREM LockTypeCorrect == ASSUME CallsAssumption PROVE Spec => []TypeOK
  BY LockInvariance, PTL DEF LockIInv

(* A call that entered with a token keeps its key until its own release,    *)
(* unless the key reaches its TTL first.                                    *)
THEOREM OwnersKeep == ASSUME CallsAssumption PROVE Spec => []OwnersKeepTheirKey
  BY LockInvariance, PTL DEF LockIInv

(* Two calls for one resource run fn together only if one outlived its TTL  *)
(* or entered without a token.                                              *)
THEOREM LockExcludes == ASSUME CallsAssumption PROVE Spec => []MutualExclusion
  BY IInvExcludes, LockInvariance, PTL

(* Only a call that Redis did not answer, or that died, leaves its key      *)
(* behind.                                                                  *)
THEOREM LocksAreNotLeftBehind == ASSUME CallsAssumption PROVE Spec => []NoLockIsLeftBehind
  BY IInvLeavesNone, LockInvariance, PTL

-----------------------------------------------------------------------------
(* CacheAside: see CacheIsFresh for what the code gives up.  The invariant  *)
(* says the same of the answers that readers still hold, and of the moments *)
(* when a deletion is on its way.                                          *)

(* An entry is made of all the answers its factory waits for, a reader that *)
(* is about to store has them all, and one that has not missed has none.    *)
GoodEntry(k, e) ==
  e # Nothing => e = Entry(e.value, e.late) /\ e.late \in BOOLEAN /\ Complete(k, e.value)

GoodReader(r, s) ==
  /\ s = Reader(s.at, s.got, s.late)
  /\ s.at \in {"get", "compute", "store", "done"} /\ s.late \in BOOLEAN
  /\ DOMAIN s.got \subseteq Queries[KeyOf[r]]
  /\ s.at = "get" => DOMAIN s.got = {}
  /\ s.at = "store" => Complete(KeyOf[r], s.got)

GoodShapes ==
  /\ cache = [k \in Keys |-> cache[k]] /\ \A k \in Keys : GoodEntry(k, cache[k])
  /\ read = [r \in Readers |-> read[r]] /\ \A r \in Readers : GoodReader(r, read[r])
  /\ wipe \in [Writers -> SUBSET Commands]

(* An entry is right, late, or about to be deleted; so is what a reader has *)
(* been answered so far.                                                    *)
EntriesAreRight ==
  \A k \in Keys : cache[k] # Nothing /\ ~cache[k].late => Current(cache[k].value) \/ Pending(k)

Holds(r) == read[r].at \in {"compute", "store"} /\ ~read[r].late

InFlightIsRight == \A r \in Readers : Holds(r) => Current(read[r].got) \/ Pending(KeyOf[r])

CacheIInv == GoodShapes /\ EntriesAreRight /\ InFlightIsRight

LEMMA CacheIInvTyped == ASSUME KeysAssumption PROVE CacheIInv => CacheTypeOK
  BY DEF CacheIInv, GoodShapes, GoodEntry, GoodReader, CacheTypeOK

LEMMA CacheIInvFresh == CacheIInv => CacheIsFresh
  BY DEF CacheIInv, EntriesAreRight, CacheIsFresh

LEMMA CacheInitIInv == ASSUME KeysAssumption PROVE CacheInit => CacheIInv
<1> SUFFICES ASSUME CacheInit PROVE CacheIInv
  OBVIOUS
<1>0. DOMAIN NoAnswers = {}
  BY DEF NoAnswers
<1>1. \A r \in Readers : GoodReader(r, Reader("get", NoAnswers, FALSE))
  BY <1>0 DEF GoodReader, Reader
<1>2. GoodShapes
  BY <1>1 DEF CacheInit, GoodShapes, GoodEntry
<1>3. EntriesAreRight /\ InFlightIsRight
  BY DEF CacheInit, EntriesAreRight, InFlightIsRight, Holds, Reader
<1> QED
  BY <1>2, <1>3 DEF CacheIInv

(* An entry that is marked, and a reader that is overtaken, keep what they  *)
(* have, and are no longer promised to be right.                            *)
LEMMA MarkedIsGood ==
  ASSUME NEW k, NEW e, e # Nothing, GoodEntry(k, e)
  PROVE  GoodEntry(k, Entry(e.value, TRUE)) /\ Entry(e.value, TRUE).late
  BY DEF GoodEntry, Entry

LEMMA OvertakenIsGood ==
  ASSUME NEW r, NEW s, GoodReader(r, s)
  PROVE  /\ GoodReader(r, Reader(s.at, s.got, TRUE))
         /\ Reader(s.at, s.got, TRUE).late
  BY DEF GoodReader, Reader

LEMMA OvertakeKeeps ==
  ASSUME KeysAssumption, GoodShapes, NEW keys, Overtake(keys)
  PROVE  /\ read' = [r \in Readers |-> read'[r]] /\ \A r \in Readers : GoodReader(r, read'[r])
         /\ \A r \in Readers : Holds(r)' => /\ Holds(r) /\ read'[r] = read[r]
                                            /\ KeyOf[r] \in keys => DOMAIN read[r].got = {}
<1>1. ASSUME NEW r \in Readers
      PROVE  GoodReader(r, read'[r])
  BY OvertakenIsGood DEF GoodShapes, Overtake
<1>2. ASSUME NEW r \in Readers, Holds(r)'
      PROVE  /\ Holds(r) /\ read'[r] = read[r]
             /\ KeyOf[r] \in keys => DOMAIN read[r].got = {}
  <2>1. ~InFlight(r, keys)
    BY <1>2, OvertakenIsGood DEF GoodShapes, Overtake, Holds
  <2>2. read'[r] = read[r]
    BY <2>1 DEF Overtake
  <2> QED
    BY <1>2, <2>1, <2>2 DEF Holds, InFlight
<1> QED
  BY <1>1, <1>2 DEF Overtake

LEMMA MarkKeeps ==
  ASSUME GoodShapes, NEW keys, cache' = Mark(keys)
  PROVE  /\ cache' = [k \in Keys |-> cache'[k]] /\ \A k \in Keys : GoodEntry(k, cache'[k])
         /\ \A k \in Keys : cache'[k] # Nothing /\ ~cache'[k].late =>
              cache'[k] = cache[k] /\ k \notin keys
  BY MarkedIsGood DEF GoodShapes, Mark

(* getOrSet, the database unchanged.                                        *)
LEMMA ReaderPreserves ==
  ASSUME KeysAssumption, CacheIInv, NEW r \in Readers, ReaderStep(r), UNCHANGED db
  PROVE  CacheIInv'
<1> USE DEF KeysAssumption, CacheIInv
<1> DEFINE k == KeyOf[r]
<1>0. k \in Keys
  OBVIOUS
<1>1. \A x \in Keys : Pending(x)' = Pending(x)
  BY DEF Pending, ReaderStep, Hit, Miss, Compute, Store, StoreFails
<1>2. \A got : Current(got)' = Current(got)
  BY DEF Current
<1>3. ASSUME NEW s, read' = [read EXCEPT ![r] = s], GoodReader(r, s), UNCHANGED <<cache, wipe>>,
             s.at \in {"compute", "store"} /\ ~s.late => Current(s.got) \/ Pending(k)
      PROVE  CacheIInv'
  <2>1. read'[r] = s /\ \A x \in Readers \ {r} : read'[x] = read[x]
    BY <1>3 DEF GoodShapes
  <2>2. GoodShapes'
    BY <1>3, <2>1 DEF GoodShapes
  <2>3. EntriesAreRight'
    BY <1>1, <1>2, <1>3 DEF EntriesAreRight
  <2>4. InFlightIsRight'
    BY <1>0, <1>1, <1>2, <1>3, <2>1 DEF InFlightIsRight, Holds
  <2> QED
    BY <2>2, <2>3, <2>4
<1>4. CASE Hit(r)
  <2> DEFINE s == Reader("done", cache[k].value, cache[k].late)
  <2>1. GoodReader(r, s) /\ s.at = "done"
    BY <1>0, <1>4 DEF Hit, GoodShapes, GoodEntry, GoodReader, Reader, Complete
  <2> QED
    BY <1>3, <1>4, <2>1 DEF Hit
<1>5. CASE Miss(r)
  <2> DEFINE s == [read[r] EXCEPT !.at = "compute"]
  <2>1. GoodReader(r, read[r]) /\ read[r].at = "get"
    BY <1>5 DEF Miss, GoodShapes
  <2>2. GoodReader(r, s) /\ DOMAIN s.got = {}
    BY <2>1 DEF GoodReader, Reader
  <2>3. read' = [read EXCEPT ![r] = s]
    BY <1>5 DEF Miss
  <2> QED
    BY <1>3, <1>5, <2>2, <2>3 DEF Miss, Current
<1>6. CASE Compute(r)
  <2>1. PICK q \in Awaited(k, read[r].got) :
          read' = [read EXCEPT ![r] = Reader(AfterQuery(k, With(read[r].got, q)),
                                             With(read[r].got, q), read[r].late)]
    BY <1>6 DEF Compute
  <2> DEFINE got == With(read[r].got, q)
             s   == Reader(AfterQuery(k, got), got, read[r].late)
  <2>2. GoodReader(r, read[r]) /\ read[r].at = "compute"
    BY <1>6 DEF Compute, GoodShapes
  <2>3. /\ DOMAIN got = DOMAIN read[r].got \cup {q} /\ q \in Queries[k]
        /\ \A p \in DOMAIN got : got[p] = IF p = q THEN db[q] ELSE read[r].got[p]
    BY DEF With, Awaited
  <2>4. DOMAIN got \subseteq Queries[k]
    BY <2>2, <2>3 DEF GoodReader
  <2>5. AfterQuery(k, got) \in {"compute", "store", "done"} /\ (AfterQuery(k, got) = "store" => Awaited(k, got) = {})
    BY DEF AfterQuery
  <2>6. s.at = AfterQuery(k, got) /\ s.got = got /\ s.late = read[r].late
    BY DEF Reader
  <2>7. GoodReader(r, s)
    <3> HIDE DEF got
    <3> QED
      BY <2>2, <2>4, <2>5 DEF GoodReader, Reader, Complete
  <2>8. Current(read[r].got) => Current(got)
    BY <2>3 DEF Current
  <2>9. ~s.late => Current(s.got) \/ Pending(k)
    BY <2>2, <2>6, <2>8 DEF InFlightIsRight, Holds
  <2>10. read' = [read EXCEPT ![r] = s] /\ UNCHANGED <<cache, wipe>>
    BY <1>6, <2>1 DEF Compute
  <2> HIDE DEF s
  <2> QED
    BY <1>3, <2>7, <2>9, <2>10
<1>7. CASE StoreFails(r)
  <2> DEFINE s == [read[r] EXCEPT !.at = "done"]
  <2>1. GoodReader(r, read[r])
    BY DEF GoodShapes
  <2>2. GoodReader(r, s) /\ s.at = "done"
    BY <2>1 DEF GoodReader, Reader
  <2> QED
    BY <1>3, <1>7, <2>2 DEF StoreFails
<1>8. CASE Store(r)
  <2> DEFINE s == [read[r] EXCEPT !.at = "done"]
             e == Entry(read[r].got, read[r].late)
  <2>1. GoodReader(r, read[r]) /\ read[r].at = "store"
    BY <1>8 DEF Store, GoodShapes
  <2>2. GoodReader(r, s) /\ s.at = "done"
    BY <2>1 DEF GoodReader, Reader
  <2>3. GoodEntry(k, e) /\ e.value = read[r].got /\ e.late = read[r].late
    BY <2>1 DEF GoodReader, GoodEntry, Entry
  <2>4. cache' = [cache EXCEPT ![k] = e] /\ read' = [read EXCEPT ![r] = s] /\ UNCHANGED wipe
    BY <1>8 DEF Store
  <2> HIDE DEF s, e
  <2>5. /\ cache'[k] = e /\ \A x \in Keys \ {k} : cache'[x] = cache[x]
        /\ read'[r] = s /\ \A x \in Readers \ {r} : read'[x] = read[x]
    BY <1>0, <2>4 DEF GoodShapes
  <2>6. GoodShapes'
    BY <2>2, <2>3, <2>4, <2>5 DEF GoodShapes
  <2>7. EntriesAreRight'
    BY <1>1, <1>2, <2>1, <2>3, <2>5 DEF EntriesAreRight, InFlightIsRight, Holds
  <2>8. InFlightIsRight'
    BY <1>0, <1>1, <1>2, <2>2, <2>5 DEF InFlightIsRight, Holds
  <2> QED
    BY <2>6, <2>7, <2>8
<1> QED
  BY <1>4, <1>5, <1>6, <1>7, <1>8 DEF ReaderStep

(* A deletion on its way: SCAN, DEL, and either of them failing.            *)
LEMMA WriterPreserves ==
  ASSUME KeysAssumption, CacheIInv, NEW w \in Writers, WriterStep(w), UNCHANGED db
  PROVE  CacheIInv'
<1> USE DEF KeysAssumption, CacheIInv
<1> PICK c \in wipe[w] : Scan(w, c) \/ Del(w, c) \/ CommandFails(w, c)
  BY DEF WriterStep
<1>0. c \in Commands /\ c.keys \subseteq Keys
  BY DEF GoodShapes, Commands
<1>1. wipe' \in [Writers -> SUBSET Commands]
  <2>1. CASE Scan(w, c)
    <3> DEFINE found == {k \in c.keys : cache[k] # Nothing}
               rest  == [scan |-> FALSE, keys |-> found, turn |-> c.turn]
    <3>1. rest \in Commands
      BY <1>0 DEF Commands
    <3> QED
      BY <2>1, <3>1 DEF Scan, Answered, GoodShapes
  <2>2. CASE Del(w, c) \/ CommandFails(w, c)
    BY <2>2 DEF Del, CommandFails, Answered, GoodShapes
  <2> QED
    BY <2>1, <2>2
<1>2. \A got : Current(got)' = Current(got)
  BY DEF Current
<1>3. ASSUME NEW k \in Keys, Pending(k), k \notin c.keys PROVE Pending(k)'
  BY <1>3 DEF Scan, Del, CommandFails, Answered, Pending, GoodShapes
<1>4. CASE Scan(w, c)
  <2> DEFINE found == {k \in c.keys : cache[k] # Nothing}
             rest  == [scan |-> FALSE, keys |-> found, turn |-> c.turn]
  <2>1. ASSUME NEW k \in found PROVE Pending(k)'
    <3>1. rest \in wipe'[w]
      BY <1>4, <2>1 DEF Scan, Answered, GoodShapes
    <3>2. k \in rest.keys
      BY <2>1
    <3> QED
      BY <3>1, <3>2 DEF Pending
  <2>2. UNCHANGED cache /\ Overtake(c.keys \ found)
    BY <1>4 DEF Scan
  <2>3. GoodShapes'
    BY <1>1, <2>2, OvertakeKeeps DEF GoodShapes
  <2>4. EntriesAreRight'
    BY <1>2, <1>3, <2>1, <2>2 DEF EntriesAreRight
  <2>5. ASSUME NEW r \in Readers, Holds(r)' PROVE (Current(read[r].got) \/ Pending(KeyOf[r]))'
    <3>1. /\ Holds(r) /\ read'[r] = read[r]
          /\ KeyOf[r] \in c.keys \ found => DOMAIN read[r].got = {}
      BY <2>2, <2>5, OvertakeKeeps
    <3>2. CASE DOMAIN read[r].got = {}
      BY <3>1, <3>2 DEF Current
    <3>3. CASE KeyOf[r] \in found
      BY <2>1, <3>3
    <3>4. CASE KeyOf[r] \notin c.keys
      BY <1>2, <1>3, <3>1, <3>4 DEF InFlightIsRight
    <3> QED
      BY <3>1, <3>2, <3>3, <3>4
  <2>6. InFlightIsRight'
    BY <2>5 DEF InFlightIsRight
  <2> QED
    BY <2>3, <2>4, <2>6
<1>5. CASE Del(w, c)
  <2>1. Overtake(c.keys) /\ cache' = [k \in Keys |-> IF k \in c.keys THEN Nothing ELSE cache[k]]
    BY <1>5 DEF Del
  <2>2. GoodShapes'
    BY <1>1, <2>1, OvertakeKeeps DEF GoodShapes, GoodEntry
  <2>3. EntriesAreRight'
    BY <1>2, <1>3, <2>1 DEF EntriesAreRight
  <2>4. ASSUME NEW r \in Readers, Holds(r)' PROVE (Current(read[r].got) \/ Pending(KeyOf[r]))'
    <3>1. Holds(r) /\ read'[r] = read[r] /\ (KeyOf[r] \in c.keys => DOMAIN read[r].got = {})
      BY <2>1, <2>4, OvertakeKeeps
    <3> QED
      BY <1>2, <1>3, <3>1 DEF Current, InFlightIsRight
  <2> QED
    BY <2>2, <2>3, <2>4 DEF InFlightIsRight
<1>6. CASE CommandFails(w, c)
  <2>1. Overtake(c.keys) /\ cache' = Mark(c.keys)
    BY <1>6 DEF CommandFails, Outdated
  <2>2. GoodShapes'
    BY <1>1, <2>1, OvertakeKeeps, MarkKeeps DEF GoodShapes
  <2>3. EntriesAreRight'
    BY <1>2, <1>3, <2>1, MarkKeeps DEF EntriesAreRight
  <2>4. ASSUME NEW r \in Readers, Holds(r)' PROVE (Current(read[r].got) \/ Pending(KeyOf[r]))'
    <3>1. Holds(r) /\ read'[r] = read[r] /\ (KeyOf[r] \in c.keys => DOMAIN read[r].got = {})
      BY <2>1, <2>4, OvertakeKeeps
    <3> QED
      BY <1>2, <1>3, <3>1 DEF Current, InFlightIsRight
  <2> QED
    BY <2>2, <2>3, <2>4 DEF InFlightIsRight
<1> QED
  BY <1>4, <1>5, <1>6

(* What a step of the database leaves of the answers to other keys' queries.*)
LEMMA AnswersKept ==
  ASSUME NEW keys, UnchangedBut(keys), NEW k \in Keys \ keys, NEW got, DOMAIN got \subseteq Queries[k],
         Current(got)
  PROVE  Current(got)'
  BY DEF UnchangedBut, Current

(* A write of what its plan deletes.                                        *)
LEMMA WritePreserves ==
  ASSUME KeysAssumption, CacheIInv, NEW w \in Writers, Write(w), UnchangedBut({k \in Keys : Covers(w, k)})
  PROVE  CacheIInv'
<1> USE DEF KeysAssumption, CacheIInv
<1>1. GoodShapes'
  BY DEF Write, GoodShapes
<1>2. ASSUME NEW k \in Keys PROVE /\ Covers(w, k) => Pending(k)'
                                  /\ Pending(k) => Pending(k)'
  BY DEF Write, Covers, Pending, GoodShapes
<1>3. ASSUME NEW k \in Keys, NEW got, DOMAIN got \subseteq Queries[k], Current(got) \/ Pending(k)
      PROVE  (Current(got) \/ Pending(k))'
  BY <1>2, <1>3, AnswersKept
<1>4. ASSUME NEW k \in Keys, cache[k] # Nothing, ~cache[k].late
      PROVE  (Current(cache[k].value) \/ Pending(k))'
  <2>1. DOMAIN cache[k].value \subseteq Queries[k] /\ UNCHANGED cache
    BY <1>4 DEF GoodShapes, GoodEntry, Complete, Write
  <2>2. Current(cache[k].value) \/ Pending(k)
    BY <1>4 DEF EntriesAreRight
  <2> QED
    BY <1>3, <2>1, <2>2
<1>5. EntriesAreRight'
  BY <1>4 DEF EntriesAreRight, Write
<1>6. ASSUME NEW r \in Readers, Holds(r)
      PROVE  (Current(read[r].got) \/ Pending(KeyOf[r]))'
  <2>1. DOMAIN read[r].got \subseteq Queries[KeyOf[r]] /\ UNCHANGED read
    BY <1>6 DEF GoodShapes, GoodReader, Write
  <2>2. Current(read[r].got) \/ Pending(KeyOf[r])
    BY <1>6 DEF InFlightIsRight
  <2> QED
    BY <1>3, <2>1, <2>2
<1>7. InFlightIsRight'
  BY <1>6 DEF InFlightIsRight, Holds, Write
<1> QED
  BY <1>1, <1>5, <1>7

(* A write that deletes nothing.                                            *)
LEMMA OutdatedPreserves ==
  ASSUME KeysAssumption, CacheIInv, NEW keys \in SUBSET Keys, Outdated(keys),
         UnchangedBut(keys), UNCHANGED wipe
  PROVE  CacheIInv'
<1> USE DEF KeysAssumption, CacheIInv
<1>1. Overtake(keys) /\ cache' = Mark(keys)
  BY DEF Outdated
<1>2. GoodShapes'
  BY <1>1, OvertakeKeeps, MarkKeeps DEF GoodShapes
<1>3. \A k \in Keys : Pending(k)' = Pending(k)
  BY DEF Pending
<1>4. ASSUME NEW k \in Keys, (cache[k] # Nothing /\ ~cache[k].late)'
      PROVE  (Current(cache[k].value) \/ Pending(k))'
  <2>1. cache'[k] = cache[k] /\ k \in Keys \ keys /\ DOMAIN cache[k].value \subseteq Queries[k]
    BY <1>1, <1>4, MarkKeeps DEF GoodShapes, GoodEntry, Complete
  <2>2. Current(cache[k].value) \/ Pending(k)
    BY <1>4, <2>1 DEF EntriesAreRight
  <2> QED
    BY <1>3, <2>1, <2>2, AnswersKept
<1>5. EntriesAreRight'
  BY <1>4 DEF EntriesAreRight
<1>6. ASSUME NEW r \in Readers, Holds(r)'
      PROVE  (Current(read[r].got) \/ Pending(KeyOf[r]))'
  <2>1. Holds(r) /\ read'[r] = read[r] /\ (KeyOf[r] \in keys => DOMAIN read[r].got = {})
    BY <1>1, <1>6, OvertakeKeeps
  <2>2. CASE DOMAIN read[r].got = {}
    BY <2>1, <2>2 DEF Current
  <2>3. CASE KeyOf[r] \in Keys \ keys
    <3>1. DOMAIN read[r].got \subseteq Queries[KeyOf[r]]
      BY DEF GoodShapes, GoodReader
    <3>2. Current(read[r].got) \/ Pending(KeyOf[r])
      BY <2>1 DEF InFlightIsRight
    <3> QED
      BY <1>3, <2>1, <2>3, <3>1, <3>2, AnswersKept
  <2> QED
    BY <2>1, <2>2, <2>3
<1>7. InFlightIsRight'
  BY <1>6 DEF InFlightIsRight
<1> QED
  BY <1>2, <1>5, <1>7

(* A key reaches its TTL; the process dies.                                 *)
LEMMA LossPreserves ==
  ASSUME KeysAssumption, CacheIInv, CacheCrash \/ \E k \in Keys : CacheExpires(k), UNCHANGED db
  PROVE  CacheIInv'
<1> USE DEF KeysAssumption, CacheIInv
<1>0. \A got : Current(got)' = Current(got)
  BY DEF Current
<1>1. CASE CacheCrash
  <2> DEFINE gone == Reader("done", NoAnswers, FALSE)
  <2>1. /\ cache' = Mark(LostKeys)
        /\ read' = [r \in Readers |-> IF read[r].at \in {"compute", "store"} THEN gone ELSE read[r]]
        /\ wipe' = [w \in Writers |-> {}]
    BY <1>1 DEF CacheCrash
  <2>2. \A r \in Readers : GoodReader(r, gone) /\ gone.at = "done"
    BY DEF GoodReader, Reader, NoAnswers
  <2> HIDE DEF gone
  <2>3. \A r \in Readers : GoodReader(r, read'[r]) /\ ~Holds(r)'
    BY <2>1, <2>2 DEF GoodShapes, Holds
  <2>4. GoodShapes'
    BY <2>1, <2>3, MarkKeeps DEF GoodShapes
  <2>5. \A k \in Keys : Pending(k) => k \in LostKeys
    BY DEF Pending, LostKeys
  <2>6. EntriesAreRight'
    BY <1>0, <2>1, <2>5, MarkKeeps DEF EntriesAreRight
  <2> QED
    BY <2>3, <2>4, <2>6 DEF InFlightIsRight
<1>2. CASE \E k \in Keys : CacheExpires(k)
  <2>1. \A k \in Keys : cache'[k] \in {cache[k], Nothing}
    BY <1>2 DEF CacheExpires, GoodShapes
  <2>2. GoodShapes'
    BY <1>2, <2>1 DEF CacheExpires, GoodShapes, GoodEntry
  <2>3. \A k \in Keys : Pending(k)' = Pending(k)
    BY <1>2 DEF CacheExpires, Pending
  <2>4. EntriesAreRight'
    BY <1>0, <2>1, <2>3 DEF EntriesAreRight
  <2>5. InFlightIsRight'
    BY <1>0, <1>2, <2>3 DEF CacheExpires, InFlightIsRight, Holds
  <2> QED
    BY <2>2, <2>4, <2>5
<1> QED
  BY <1>1, <1>2

LEMMA CacheStepPreserves ==
  ASSUME KeysAssumption
  PROVE  CacheIInv /\ [CacheNext]_<<db, cacheVars>> => CacheIInv'
<1> SUFFICES ASSUME CacheIInv, [CacheNext]_<<db, cacheVars>> PROVE CacheIInv'
  OBVIOUS
<1>1. CASE CacheStep /\ UNCHANGED db
  BY <1>1, ReaderPreserves, WriterPreserves, LossPreserves DEF CacheStep
<1>2. CASE \E w \in Writers : Write(w) /\ UnchangedBut({k \in Keys : Covers(w, k)})
  BY <1>2, WritePreserves
<1>3. CASE \E keys \in SUBSET Keys : Outdated(keys) /\ UnchangedBut(keys) /\ UNCHANGED wipe
  BY <1>3, OutdatedPreserves
<1>4. CASE CacheFaults /\ CacheCrash /\ UNCHANGED db
  BY <1>4, LossPreserves
<1>5. CASE UNCHANGED <<db, cacheVars>>
  BY <1>5 DEF cacheVars, CacheIInv, GoodShapes, EntriesAreRight, InFlightIsRight, Holds, Pending, Current
<1> QED
  BY <1>1, <1>2, <1>3, <1>4, <1>5 DEF CacheNext

LEMMA CacheInvariance == ASSUME KeysAssumption PROVE CacheSafety => []CacheIInv
<1>1. CacheInit => CacheIInv
  BY CacheInitIInv
<1>2. CacheIInv /\ [CacheNext]_<<db, cacheVars>> => CacheIInv'
  BY CacheStepPreserves
<1> QED
  BY <1>1, <1>2, PTL DEF CacheSafety

-----------------------------------------------------------------------------
(* The cache keeps its types, and no entry lacks an answer.                 *)
THEOREM CacheTypeCorrect == ASSUME KeysAssumption PROVE CacheSafety => []CacheTypeOK
<1>1. CacheIInv => CacheTypeOK
  BY CacheIInvTyped
<1>2. CacheSafety => []CacheIInv
  BY CacheInvariance
<1> QED
  BY <1>1, <1>2, PTL

(* With no deletion on its way, an entry of which no part was read before a *)
(* deletion that it outlived is, in all its parts, what the database says.  *)
THEOREM CacheStaysFresh == ASSUME KeysAssumption PROVE CacheSafety => []CacheIsFresh
<1>1. CacheIInv => CacheIsFresh
  BY CacheIInvFresh
<1>2. CacheSafety => []CacheIInv
  BY CacheInvariance
<1> QED
  BY <1>1, <1>2, PTL

-----------------------------------------------------------------------------
(* RateLimit: what carries the proof is who may be between INCR and EXPIRE: *)
(* one request at most, the first of a window that has no end yet.          *)

Expiring(r) == asked[r] = "expire"

(* The request that opened a window is alone in doing so, and has not been  *)
(* admitted yet.                                                            *)
OneOpensAWindow ==
  /\ \A r, s \in Requests : Expiring(r) /\ Expiring(s) => r = s
  /\ \A r \in Requests : Expiring(r) =>
       ~timed /\ windows["redis"] < counter /\ windows["redis"] < Limit
  /\ timed => counter # 0

(* A store counts at least what it admits.                                  *)
CountsCover == windows["redis"] <= counter /\ windows["memory"] <= memory

LimitIInv == LimitTypeOK /\ OneOpensAWindow /\ CountsCover /\ LimitHolds /\ EveryWindowEnds

LEMMA LimitInitIInv == ASSUME LimitAssumption PROVE LimitInit => LimitIInv
<1> SUFFICES ASSUME LimitInit PROVE LimitIInv
  OBVIOUS
<1> USE DEF LimitInit, Stores
<1>1. LimitTypeOK
  BY DEF LimitTypeOK
<1>2. OneOpensAWindow
  BY DEF OneOpensAWindow, Expiring
<1>3. CountsCover /\ LimitHolds
  BY DEF LimitAssumption, CountsCover, LimitHolds
<1>4. EveryWindowEnds
  BY DEF EveryWindowEnds
<1> QED
  BY <1>1, <1>2, <1>3, <1>4 DEF LimitIInv

(* The commands of one request, answered by Redis.                          *)
LEMMA AnsweredPreserves ==
  ASSUME LimitAssumption, LimitIInv, NEW r \in Requests, Incr(r) \/ SetTtl(r)
  PROVE  LimitIInv'
<1> USE DEF LimitAssumption, LimitIInv, LimitTypeOK, Stores
<1>1. LimitTypeOK'
  <2>1. (asked' \in [Requests -> {"new", "expire", "admitted", "limited", "crashed"}])
    BY DEF Incr, SetTtl, Decide
  <2>2. (windows' \in [Stores -> Nat])
    BY DEF Incr, SetTtl, Decide
  <2>3. counter' \in Nat /\ memory' \in Nat
    BY DEF Incr, SetTtl
  <2>4. timed' \in BOOLEAN /\ orphaned' \in BOOLEAN
    BY DEF Incr, SetTtl
  <2> QED
    BY <2>1, <2>2, <2>3, <2>4
<1>2. OneOpensAWindow' /\ CountsCover' /\ LimitHolds'
  <2>1. CASE Incr(r) /\ counter = 0
    BY <2>1 DEF Incr, OneOpensAWindow, Expiring, CountsCover, LimitHolds
  <2>2. CASE Incr(r) /\ counter # 0
    BY <2>2 DEF Incr, Decide, TooMany, OneOpensAWindow, Expiring, CountsCover, LimitHolds
  <2>3. CASE SetTtl(r)
    BY <2>3 DEF SetTtl, Decide, TooMany, OneOpensAWindow, Expiring, CountsCover, LimitHolds
  <2> QED
    BY <2>1, <2>2, <2>3
<1>3. EveryWindowEnds'
  BY DEF Incr, SetTtl, Decide, TooMany, EveryWindowEnds
<1> QED
  BY <1>1, <1>2, <1>3

(* A command that throws: memory counts instead.                            *)
LEMMA ThrownPreserves ==
  ASSUME LimitAssumption, LimitIInv, NEW r \in Requests, IncrFails(r) \/ SetTtlFails(r)
  PROVE  LimitIInv'
<1> USE DEF LimitAssumption, LimitIInv, LimitTypeOK, Stores
<1>1. LimitTypeOK'
  <2>1. (asked' \in [Requests -> {"new", "expire", "admitted", "limited", "crashed"}])
    BY DEF IncrFails, SetTtlFails, CountInMemory, Decide
  <2>2. (windows' \in [Stores -> Nat])
    BY DEF IncrFails, SetTtlFails, CountInMemory, Decide
  <2>3. counter' \in Nat /\ memory' \in Nat
    BY DEF IncrFails, SetTtlFails, CountInMemory
  <2>4. timed' \in BOOLEAN /\ orphaned' \in BOOLEAN
    BY DEF IncrFails, SetTtlFails
  <2> QED
    BY <2>1, <2>2, <2>3, <2>4
<1>2. OneOpensAWindow'
  BY DEF IncrFails, SetTtlFails, CountInMemory, Decide, TooMany, OneOpensAWindow, Expiring
<1>3. CountsCover' /\ LimitHolds'
  BY DEF IncrFails, SetTtlFails, CountInMemory, Decide, TooMany, CountsCover, LimitHolds
<1>4. EveryWindowEnds'
  BY DEF IncrFails, SetTtlFails, CountInMemory, Decide, TooMany, EveryWindowEnds
<1> QED
  BY <1>1, <1>2, <1>3, <1>4

(* A window of Redis ends only when nobody is about to give it an end.      *)
LEMMA EndsPreserve ==
  ASSUME LimitAssumption, LimitIInv, WindowEnds \/ MemoryWindowEnds \/ LimitCrash
  PROVE  LimitIInv'
<1> USE DEF LimitAssumption, LimitIInv, LimitTypeOK, Stores
<1>1. CASE WindowEnds
  <2> USE <1>1 DEF WindowEnds
  <2>1. LimitTypeOK'
    OBVIOUS
  <2>2. \A r \in Requests : asked[r] # "expire"
    BY DEF OneOpensAWindow, Expiring
  <2>3. OneOpensAWindow'
    BY <2>2 DEF OneOpensAWindow, Expiring
  <2>4. CountsCover' /\ LimitHolds' /\ EveryWindowEnds'
    BY DEF CountsCover, LimitHolds, EveryWindowEnds
  <2> QED
    BY <2>1, <2>3, <2>4
<1>2. CASE MemoryWindowEnds
  BY <1>2 DEF MemoryWindowEnds, OneOpensAWindow, Expiring, CountsCover, LimitHolds, EveryWindowEnds
<1>3. CASE LimitCrash
  <2> USE <1>3 DEF LimitCrash
  <2>1. LimitTypeOK'
    <3>1. orphaned' \in BOOLEAN
      OBVIOUS
    <3> QED
      BY <3>1
  <2>2. \A r \in Requests : asked'[r] # "expire"
    OBVIOUS
  <2>3. OneOpensAWindow'
    BY <2>2 DEF OneOpensAWindow, Expiring
  <2>4. CountsCover' /\ LimitHolds'
    BY DEF CountsCover, LimitHolds
  <2>5. orphaned' <=> orphaned \/ \E r \in Requests : asked[r] = "expire"
    BY Zenon
  <2>6. EveryWindowEnds'
    BY <2>5, UNCHANGED <<counter, timed>> DEF EveryWindowEnds
  <2> QED
    BY <2>1, <2>3, <2>4, <2>6
<1> QED
  BY <1>1, <1>2, <1>3

LEMMA LimitStepPreserves ==
  ASSUME LimitAssumption
  PROVE  LimitIInv /\ [LimitNext]_limitVars => LimitIInv'
<1> SUFFICES ASSUME LimitIInv, [LimitNext]_limitVars PROVE LimitIInv'
  OBVIOUS
<1>1. CASE \E r \in Requests : GuardStep(r)
  BY <1>1, AnsweredPreserves, ThrownPreserves DEF GuardStep
<1>2. CASE WindowEnds \/ MemoryWindowEnds \/ LimitCrash
  BY <1>2, EndsPreserve
<1>3. CASE UNCHANGED limitVars
  BY <1>3 DEF limitVars, LimitIInv, LimitTypeOK, OneOpensAWindow, Expiring, CountsCover, LimitHolds,
              EveryWindowEnds
<1> QED
  BY <1>1, <1>2, <1>3 DEF LimitNext

LEMMA LimitInvariance == ASSUME LimitAssumption PROVE LimitSafety => []LimitIInv
<1>1. LimitInit => LimitIInv
  BY LimitInitIInv
<1>2. LimitIInv /\ [LimitNext]_limitVars => LimitIInv'
  BY LimitStepPreserves
<1> QED
  BY <1>1, <1>2, PTL DEF LimitSafety

-----------------------------------------------------------------------------
(* The guard keeps its types.                                               *)
THEOREM LimitTypeCorrect == ASSUME LimitAssumption PROVE LimitSafety => []LimitTypeOK
<1>1. LimitIInv => LimitTypeOK
  BY DEF LimitIInv
<1>2. LimitSafety => []LimitIInv
  BY LimitInvariance
<1> QED
  BY <1>1, <1>2, PTL

(* No window of Redis or of memory admits more than the limit.              *)
THEOREM LimitIsNeverExceeded == ASSUME LimitAssumption PROVE LimitSafety => []LimitHolds
<1>1. LimitIInv => LimitHolds
  BY DEF LimitIInv
<1>2. LimitSafety => []LimitIInv
  BY LimitInvariance
<1> QED
  BY <1>1, <1>2, PTL

(* A counter in Redis without a TTL is about to get one, unless the EXPIRE  *)
(* was cut off.                                                             *)
THEOREM WindowsHaveAnEnd == ASSUME LimitAssumption PROVE LimitSafety => []EveryWindowEnds
<1>1. LimitIInv => EveryWindowEnds
  BY DEF LimitIInv
<1>2. LimitSafety => []LimitIInv
  BY LimitInvariance
<1> QED
  BY <1>1, <1>2, PTL
=============================================================================
