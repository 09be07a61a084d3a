------------------------------ MODULE CacheAside ------------------------------
(***************************************************************************)
(* CacheService (backend/src/common/cache/cache.service.ts) over           *)
(* RedisService: readers that go through getOrSet, and writers that change *)
(* the database and then delete the keys of what they changed, by key or   *)
(* by prefix.                                                              *)
(*                                                                         *)
(* db[q] is what the database answers query q now; a module that composes  *)
(* this one gives it as an expression over its own tables.  A factory asks *)
(* its queries one by one, or some of them together, and every answer is a *)
(* step: a write may fall between two of them.                             *)
(***************************************************************************)
EXTENDS Naturals

CONSTANTS
  Readers,       \* calls of getOrSet
  Writers,       \* requests that write and invalidate
  Keys,          \* cache keys
  KeyOf,         \* KeyOf[r]: the key reader r asks for
  Queries,       \* Queries[k]: what the factory of key k asks the database
  Needs,         \* Needs[q]: the queries that are answered before q is sent
  NullKeys,      \* the keys whose factory returns null when a query finds nothing
  Plan,          \* Plan[w]: the commands writer w invalidates with
  Nothing,       \* null: a key that is not set, a query that finds nothing
  CacheFaults    \* TRUE: a command may fail, the process may die

(* A deletion of keys, or of the keys under a prefix, which takes a SCAN    *)
(* first; the commands of a later turn await those of an earlier one.       *)
Commands == [scan : BOOLEAN, keys : SUBSET Keys, turn : {1, 2}]

(* For the module whose keys are cached here to assume.                     *)
KeysAssumption ==
  /\ KeyOf \in [Readers -> Keys] /\ Plan \in [Writers -> SUBSET Commands]
  /\ CacheFaults \in BOOLEAN

VARIABLES
  db,     \* what each query would be answered now
  cache,  \* Redis: the entry under each key, or Nothing
  read,   \* what each reader is doing, with the answers it has
  wipe    \* the commands of each writer that have not been answered yet

cacheVars == <<cache, read, wipe>>

(* A value is the answers it was made of.  `late` is history: one of them   *)
(* was given before a deletion of the key that the value outlives, or a     *)
(* deletion that should have removed it never ran.                          *)
Entry(value, late)    == [value |-> value, late |-> late]
Reader(at, got, late) == [at |-> at, got |-> got, late |-> late]

NoAnswers == [q \in {} |-> Nothing]

(* The reader holds answers of a factory of one of the keys.                *)
InFlight(r, keys) ==
  /\ KeyOf[r] \in keys
  /\ \/ read[r].at = "store"
     \/ read[r].at = "compute" /\ DOMAIN read[r].got # {}

CacheInit ==
  /\ cache = [k \in Keys |-> Nothing]
  /\ read = [r \in Readers |-> Reader("get", NoAnswers, FALSE)]
  /\ wipe = [w \in Writers |-> {}]

-----------------------------------------------------------------------------
(* getOrSet *)

(* GET finds an entry: it is returned as it is.                             *)
Hit(r) ==
  /\ read[r].at = "get"
  /\ cache[KeyOf[r]] # Nothing
  /\ read' = [read EXCEPT ![r] = Reader("done", cache[KeyOf[r]].value, cache[KeyOf[r]].late)]
  /\ UNCHANGED <<cache, wipe>>

(* GET finds none, or fails, which RedisService.get turns into none.        *)
Miss(r) ==
  /\ read[r].at = "get"
  /\ cache[KeyOf[r]] = Nothing \/ CacheFaults
  /\ read' = [read EXCEPT ![r].at = "compute"]
  /\ UNCHANGED <<cache, wipe>>

(* The queries the factory is waiting for: a query that finds nothing is    *)
(* the last one.                                                            *)
FoundNothing(got) == \E q \in DOMAIN got : got[q] = Nothing

Awaited(k, got) ==
  IF FoundNothing(got) THEN {}
  ELSE {q \in Queries[k] \ DOMAIN got : Needs[q] \subseteq DOMAIN got}

(* One query is answered; after the last one the value is stored, null is   *)
(* returned and not stored.                                                 *)
With(got, q) == [p \in DOMAIN got \cup {q} |-> IF p = q THEN db[q] ELSE got[p]]

AfterQuery(k, got) ==
  CASE Awaited(k, got) # {}                -> "compute"
    [] FoundNothing(got) /\ k \in NullKeys -> "done"
    [] OTHER                               -> "store"

Compute(r) ==
  /\ read[r].at = "compute"
  /\ \E q \in Awaited(KeyOf[r], read[r].got) :
       LET got == With(read[r].got, q) IN
       read' = [read EXCEPT ![r] = Reader(AfterQuery(KeyOf[r], got), got, read[r].late)]
  /\ UNCHANGED <<cache, wipe>>

(* SET EX: whatever has happened to the key since the GET.                  *)
Store(r) ==
  /\ read[r].at = "store"
  /\ cache' = [cache EXCEPT ![KeyOf[r]] = Entry(read[r].got, read[r].late)]
  /\ read' = [read EXCEPT ![r].at = "done"]
  /\ UNCHANGED wipe

StoreFails(r) ==
  /\ CacheFaults
  /\ read[r].at = "store"
  /\ read' = [read EXCEPT ![r].at = "done"]
  /\ UNCHANGED <<cache, wipe>>

-----------------------------------------------------------------------------
(* invalidate, invalidateByPrefix *)

(* The write is committed and its deletions are on their way; db' is the    *)
(* composing module's.  (Broken: the write invalidates what Redis is known  *)
(* to hold at that moment.)                                                 *)
WriteSeen(w) ==
  /\ wipe[w] = {}
  /\ wipe' = [wipe EXCEPT ![w] = {[c EXCEPT !.keys = {k \in @ : cache[k] # Nothing}] : c \in Plan[w]}]
  /\ UNCHANGED <<cache, read>>

Write(w) ==
  /\ wipe[w] = {}
  /\ wipe' = [wipe EXCEPT ![w] = Plan[w]]
  /\ UNCHANGED <<cache, read>>

(* What a reader holds of a key is overtaken by a deletion of that key.     *)
Overtake(keys) ==
  read' = [r \in Readers |-> IF InFlight(r, keys)
                               THEN Reader(read[r].at, read[r].got, TRUE) ELSE read[r]]

Mark(keys) == [k \in Keys |-> IF k \in keys /\ cache[k] # Nothing
                                THEN Entry(cache[k].value, TRUE) ELSE cache[k]]

(* A write nobody invalidates for: what depends on it is late from now on.  *)
Outdated(keys) == cache' = Mark(keys) /\ Overtake(keys)

Due(w, c) == c \in wipe[w] /\ \A d \in wipe[w] : d.turn >= c.turn

Answered(w, c, more) == wipe' = [wipe EXCEPT ![w] = (@ \ {c}) \cup more]

(* SCAN: the keys that exist; a DEL of exactly these follows, if any.       *)
Scan(w, c) ==
  /\ Due(w, c) /\ c.scan
  /\ LET found == {k \in c.keys : cache[k] # Nothing} IN
       /\ Answered(w, c, IF found = {} THEN {}
                         ELSE {[scan |-> FALSE, keys |-> found, turn |-> c.turn]})
       /\ Overtake(c.keys \ found)
  /\ UNCHANGED cache

Del(w, c) ==
  /\ Due(w, c) /\ ~c.scan
  /\ cache' = [k \in Keys |-> IF k \in c.keys THEN Nothing ELSE cache[k]]
  /\ Answered(w, c, {})
  /\ Overtake(c.keys)

(* The SCAN or the DEL throws: logged, nothing is deleted, nobody is told.  *)
CommandFails(w, c) ==
  /\ CacheFaults
  /\ Due(w, c)
  /\ Answered(w, c, {})
  /\ Outdated(c.keys)

(* EX: 60 s for the campaigns, 30 to 60 s for the reports.                  *)
CacheExpires(k) ==
  /\ cache[k] # Nothing
  /\ cache' = [cache EXCEPT ![k] = Nothing]
  /\ UNCHANGED <<read, wipe>>

(* The process dies: its readers and its deletions with it.                 *)
LostKeys == UNION {UNION {c.keys : c \in wipe[w]} : w \in Writers}

CacheCrash ==
  /\ cache' = Mark(LostKeys)
  /\ read' = [r \in Readers |-> IF read[r].at \in {"compute", "store"}
                                  THEN Reader("done", NoAnswers, FALSE) ELSE read[r]]
  /\ wipe' = [w \in Writers |-> {}]

-----------------------------------------------------------------------------
ReaderStep(r) == Hit(r) \/ Miss(r) \/ Compute(r) \/ Store(r) \/ StoreFails(r)

WriterStep(w) == \E c \in wipe[w] : Scan(w, c) \/ Del(w, c) \/ CommandFails(w, c)

(* What the cache does without a write.                                     *)
CacheStep ==
  \/ \E r \in Readers : ReaderStep(r)
  \/ \E w \in Writers : WriterStep(w)
  \/ \E k \in Keys : CacheExpires(k)

(* A write changes answers of keys that its plan covers, a crash none.      *)
Covers(w, k) == \E c \in Plan[w] : k \in c.keys

(* The answers that the factories of these keys do not depend on.           *)
UnchangedBut(keys) == \A k \in Keys \ keys : \A q \in Queries[k] : db'[q] = db[q]

CacheNext ==
  \/ CacheStep /\ UNCHANGED db
  \/ \E w \in Writers : Write(w) /\ UnchangedBut({k \in Keys : Covers(w, k)})
  \/ \E keys \in SUBSET Keys : Outdated(keys) /\ UnchangedBut(keys) /\ UNCHANGED wipe
  \/ CacheFaults /\ CacheCrash /\ UNCHANGED db

CacheSafety == CacheInit /\ [][CacheNext]_<<db, cacheVars>>

-----------------------------------------------------------------------------
(* Properties *)

(* Every entry is complete: it has the answers its factory makes it of.     *)
Complete(k, got) == DOMAIN got \subseteq Queries[k] /\ Awaited(k, got) = {}

CacheTypeOK ==
  /\ \A k \in Keys : cache[k] # Nothing =>
       cache[k].late \in BOOLEAN /\ Complete(k, cache[k].value)
  /\ \A r \in Readers : /\ read[r].at \in {"get", "compute", "store", "done"}
                        /\ read[r].late \in BOOLEAN
                        /\ DOMAIN read[r].got \subseteq Queries[KeyOf[r]]
  /\ wipe \in [Writers -> SUBSET Commands]

(* A deletion of the key is still on its way.                               *)
Pending(k) == \E w \in Writers : \E c \in wipe[w] : k \in c.keys

(* The answers are those that the database gives now.                       *)
Current(got) == \A q \in DOMAIN got : got[q] = db[q]

(* What is served from the cache is what the database says, all of it, as   *)
(* soon as the invalidations are through: unless the reader that stored it  *)
(* had a part of it before a deletion that it outlived, or a deletion       *)
(* failed.                                                                  *)
CacheIsFresh ==
  \A k \in Keys : cache[k] # Nothing /\ ~cache[k].late /\ ~Pending(k) => Current(cache[k].value)
=============================================================================
