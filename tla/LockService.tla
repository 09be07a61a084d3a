----------------------------- MODULE LockService -----------------------------
(***************************************************************************)
(* LockService.withLock (backend/src/common/lock/lock.service.ts) over the *)
(* Redis wrapper (backend/src/common/redis/redis.service.ts): one backend  *)
(* process, many concurrent calls of withLock, each for one resource.      *)
(*                                                                         *)
(* The random token of a call is the call itself.  The key's TTL is a key  *)
(* that may vanish at any moment after it was set: fn may take longer than *)
(* the TTL, and nothing renews it.                                         *)
(***************************************************************************)
CONSTANTS
  Calls,           \* calls of withLock
  Resources,       \* lock names
  ResourceOf,      \* the resource each call asks for
  NoToken,         \* the key `lock:<resource>` does not exist
  RedisFaults,     \* TRUE: the connection drops, commands fail, replies are lost
  KeysExpire       \* TRUE: a key may reach its TTL while fn still runs

(* What the proofs assume of the constants; the modules that instantiate    *)
(* this one have to show it.                                                *)
CallsAssumption ==
  /\ NoToken \notin Calls /\ ResourceOf \in [Calls -> Resources]
  /\ RedisFaults \in BOOLEAN /\ KeysExpire \in BOOLEAN

VARIABLES
  ready,    \* RedisService.isReady()
  key,      \* Redis: the token stored under each lock's key
  phase,    \* where each call is in withLock
  held,     \* the calls that entered fn with a token, not past the guard
  exposed   \* history: the calls that were in fn without their key, unlocked or
            \* because it reached its TTL

lockVars == <<ready, key, phase, held, exposed>>

(* "unanswered" and "unreleased" are "refused" and "returned" to the caller: *)
(* the command that decided it threw.                                       *)
Phases == {"new", "locking", "inside", "releasing", "returned", "refused",
           "unanswered", "unreleased", "crashed"}

LockInit ==
  /\ ready \in {TRUE, ~RedisFaults}
  /\ key = [r \in Resources |-> NoToken]
  /\ phase = [c \in Calls |-> "new"]
  /\ held = {}
  /\ exposed = {}

-----------------------------------------------------------------------------
(* withLock *)

(* `if (!this.redis.isReady()) return fn()`: fn runs without a lock.        *)
EnterUnlocked(c) ==
  /\ phase[c] = "new"
  /\ ~ready
  /\ phase' = [phase EXCEPT ![c] = "inside"]
  /\ exposed' = exposed \cup {c}
  /\ UNCHANGED <<ready, key, held>>

(* isReady() holds: the SET of acquire() is on its way.                     *)
AskForLock(c) ==
  /\ phase[c] = "new"
  /\ ready
  /\ phase' = [phase EXCEPT ![c] = "locking"]
  /\ UNCHANGED <<ready, key, held, exposed>>

(* SET NX EX answers OK: fn starts.                                         *)
Enter(c) ==
  /\ phase[c] = "locking"
  /\ key[ResourceOf[c]] = NoToken
  /\ key' = [key EXCEPT ![ResourceOf[c]] = c]
  /\ phase' = [phase EXCEPT ![c] = "inside"]
  /\ held' = held \cup {c}
  /\ UNCHANGED <<ready, exposed>>

(* SET NX answers nil: ConflictException.                                   *)
Refuse(c) ==
  /\ phase[c] = "locking"
  /\ key[ResourceOf[c]] # NoToken
  /\ phase' = [phase EXCEPT ![c] = "refused"]
  /\ UNCHANGED <<ready, key, held, exposed>>

(* The SET throws, setIfAbsent turns that into false: ConflictException.    *)
(* The command may have reached Redis all the same and its reply be lost.   *)
AcquireFails(c) ==
  /\ RedisFaults
  /\ phase[c] = "locking"
  /\ \/ UNCHANGED key
     \/ /\ key[ResourceOf[c]] = NoToken
        /\ key' = [key EXCEPT ![ResourceOf[c]] = c]
  /\ phase' = [phase EXCEPT ![c] = "unanswered"]
  /\ UNCHANGED <<ready, held, exposed>>

(* fn settles, by a result or an exception; with a token `finally` calls    *)
(* release, without one withLock has returned.  (Broken: release after the  *)
(* await instead of in `finally`, which an exception of fn skips.)          *)
LeaveWithoutFinally(c) ==
  /\ phase[c] = "inside"
  /\ \/ phase' = [phase EXCEPT ![c] = IF c \in held THEN "releasing" ELSE "returned"]
        /\ UNCHANGED held
     \/ phase' = [phase EXCEPT ![c] = "returned"] /\ held' = held \ {c}
  /\ UNCHANGED <<ready, key, exposed>>

Leave(c) ==
  /\ phase[c] = "inside"
  /\ phase' = [phase EXCEPT ![c] = IF c \in held THEN "releasing" ELSE "returned"]
  /\ UNCHANGED <<ready, key, held, exposed>>

(* releaseLock's script: delete the key if it still holds the call's token. *)
(* (Broken: a plain DEL, whoever holds the key by now.)                     *)
ReleaseByDel(c) ==
  /\ phase[c] = "releasing"
  /\ key' = [key EXCEPT ![ResourceOf[c]] = NoToken]
  /\ phase' = [phase EXCEPT ![c] = "returned"]
  /\ held' = held \ {c}
  /\ UNCHANGED <<ready, exposed>>

Release(c) ==
  /\ phase[c] = "releasing"
  /\ key' = [key EXCEPT ![ResourceOf[c]] = IF @ = c THEN NoToken ELSE @]
  /\ phase' = [phase EXCEPT ![c] = "returned"]
  /\ held' = held \ {c}
  /\ UNCHANGED <<ready, exposed>>

(* The script's command throws before it runs; releaseLock answers false,   *)
(* which nobody reads.  (One whose reply alone is lost is a Release.)       *)
ReleaseFails(c) ==
  /\ RedisFaults
  /\ phase[c] = "releasing"
  /\ phase' = [phase EXCEPT ![c] = "unreleased"]
  /\ held' = held \ {c}
  /\ UNCHANGED <<ready, key, exposed>>

-----------------------------------------------------------------------------
(* Redis, the connection and the process *)

InFn(c) == phase[c] \in {"inside", "releasing"}

(* A key reaches its TTL.  While its call is in fn that takes KeysExpire;   *)
(* the key of a call that is gone only ever goes this way.                  *)
Expire(r) ==
  /\ key[r] # NoToken
  /\ KeysExpire \/ ~InFn(key[r])
  /\ key' = [key EXCEPT ![r] = NoToken]
  /\ exposed' = IF InFn(key[r]) THEN exposed \cup {key[r]} ELSE exposed
  /\ UNCHANGED <<ready, phase, held>>

ConnectionChanges ==
  /\ RedisFaults
  /\ ready' = ~ready
  /\ UNCHANGED <<key, phase, held, exposed>>

(* The backend process dies with every call in it; Redis keeps the keys.    *)
Crash ==
  /\ \E c \in Calls : phase[c] \in {"locking", "inside", "releasing"}
  /\ phase' = [c \in Calls |->
                 IF phase[c] \in {"locking", "inside", "releasing"} THEN "crashed" ELSE phase[c]]
  /\ held' = {}
  /\ UNCHANGED <<ready, key, exposed>>

-----------------------------------------------------------------------------
Step(c) ==
  \/ EnterUnlocked(c) \/ AskForLock(c)
  \/ Enter(c) \/ Refuse(c) \/ AcquireFails(c)
  \/ Leave(c)
  \/ Release(c) \/ ReleaseFails(c)

Next ==
  \/ \E c \in Calls : Step(c)
  \/ \E r \in Resources : Expire(r)
  \/ ConnectionChanges
  \/ Crash

Spec == LockInit /\ [][Next]_lockVars

-----------------------------------------------------------------------------
(* Properties *)

TypeOK ==
  /\ ready \in BOOLEAN
  /\ key \in [Resources -> Calls \cup {NoToken}]
  /\ phase \in [Calls -> Phases]
  /\ held \subseteq {c \in Calls : InFn(c)}
  /\ exposed \subseteq Calls

(* A call that has entered fn with a token has its key for as long as it    *)
(* has not reached its TTL: neither another call's release, nor a failed    *)
(* command, nor a crash takes it away before the call's own release.        *)
Owner(c) == c \in held /\ c \notin exposed

OwnersKeepTheirKey == \A c \in Calls : Owner(c) => key[ResourceOf[c]] = c

(* Two calls for one resource never run fn together, unless one of them     *)
(* outlives its TTL or has found Redis not ready.                           *)
MutualExclusion ==
  \A c, d \in Calls :
    /\ InFn(c) /\ InFn(d) /\ ResourceOf[c] = ResourceOf[d]
    /\ {c, d} \cap exposed = {}
    => c = d

(* A key in Redis has a call in fn to its name, which will release it, or   *)
(* one whose SET or release threw or that died with the process: no call    *)
(* that Redis answered comes back to its caller and leaves its lock behind. *)
(* Only the keys of the others have to wait for their TTL.                  *)
CutOff(c) == phase[c] \in {"unanswered", "unreleased", "crashed"}

NoLockIsLeftBehind ==
  \A r \in Resources : key[r] # NoToken => InFn(key[r]) \/ CutOff(key[r])
=============================================================================
