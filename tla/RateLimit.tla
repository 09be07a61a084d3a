------------------------------- MODULE RateLimit -------------------------------
(***************************************************************************)
(* RateLimitGuard (backend/src/common/rate-limit/rate-limit.guard.ts) for  *)
(* one scope and one identity: the requests counted under one key, in      *)
(* Redis by incrWithTtl (backend/src/common/redis/redis.service.ts), and   *)
(* in the process's memory when Redis does not answer.  (With              *)
(* RATE_LIMIT_ENABLED=false the guard admits everyone and counts nothing.) *)
(***************************************************************************)
EXTENDS Naturals

CONSTANTS
  Requests,      \* requests the guard is asked about
  Limit,         \* options.limit
  LimitFaults    \* TRUE: a command may fail, the process may die

(* For the module that counts its requests here to assume.                 *)
LimitAssumption == Limit \in Nat \ {0} /\ LimitFaults \in BOOLEAN

VARIABLES
  asked,     \* where each request is in canActivate
  counter,   \* Redis: the number under the key, 0 when there is none
  timed,     \* Redis: the key has a TTL
  memory,    \* fallback: the count of the entry that has not passed resetAt
  windows,   \* history: how many requests Redis, and memory, have admitted in
             \* their current window
  orphaned   \* history: an INCR was not followed by its EXPIRE

limitVars == <<asked, counter, timed, memory, windows, orphaned>>

Stores == {"redis", "memory"}

LimitInit ==
  /\ asked = [r \in Requests |-> "new"]
  /\ counter = 0 /\ timed = FALSE /\ memory = 0
  /\ windows = [s \in Stores |-> 0]
  /\ orphaned = FALSE

-----------------------------------------------------------------------------
(* `current > options.limit` throws 429.  (Broken: one request too many.)    *)
TooManyLater(count) == count > Limit + 1

TooMany(count) == count > Limit

Decide(r, count, store) ==
  /\ asked' = [asked EXCEPT ![r] = IF TooMany(count) THEN "limited" ELSE "admitted"]
  /\ windows' = IF TooMany(count) THEN windows ELSE [windows EXCEPT ![store] = @ + 1]

(* INCR answers; the first count of a window goes on to EXPIRE.             *)
Incr(r) ==
  /\ asked[r] = "new"
  /\ counter' = counter + 1
  /\ IF counter = 0
       THEN asked' = [asked EXCEPT ![r] = "expire"] /\ UNCHANGED windows
       ELSE Decide(r, counter + 1, "redis")
  /\ UNCHANGED <<timed, memory, orphaned>>

SetTtl(r) ==
  /\ asked[r] = "expire"
  /\ timed' = TRUE
  /\ Decide(r, 1, "redis")
  /\ UNCHANGED <<counter, memory, orphaned>>

(* incrementInMemory counts instead, after a failed INCR or EXPIRE.         *)
CountInMemory(r) ==
  /\ memory' = memory + 1
  /\ Decide(r, memory + 1, "memory")

(* The INCR throws; it may have been carried out, and its reply lost.       *)
IncrFails(r) ==
  /\ LimitFaults
  /\ asked[r] = "new"
  /\ CountInMemory(r)
  /\ \/ UNCHANGED <<counter, orphaned>>
     \/ counter' = counter + 1 /\ orphaned' = (orphaned \/ counter = 0)
  /\ UNCHANGED timed

SetTtlFails(r) ==
  /\ LimitFaults
  /\ asked[r] = "expire"
  /\ CountInMemory(r)
  /\ orphaned' = TRUE
  /\ UNCHANGED <<counter, timed>>

(* windowSeconds have passed: since the first count in Redis, since the     *)
(* entry was made in memory.                                                *)
WindowEnds ==
  /\ timed
  /\ counter' = 0 /\ timed' = FALSE
  /\ windows' = [windows EXCEPT !["redis"] = 0]
  /\ UNCHANGED <<asked, memory, orphaned>>

MemoryWindowEnds ==
  /\ memory # 0
  /\ memory' = 0
  /\ windows' = [windows EXCEPT !["memory"] = 0]
  /\ UNCHANGED <<asked, counter, timed, orphaned>>

LimitCrash ==
  /\ asked' = [r \in Requests |-> IF asked[r] = "expire" THEN "crashed" ELSE asked[r]]
  /\ orphaned' = (orphaned \/ \E r \in Requests : asked[r] = "expire")
  /\ memory' = 0
  /\ windows' = [windows EXCEPT !["memory"] = 0]
  /\ UNCHANGED <<counter, timed>>

-----------------------------------------------------------------------------
GuardStep(r) == Incr(r) \/ SetTtl(r) \/ IncrFails(r) \/ SetTtlFails(r)

LimitNext ==
  \/ \E r \in Requests : GuardStep(r)
  \/ WindowEnds
  \/ MemoryWindowEnds
  \/ LimitFaults /\ LimitCrash

LimitSafety == LimitInit /\ [][LimitNext]_limitVars

-----------------------------------------------------------------------------
(* Properties *)

LimitTypeOK ==
  /\ asked \in [Requests -> {"new", "expire", "admitted", "limited", "crashed"}]
  /\ counter \in Nat /\ timed \in BOOLEAN /\ memory \in Nat
  /\ windows \in [Stores -> Nat]
  /\ orphaned \in BOOLEAN

(* Neither store admits more than `limit` requests in one of its windows,   *)
(* however the requests' commands interleave.                               *)
LimitHolds == \A s \in Stores : windows[s] <= Limit

(* A counter in Redis always has an end: it has its TTL, or the request     *)
(* that made it is about to set it, unless that request was cut short.      *)
EveryWindowEnds ==
  counter # 0 /\ ~timed /\ ~orphaned => \E r \in Requests : asked[r] = "expire"
=============================================================================
