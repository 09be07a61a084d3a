---------------------------- MODULE Gamification ----------------------------
(***************************************************************************)
(* Points, streak and point badges of one member                           *)
(* (backend/src/modules/gamification, backend/src/modules/badges): the     *)
(* jobs of the points queue run awardAssignmentCompleted, each await a     *)
(* step, and the queue retries a job whose handler throws.                 *)
(*                                                                         *)
(* A job runs for one completed assignment; one assignment may have more   *)
(* than one job, as SideEffectQueue has it when Redis fails.  A crash      *)
(* stops a job where it is, and that is a job that takes no further step.  *)
(* Rows of different members share nothing.  The cached leaderboard is not *)
(* modelled; its invalidation cannot fail (RedisService logs the error).   *)
(***************************************************************************)
EXTENDS Integers, FiniteSets

CONSTANTS
  Jobs,              \* jobs of the points queue for this member
  AssignmentOf,      \* AssignmentOf[j]: the assignment in the payload of j
  Badges,            \* the badge codes that points unlock
  Threshold,         \* Threshold[b]: the points that unlock b
  Points,            \* ASSIGNMENT_COMPLETED_POINTS
  MaxAttempts,       \* maxAttempts of the queue
  MaxDay,            \* bound: the days of a run are 1 .. MaxDay
  MaxFaults          \* bound: statements that fail, or whose reply is lost

ASSUME AwardAssumption ==
  /\ IsFiniteSet(Jobs)
  /\ Points \in Nat /\ Threshold \in [Badges -> Nat \ {0}]
  /\ MaxAttempts \in Nat \ {0} /\ MaxDay \in Nat \ {0} /\ MaxFaults \in Nat

VARIABLES
  today,      \* the current day, in UTC
  row,        \* row[j]: activity date of the attempt of j that created a
              \* points_ledger row, 0 without one
  streak,     \* the streaks row
  unlocked,   \* unlocked[b]: badgeUnlocked events emitted for b
  badges,     \* the user_badges rows
  defined,    \* the codes that have a badges row
  late,       \* history: those defined when the member had the points already
  at,         \* where each job is
  attempts,   \* attempts of each job that threw
  date,       \* date[j]: activityDate of the current attempt
  seen,       \* seen[j]: the streak as updateStreak read it
  due,        \* due[j]: the badges still to be awarded by evaluatePointBadges
  faults,     \* history: the number of statements that have failed
  overnight   \* history: midnight has passed inside an award

local == <<at, attempts, date, seen, due>>
vars  == <<today, row, streak, unlocked, badges, defined, late, local, faults, overnight>>

Dates    == 1 .. MaxDay
Busy     == {"points", "getStreak", "upsertStreak", "total", "badges"}
Finished == {"handled", "dead"}
Awarding == {"points", "getStreak", "upsertStreak"}

(* No row: what updateStreak takes for a member without a streak; date 0 is *)
(* the null of lastActivityDate.                                            *)
StreakRows == [current : Nat, longest : Nat, last : Dates \cup {0}]
NoStreak   == [current |-> 0, longest |-> 0, last |-> 0]

Init ==
  /\ today = 1
  /\ row = [j \in Jobs |-> 0]
  /\ streak = NoStreak
  /\ unlocked = [b \in Badges |-> 0]
  /\ badges = {}
  /\ defined \in {{}, Badges} /\ late = {}
  /\ at = [j \in Jobs |-> "new"]
  /\ attempts = [j \in Jobs |-> 0]
  /\ date = [j \in Jobs |-> 0]
  /\ seen = [j \in Jobs |-> NoStreak]
  /\ due = [j \in Jobs |-> {}]
  /\ faults = 0 /\ overnight = FALSE

-----------------------------------------------------------------------------
(* The ledger and the streak *)

Ledger      == {j \in Jobs : row[j] # 0}
TotalPoints == Points * Cardinality(Ledger)

(* The badges whose threshold the member has reached.                       *)
Reached == {b \in Badges : Threshold[b] <= TotalPoints}

(* The unique index on sourceType, sourceId and reason.                     *)
Recorded(j) == \E i \in Ledger : AssignmentOf[i] = AssignmentOf[j]

Greater(m, n) == IF m > n THEN m ELSE n

(* nextStreak.  (Broken: a gap is not looked at; a second award on one day  *)
(* counts as a gap.)                                                        *)
NextStreakIgnoringGaps(s, day) ==
  IF s.last >= day
  THEN s
  ELSE [current |-> s.current + 1, longest |-> Greater(s.current + 1, s.longest), last |-> day]

NextStreakResettingSameDay(s, day) ==
  LET current == IF s.last # 0 /\ day = s.last + 1 THEN s.current + 1 ELSE 1
  IN  IF s.last # 0 /\ day < s.last
      THEN s
      ELSE [current |-> current, longest |-> Greater(current, s.longest), last |-> day]

NextStreak(s, day) ==
  LET current == IF s.last # 0 /\ day = s.last + 1 THEN s.current + 1 ELSE 1
  IN  IF s.last # 0 /\ day <= s.last
      THEN s
      ELSE [current |-> current, longest |-> Greater(current, s.longest), last |-> day]

-----------------------------------------------------------------------------
(* awardAssignmentCompleted *)

Move(j, place) == at' = [at EXCEPT ![j] = place]
Fault          == faults < MaxFaults /\ faults' = faults + 1

(* The attempt throws: QueueService runs it again from the start, until the *)
(* attempts are used up.                                                    *)
Throws(j) ==
  /\ Fault
  /\ attempts' = [attempts EXCEPT ![j] = @ + 1]
  /\ Move(j, IF attempts[j] + 1 < MaxAttempts THEN "new" ELSE "dead")
  /\ seen' = [seen EXCEPT ![j] = NoStreak]
  /\ due' = [due EXCEPT ![j] = {}]
  /\ date' = [date EXCEPT ![j] = 0]

(* The handler is called; activityDate is now.                              *)
Begin(j) ==
  /\ at[j] = "new"
  /\ Move(j, "points")
  /\ date' = [date EXCEPT ![j] = today]
  /\ UNCHANGED <<today, row, streak, unlocked, badges, defined, late, attempts, seen, due, faults, overnight>>

(* addPoints creates the row.  (Broken: nothing makes the row unique.)      *)
AddPointsAgain(j) ==
  /\ at[j] = "points"
  /\ row' = [row EXCEPT ![j] = date[j]]
  /\ Move(j, "getStreak")
  /\ UNCHANGED <<today, streak, unlocked, badges, defined, late, attempts, date, seen, due, faults, overnight>>

AddPoints(j) ==
  /\ at[j] = "points"
  /\ ~Recorded(j)
  /\ row' = [row EXCEPT ![j] = date[j]]
  /\ Move(j, "getStreak")
  /\ UNCHANGED <<today, streak, unlocked, badges, defined, late, attempts, date, seen, due, faults, overnight>>

(* addPoints answers null, for whatever error: `awarded: false`, and the    *)
(* job is done.                                                             *)
AddNothing(j) ==
  /\ at[j] = "points"
  /\ \/ Recorded(j) /\ UNCHANGED <<row, faults>>
     \/ Fault /\ UNCHANGED row
     \/ Fault /\ ~Recorded(j) /\ row' = [row EXCEPT ![j] = date[j]]
  /\ Move(j, "handled")
  /\ date' = [date EXCEPT ![j] = 0]
  /\ UNCHANGED <<today, streak, unlocked, badges, defined, late, attempts, seen, due, overnight>>

(* updateStreak reads the row ...                                           *)
GetStreak(j) ==
  /\ at[j] = "getStreak"
  /\ \/ /\ seen' = [seen EXCEPT ![j] = streak]
        /\ Move(j, "upsertStreak")
        /\ UNCHANGED <<attempts, date, due, faults>>
     \/ Throws(j)
  /\ UNCHANGED <<today, row, streak, unlocked, badges, defined, late, overnight>>

(* ... and writes what nextStreak makes of it.                              *)
UpsertStreak(j) ==
  /\ at[j] = "upsertStreak"
  /\ \/ /\ streak' = NextStreak(seen[j], date[j])
        /\ seen' = [seen EXCEPT ![j] = NoStreak]
        /\ date' = [date EXCEPT ![j] = 0]
        /\ Move(j, "total")
        /\ UNCHANGED <<attempts, due, faults>>
     \/ Throws(j) /\ streak' \in {streak, NextStreak(seen[j], date[j])}
  /\ UNCHANGED <<today, row, unlocked, badges, defined, late, overnight>>

(* evaluatePointBadges sums the ledger.  (Broken: more than the threshold.) *)
DueAbove(total) == {b \in Badges : total > Threshold[b]}
DueAt(total)    == {b \in Badges : total >= Threshold[b]}

GetTotal(j) ==
  /\ at[j] = "total"
  /\ \/ /\ due' = [due EXCEPT ![j] = DueAt(TotalPoints)]
        /\ Move(j, IF DueAt(TotalPoints) = {} THEN "handled" ELSE "badges")
        /\ UNCHANGED <<attempts, date, seen, faults>>
     \/ Throws(j)
  /\ UNCHANGED <<today, row, streak, unlocked, badges, defined, late, overnight>>

-----------------------------------------------------------------------------
(* BadgesService.awardByCode, lower thresholds first *)

NextDue(j, b) == b \in due[j] /\ \A c \in due[j] : Threshold[b] <= Threshold[c]

GoOn(j, b) ==
  /\ due' = [due EXCEPT ![j] = @ \ {b}]
  /\ Move(j, IF due[j] = {b} THEN "handled" ELSE "badges")
  /\ UNCHANGED <<attempts, date, seen>>

(* The row is created and the event emitted.  (Broken: without findByCode.) *)
AwardBadgeUndefined(j) ==
  /\ at[j] = "badges"
  /\ \E b \in Badges \ badges :
       /\ NextDue(j, b)
       /\ badges' = badges \cup {b}
       /\ unlocked' = [unlocked EXCEPT ![b] = @ + 1]
       /\ GoOn(j, b)
  /\ UNCHANGED <<today, row, streak, defined, late, faults, overnight>>

AwardBadge(j) ==
  /\ at[j] = "badges"
  /\ \E b \in defined \ badges :
       /\ NextDue(j, b)
       /\ badges' = badges \cup {b}
       /\ unlocked' = [unlocked EXCEPT ![b] = @ + 1]
       /\ GoOn(j, b)
  /\ UNCHANGED <<today, row, streak, defined, late, faults, overnight>>

(* The code has no badge; or award answers null, for whatever error, and    *)
(* the badge counts as held; or findByCode throws.                          *)
AwardNoBadge(j) ==
  /\ at[j] = "badges"
  /\ \E b \in Badges :
       /\ NextDue(j, b)
       /\ \/ /\ b \in badges \/ b \notin defined
             /\ GoOn(j, b) /\ UNCHANGED <<badges, faults>>
          \/ /\ Fault
             /\ b \in defined /\ badges' \in {badges, badges \cup {b}}
             /\ GoOn(j, b)
          \/ Throws(j) /\ UNCHANGED badges
  /\ UNCHANGED <<today, row, streak, unlocked, defined, late, overnight>>

(* createDefinition: an admin defines a code that is not defined yet.       *)
CreateDefinition(b) ==
  /\ b \in Badges \ defined
  /\ defined' = defined \cup {b}
  /\ late' = late \cup ({b} \cap Reached)
  /\ UNCHANGED <<today, row, streak, unlocked, badges, local, faults, overnight>>

-----------------------------------------------------------------------------
NewDay ==
  /\ today < MaxDay
  /\ today' = today + 1
  /\ overnight' = (overnight \/ \E j \in Jobs : at[j] \in Awarding)
  /\ UNCHANGED <<row, streak, unlocked, badges, defined, late, local, faults>>

Award(j) ==
  \/ Begin(j)
  \/ AddPoints(j) \/ AddNothing(j)
  \/ GetStreak(j) \/ UpsertStreak(j)
  \/ GetTotal(j) \/ AwardBadge(j) \/ AwardNoBadge(j)

Next ==
  \/ \E j \in Jobs : Award(j)
  \/ \E b \in Badges : CreateDefinition(b)
  \/ NewDay

Spec == Init /\ [][Next]_vars

-----------------------------------------------------------------------------
(* Properties *)

TypeOK ==
  /\ today \in Dates
  /\ row \in [Jobs -> Dates \cup {0}]
  /\ streak \in StreakRows
  /\ unlocked \in [Badges -> Nat]
  /\ badges \subseteq defined /\ defined \subseteq Badges /\ late \subseteq defined
  /\ at \in [Jobs -> {"new"} \cup Busy \cup Finished]
  /\ attempts \in [Jobs -> 0 .. MaxAttempts]
  /\ date \in [Jobs -> Dates \cup {0}]
  /\ seen \in [Jobs -> StreakRows]
  /\ due \in [Jobs -> SUBSET Badges]
  /\ faults \in 0 .. MaxFaults /\ overnight \in BOOLEAN

(* The days on which an assignment was awarded.                             *)
AwardDates == {row[j] : j \in Ledger}

(* The n days up to a day.                                                  *)
DaysTo(day, n) == day - n + 1 .. day

(* A streak that counts awards: an award on each of its days, and on each   *)
(* day of some run as long as the longest.                                  *)
Earned(s) ==
  /\ s.current <= s.longest
  /\ DaysTo(s.last, s.current) \subseteq AwardDates
  /\ \E day \in Dates \cup {0} : DaysTo(day, s.longest) \subseteq AwardDates

(* However awards interleave, fail and are retried, a member never has a    *)
(* streak, nor a longest one, of days without awards: a write from a stale  *)
(* read loses days, it does not invent them.                                *)
StreakIsEarned == Earned(streak)

(* Between awards, and unless one failed or ran past midnight, the streak   *)
(* is exact: it ends on the last day with an award, starts after a day      *)
(* without one, and no run of days is longer than the longest.  So awards   *)
(* of one day may race.                                                     *)
StreakIsExact ==
  (faults = 0 /\ ~overnight /\ \A j \in Jobs : at[j] \notin {"getStreak", "upsertStreak"}) =>
    /\ \A day \in AwardDates : day <= streak.last
    /\ streak.last - streak.current \notin AwardDates
    /\ \A day \in AwardDates : ~(DaysTo(day, streak.longest + 1) \subseteq AwardDates)

(* A badge is only given for points of different assignments, and its event *)
(* is emitted once, for a badge that is held, whatever fails.               *)
UnlocksAreEarned ==
  /\ \A b \in badges : Threshold[b] <= Points * Cardinality({AssignmentOf[j] : j \in Ledger})
  /\ \A b \in Badges : unlocked[b] <= 1 /\ (unlocked[b] = 1 => b \in badges)

(* Between awards, and unless one failed, exactly the defined badges that   *)
(* the points reach are held and announced: of two awards that reach one    *)
(* together at least one sees the total.  Only a badge defined after the    *)
(* points were reached waits for the next award.                            *)
BadgesFollowPoints ==
  (faults = 0 /\ \A j \in Jobs : at[j] \in {"new", "points", "handled"}) =>
    /\ badges \ late = (defined \cap Reached) \ late
    /\ \A b \in badges : unlocked[b] = 1
=============================================================================
