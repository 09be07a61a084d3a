------------------------- MODULE GamificationProofs -------------------------
(***************************************************************************)
(* Streaks are made of awards and badges of points, for any jobs,          *)
(* assignments, days and badges, and however statements fail.              *)
(***************************************************************************)
EXTENDS Gamification, FiniteSetTheorems, TLAPS

USE AwardAssumption

(* A job that has got past addPoints has its row, of the attempt's date.    *)
DatesAreRecorded ==
  \A j \in Jobs :
    /\ at[j] \in Awarding => date[j] \in Dates
    /\ at[j] \in {"getStreak", "upsertStreak"} => row[j] = date[j]

(* A job that was not given up may be tried once more.                      *)
AttemptsAreLeft == \A j \in Jobs : at[j] # "dead" => attempts[j] < MaxAttempts

(* What a job has read of the streak was earned already then.               *)
SeenIsEarned == \A j \in Jobs : Earned(seen[j])

StreakInv == TypeOK /\ AttemptsAreLeft /\ DatesAreRecorded /\ SeenIsEarned /\ StreakIsEarned

-----------------------------------------------------------------------------
(* nextStreak keeps a streak earned, for a day that has an award.           *)
LEMMA NextStreakEarned ==
  ASSUME TypeOK, NEW s \in StreakRows, Earned(s), NEW day \in AwardDates
  PROVE  NextStreak(s, day) \in StreakRows /\ Earned(NextStreak(s, day))
<1> DEFINE n == NextStreak(s, day)
<1>1. day \in Dates
  BY DEF AwardDates, Ledger, TypeOK
<1>2. CASE s.last # 0 /\ day <= s.last
  BY <1>2 DEF NextStreak
<1>3. CASE ~(s.last # 0 /\ day <= s.last)
  <2> DEFINE c == IF s.last # 0 /\ day = s.last + 1 THEN s.current + 1 ELSE 1
  <2>1. n = [current |-> c, longest |-> Greater(c, s.longest), last |-> day]
    BY <1>3 DEF NextStreak
  <2>2. c \in Nat /\ Greater(c, s.longest) \in Nat
    BY DEF Greater, StreakRows
  <2>3. n \in StreakRows
    BY <1>1, <2>1, <2>2 DEF StreakRows
  <2>4. DaysTo(day, c) \subseteq AwardDates
    <3>1. CASE s.last # 0 /\ day = s.last + 1
      <4>1. DaysTo(day, c) \subseteq DaysTo(s.last, s.current) \cup {day}
        BY <1>1, <3>1 DEF DaysTo, StreakRows, Dates
      <4> QED
        BY <4>1 DEF Earned
    <3>2. CASE ~(s.last # 0 /\ day = s.last + 1)
      <4>1. DaysTo(day, c) \subseteq {day}
        BY <1>1, <3>2 DEF DaysTo, Dates
      <4> QED
        BY <4>1
    <3> QED
      BY <3>1, <3>2
  <2>5. \E d \in Dates \cup {0} : DaysTo(d, Greater(c, s.longest)) \subseteq AwardDates
    <3>1. CASE c > s.longest
      BY <1>1, <2>4, <3>1 DEF Greater
    <3>2. CASE ~(c > s.longest)
      BY <3>2 DEF Greater, Earned
    <3> QED
      BY <3>1, <3>2
  <2>6. c <= Greater(c, s.longest)
    BY <2>2 DEF Greater, StreakRows
  <2> QED
    BY <2>1, <2>3, <2>4, <2>5, <2>6 DEF Earned
<1> QED
  BY <1>2, <1>3

(* An earned streak stays earned: rows are never deleted.                   *)
LEMMA EarnedStays ==
  ASSUME AwardDates \subseteq AwardDates', NEW s, Earned(s)
  PROVE  Earned(s)'
  BY DEF Earned

(* Rows keep their dates, and only addPoints adds one.                      *)
LEMMA AwardDatesGrow ==
  ASSUME TypeOK, DatesAreRecorded, Next
  PROVE  AwardDates \subseteq AwardDates'
<1>1. CASE row' = row
  BY <1>1 DEF AwardDates, Ledger
<1>2. ASSUME NEW j \in Jobs, at[j] = "points", ~Recorded(j), row' = [row EXCEPT ![j] = date[j]]
      PROVE  AwardDates \subseteq AwardDates'
  <2>1. row[j] = 0 /\ date[j] # 0
    BY <1>2 DEF Recorded, Ledger, DatesAreRecorded, Awarding, Dates
  <2> QED
    BY <1>2, <2>1 DEF AwardDates, Ledger, TypeOK
<1> QED
  BY <1>1, <1>2 DEF Next, Award, Begin, AddPoints, AddNothing, GetStreak, UpsertStreak,
     GetTotal, AwardBadge, AwardNoBadge, CreateDefinition, NewDay

-----------------------------------------------------------------------------
(* The streak invariant *)

LEMMA InitStreakInv == Init => StreakInv
<1> SUFFICES ASSUME Init PROVE StreakInv
  OBVIOUS
<1>1. 1 \in Dates /\ NoStreak \in StreakRows
  BY DEF Dates, StreakRows, NoStreak
<1>2. TypeOK
  <2>1. badges \subseteq defined /\ defined \subseteq Badges /\ late \subseteq defined
    BY DEF Init
  <2>2. faults \in 0 .. MaxFaults /\ today \in Dates
    BY <1>1 DEF Init
  <2>3. streak \in StreakRows /\ seen \in [Jobs -> StreakRows]
    BY <1>1 DEF Init
  <2>4. attempts \in [Jobs -> 0 .. MaxAttempts]
    BY DEF Init
  <2> QED
    BY <2>1, <2>2, <2>3, <2>4 DEF Init, TypeOK
<1>3. Earned(NoStreak)
  <2>1. DaysTo(0, 0) = {}
    BY DEF DaysTo
  <2>2. NoStreak.current = 0 /\ NoStreak.longest = 0 /\ NoStreak.last = 0
    BY DEF NoStreak
  <2> QED
    BY <2>1, <2>2 DEF Earned
<1>4. SeenIsEarned /\ StreakIsEarned
  BY <1>3, Zenon DEF Init, SeenIsEarned, StreakIsEarned
<1> QED
  BY <1>2, <1>4 DEF Init, StreakInv, AttemptsAreLeft, DatesAreRecorded, Awarding

(* The upsert is of a type with the streak read, and earned as it is.       *)
LEMMA UpsertedIsEarned ==
  ASSUME StreakInv, NEW j \in Jobs, at[j] = "upsertStreak"
  PROVE  NextStreak(seen[j], date[j]) \in StreakRows /\ Earned(NextStreak(seen[j], date[j]))
<1>1. date[j] \in AwardDates
  BY DEF StreakInv, DatesAreRecorded, Awarding, Dates, AwardDates, Ledger
<1> QED
  BY <1>1, NextStreakEarned DEF StreakInv, TypeOK, SeenIsEarned

(* What an attempt that throws leaves behind.                               *)
LEMMA ThrowsInv ==
  ASSUME StreakInv, NEW j \in Jobs, at[j] \in Busy, Throws(j)
  PROVE  /\ at' \in [Jobs -> {"new"} \cup Busy \cup Finished]
         /\ attempts' \in [Jobs -> 0 .. MaxAttempts]
         /\ date' \in [Jobs -> Dates \cup {0}]
         /\ seen' \in [Jobs -> StreakRows] /\ due' \in [Jobs -> SUBSET Badges]
         /\ faults' \in 0 .. MaxFaults
         /\ AttemptsAreLeft'
<1> USE DEF StreakInv, TypeOK, Throws, Move
<1>1. attempts[j] \in Nat /\ attempts[j] + 1 <= MaxAttempts
  BY DEF AttemptsAreLeft, Busy
<1>2. NoStreak \in StreakRows
  BY DEF NoStreak, StreakRows
<1>3. attempts' \in [Jobs -> 0 .. MaxAttempts]
  BY <1>1
<1>4. at' \in [Jobs -> {"new"} \cup Busy \cup Finished]
  BY DEF Finished
<1>5. seen' \in [Jobs -> StreakRows]
  BY <1>2
<1>6. faults' \in 0 .. MaxFaults
  BY DEF Fault
<1>7. AttemptsAreLeft'
  BY <1>1 DEF AttemptsAreLeft
<1> QED
  BY <1>3, <1>4, <1>5, <1>6, <1>7

LEMMA TypePreserved ==
  ASSUME StreakInv, [Next]_vars
  PROVE  TypeOK' /\ AttemptsAreLeft'
<1> USE DEF StreakInv, TypeOK, AttemptsAreLeft, Move, Busy, Finished
<1>1. ASSUME NEW j \in Jobs, Begin(j) \/ AddPoints(j) PROVE TypeOK' /\ AttemptsAreLeft'
  BY <1>1 DEF Begin, AddPoints
<1>2. ASSUME NEW j \in Jobs, AddNothing(j) PROVE TypeOK' /\ AttemptsAreLeft'
  BY <1>2 DEF AddNothing, Fault
<1>3. ASSUME NEW j \in Jobs, GetStreak(j) PROVE TypeOK' /\ AttemptsAreLeft'
  BY <1>3, ThrowsInv DEF GetStreak
<1>4. ASSUME NEW j \in Jobs, UpsertStreak(j) PROVE TypeOK' /\ AttemptsAreLeft'
  <2>1. NextStreak(seen[j], date[j]) \in StreakRows /\ NoStreak \in StreakRows
    BY <1>4, UpsertedIsEarned DEF UpsertStreak, NoStreak, StreakRows
  <2>2. streak' \in StreakRows
    BY <1>4, <2>1 DEF UpsertStreak
  <2>3. CASE Throws(j)
    BY <1>4, <2>2, <2>3, ThrowsInv DEF UpsertStreak
  <2>4. CASE UNCHANGED <<attempts, due, faults>>
    BY <1>4, <2>1, <2>2, <2>4 DEF UpsertStreak, Throws, Fault
  <2> QED
    BY <1>4, <2>3, <2>4 DEF UpsertStreak
<1>5. ASSUME NEW j \in Jobs, GetTotal(j) PROVE TypeOK' /\ AttemptsAreLeft'
  BY <1>5, ThrowsInv DEF GetTotal, DueAt
<1>6. ASSUME NEW j \in Jobs, AwardBadge(j) PROVE TypeOK' /\ AttemptsAreLeft'
  BY <1>6 DEF AwardBadge, GoOn
<1>7. ASSUME NEW j \in Jobs, AwardNoBadge(j) PROVE TypeOK' /\ AttemptsAreLeft'
  BY <1>7, ThrowsInv DEF AwardNoBadge, GoOn, Fault
<1>8. ASSUME NEW b \in Badges, CreateDefinition(b) PROVE TypeOK' /\ AttemptsAreLeft'
  BY <1>8 DEF CreateDefinition, local
<1>9. CASE NewDay
  BY <1>9 DEF NewDay, local, Dates
<1>10. CASE UNCHANGED vars
  BY <1>10 DEF vars, local
<1> QED
  BY <1>1, <1>2, <1>3, <1>4, <1>5, <1>6, <1>7, <1>8, <1>9, <1>10 DEF Next, Award

LEMMA DatesPreserved ==
  ASSUME StreakInv, [Next]_vars
  PROVE  DatesAreRecorded'
<1> USE DEF StreakInv, TypeOK, DatesAreRecorded, Awarding, Move
<1>1. ASSUME NEW j \in Jobs, Begin(j) PROVE DatesAreRecorded'
  BY <1>1 DEF Begin
<1>2. ASSUME NEW j \in Jobs, AddPoints(j) PROVE DatesAreRecorded'
  BY <1>2 DEF AddPoints
<1>3. ASSUME NEW j \in Jobs, AddNothing(j) PROVE DatesAreRecorded'
  BY <1>3 DEF AddNothing
<1>4. ASSUME NEW j \in Jobs, GetStreak(j) PROVE DatesAreRecorded'
  BY <1>4 DEF GetStreak, Throws
<1>5. ASSUME NEW j \in Jobs, UpsertStreak(j) PROVE DatesAreRecorded'
  BY <1>5 DEF UpsertStreak, Throws
<1>6. ASSUME NEW j \in Jobs, GetTotal(j) PROVE DatesAreRecorded'
  BY <1>6 DEF GetTotal, Throws
<1>7. ASSUME NEW j \in Jobs, AwardBadge(j) \/ AwardNoBadge(j) PROVE DatesAreRecorded'
  BY <1>7 DEF AwardBadge, AwardNoBadge, GoOn, Throws
<1>8. CASE NewDay \/ UNCHANGED vars \/ \E b \in Badges : CreateDefinition(b)
  BY <1>8 DEF NewDay, CreateDefinition, vars, local
<1> QED
  BY <1>1, <1>2, <1>3, <1>4, <1>5, <1>6, <1>7, <1>8 DEF Next, Award

(* Only updateStreak touches the streak and what has been read of it.       *)
LEMMA StreakPreserved ==
  ASSUME StreakInv, [Next]_vars
  PROVE  SeenIsEarned' /\ StreakIsEarned'
<1>1. ASSUME NEW s, Earned(s) PROVE Earned(s)'
  <2>1. CASE UNCHANGED vars
    BY <1>1, <2>1 DEF vars, Earned, AwardDates, Ledger
  <2> QED
    BY <1>1, <2>1, AwardDatesGrow, EarnedStays DEF StreakInv
<1>2. StreakIsEarned'
  <2>1. PICK s : streak' = s /\ Earned(s)
    <3>1. CASE UNCHANGED streak
      BY <3>1 DEF StreakInv, StreakIsEarned
    <3>2. ASSUME NEW j \in Jobs, at[j] = "upsertStreak", streak' = NextStreak(seen[j], date[j])
          PROVE  \E s : streak' = s /\ Earned(s)
      BY <3>2, UpsertedIsEarned
    <3> QED
      BY <3>1, <3>2 DEF Next, Award, Begin, AddPoints, AddNothing, GetStreak, UpsertStreak,
         GetTotal, AwardBadge, AwardNoBadge, CreateDefinition, NewDay, vars
  <2>2. Earned(s)'
    BY <1>1, <2>1
  <2> QED
    BY <2>1, <2>2 DEF StreakIsEarned, Earned
<1>3. SeenIsEarned'
  <2> SUFFICES ASSUME NEW j \in Jobs PROVE Earned(seen[j])'
    BY DEF SeenIsEarned
  <2>1. PICK s : seen'[j] = s /\ Earned(s)
    <3>1. seen'[j] \in {seen[j], streak, NoStreak}
      BY DEF StreakInv, TypeOK, Next, Award, Begin, AddPoints, AddNothing, GetStreak,
         UpsertStreak, GetTotal, AwardBadge, AwardNoBadge, GoOn, Throws, CreateDefinition,
         NewDay, vars, local
    <3>2. Earned(NoStreak)
      BY DEF Earned, NoStreak, DaysTo
    <3> QED
      BY <3>1, <3>2 DEF StreakInv, SeenIsEarned, StreakIsEarned
  <2>2. Earned(s)'
    BY <1>1, <2>1
  <2> QED
    BY <2>1, <2>2 DEF Earned
<1> QED
  BY <1>2, <1>3

(* The streak and what it rests on is an invariant.                         *)
THEOREM StreakInvariance == Spec => []StreakInv
<1>1. StreakInv /\ [Next]_vars => StreakInv'
  BY TypePreserved, DatesPreserved, StreakPreserved DEF StreakInv
<1> QED
  BY InitStreakInv, <1>1, PTL DEF Spec

(* Types: rows, jobs, badges and dates stay what they are.                  *)
THEOREM AwardTypeCorrect == Spec => []TypeOK
  BY StreakInvariance, PTL DEF StreakInv

(* awardAssignmentCompleted never makes up a day of a streak.               *)
THEOREM StreaksAreEarned == Spec => []StreakIsEarned
  BY StreakInvariance, PTL DEF StreakInv

-----------------------------------------------------------------------------
(* The badge invariant *)

(* The unique index of the ledger: one row per assignment.                  *)
RowsAreUnique == \A i, j \in Ledger : AssignmentOf[i] = AssignmentOf[j] => i = j

UnlockedOnce == \A b \in Badges : unlocked[b] <= 1 /\ (unlocked[b] = 1 => b \in badges)

(* A badge that is held, or about to be, has its points in the ledger.      *)
PointsAreThere ==
  /\ badges \subseteq DueAt(TotalPoints)
  /\ \A j \in Jobs : due[j] \subseteq DueAt(TotalPoints)

BadgeInv == RowsAreUnique /\ UnlockedOnce /\ PointsAreThere

(* As many rows as assignments.                                             *)
LEMMA RowsCountAssignments ==
  ASSUME RowsAreUnique
  PROVE  Cardinality({AssignmentOf[j] : j \in Ledger}) = Cardinality(Ledger)
<1> DEFINE T == {AssignmentOf[j] : j \in Ledger}
           f == [j \in Ledger |-> AssignmentOf[j]]
<1>1. IsFiniteSet(Ledger)
  BY FS_Subset DEF Ledger
<1>2. f \in Bijection(Ledger, T)
  BY DEF RowsAreUnique, Bijection, Injection, Surjection, IsInjective
<1>3. ExistsBijection(Ledger, T)
  BY <1>2 DEF ExistsBijection
<1> QED
  BY <1>1, <1>3, FS_Bijection

(* Rows are added only, so what is due stays due.                           *)
LEMMA DueStays ==
  ASSUME Ledger \subseteq Ledger'
  PROVE  DueAt(TotalPoints) \subseteq DueAt(TotalPoints)'
<1>1. IsFiniteSet(Ledger) /\ IsFiniteSet(Ledger')
  BY FS_Subset DEF Ledger
<1>2. Cardinality(Ledger) \in Nat /\ Cardinality(Ledger') \in Nat
  BY <1>1, FS_CardinalityType
<1>3. Cardinality(Ledger) <= Cardinality(Ledger')
  BY <1>1, FS_Subset
<1>4. \A m, n \in Nat : m <= n => Points * m <= Points * n /\ Points * m \in Nat /\ Points * n \in Nat
  OBVIOUS
<1>5. TotalPoints <= TotalPoints' /\ TotalPoints \in Nat /\ TotalPoints' \in Nat
  BY <1>2, <1>3, <1>4 DEF TotalPoints
<1> QED
  BY <1>5 DEF DueAt

LEMMA LedgerGrows ==
  ASSUME StreakInv, Next
  PROVE  Ledger \subseteq Ledger'
<1>1. CASE row' = row
  BY <1>1 DEF Ledger
<1>2. ASSUME NEW j \in Jobs, at[j] = "points", row' = [row EXCEPT ![j] = date[j]]
      PROVE  Ledger \subseteq Ledger'
  <2>1. date[j] # 0
    BY <1>2 DEF StreakInv, DatesAreRecorded, Awarding, Dates
  <2> QED
    BY <1>2, <2>1 DEF Ledger, StreakInv, TypeOK
<1> QED
  BY <1>1, <1>2 DEF Next, Award, Begin, AddPoints, AddNothing, GetStreak, UpsertStreak,
     GetTotal, AwardBadge, AwardNoBadge, CreateDefinition, NewDay

LEMMA RowsStayUnique ==
  ASSUME StreakInv, RowsAreUnique, [Next]_vars
  PROVE  RowsAreUnique'
<1>1. CASE row' = row
  BY <1>1 DEF RowsAreUnique, Ledger
<1>2. ASSUME NEW j \in Jobs, ~Recorded(j), row' = [row EXCEPT ![j] = date[j]]
      PROVE  RowsAreUnique'
  BY <1>2 DEF RowsAreUnique, Recorded, Ledger, StreakInv, TypeOK
<1> QED
  BY <1>1, <1>2 DEF Next, Award, Begin, AddPoints, AddNothing, GetStreak, UpsertStreak,
     GetTotal, AwardBadge, AwardNoBadge, CreateDefinition, NewDay, vars

LEMMA UnlockedOncePreserved ==
  ASSUME StreakInv, UnlockedOnce, [Next]_vars
  PROVE  UnlockedOnce'
<1>1. CASE unlocked' = unlocked /\ badges \subseteq badges'
  BY <1>1 DEF UnlockedOnce
<1>2. ASSUME NEW j \in Jobs, AwardBadge(j)
      PROVE  UnlockedOnce'
  BY <1>2 DEF AwardBadge, UnlockedOnce, StreakInv, TypeOK
<1> QED
  BY <1>1, <1>2 DEF Next, Award, Begin, AddPoints, AddNothing, GetStreak, UpsertStreak,
     GetTotal, AwardNoBadge, CreateDefinition, NewDay, vars

LEMMA PointsStay ==
  ASSUME StreakInv, PointsAreThere, [Next]_vars
  PROVE  PointsAreThere'
<1>1. DueAt(TotalPoints) \subseteq DueAt(TotalPoints)'
  <2>1. CASE Next
    BY <2>1, LedgerGrows, DueStays
  <2>2. CASE UNCHANGED vars
    BY <2>2, DueStays DEF vars, Ledger
  <2> QED
    BY <2>1, <2>2
<1>2. badges' \subseteq DueAt(TotalPoints)
  BY DEF PointsAreThere, Next, Award, Begin, AddPoints, AddNothing, GetStreak, UpsertStreak,
     GetTotal, AwardBadge, AwardNoBadge, NextDue, CreateDefinition, NewDay, vars
<1>3. \A j \in Jobs : due'[j] \subseteq DueAt(TotalPoints)
  BY DEF PointsAreThere, StreakInv, TypeOK, Next, Award, Begin, AddPoints, AddNothing,
     GetStreak, UpsertStreak, GetTotal, AwardBadge, AwardNoBadge, NextDue, GoOn, Throws,
     CreateDefinition, NewDay, vars, local
<1> QED
  BY <1>1, <1>2, <1>3 DEF PointsAreThere

LEMMA BadgeInvariance == Spec => []BadgeInv
<1>1. Init => BadgeInv
  BY DEF Init, BadgeInv, RowsAreUnique, UnlockedOnce, PointsAreThere, Ledger
<1>2. StreakInv /\ BadgeInv /\ [Next]_vars => BadgeInv'
  BY RowsStayUnique, UnlockedOncePreserved, PointsStay DEF BadgeInv
<1> QED
  BY <1>1, <1>2, StreakInvariance, PTL DEF Spec

(* Badges are unlocked once, for points of as many assignments.             *)
THEOREM UnlocksEarned == Spec => []UnlocksAreEarned
<1>1. BadgeInv => UnlocksAreEarned
  BY RowsCountAssignments DEF BadgeInv, UnlocksAreEarned, UnlockedOnce, PointsAreThere, TotalPoints, DueAt
<1> QED
  BY <1>1, BadgeInvariance, PTL

-----------------------------------------------------------------------------
(* The exact streak *)

(* A streak that is exact for a set D of days with an award.                *)
ExactFor(s, D) ==
  /\ s.last # 0 => s.last \in D
  /\ \A day \in D : day <= s.last
  /\ s.last - s.current \notin D
  /\ \A day \in D : ~(DaysTo(day, s.longest + 1) \subseteq D)

(* A streak that lacks nothing but, maybe, today.                           *)
UpToDate(s) ==
  IF s.last = today THEN ExactFor(s, AwardDates)
  ELSE s.last < today /\ ExactFor(s, AwardDates \ {today})

Updating(j) == at[j] \in {"getStreak", "upsertStreak"}

(* As long as nothing failed and no award ran past midnight, the streak and *)
(* every copy of it that will be written back lack today at most, and today *)
(* only while the award that counts it is on its way.                       *)
LacksTodayAtMost ==
  faults = 0 /\ ~overnight =>
    /\ \A day \in AwardDates : day <= today
    /\ \A j \in Jobs : at[j] \in Awarding => date[j] = today
    /\ UpToDate(streak)
    /\ today \in AwardDates => streak.last = today \/ \E j \in Jobs : Updating(j)
    /\ \A j \in Jobs : at[j] = "upsertStreak" => UpToDate(seen[j])

(* nextStreak makes a streak that lacks today exact: a streak that has it   *)
(* is left alone.                                                           *)
LEMMA NextStreakExact ==
  ASSUME NEW D \in SUBSET Dates, NEW t \in Dates, NEW s \in StreakRows,
         \A day \in D : day < t, s.last < t, ExactFor(s, D)
  PROVE  NextStreak(s, t).last = t /\ ExactFor(NextStreak(s, t), D \cup {t})
<1> DEFINE c == IF s.last # 0 /\ t = s.last + 1 THEN s.current + 1 ELSE 1
           n == NextStreak(s, t)
<1>1. /\ s.last \in Nat /\ s.current \in Nat /\ s.longest \in Nat /\ t \in Nat /\ t >= 1
      /\ \A day \in D : day \in Nat /\ day >= 1
  BY DEF StreakRows, Dates
<1>2. n = [current |-> c, longest |-> Greater(c, s.longest), last |-> t]
  BY <1>1 DEF NextStreak
<1>3. c \in Nat /\ c >= 1 /\ n.longest \in Nat /\ n.longest >= c /\ n.longest >= s.longest
  BY <1>1, <1>2 DEF Greater
<1>4. t - c \notin D \cup {t}
  <2>1. CASE s.last # 0 /\ t = s.last + 1
    BY <1>1, <1>3, <2>1 DEF ExactFor
  <2>2. CASE ~(s.last # 0 /\ t = s.last + 1)
    <3>1. c = 1 /\ t - 1 \in D => t - 1 <= s.last /\ t - 1 >= 1
      BY <1>1, <2>2 DEF ExactFor
    <3> QED
      BY <1>1, <2>2, <3>1
  <2> QED
    BY <2>1, <2>2
<1>5. ASSUME NEW day \in D \cup {t} PROVE ~(DaysTo(day, n.longest + 1) \subseteq D \cup {t})
  <2>1. CASE day \in D
    <3>1. DaysTo(day, s.longest + 1) \subseteq DaysTo(day, n.longest + 1)
      BY <1>1, <1>3, <2>1 DEF DaysTo
    <3>2. t \notin DaysTo(day, s.longest + 1)
      BY <1>1, <2>1 DEF DaysTo
    <3> QED
      BY <2>1, <3>1, <3>2 DEF ExactFor
  <2>2. CASE day = t
    <3>1. t - c \in DaysTo(t, n.longest + 1)
      BY <1>1, <1>3 DEF DaysTo
    <3> QED
      BY <1>4, <2>2, <3>1
  <2> QED
    BY <2>1, <2>2
<1>6. \A day \in D \cup {t} : day <= t
  BY <1>1
<1> QED
  BY <1>2, <1>4, <1>5, <1>6 DEF ExactFor

(* What the upsert of an award of today writes.                             *)
LEMMA UpsertedIsUpToDate ==
  ASSUME StreakInv, LacksTodayAtMost, faults = 0, ~overnight, NEW j \in Jobs, at[j] = "upsertStreak"
  PROVE  /\ NextStreak(seen[j], date[j]).last = today
         /\ ExactFor(NextStreak(seen[j], date[j]), AwardDates)
<1>1. date[j] = today /\ UpToDate(seen[j]) /\ seen[j] \in StreakRows /\ today \in Dates
  BY DEF LacksTodayAtMost, Awarding, StreakInv, TypeOK
<1>2. today \in AwardDates
  BY <1>1 DEF StreakInv, DatesAreRecorded, Awarding, Dates, AwardDates, Ledger
<1>3. CASE seen[j].last = today
  BY <1>1, <1>3 DEF UpToDate, NextStreak, Dates
<1>4. CASE seen[j].last # today
  <2> DEFINE D == AwardDates \ {today}
  <2>1. AwardDates \subseteq Dates
    BY DEF AwardDates, Ledger, StreakInv, TypeOK
  <2>2. \A day \in D : day < today
    BY <1>1, <2>1 DEF LacksTodayAtMost, Dates
  <2>3. AwardDates = D \cup {today}
    BY <1>2
  <2> QED
    BY <1>1, <1>4, <2>1, <2>2, <2>3, NextStreakExact DEF UpToDate
<1> QED
  BY <1>3, <1>4

(* What keeps rows, streak and copies keeps what they say of a day.         *)
LEMMA LacksTodayStays ==
  ASSUME StreakInv, LacksTodayAtMost, faults' = 0 => faults = 0, overnight' = overnight,
         UNCHANGED <<today, row, streak>>,
         \A j \in Jobs : at'[j] \in Awarding => date'[j] = date[j] /\ at[j] \in Awarding,
         \A j \in Jobs : at'[j] = "upsertStreak" => at[j] = "upsertStreak" /\ seen'[j] = seen[j],
         \A j \in Jobs : Updating(j) /\ faults' = 0 => Updating(j)'
  PROVE  LacksTodayAtMost'
<1> SUFFICES ASSUME faults' = 0, ~overnight' PROVE LacksTodayAtMost'
  BY DEF LacksTodayAtMost
<1>1. AwardDates' = AwardDates
  BY DEF AwardDates, Ledger
<1>2. \A s : UpToDate(s) => UpToDate(s)'
  BY <1>1 DEF UpToDate, ExactFor
<1> QED
  BY <1>1, <1>2 DEF LacksTodayAtMost, UpToDate, ExactFor

LEMMA LacksTodayPreserved ==
  ASSUME StreakInv, LacksTodayAtMost, [Next]_vars
  PROVE  LacksTodayAtMost'
<1> SUFFICES ASSUME faults' = 0, ~overnight' PROVE LacksTodayAtMost'
  BY DEF LacksTodayAtMost
<1> USE DEF StreakInv, TypeOK, Move, Awarding
<1>0. faults \in Nat /\ today \in Nat
  BY DEF Dates
<1>1. ASSUME NEW j \in Jobs, Begin(j) PROVE LacksTodayAtMost'
  <2>1. AwardDates' = AwardDates
    BY <1>1 DEF Begin, AwardDates, Ledger
  <2>2. \A i \in Jobs : at'[i] \in Awarding => date'[i] = today
    BY <1>1 DEF Begin, LacksTodayAtMost
  <2>3. \A i \in Jobs : (Updating(i) => Updating(i)') /\ (at'[i] = "upsertStreak" => at[i] = "upsertStreak")
    BY <1>1 DEF Begin, Updating
  <2> QED
    BY <1>1, <2>1, <2>2, <2>3 DEF Begin, LacksTodayAtMost, UpToDate, ExactFor
<1>2. ASSUME NEW j \in Jobs, AddPoints(j) PROVE LacksTodayAtMost'
  <2>1. date[j] = today /\ row[j] = 0 /\ today # 0
    BY <1>2 DEF AddPoints, LacksTodayAtMost, Recorded, Ledger, Dates
  <2>2. AwardDates' = AwardDates \cup {today}
    BY <1>2, <2>1 DEF AddPoints, AwardDates, Ledger
  <2>3. ASSUME NEW s, UpToDate(s) PROVE UpToDate(s)'
    <3>1. CASE s.last = today
      <4>1. AwardDates' = AwardDates
        BY <2>1, <2>2, <2>3, <3>1 DEF UpToDate, ExactFor
      <4> QED
        BY <1>2, <2>3, <4>1 DEF AddPoints, UpToDate, ExactFor
    <3>2. CASE s.last # today
      <4>1. (AwardDates \ {today})' = AwardDates \ {today} /\ today' = today
        BY <1>2, <2>2 DEF AddPoints
      <4> QED
        BY <2>3, <3>2, <4>1 DEF UpToDate, ExactFor
    <3> QED
      BY <3>1, <3>2
  <2>4. at'[j] = "getStreak" /\ \A i \in Jobs : i # j => at'[i] = at[i]
    BY <1>2 DEF AddPoints
  <2> QED
    BY <1>0, <1>2, <2>2, <2>3, <2>4 DEF AddPoints, LacksTodayAtMost, Updating, UpToDate, ExactFor
<1>3. ASSUME NEW j \in Jobs, GetStreak(j) PROVE LacksTodayAtMost'
  <2>1. /\ seen' = [seen EXCEPT ![j] = streak] /\ at' = [at EXCEPT ![j] = "upsertStreak"]
        /\ UNCHANGED <<today, row, streak, date, faults, overnight>> /\ at[j] = "getStreak"
    BY <1>0, <1>3 DEF GetStreak, Throws, Fault
  <2>2. AwardDates' = AwardDates
    BY <2>1 DEF AwardDates, Ledger
  <2>3. \A s : UpToDate(s) => UpToDate(s)'
    BY <2>1, <2>2 DEF UpToDate, ExactFor
  <2> QED
    BY <2>1, <2>2, <2>3 DEF LacksTodayAtMost, Updating, UpToDate, ExactFor
<1>4. ASSUME NEW j \in Jobs, UpsertStreak(j) PROVE LacksTodayAtMost'
  <2>1. /\ streak' = NextStreak(seen[j], date[j]) /\ at' = [at EXCEPT ![j] = "total"]
        /\ UNCHANGED <<today, row, faults, overnight>> /\ at[j] = "upsertStreak"
        /\ seen' = [seen EXCEPT ![j] = NoStreak] /\ date' = [date EXCEPT ![j] = 0]
    BY <1>0, <1>4 DEF UpsertStreak, Throws, Fault
  <2>2. AwardDates' = AwardDates
    BY <2>1 DEF AwardDates, Ledger
  <2>3. \A s : UpToDate(s) => UpToDate(s)'
    BY <2>1, <2>2 DEF UpToDate, ExactFor
  <2>4. streak'.last = today /\ ExactFor(streak', AwardDates)
    BY <2>1, UpsertedIsUpToDate
  <2>5. UpToDate(streak)'
    BY <2>1, <2>2, <2>4 DEF UpToDate, ExactFor
  <2>6. \A i \in Jobs : at'[i] = "upsertStreak" => UpToDate(seen[i])'
    BY <2>1, <2>3 DEF LacksTodayAtMost, UpToDate, ExactFor
  <2>7. \A i \in Jobs : at'[i] \in Awarding => date'[i] = today'
    BY <2>1 DEF LacksTodayAtMost
  <2> QED
    BY <2>1, <2>2, <2>4, <2>5, <2>6, <2>7 DEF LacksTodayAtMost
<1>5. CASE NewDay
  <2>1. /\ \A j \in Jobs : at[j] \notin Awarding
        /\ today' = today + 1 /\ UNCHANGED <<row, streak, at, seen, date, faults>> /\ ~overnight
    BY <1>5 DEF NewDay, local
  <2>2. AwardDates' = AwardDates /\ \A day \in AwardDates : day \in Nat /\ day <= today
    BY <2>1, <1>0 DEF AwardDates, Ledger, LacksTodayAtMost, Dates
  <2>3. ExactFor(streak, AwardDates) /\ streak.last <= today
    <3>1. CASE streak.last = today
      BY <1>0, <2>1, <3>1 DEF LacksTodayAtMost, UpToDate
    <3>2. CASE streak.last # today
      <4>1. AwardDates \ {today} = AwardDates
        BY <2>1, <3>2 DEF LacksTodayAtMost, Updating
      <4>2. streak.last < today /\ ExactFor(streak, AwardDates)
        BY <2>1, <3>2, <4>1 DEF LacksTodayAtMost, UpToDate
      <4>3. streak.last \in Nat
        BY DEF StreakRows, Dates
      <4> QED
        BY <1>0, <4>2, <4>3
    <3> QED
      BY <3>1, <3>2
  <2>4. streak.last \in Nat /\ streak.last < today' /\ today' \notin AwardDates'
    BY <1>0, <2>1, <2>2, <2>3 DEF StreakRows, Dates
  <2>5. (AwardDates \ {today})' = AwardDates
    BY <2>2, <2>4
  <2>6. UpToDate(streak)'
    BY <2>1, <2>3, <2>4, <2>5 DEF UpToDate, ExactFor
  <2> QED
    BY <1>0, <2>1, <2>2, <2>4, <2>6 DEF LacksTodayAtMost, Updating
<1>6. ASSUME NEW j \in Jobs, AddNothing(j) \/ GetTotal(j) \/ AwardBadge(j) \/ AwardNoBadge(j)
      PROVE  LacksTodayAtMost'
  <2>1. UNCHANGED <<today, row, streak, seen, faults, overnight>>
    BY <1>0, <1>6 DEF AddNothing, GetTotal, AwardBadge, AwardNoBadge, GoOn, Throws, Fault
  <2>2. /\ \A i \in Jobs : i # j => at'[i] = at[i] /\ date'[i] = date[i]
        /\ at[j] \notin {"getStreak", "upsertStreak"} /\ at'[j] \notin Awarding
    BY <1>0, <1>6, <2>1 DEF AddNothing, GetTotal, AwardBadge, AwardNoBadge, GoOn, Throws, Fault
  <2> QED
    BY <2>1, <2>2, LacksTodayStays DEF Updating
<1>7. CASE UNCHANGED vars \/ \E b \in Badges : CreateDefinition(b)
  BY <1>7, LacksTodayStays DEF CreateDefinition, vars, local, Updating
<1> QED
  BY <1>1, <1>2, <1>3, <1>4, <1>5, <1>6, <1>7 DEF Next, Award

(* Between awards the streak is exact, unless one failed or ran past        *)
(* midnight.                                                                *)
THEOREM StreaksAreExact == Spec => []StreakIsExact
<1>1. Init => LacksTodayAtMost
  <2> SUFFICES ASSUME Init PROVE LacksTodayAtMost
    OBVIOUS
  <2>1. AwardDates = {} /\ today = 1 /\ streak = NoStreak /\ \A j \in Jobs : at[j] = "new"
    BY DEF Init, AwardDates, Ledger
  <2> QED
    BY <2>1 DEF LacksTodayAtMost, UpToDate, ExactFor, NoStreak, Awarding, Updating
<1>2. StreakInv /\ LacksTodayAtMost /\ [Next]_vars => LacksTodayAtMost'
  BY LacksTodayPreserved
<1>3. StreakInv /\ LacksTodayAtMost => StreakIsExact
  <2> SUFFICES ASSUME StreakInv, LacksTodayAtMost, faults = 0, ~overnight, \A j \in Jobs : ~Updating(j)
               PROVE  ExactFor(streak, AwardDates)
    BY DEF StreakIsExact, ExactFor, Updating
  <2>1. CASE streak.last = today
    BY <2>1 DEF LacksTodayAtMost, UpToDate
  <2>2. CASE streak.last # today
    <3>1. AwardDates \ {today} = AwardDates
      BY <2>2 DEF LacksTodayAtMost
    <3> QED
      BY <2>2, <3>1 DEF LacksTodayAtMost, UpToDate
  <2> QED
    BY <2>1, <2>2
<1> QED
  BY <1>1, <1>2, <1>3, StreakInvariance, PTL DEF Spec

-----------------------------------------------------------------------------
(* The badges that are still to come *)

(* An award that will yet come by badge b.                                  *)
WillAward(j, b) ==
  at[j] \in {"getStreak", "upsertStreak", "total"} \/ (at[j] = "badges" /\ b \in due[j])

(* As long as nothing failed, each badge that is held has been announced,   *)
(* and each defined one whose points are there is held, on some award's     *)
(* way, or was defined too late.                                            *)
AnnouncedIfHeld == faults = 0 => \A b \in badges : unlocked[b] = 1

Awaited == (defined \cap Reached) \ (late \cup badges)

BadgesAreOnTheirWay == faults = 0 => \A b \in Awaited : \E j \in Jobs : WillAward(j, b)

LEMMA AnnouncedIfHeldPreserved ==
  ASSUME StreakInv, BadgeInv, AnnouncedIfHeld, [Next]_vars
  PROVE  AnnouncedIfHeld'
<1> SUFFICES ASSUME faults' = 0 PROVE \A b \in badges' : unlocked'[b] = 1
  BY DEF AnnouncedIfHeld
<1>0. faults \in Nat /\ unlocked \in [Badges -> Nat] /\ badges \subseteq Badges
  BY DEF StreakInv, TypeOK
<1>1. ASSUME NEW j \in Jobs, AwardBadge(j) PROVE \A b \in badges' : unlocked'[b] = 1
  <2>1. PICK b \in Badges \ badges : badges' = badges \cup {b} /\ unlocked' = [unlocked EXCEPT ![b] = @ + 1]
    BY <1>0, <1>1 DEF AwardBadge, StreakInv, TypeOK
  <2>2. unlocked[b] = 0
    BY <1>0, <2>1 DEF BadgeInv, UnlockedOnce
  <2>3. faults = 0
    BY <1>1 DEF AwardBadge
  <2> QED
    BY <1>0, <2>1, <2>2, <2>3 DEF AnnouncedIfHeld
<1>2. CASE UNCHANGED <<badges, unlocked>> /\ faults = 0
  BY <1>2 DEF AnnouncedIfHeld
<1> QED
  BY <1>0, <1>1, <1>2 DEF Next, Award, Begin, AddPoints, AddNothing, GetStreak, UpsertStreak,
     GetTotal, AwardNoBadge, Throws, Fault, CreateDefinition, NewDay, local, vars

(* A step after which no badge is awaited that was not, and the awards that *)
(* come by those still do.                                                  *)
LEMMA BadgesStayOnTheirWay ==
  ASSUME BadgesAreOnTheirWay, faults' = 0 => faults = 0, Awaited' \subseteq Awaited,
         \A j \in Jobs, b \in Awaited' : WillAward(j, b) => WillAward(j, b)'
  PROVE  BadgesAreOnTheirWay'
  BY DEF BadgesAreOnTheirWay

LEMMA BadgesOnTheirWayPreserved ==
  ASSUME StreakInv, BadgesAreOnTheirWay, [Next]_vars
  PROVE  BadgesAreOnTheirWay'
<1> SUFFICES ASSUME faults' = 0 PROVE BadgesAreOnTheirWay'
  BY DEF BadgesAreOnTheirWay
<1> USE DEF StreakInv, TypeOK, Move
<1>0. faults = 0 /\ UNCHANGED faults
  <2>1. faults \in Nat
    OBVIOUS
  <2> QED
    BY <2>1 DEF Next, Award, Begin, AddPoints, AddNothing, GetStreak, UpsertStreak,
       GetTotal, AwardBadge, AwardNoBadge, Throws, Fault, CreateDefinition, NewDay, local, vars
<1>1. ASSUME NEW j \in Jobs, AddPoints(j) PROVE BadgesAreOnTheirWay'
  BY <1>1 DEF AddPoints, BadgesAreOnTheirWay, WillAward
<1>2. CASE row' = row
  <2>1. Reached' = Reached
    BY <1>2 DEF Reached, TotalPoints, Ledger
  <2>2. Awaited' \subseteq Awaited
    BY <2>1 DEF Awaited, Next, Award, Begin, AddPoints, AddNothing, GetStreak, UpsertStreak,
       GetTotal, AwardBadge, AwardNoBadge, CreateDefinition, NewDay, vars
  <2>3. ASSUME NEW j \in Jobs, Begin(j) \/ AddNothing(j) \/ GetStreak(j) \/ UpsertStreak(j)
        PROVE  \A i \in Jobs, b \in Badges : WillAward(i, b) => WillAward(i, b)'
    BY <1>0, <2>3 DEF Begin, AddNothing, GetStreak, UpsertStreak, Throws, Fault, WillAward
  <2>4. ASSUME NEW j \in Jobs, GetTotal(j)
        PROVE  \A i \in Jobs, b \in Reached : WillAward(i, b) => WillAward(i, b)'
    <3>1. Reached = DueAt(TotalPoints)
      <4>1. IsFiniteSet(Ledger)
        BY FS_Subset DEF Ledger
      <4>2. Cardinality(Ledger) \in Nat
        BY <4>1, FS_CardinalityType
      <4>3. TotalPoints \in Nat /\ \A b \in Badges : Threshold[b] \in Nat
        BY <4>2 DEF TotalPoints
      <4> QED
        BY <4>3 DEF Reached, DueAt
    <3>2. /\ due' = [due EXCEPT ![j] = DueAt(TotalPoints)] /\ at[j] = "total"
          /\ at' = [at EXCEPT ![j] = IF DueAt(TotalPoints) = {} THEN "handled" ELSE "badges"]
      BY <1>0, <2>4 DEF GetTotal, Throws, Fault
    <3> QED
      BY <3>1, <3>2 DEF WillAward
  <2>5. ASSUME NEW j \in Jobs, AwardBadge(j) \/ AwardNoBadge(j)
        PROVE  \A i \in Jobs, b \in Awaited' : WillAward(i, b) => WillAward(i, b)'
    <3>1. PICK b \in Badges : at[j] = "badges" /\ GoOn(j, b) /\ (b \in badges' \/ b \notin defined')
      BY <1>0, <2>5 DEF AwardBadge, AwardNoBadge, Throws, Fault
    <3>2. b \notin Awaited'
      BY <3>1 DEF Awaited
    <3> QED
      BY <3>1, <3>2 DEF GoOn, WillAward
  <2>6. CASE NewDay \/ UNCHANGED vars \/ \E b \in Badges : CreateDefinition(b)
    <3>1. UNCHANGED <<at, due>>
      BY <2>6 DEF NewDay, CreateDefinition, vars, local
    <3> QED
      BY <1>0, <2>2, <3>1, BadgesStayOnTheirWay DEF WillAward
  <2>7. Awaited' \subseteq Badges \cap Reached
    BY <2>2 DEF Awaited
  <2> QED
    BY <1>0, <1>1, <2>2, <2>3, <2>4, <2>5, <2>6, <2>7, BadgesStayOnTheirWay DEF Next, Award
<1> QED
  BY <1>0, <1>1, <1>2 DEF Next, Award, Begin, AddNothing, GetStreak, UpsertStreak, Fault,
     GetTotal, AwardBadge, AwardNoBadge, CreateDefinition, NewDay, vars

(* Between awards, and unless one failed, the member holds exactly the      *)
(* badges of his points, each announced once.                               *)
THEOREM BadgesFollow == Spec => []BadgesFollowPoints
<1>1. Init => AnnouncedIfHeld /\ BadgesAreOnTheirWay
  <2> SUFFICES ASSUME Init PROVE BadgesAreOnTheirWay
    BY DEF Init, AnnouncedIfHeld
  <2>1. Ledger = {}
    BY DEF Init, Ledger
  <2>2. Cardinality(Ledger) = 0
    BY <2>1, FS_EmptySet
  <2>3. Points \in Nat /\ \A b \in Badges : Threshold[b] \in Nat \ {0}
    BY AwardAssumption
  <2>4. Reached = {}
    BY <2>2, <2>3 DEF Reached, TotalPoints
  <2> QED
    BY <2>4 DEF BadgesAreOnTheirWay, Awaited
<1>2. StreakInv /\ BadgeInv /\ AnnouncedIfHeld /\ BadgesAreOnTheirWay /\ [Next]_vars
        => AnnouncedIfHeld' /\ BadgesAreOnTheirWay'
  BY AnnouncedIfHeldPreserved, BadgesOnTheirWayPreserved
<1>3. StreakInv /\ BadgeInv /\ AnnouncedIfHeld /\ BadgesAreOnTheirWay => BadgesFollowPoints
  <2> SUFFICES ASSUME TypeOK, BadgeInv, AnnouncedIfHeld, BadgesAreOnTheirWay, faults = 0,
                      \A j \in Jobs : at[j] \in {"new", "points", "handled"}
               PROVE  badges \ late = (defined \cap Reached) \ late /\ \A b \in badges : unlocked[b] = 1
    BY DEF BadgesFollowPoints, StreakInv
  <2>1. Awaited = {}
    BY DEF BadgesAreOnTheirWay, WillAward
  <2>2. badges \subseteq defined /\ badges \subseteq Reached
    BY DEF TypeOK, BadgeInv, PointsAreThere, DueAt, Reached
  <2> QED
    BY <2>1, <2>2 DEF Awaited, AnnouncedIfHeld
<1> QED
  BY <1>1, <1>2, <1>3, BadgeInvariance, StreakInvariance, PTL DEF Spec
=============================================================================
