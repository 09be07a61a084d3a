--------------------------- MODULE MCGamification ---------------------------
(***************************************************************************)
(* Three assignments of one member, the first with two jobs; any three of  *)
(* the four jobs are run.  Assignments are 10 points, and the badge is at  *)
(* 20 instead of 100.                                                      *)
(***************************************************************************)
EXTENDS Gamification, TLC

CONSTANTS j1, j2, j3, j4, a1, a2, a3, POINTS_100

MCJobs         == {j1, j2, j3, j4}
MCAssignmentOf == [j \in MCJobs |-> IF j = j3 THEN a2 ELSE IF j = j4 THEN a3 ELSE a1]
MCBadges       == {POINTS_100}
MCThreshold    == [b \in MCBadges |-> 20]

(* What keeps the two jobs of a1 apart from the others.                     *)
SamePayloads   == {p \in Permutations(MCJobs) : {p[j1], p[j2]} = {j1, j2}}

(* bound: the jobs that are started                                         *)
MaxStarted == 3
Started    == {j \in Jobs : at[j] # "new" \/ attempts[j] > 0}

MCNext == Next /\ Cardinality(Started') <= MaxStarted
MCSpec == Init /\ [][MCNext]_vars
=============================================================================
