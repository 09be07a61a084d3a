--------------------------- MODULE MCNotifications ---------------------------
(***************************************************************************)
(* An override made twice to one status, the run of the matcher, and an    *)
(* order event that is for nobody; a second user beside the reader.        *)
(***************************************************************************)
EXTENDS Notifications

CONSTANTS o1, o2, m1, s1, override, run, order, me, you, p1, p2

MCEnqueues   == {o1, o2, m1, s1}
MCJobId      == [e \in MCEnqueues |-> CASE e \in {o1, o2} -> override [] e = m1 -> run [] e = s1 -> order]
MCRecipients == [e \in MCEnqueues |-> CASE e = s1 -> {} [] e = m1 -> {me, you} [] OTHER -> {me}]
MCEvents     == { {o1, o2}, {m1, s1}, {m1} }
MCWatching   == [events \in MCEvents |-> IF events = {m1} THEN {p1, p2} ELSE {}]
=============================================================================
