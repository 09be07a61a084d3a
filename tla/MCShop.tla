-------------------------------- MODULE MCShop --------------------------------
(***************************************************************************)
(* An order placed and placed again under its key, with a limit of one     *)
(* request; two updates of an older order; three that contend for the lock *)
(* of an order only to find that it is not there; a campaign edit and      *)
(* readers of the campaign's views; a new order confirmed beside a reader  *)
(* of the dashboard.                                                       *)
(***************************************************************************)
EXTENDS Shop

CONSTANTS c1, c2, c3, u1, u2, u3, u4, u5, e1, r1, r2, r3, o1, p1, k1

MCCreates   == {c1, c2, c3}
MCIdemKey   == [c \in MCCreates |-> IF c = c3 THEN None ELSE k1]
MCItems     == [c \in MCCreates |-> {p1}]
MCUpdates   == {u1, u2, u3, u4, u5}
MCOrderOf   == [u \in MCUpdates |-> IF u \in {u1, u2} THEN o1 ELSE c3]
MCNewStatus == [u \in MCUpdates |-> IF u = u2 THEN "CANCELLED" ELSE "CONFIRMED"]
MCReaders   == {r1, r2, r3}
MCKeyOf     == [r \in MCReaders |-> CASE r = r1 -> "list" [] r = r2 -> "one" [] r = r3 -> "dashboard"]
MCWorkloads == { {c1, c2}, {u1, u2}, {u3, u4, u5}, {u1, e1, r1}, {u1, r1, r2}, {e1, r1, r2}, {c3, u3, r3} }
=============================================================================
