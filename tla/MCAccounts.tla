------------------------------ MODULE MCAccounts ------------------------------
(***************************************************************************)
(* Invites, accepts and a revoke; an application reviewed twice; the       *)
(* sessions of an account with a temporary and with its own password.      *)
(***************************************************************************)
EXTENDS Accounts

CONSTANTS i1, i2, a1, a2, a3, v1, v2, p1, w1, w2, in1, in2, me1, rd1, wr1, ch1, ch2, out1

MCInviteOf == [q \in {a1, a2, a3, v1, v2} |-> IF q = a3 THEN i2 ELSE i1]
MCDecision == [w \in {w1, w2} |-> IF w = w1 THEN "APPROVED" ELSE "REJECTED"]

MCCalls == {in1, in2, me1, rd1, wr1, ch1, ch2, out1}
MCKind  == [c \in MCCalls |->
  CASE c \in {in1, in2} -> "login" [] c = me1 -> "me" [] c = rd1 -> "read" [] c = wr1 -> "write"
    [] c \in {ch1, ch2} -> "changePassword" [] c = out1 -> "logout"]
MCTyped  == [c \in MCCalls |-> IF c \in {in2, ch1, ch2} THEN "temporary" ELSE "own"]
MCChosen == [c \in MCCalls |-> IF c = ch2 THEN "other" ELSE "own"]

Temporary == NewAccount("temporary", TRUE)
Own       == NewAccount("own", FALSE)
MCExisting == {None, Temporary, Own}

MCWorkloads ==
  { {i1, a1, a2, v1}, {i1, i2, p1, a1, a3}, {i1, a1, v1, v2}, {w1, w2},
    {i1, a1, in1, wr1}, {in1, in2, rd1, wr1}, {in2, ch1, ch2, rd1}, {in1, out1, me1, wr1} }
=============================================================================
