----------------------------- MODULE MCPageAccess -----------------------------
(***************************************************************************)
(* Every page and every route of the program, for every role, with and     *)
(* without a password to change, signed in or not.                         *)
(***************************************************************************)
EXTENDS PageAccess
=============================================================================
