--------------------------- MODULE MatcherPromise ---------------------------
(***************************************************************************)
(* What a call of runGreedyMatcher promises to its caller: one step from   *)
(* the input to the complete answer.  Which answers are right is a         *)
(* parameter; GreedyMatcher instantiates it with GreedyMatching's          *)
(* IsGreedyAnswer.                                                         *)
(***************************************************************************)
CONSTANTS
  Inputs,           \* the inputs a call may be given
  NoAnswer,         \* the call has not returned
  IsAnswer(_, _)    \* IsAnswer(in, ans): ans is a right answer to in

VARIABLES
  input,     \* the call's argument
  answer     \* what the call has returned

vars == <<input, answer>>

Init == input \in Inputs /\ answer = NoAnswer

Return ==
  /\ answer = NoAnswer
  /\ answer' # NoAnswer
  /\ IsAnswer(input, answer')
  /\ UNCHANGED input

Spec == Init /\ [][Return]_vars
=============================================================================
