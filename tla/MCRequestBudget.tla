--------------------------- MODULE MCRequestBudget ---------------------------
(* Two payload sizes.  MaxTokens admits two large requests but not three,  *)
(* and the call limit bites before the token limit when the small ones run.*)
EXTENDS RequestBudget, TLC

CONSTANTS small, large

Ceilings == small :> 2 @@ large :> 3

ThreadSymmetry == Permutations(Threads)
=============================================================================
