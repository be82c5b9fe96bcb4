---------------------------- MODULE MCEffectiveFold ----------------------------
(* Constants for TLC: three decisions of track A and two of track B.       *)
EXTENDS EffectiveFold

MCTrackOf == [d \in Decisions |-> IF d % 2 = 1 THEN "A" ELSE "B"]
=============================================================================
