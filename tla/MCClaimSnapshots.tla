---------------------------- MODULE MCClaimSnapshots ----------------------------
(* Model values for ClaimSnapshots: two processes, and what they do in one *)
(* behaviour.                                                              *)
EXTENDS ClaimSnapshots

CONSTANTS p1, p2

MCProcesses == {p1, p2}
MCSymmetry == Permutations(MCProcesses)

Bound(r, a, d, c) ==
  [runs |-> r, changes |-> a, decisions |-> d, crashes |-> c]

\* A change under rebuilds; a crash under a rebuild and a decision; two decisions over a
\* rebuild; two decisions over a change.
MCBounds == {Bound(2, 1, 0, 0), Bound(2, 0, 1, 1), Bound(2, 0, 2, 0), Bound(1, 1, 2, 0)}
=============================================================================
