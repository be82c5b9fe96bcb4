-------------------------- MODULE MCPackagePublication -------------------------
(***************************************************************************)
(* Model values for PackagePublication: two processes, a spreadsheet that  *)
(* users edit and a directory, in two contents each.                       *)
(***************************************************************************)
EXTENDS PackagePublication, TLC

CONSTANTS p1, p2, sheet, folder, old, new

MCMutators == {p1, p2}
MCFiles == {sheet}
MCFolders == {folder}
MCContents == {old, new}

\* A death between two attempts; a death and an edit between the publications of one.
MCBounds == {[runs |-> 2, crashes |-> 1, edits |-> 0],
             [runs |-> 1, crashes |-> 1, edits |-> 1]}

MCStuckBounds == {[runs |-> 1, crashes |-> 1, edits |-> 0]}

MCSymmetry == Permutations(MCMutators) \cup Permutations(MCContents)
=============================================================================
