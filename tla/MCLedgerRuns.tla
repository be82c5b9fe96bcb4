----------------------------- MODULE MCLedgerRuns -----------------------------
(* Constants for TLC: two threads, a core stage and another one.           *)
EXTENDS LedgerRuns, TLC

CONSTANTS t1, t2, core, other

MCThreads == {t1, t2}
MCStages == {core, other}
MCCallLimit == (core :> 2) @@ (other :> 1)
MCTokenLimit == (core :> 3) @@ (other :> 2)

\* The threads do the same things.
MCThreadSymmetry == Permutations(MCThreads)
=============================================================================
