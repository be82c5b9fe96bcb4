--------------------------- MODULE MCOperationLease ---------------------------
(* Constants for TLC: one process with two threads, two with one thread.   *)
EXTENDS OperationLease, TLC

CONSTANTS a1, a2, b1, c1, a, b, c

MCThreads == {a1, a2, b1, c1}
MCProcesses == {a, b, c}
MCProcessOf == (a1 :> a) @@ (a2 :> a) @@ (b1 :> b) @@ (c1 :> c)

\* The processes with one thread do the same things, and so do the two threads.
MCSymmetry ==
  {f @@ g : f \in Permutations({a1, a2}),
            g \in {(b1 :> b1) @@ (c1 :> c1) @@ (b :> b) @@ (c :> c),
                   (b1 :> c1) @@ (c1 :> b1) @@ (b :> c) @@ (c :> b)}}
=============================================================================
