------------------------------ MODULE MCPostJson ------------------------------
(* Constants for TLC: one thread under a request budget, one without.      *)
EXTENDS PostJson, TLC

CONSTANTS budgeted, plain, small, core

MCThreads == {budgeted, plain}
MCCeiling == small :> 2
MCCallLimit == core :> 7
MCTokenLimit == core :> 13
=============================================================================
