------------------------------- MODULE Workers -------------------------------
(***************************************************************************)
(* The threads of one process that share what src/llm_client.py keeps in   *)
(* memory: the 429 gate of an endpoint and a request budget.               *)
(***************************************************************************)
EXTENDS Integers, FiniteSets

CONSTANT Threads

ASSUME WorkersAssumption == IsFiniteSet(Threads)
=============================================================================
