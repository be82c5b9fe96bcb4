------------------------------ MODULE RateGate ------------------------------
(***************************************************************************)
(* The adaptive 429 gate of src/llm_client.py (class _AdaptiveRateGate).   *)
(* One gate is shared by every thread that calls the same endpoint.  It is *)
(* a monitor: each operation below is one critical section under _cv.      *)
(*                                                                         *)
(* The clients are the threads inside _post_json: they wait at acquire(),  *)
(* hold an in-flight slot while the HTTP request runs and, after a 429,    *)
(* KEEP the slot during the back-off sleep, because release() sits in the  *)
(* finally clause that runs only after the sleep.                          *)
(*                                                                         *)
(* Time is abstracted: "paused" says that now() is before _pause_until.    *)
(***************************************************************************)
EXTENDS Workers

CONSTANTS None,               \* the initial _limit: no 429 seen yet
          GateCeiling,        \* GATE_CEILING
          RecoverySuccesses   \* GATE_RECOVERY_SUCCESSES

ASSUME GateAssumption ==
  /\ GateCeiling \in Nat \ {0}
  /\ RecoverySuccesses \in Nat \ {0}
  /\ None \notin Int

VARIABLES limit,      \* _limit
          active,     \* _active
          successes,  \* _successes
          paused      \* now() < _pause_until

gateVars == <<limit, active, successes, paused>>

GateTypeOK ==
  /\ limit \in (1..GateCeiling) \cup {None}
  /\ active \in Nat
  /\ successes \in 0..(RecoverySuccesses - 1)
  /\ paused \in BOOLEAN

GateInit ==
  /\ limit = None
  /\ active = 0
  /\ successes = 0
  /\ paused = FALSE

-----------------------------------------------------------------------------
(* The operations of the monitor.                                          *)

\* Mutant: the limit is compared after the increment is forgotten (<=).
HasRoomOffByOne == limit # None => active <= limit

\* The condition under which acquire() stops waiting.
HasRoom == limit # None => active < limit

Acquire ==
  /\ ~paused
  /\ HasRoom
  /\ active' = active + 1
  /\ UNCHANGED <<limit, successes, paused>>

\* Mutant: the slot is not given back.
ReleaseLost == UNCHANGED gateVars

Release ==
  /\ active' = IF active = 0 THEN 0 ELSE active - 1
  /\ UNCHANGED <<limit, successes, paused>>

\* Mutant: the floor of one request is forgotten.
HalvedToZero(base) ==
  (IF base < GateCeiling THEN base ELSE GateCeiling) \div 2

\* The halved ceiling; base is what the gate lets through at the moment.
Halved(base) ==
  LET half == (IF base < GateCeiling THEN base ELSE GateCeiling) \div 2
  IN  IF half < 1 THEN 1 ELSE half

\* A 429 with a Retry-After of zero extends no pause.
OnRateLimited(delayed) ==
  /\ limit' = Halved(IF limit = None THEN active ELSE limit)
  /\ successes' = 0
  /\ paused' = (paused \/ delayed)
  /\ UNCHANGED active

OnSuccess ==
  /\ IF limit = None
       THEN UNCHANGED <<limit, successes>>
       ELSE IF successes + 1 >= RecoverySuccesses
              THEN /\ successes' = 0
                   /\ limit' = IF limit < GateCeiling THEN limit + 1 ELSE limit
              ELSE /\ successes' = successes + 1
                   /\ UNCHANGED limit
  /\ UNCHANGED <<active, paused>>

\* The clock passes _pause_until.
PauseExpires ==
  /\ paused
  /\ paused' = FALSE
  /\ UNCHANGED <<limit, active, successes>>
=============================================================================
