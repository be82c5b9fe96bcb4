---------------------------- MODULE DocumentLedger ----------------------------
(***************************************************************************)
(* LLMBudgetLedger of src/llm_budget.py: the budget of one document, split *)
(* by pipeline stage and mounted on llm_client as a hook that every HTTP   *)
(* attempt passes (intercept, then settle or charge_failed).               *)
(*                                                                         *)
(* Every operation runs under the ledger's lock up to and including its    *)
(* checkpoint, so it is one step.  The write of llm_budget.json may fail   *)
(* and the failure is only logged: each checkpoint has a free outcome.     *)
(* What is only shown on the cost dashboard (cache hits, routes, the 80 %  *)
(* warnings, time stamps) is left out; its checkpoints are kept.           *)
(***************************************************************************)
EXTENDS Integers, FiniteSets

CONSTANTS Threads,       \* worker threads
          Stages,        \* pipeline stages with a budget of their own
          CoreStage,     \* STAGE_FUNCTIONAL_EXTRACT, the core deliverable
          Ceilings,      \* token ceilings of request payloads
          CallLimit,     \* max_calls of each stage
          TokenLimit,    \* max_tokens of each stage
          Reports,       \* trusted usage totals a provider may report
          Untrusted,     \* a usage that _normalized_usage rejects
          NotPending,    \* _PENDING_RESERVATION is None
          NoFile         \* there is no llm_budget.json yet

ASSUME LedgerAssumption ==
  /\ CoreStage \in Stages
  /\ Ceilings \subseteq Nat \ {0} /\ Reports \subseteq Nat \ {0}
  /\ CallLimit \in [Stages -> Nat \ {0}]
  /\ TokenLimit \in [Stages -> Nat \ {0}]
  /\ Untrusted \notin Nat
  /\ NotPending \notin [stage : Stages, ceiling : Ceilings]
  /\ IsFiniteSet(Threads)

VARIABLES
  attached,     \* the ledger is the document hook of llm_client
  observing,    \* budget_mode() is "observe": account and warn, never block
  consumed,     \* _consumed, per stage
  exhausted,    \* the keys of _exhausted
  needsWork,    \* document_needs_work
  pending,      \* _PENDING_RESERVATION of each thread
  disk          \* llm_budget.json

ledgerVars == <<attached, observing, consumed, exhausted, needsWork, pending, disk>>

NothingConsumed ==
  [s \in Stages |-> [calls |-> 0, tokens |-> 0, reserved |-> 0, failed |-> 0,
                     usageComplete |-> TRUE]]

LedgerInit ==
  /\ attached = FALSE /\ observing = FALSE
  /\ consumed = NothingConsumed
  /\ exhausted = {} /\ needsWork = FALSE
  /\ pending = [t \in Threads |-> NotPending]
  /\ disk = NoFile

-----------------------------------------------------------------------------
(* The checkpoint that ends every operation.                               *)

\* The part of snapshot() that the checks below depend on.
LedgerSnapshot ==
  [consumed |-> consumed, exhausted |-> exhausted, needsWork |-> needsWork]

\* 100 % of a limit is reached; reserved tokens count as spent.
AtLimit(c, s) ==
  c[s].calls >= CallLimit[s] \/ c[s].tokens + c[s].reserved >= TokenLimit[s]

\* _evaluate_thresholds_unlocked.  marked is what the operation itself marked as
\* exhausted, flagged that it asked for the document's NEEDS WORK mark.
Evaluate(marked, flagged) ==
  /\ exhausted' = exhausted \cup marked \cup {s \in Stages : AtLimit(consumed', s)}
  /\ needsWork' = (needsWork \/ flagged \/ marked # {} \/ exhausted' # exhausted)

Write(written) == disk' = IF written THEN LedgerSnapshot' ELSE disk

Checkpoint(marked, flagged, written) == Evaluate(marked, flagged) /\ Write(written)

-----------------------------------------------------------------------------
(* The hook.                                                               *)

CallsFit(s) == consumed[s].calls < CallLimit[s]

\* Mutant: what other threads have reserved is ignored.
TokensFitIgnoringReserved(s, ceiling) ==
  consumed[s].tokens + ceiling <= TokenLimit[s]

TokensFit(s, ceiling) ==
  consumed[s].tokens + consumed[s].reserved + ceiling <= TokenLimit[s]

Admitted(s, ceiling) == CallsFit(s) /\ TokensFit(s, ceiling)

Intercept(t, s, ceiling, written) ==
  /\ attached
  /\ observing \/ Admitted(s, ceiling)
  /\ consumed' = [consumed EXCEPT ![s].calls = @ + 1, ![s].reserved = @ + ceiling]
  /\ pending' = [pending EXCEPT ![t] = [stage |-> s, ceiling |-> ceiling]]
  /\ Checkpoint(IF Admitted(s, ceiling) THEN {} ELSE {s}, FALSE, written)
  /\ UNCHANGED <<attached, observing>>

\* Mutant: the refusal is raised without a mark.
InterceptRefusedUnmarked(t, s, ceiling) ==
  /\ attached /\ ~observing
  /\ ~Admitted(s, ceiling)
  /\ pending' = [pending EXCEPT ![t] = NotPending]
  /\ UNCHANGED <<attached, observing, consumed, exhausted, needsWork, disk>>

\* LLMBudgetExceeded is raised before the request; no checkpoint is taken.
InterceptRefused(t, s, ceiling) ==
  /\ attached /\ ~observing
  /\ ~Admitted(s, ceiling)
  /\ exhausted' = exhausted \cup {s}
  /\ needsWork' = TRUE
  /\ pending' = [pending EXCEPT ![t] = NotPending]
  /\ UNCHANGED <<attached, observing, consumed, disk>>

\* max(0, reserved - ceiling)
Less(reserved, ceiling) == IF reserved < ceiling THEN 0 ELSE reserved - ceiling

\* Mutant: the reservation is charged, but it is not given back.
SettleKeepsReserved(t, usage, written) ==
  LET s == pending[t].stage
      trusted == usage # Untrusted
  IN  /\ attached /\ pending[t] # NotPending
      /\ consumed' = [consumed EXCEPT
           ![s].tokens = @ + IF trusted THEN usage ELSE pending[t].ceiling,
           ![s].usageComplete = @ /\ trusted]
      /\ pending' = [pending EXCEPT ![t] = NotPending]
      /\ Checkpoint({}, FALSE, written)
      /\ UNCHANGED <<attached, observing>>

\* Mutant: the total of the response replaces the running total.
SettleReplacesTotal(t, usage, written) ==
  LET s == pending[t].stage
      trusted == usage # Untrusted
  IN  /\ attached /\ pending[t] # NotPending
      /\ consumed' = [consumed EXCEPT
           ![s].reserved = Less(@, pending[t].ceiling),
           ![s].tokens = IF trusted THEN usage ELSE pending[t].ceiling,
           ![s].usageComplete = @ /\ trusted]
      /\ pending' = [pending EXCEPT ![t] = NotPending]
      /\ Checkpoint({}, FALSE, written)
      /\ UNCHANGED <<attached, observing>>

Settle(t, usage, written) ==
  LET s == pending[t].stage
      trusted == usage # Untrusted
  IN  /\ attached /\ pending[t] # NotPending
      /\ consumed' = [consumed EXCEPT
           ![s].reserved = Less(@, pending[t].ceiling),
           ![s].tokens = @ + IF trusted THEN usage ELSE pending[t].ceiling,
           ![s].usageComplete = @ /\ trusted]
      /\ pending' = [pending EXCEPT ![t] = NotPending]
      /\ Checkpoint({}, FALSE, written)
      /\ UNCHANGED <<attached, observing>>

ChargeFailed(t, written) ==
  LET s == pending[t].stage
  IN  /\ attached /\ pending[t] # NotPending
      /\ consumed' = [consumed EXCEPT
           ![s].reserved = Less(@, pending[t].ceiling),
           ![s].tokens = @ + pending[t].ceiling,
           ![s].failed = @ + 1,
           ![s].usageComplete = FALSE]
      /\ pending' = [pending EXCEPT ![t] = NotPending]
      /\ Checkpoint({}, FALSE, written)
      /\ UNCHANGED <<attached, observing>>

-----------------------------------------------------------------------------
(* The other operations, called by the pipeline that owns the ledger.      *)

\* record_cache_hit and record_route: a counter of the dashboard, a checkpoint.
RecordTraffic(written) ==
  /\ attached
  /\ UNCHANGED <<attached, observing, consumed, pending>>
  /\ Checkpoint({}, FALSE, written)

\* The stage fell back to its stub; only for the core deliverable, the document is
\* flagged with it.
MarkDegraded(s, written) ==
  /\ attached
  /\ UNCHANGED <<attached, observing, consumed, pending>>
  /\ Checkpoint({}, s = CoreStage, written)

\* _attach_budget_ledger_for_run: always a new ledger, whatever is on disk.  A stale
\* reservation of the process's last ledger stays in the context of its thread.
Attach(observe) ==
  /\ ~attached
  /\ attached' = TRUE /\ observing' = observe
  /\ consumed' = NothingConsumed
  /\ exhausted' = {} /\ needsWork' = FALSE
  /\ UNCHANGED <<pending, disk>>

\* _detach_budget_ledger: save, whose failure is logged, then take the hook off.
Detach(written) ==
  /\ attached /\ attached' = FALSE
  /\ UNCHANGED <<observing, consumed, exhausted, needsWork, pending>>
  /\ Write(written)

\* The process dies between two operations.
LedgerCrash ==
  /\ attached /\ attached' = FALSE
  /\ pending' = [t \in Threads |-> NotPending]
  /\ UNCHANGED <<observing, consumed, exhausted, needsWork, disk>>
=============================================================================
