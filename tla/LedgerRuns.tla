------------------------------ MODULE LedgerRuns ------------------------------
(***************************************************************************)
(* The document ledger over the runs of one document: the pipeline mounts  *)
(* a ledger (desktop_tasks.py), its worker threads make calls, the ledger  *)
(* is saved and taken off, or the process dies; then the next run begins.  *)
(***************************************************************************)
EXTENDS DocumentLedger

CONSTANTS MaxRuns,      \* bound: runs of the document
          Overrun       \* bound: calls beyond the limit while only observing

VARIABLES
  runs,          \* runs begun
  calling,       \* the threads between intercept and settle or charge_failed
  wrote,         \* this run has written llm_budget.json
  refused,       \* history: the stages in which this run refused a call
  degraded,      \* history: the core deliverable fell back to its stub in this run
  overreported,  \* history: a provider reported more than the ceiling in this run
  stray,         \* history: the tokens that abandoned calls of this run had reserved
  ending         \* how the last run ended: "none", "saved", "unsaved", "crashed"

runHistory == <<refused, degraded, overreported, stray>>
runVars == <<ledgerVars, runs, calling, wrote, runHistory, ending>>

NothingStray == [s \in Stages |-> 0]

RunsInit ==
  /\ LedgerInit
  /\ runs = 0 /\ calling = {} /\ wrote = FALSE /\ ending = "none"
  /\ refused = {} /\ degraded = FALSE /\ overreported = FALSE /\ stray = NothingStray

Begin ==
  /\ runs < MaxRuns
  /\ \E observe \in BOOLEAN : Attach(observe)
  /\ runs' = runs + 1 /\ calling' = {} /\ wrote' = FALSE /\ ending' = "none"
  /\ refused' = {} /\ degraded' = FALSE /\ overreported' = FALSE /\ stray' = NothingStray

\* An operation that ends in a checkpoint keeps the run going.
Checkpointed(written) ==
  /\ wrote' = (wrote \/ written)
  /\ UNCHANGED <<runs, ending>>

\* intercept, which the thread may enter with the stale reservation of a call that
\* it abandoned.
Start(t, s, ceiling, written) ==
  /\ t \notin calling /\ calling' = calling \cup {t}
  /\ consumed[s].calls < CallLimit[s] + Overrun
  /\ Intercept(t, s, ceiling, written)
  /\ Checkpointed(written)
  /\ UNCHANGED runHistory

Refuse(t, s, ceiling) ==
  /\ t \notin calling
  /\ InterceptRefused(t, s, ceiling)
  /\ refused' = refused \cup {s}
  /\ UNCHANGED <<runs, calling, wrote, degraded, overreported, stray, ending>>

Finish(t, usage, written) ==
  /\ t \in calling /\ calling' = calling \ {t}
  /\ Settle(t, usage, written)
  /\ overreported' = (overreported \/ (usage # Untrusted /\ usage > pending[t].ceiling))
  /\ Checkpointed(written)
  /\ UNCHANGED <<refused, degraded, stray>>

FinishFailed(t, written) ==
  /\ t \in calling /\ calling' = calling \ {t}
  /\ ChargeFailed(t, written)
  /\ Checkpointed(written)
  /\ UNCHANGED runHistory

\* The call leaves by an exception that skips the ledger: reserve() of the request
\* budget raised, or fail() did in the finally clause.  pending stays as it is, and
\* what the ledger has reserved too.
Abandon(t) ==
  /\ attached /\ t \in calling /\ pending[t] # NotPending
  /\ calling' = calling \ {t}
  /\ stray' = [stray EXCEPT ![pending[t].stage] = @ + pending[t].ceiling]
  /\ UNCHANGED <<ledgerVars, runs, wrote, refused, degraded, overreported, ending>>

Traffic(written) ==
  /\ RecordTraffic(written)
  /\ Checkpointed(written)
  /\ UNCHANGED <<calling, runHistory>>

Degrade(s, written) ==
  /\ MarkDegraded(s, written)
  /\ degraded' = (degraded \/ s = CoreStage)
  /\ Checkpointed(written)
  /\ UNCHANGED <<calling, refused, overreported, stray>>

\* The worker pools have been joined before the pipeline's finally clause runs.
End(written) ==
  /\ calling = {}
  /\ Detach(written)
  /\ wrote' = (wrote \/ written)
  /\ ending' = IF written THEN "saved" ELSE "unsaved"
  /\ UNCHANGED <<runs, calling, runHistory>>

Die ==
  /\ LedgerCrash
  /\ ending' = "crashed" /\ calling' = {}
  /\ UNCHANGED <<runs, wrote, runHistory>>

RunsNext ==
  \/ Begin
  \/ Die
  \/ \E t \in Threads : Abandon(t)
  \/ \E t \in Threads, s \in Stages, ceiling \in Ceilings :
       \/ Refuse(t, s, ceiling)
       \/ \E written \in BOOLEAN : Start(t, s, ceiling, written)
  \/ \E written \in BOOLEAN :
       \/ \E t \in Threads :
            \/ \E usage \in Reports \cup {Untrusted} : Finish(t, usage, written)
            \/ FinishFailed(t, written)
       \/ Traffic(written)
       \/ \E s \in Stages : Degrade(s, written)
       \/ End(written)

RunsSpec == RunsInit /\ [][RunsNext]_runVars

-----------------------------------------------------------------------------
(* Correctness.                                                            *)

\* The threads with a call of stage s in flight.
CallersOf(s) == {t \in calling : pending[t] # NotPending /\ pending[t].stage = s}

\* The tokens that these calls have reserved, one element for each.
TokensInFlight(s) == UNION {{t} \X (1..pending[t].ceiling) : t \in CallersOf(s)}

\* What a stage has reserved is what its calls in flight have reserved and what the
\* calls that were abandoned had: every reservation that settle or charge_failed sees
\* is given back exactly once, max(0, ...) never swallows a release that was too
\* large, and the abandoned call is the only leak there is.
ReservedIsInFlight ==
  attached =>
    \A s \in Stages : consumed[s].reserved = Cardinality(TokensInFlight(s)) + stray[s]

\* The limits of each stage hold at any moment, whatever the threads interleave,
\* when the ledger blocks and providers stay within the announced ceiling.
StageLimitsHold ==
  attached /\ ~observing /\ ~overreported =>
    \A s \in Stages :
      /\ consumed[s].calls <= CallLimit[s]
      /\ consumed[s].tokens + consumed[s].reserved <= TokenLimit[s]

\* "No silent pass": when a run that had to refuse calls, or whose core
\* deliverable is a stub, ends with a saved ledger, the file demands more work.
DegradationIsOnRecord ==
  ending = "saved" =>
    /\ refused \subseteq disk.exhausted
    /\ refused # {} \/ degraded => disk.needsWork

\* Checkpoints of one run may be lost, but those that reach the disk only ever
\* add consumption and marks.
CheckpointsAddUp ==
  [][wrote =>
       /\ \A s \in Stages :
            /\ disk'.consumed[s].calls >= disk.consumed[s].calls
            /\ disk'.consumed[s].tokens >= disk.consumed[s].tokens
            /\ disk'.consumed[s].failed >= disk.consumed[s].failed
       /\ disk.exhausted \subseteq disk'.exhausted
       /\ disk.needsWork => disk'.needsWork]_disk
=============================================================================
