------------------------------- MODULE PostJson -------------------------------
(***************************************************************************)
(* _post_json of src/llm_client.py, the one place where an HTTP request to *)
(* a model leaves the program, together with the three components that     *)
(* govern it: the document ledger (hook), the hard request budget and the  *)
(* 429 gate.  One action per step between two points where another thread, *)
(* a refusal or an exception can come in.                                  *)
(*                                                                         *)
(* Some threads run under a request budget (the claim channel, paragraph   *)
(* vision), the others only under the ledger.  The ledger is mounted and   *)
(* its file can be written; LedgerRuns covers the writes that fail.        *)
(***************************************************************************)
EXTENDS Integers, FiniteSets

CONSTANTS Threads, Payloads, TokenCeiling, Reports, Untrusted,
          None, GateCeiling, RecoverySuccesses,         \* RateGate
          NoCall, MaxCalls, MaxTokens,                  \* RequestBudget
          Stages, CoreStage, CallLimit, TokenLimit,
          NotPending, NoFile,                           \* DocumentLedger
          Budgeted,                  \* threads whose calls pass a request budget
          MaxAttempts,               \* max_retries + 1
          RateMinimum,               \* RATE_LIMIT_MIN_ATTEMPTS
          CallBound                  \* bound: calls of _post_json

ASSUME PostAssumption ==
  /\ Budgeted \subseteq Threads
  /\ MaxAttempts \in Nat \ {0} /\ RateMinimum \in Nat \ {0}
  /\ IsFiniteSet(Threads) /\ IsFiniteSet(Stages)
  /\ Payloads # {} /\ TokenCeiling \in [Payloads -> Nat \ {0}]
  /\ Reports \subseteq Nat /\ Untrusted \notin Nat
  /\ NoCall \notin Payloads
  /\ MaxCalls \in Nat \ {0} /\ MaxTokens \in Nat \ {0}
  /\ GateCeiling \in Nat \ {0} /\ RecoverySuccesses \in Nat \ {0} /\ None \notin Int
  /\ NotPending \notin [stage : Stages, ceiling : Nat]

VARIABLES limit, active, successes, paused,
          alive, attempted, failed, tokens, stranded, usageComplete, denied, reason,
          reservation, sent, durable, issued, exposure, overreported,
          attached, observing, consumed, exhausted, needsWork, pending, disk

Gate == INSTANCE RateGate
Budget == INSTANCE RequestBudget
Ledger == INSTANCE DocumentLedger
            WITH Ceilings <- {TokenCeiling[p] : p \in Payloads}

VARIABLES
  pc,         \* where each thread is in _post_json
  payload,    \* its payload
  attempt,    \* attempt: failures that count against max_retries
  hits,       \* rate_hits
  settled,    \* budget_settled
  response,   \* the usage of the valid response (request_succeeded), or NoCall
  after,      \* where the finally clause leads: "again", "raise" or "return"
  calls,      \* bound: calls begun
  requests,   \* history: requests sent by the present call
  answers,    \* history: valid responses received by the present call
  posted,     \* history: requests sent
  billed,     \* history: the most tokens that they can have cost within their ceilings
  skipped     \* history: an exception in a finally clause has skipped the rest of it

gate == <<limit, active, successes, paused>>
budget == <<alive, attempted, failed, tokens, stranded, usageComplete, denied, reason,
            reservation, sent, durable, issued, exposure, overreported>>
ledger == <<attached, observing, consumed, exhausted, needsWork, pending, disk>>
call == <<payload, attempt, hits, settled, response, after, calls>>
history == <<requests, answers, posted, billed, skipped>>
vars == <<gate, budget, ledger, pc, call, history>>

\* rate_limit_budget
RateAttempts == IF RateMinimum > 2 * MaxAttempts THEN RateMinimum ELSE 2 * MaxAttempts

Init ==
  /\ Gate!GateInit
  /\ Budget!BudgetInit
  /\ Ledger!LedgerInit
  /\ pc = [t \in Threads |-> "out"]
  /\ payload \in [Threads -> {CHOOSE p \in Payloads : TRUE}]
  /\ attempt = [t \in Threads |-> 0] /\ hits = [t \in Threads |-> 0]
  /\ settled = [t \in Threads |-> FALSE]
  /\ response = [t \in Threads |-> NoCall]
  /\ after = [t \in Threads |-> "return"]
  /\ calls = 0
  /\ requests = [t \in Threads |-> 0] /\ answers = [t \in Threads |-> 0]
  /\ posted = 0 /\ billed = 0 /\ skipped = FALSE

Goto(t, place) == pc' = [pc EXCEPT ![t] = place]

-----------------------------------------------------------------------------
(* Before the request.                                                     *)

\* The pipeline mounts the ledger before its threads make calls.
Mount ==
  /\ \A t \in Threads : pc[t] = "out"
  /\ Ledger!Attach(FALSE)
  /\ UNCHANGED <<gate, budget, pc, call, history>>

Call(t, p) ==
  /\ attached
  /\ pc[t] = "out" /\ calls < CallBound
  /\ Goto(t, "hook")
  /\ payload' = [payload EXCEPT ![t] = p]
  /\ attempt' = [attempt EXCEPT ![t] = 0]
  /\ hits' = [hits EXCEPT ![t] = 0]
  /\ calls' = calls + 1
  /\ requests' = [requests EXCEPT ![t] = 0]
  /\ answers' = [answers EXCEPT ![t] = 0]
  /\ UNCHANGED <<gate, budget, ledger, settled, response, after,
                 posted, billed, skipped>>

\* _DOCUMENT_BUDGET_HOOK.intercept, first thing in every round of the loop.
Hook(t, s) ==
  /\ pc[t] = "hook"
  /\ Ledger!Intercept(t, s, TokenCeiling[payload[t]], TRUE)
  /\ Goto(t, IF t \in Budgeted THEN "reserve" ELSE "gate")
  /\ settled' = [settled EXCEPT ![t] = FALSE]
  /\ response' = [response EXCEPT ![t] = NoCall]
  /\ UNCHANGED <<gate, budget, payload, attempt, hits, after, calls, history>>

HookRefuses(t, s) ==
  /\ pc[t] = "hook"
  /\ Ledger!InterceptRefused(t, s, TokenCeiling[payload[t]])
  /\ Goto(t, "out")
  /\ UNCHANGED <<gate, budget, call, history>>

ReserveCall(t) ==
  /\ pc[t] = "reserve"
  /\ Budget!Reserve(t, payload[t])
  /\ Goto(t, "gate")
  /\ UNCHANGED <<gate, ledger, call, history>>

\* reserve() raises, outside of the try statement: nothing else is undone.
ReserveRaises(t) ==
  /\ pc[t] = "reserve"
  /\ \/ Budget!ReserveRefused(t, payload[t])
     \/ Budget!ReserveRolledBack(t, payload[t])
     \/ Budget!ReserveStranded(t, payload[t])
  /\ Goto(t, "out")
  /\ UNCHANGED <<gate, ledger, call, history>>

\* gate.acquire returns and urlopen sends the request.
Issue(t) ==
  /\ pc[t] = "gate"
  /\ Gate!Acquire
  /\ IF t \in Budgeted THEN Budget!Send(t) ELSE UNCHANGED budget
  /\ Goto(t, "wire")
  /\ requests' = [requests EXCEPT ![t] = @ + 1]
  /\ posted' = posted + 1
  /\ billed' = billed + TokenCeiling[payload[t]]
  /\ UNCHANGED <<ledger, call, answers, skipped>>

-----------------------------------------------------------------------------
(* The response.                                                           *)

\* A valid response: request_succeeded.
Answer(t, usage) ==
  /\ pc[t] = "wire"
  /\ response' = [response EXCEPT ![t] = usage]
  /\ answers' = [answers EXCEPT ![t] = @ + 1]
  /\ billed' = IF usage = Untrusted \/ usage > TokenCeiling[payload[t]] THEN billed
               ELSE billed - TokenCeiling[payload[t]] + usage
  /\ Goto(t, IF t \in Budgeted THEN "commit" ELSE "settle")
  /\ UNCHANGED <<gate, budget, ledger, payload, attempt, hits, settled, after, calls,
                 requests, posted, skipped>>

CommitCall(t) ==
  /\ pc[t] = "commit"
  /\ Budget!Commit(t, response[t], TRUE)
  /\ settled' = [settled EXCEPT ![t] = TRUE]
  /\ Goto(t, "settle")
  /\ UNCHANGED <<gate, ledger, payload, attempt, hits, response, after, calls, history>>

\* Mutant: the exception of a failed checkpoint enters the transport retry.
CommitRaisesRetried(t) ==
  /\ pc[t] = "commit"
  /\ Budget!Commit(t, response[t], FALSE)
  /\ attempt' = [attempt EXCEPT ![t] = @ + 1]
  /\ after' = [after EXCEPT ![t] = IF attempt'[t] < MaxAttempts THEN "again" ELSE "raise"]
  /\ Goto(t, "finally")
  /\ UNCHANGED <<gate, ledger, payload, hits, settled, response, calls, history>>

\* The checkpoint of commit raises: re-raised, because the request succeeded.
CommitRaises(t) ==
  /\ pc[t] = "commit"
  /\ Budget!Commit(t, response[t], FALSE)
  /\ after' = [after EXCEPT ![t] = "raise"]
  /\ Goto(t, "finally")
  /\ UNCHANGED <<gate, ledger, payload, attempt, hits, settled, response, calls, history>>

SettleCall(t) ==
  /\ pc[t] = "settle"
  /\ Ledger!Settle(t, response[t], TRUE)
  /\ Goto(t, "success")
  /\ UNCHANGED <<gate, budget, call, history>>

Success(t) ==
  /\ pc[t] = "success"
  /\ Gate!OnSuccess
  /\ after' = [after EXCEPT ![t] = "return"]
  /\ Goto(t, "finally")
  /\ UNCHANGED <<budget, ledger, payload, attempt, hits, settled, response, calls, history>>

\* A 429 within its own retry budget; the slot is kept while the thread sleeps.
RateLimited(t, delayed) ==
  /\ pc[t] = "wire"
  /\ hits[t] + 1 < RateAttempts
  /\ hits' = [hits EXCEPT ![t] = @ + 1]
  /\ Gate!OnRateLimited(delayed)
  /\ Goto(t, "cooling")
  /\ UNCHANGED <<budget, ledger, payload, attempt, settled, response, after, calls, history>>

\* Mutant: a transport failure does not count as an attempt.
TransientUncounted(t) ==
  /\ pc[t] = "wire"
  /\ Goto(t, "sleeping")
  /\ UNCHANGED <<gate, budget, ledger, call, history>>

\* A retryable status or a transport error, with an attempt left.
Transient(t) ==
  /\ pc[t] = "wire"
  /\ attempt[t] + 1 < MaxAttempts
  /\ attempt' = [attempt EXCEPT ![t] = @ + 1]
  /\ Goto(t, "sleeping")
  /\ UNCHANGED <<gate, budget, ledger, payload, hits, settled, response, after, calls, history>>

\* Everything that is raised: 401/403, response_format unsupported, an invalid
\* response, the last attempt, the last 429.
Rejected(t) ==
  /\ pc[t] = "wire"
  /\ after' = [after EXCEPT ![t] = "raise"]
  /\ Goto(t, "finally")
  /\ UNCHANGED <<gate, budget, ledger, payload, attempt, hits, settled, response, calls, history>>

\* Mutant: the retry starts from within the try statement, with the slot kept.
WakeKeepsSlot(t) ==
  /\ pc[t] \in {"cooling", "sleeping"}
  /\ Goto(t, "hook")
  /\ UNCHANGED <<gate, budget, ledger, call, history>>

\* time.sleep ends and continue leaves the try statement through finally.
Wake(t) ==
  /\ pc[t] \in {"cooling", "sleeping"}
  /\ after' = [after EXCEPT ![t] = "again"]
  /\ Goto(t, "finally")
  /\ UNCHANGED <<gate, budget, ledger, payload, attempt, hits, settled, response, calls, history>>

-----------------------------------------------------------------------------
(* The finally clause.                                                     *)

\* _request_budget.fail, unless committed; nothing to do for a reservation that
\* commit() had already popped.
FailCall(t) ==
  /\ pc[t] = "finally"
  /\ IF t \in Budgeted /\ ~settled[t] /\ reservation[t] # NoCall
       THEN Budget!Fail(t, TRUE)
       ELSE UNCHANGED budget
  /\ Goto(t, "charge")
  /\ UNCHANGED <<gate, ledger, call, history>>

\* The checkpoint of fail raises, and the rest of the finally clause is skipped.
FailRaises(t) ==
  /\ pc[t] = "finally"
  /\ t \in Budgeted /\ ~settled[t]
  /\ Budget!Fail(t, FALSE)
  /\ Goto(t, "out")
  /\ skipped' = TRUE
  /\ UNCHANGED <<gate, ledger, call, requests, answers, posted, billed>>

\* charge_failed returns at once when settle has cleared the pending reservation.
ChargeCall(t) ==
  /\ pc[t] = "charge"
  /\ IF ~settled[t] /\ pending[t] # NotPending
       THEN Ledger!ChargeFailed(t, TRUE)
       ELSE UNCHANGED ledger
  /\ Goto(t, "release")
  /\ UNCHANGED <<gate, budget, call, history>>

\* Mutant: the slot is given back by a call that returns, not by one that raises.
ReleaseUnlessRaised(t) ==
  /\ pc[t] = "release"
  /\ IF after[t] = "raise" THEN UNCHANGED gate ELSE Gate!Release
  /\ Goto(t, IF after[t] = "again" THEN "hook" ELSE "out")
  /\ UNCHANGED <<budget, ledger, call, history>>

\* Mutant: the hook sees a call once, not every attempt.
ReleaseSkipsHook(t) ==
  /\ pc[t] = "release"
  /\ Gate!Release
  /\ Goto(t, IF after[t] # "again" THEN "out"
             ELSE IF t \in Budgeted THEN "reserve" ELSE "gate")
  /\ UNCHANGED <<budget, ledger, call, history>>

\* gate.release, then the next round of the loop or the end of the call.
ReleaseSlot(t) ==
  /\ pc[t] = "release"
  /\ Gate!Release
  /\ Goto(t, IF after[t] = "again" THEN "hook" ELSE "out")
  /\ UNCHANGED <<budget, ledger, call, history>>

Tick == Gate!PauseExpires /\ UNCHANGED <<budget, ledger, pc, call, history>>

Step(t) ==
  \/ \E s \in Stages : Hook(t, s) \/ HookRefuses(t, s)
  \/ ReserveCall(t) \/ ReserveRaises(t)
  \/ Issue(t)
  \/ \E usage \in Reports \cup {Untrusted} : Answer(t, usage)
  \/ CommitCall(t) \/ CommitRaises(t)
  \/ SettleCall(t) \/ Success(t)
  \/ \E delayed \in BOOLEAN : RateLimited(t, delayed)
  \/ Transient(t) \/ Rejected(t) \/ Wake(t)
  \/ FailCall(t) \/ FailRaises(t)
  \/ ChargeCall(t) \/ ReleaseSlot(t)

Next ==
  \/ Mount
  \/ \E t \in Threads : Step(t) \/ \E p \in Payloads : Call(t, p)
  \/ Tick

\* Every request has a timeout, every sleep ends, the clock advances and the
\* scheduler lets every thread run; nobody is obliged to make another call.
Fairness == (\A t \in Threads : WF_vars(Step(t))) /\ WF_vars(Tick)

Spec == Init /\ [][Next]_vars /\ Fairness

-----------------------------------------------------------------------------
(* Correctness.                                                            *)

\* "Local checkpoint/trace failures must never re-enter transport retry and issue
\* the same request again": no call sends a request after a valid response, so no
\* call pays for two answers.
PaidOnce == \A t \in Threads : answers[t] <= 1 /\ (pc[t] = "gate" => answers[t] = 0)

\* However transport failures and 429s alternate, a call ends after a bounded
\* number of requests: the two retry budgets add up, they do not multiply.
RequestsBounded == \A t \in Threads : requests[t] <= MaxAttempts + RateAttempts - 1

\* The values of f added up, as the size of a set with f[x] elements for each x.
Total(f) == Cardinality(UNION {{x} \X (1..f[x]) : x \in DOMAIN f})

\* The ledger never counts less than what left the program: whatever is refused,
\* raised or retried between the hook and the finally clause, every request is in
\* its calls and its possible cost, up to the ceiling it was announced with, in its
\* tokens.
LedgerCoversRequests ==
  attached =>
    /\ posted <= Total([s \in Stages |-> consumed[s].calls])
    /\ billed <= Total([s \in Stages |-> consumed[s].tokens + consumed[s].reserved])

\* The gate as seen by RateGateClients: where each thread is with respect to it.
GatePhase(place) ==
  CASE place = "gate" -> "waiting"
    [] place \in {"wire", "commit", "settle", "success"} -> "inflight"
    [] place = "cooling" -> "backoff"
    [] place \in {"sleeping", "finally", "charge", "release"} -> "leaving"
    [] OTHER -> "out"

GateView == INSTANCE RateGateClients WITH phase <- [t \in Threads |-> GatePhase(pc[t])]

\* _post_json uses the gate as RateGateClients says: one acquire, at most one
\* report to the gate, one release per request, on every way out, for as long as no
\* checkpoint of fail() has raised in the finally clause.
ImplementsGateClients ==
  GateView!ClientInit /\ [][GateView!ClientNext \/ skipped']_GateView!clientVars

\* Every call comes back, with an answer or an exception, unless that has happened.
EveryCallReturns == \A t \in Threads : pc[t] # "out" ~> pc[t] = "out" \/ skipped
=============================================================================
