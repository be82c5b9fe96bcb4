-------------------------- MODULE RateGateClients ---------------------------
(***************************************************************************)
(* The gate with the threads that use it: the part of _post_json between   *)
(* gate.acquire() and gate.release().  Every way out of the request runs   *)
(* the finally clause, which releases the slot.                            *)
(***************************************************************************)
EXTENDS RateGate

VARIABLE phase   \* where each thread is with respect to the gate

clientVars == <<limit, active, successes, paused, phase>>

\* "out":      not in _post_json, or before acquire()
\* "waiting":  blocked in acquire()
\* "inflight": the HTTP request is running
\* "backoff":  sleeping after a 429, the slot still held
\* "leaving":  the request is over, the finally clause is next
Phases == {"out", "waiting", "inflight", "backoff", "leaving"}

\* The threads between acquire() and release().
SlotHolders == {t \in Threads : phase[t] \in {"inflight", "backoff", "leaving"}}

Waiting == {t \in Threads : phase[t] = "waiting"}

ClientInit ==
  /\ GateInit
  /\ phase = [t \in Threads |-> "out"]

Arrive(t) ==
  /\ phase[t] = "out"
  /\ phase' = [phase EXCEPT ![t] = "waiting"]
  /\ UNCHANGED gateVars

Enter(t) ==
  /\ phase[t] = "waiting"
  /\ Acquire
  /\ phase' = [phase EXCEPT ![t] = "inflight"]

\* A response of any kind but a 429 that is retried.
Answered(t) ==
  /\ phase[t] = "inflight"
  /\ phase' = [phase EXCEPT ![t] = "leaving"]
  /\ UNCHANGED gateVars

Succeeded(t) ==
  /\ phase[t] = "inflight"
  /\ OnSuccess
  /\ phase' = [phase EXCEPT ![t] = "leaving"]

RateLimited(t, delayed) ==
  /\ phase[t] = "inflight"
  /\ OnRateLimited(delayed)
  /\ phase' = [phase EXCEPT ![t] = "backoff"]

WakeUp(t) ==
  /\ phase[t] = "backoff"
  /\ phase' = [phase EXCEPT ![t] = "leaving"]
  /\ UNCHANGED gateVars

Leave(t) ==
  /\ phase[t] = "leaving"
  /\ Release
  /\ phase' = [phase EXCEPT ![t] = "out"]

Expire == PauseExpires /\ UNCHANGED phase

ClientNext ==
  \/ \E t \in Threads :
       \/ Arrive(t)
       \/ Enter(t)
       \/ Answered(t)
       \/ Succeeded(t)
       \/ \E delayed \in BOOLEAN : RateLimited(t, delayed)
       \/ WakeUp(t)
       \/ Leave(t)
  \/ Expire

ClientSafety == ClientInit /\ [][ClientNext]_clientVars

\* The request has a timeout, a sleep ends, the finally clause runs, the
\* clock advances, and acquire() polls at least once per second.  Which of
\* several waiting threads gets a free slot is not promised to any of them.
ClientFairness ==
  /\ \A t \in Threads :
       /\ WF_clientVars(Answered(t) \/ Succeeded(t)
                        \/ \E delayed \in BOOLEAN : RateLimited(t, delayed))
       /\ WF_clientVars(WakeUp(t))
       /\ WF_clientVars(Leave(t))
  /\ WF_clientVars(\E t \in Threads : Enter(t))
  /\ WF_clientVars(Expire)

ClientSpec == ClientSafety /\ ClientFairness

-----------------------------------------------------------------------------
(* Correctness.                                                            *)

ClientTypeOK == GateTypeOK /\ phase \in [Threads -> Phases]

\* The number _active that acquire() compares with the limit is the number
\* of threads that really hold a slot: no slot is lost and none is counted
\* twice, so max(0, _active - 1) in release() never hides an error.
ActiveCountsHolders == active = Cardinality(SlotHolders)

\* "In-flight requests are bounded by the AIMD limit" (the comment at the
\* call of acquire): 429s may leave more requests in flight than the halved
\* limit allows, but from then on the excess only drains.
ExcessOnlyDrains ==
  [][limit' # None /\ active' > limit' => active' <= active]_clientVars

\* However many 429s arrive, and in whatever order, the gate never closes
\* for good: while somebody waits at acquire(), somebody is let through.
GateNeverStalls ==
  []<>(Waiting = {}) \/ []<><<\E t \in Threads : Enter(t)>>_clientVars
=============================================================================
