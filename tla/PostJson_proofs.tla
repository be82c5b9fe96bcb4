--------------------------- MODULE PostJson_proofs ---------------------------
(***************************************************************************)
(* Theorems about _post_json and the accounts it keeps, for every number   *)
(* of threads, stages, attempts and calls, every budget, every ceiling and *)
(* whatever a provider reports.                                            *)
(***************************************************************************)
EXTENDS PostJson, FunctionTheorems, FiniteSetTheorems, TLAPS

Places == {"out", "hook", "reserve", "gate", "wire", "commit", "settle", "success",
           "cooling", "sleeping", "finally", "charge", "release"}

-----------------------------------------------------------------------------
(* One call.                                                               *)

CallTypes ==
  /\ pc \in [Threads -> Places]
  /\ payload \in [Threads -> Payloads]
  /\ attempt \in [Threads -> 0..(MaxAttempts - 1)]
  /\ hits \in [Threads -> 0..(RateAttempts - 1)]
  /\ settled \in [Threads -> BOOLEAN]
  /\ response \in [Threads -> Reports \cup {Untrusted, NoCall}]
  /\ after \in [Threads -> {"again", "raise", "return"}]
  /\ requests \in [Threads -> Nat] /\ answers \in [Threads -> Nat]
  /\ posted \in Nat /\ billed \in Int /\ skipped \in BOOLEAN

\* The call will go round the loop again, or is on its way to the next request.
Retrying(t) ==
  \/ pc[t] \in {"hook", "reserve", "gate", "cooling", "sleeping"}
  \/ pc[t] \in {"finally", "charge", "release"} /\ after[t] = "again"

\* Every request but the last one has used up an attempt or a 429, and only the last one
\* was answered.
OneMore(t) ==
  /\ requests[t] <= attempt[t] + hits[t] + 1
  /\ answers[t] <= 1
  /\ pc[t] = "wire" => answers[t] = 0
  /\ Retrying(t) => requests[t] <= attempt[t] + hits[t] /\ answers[t] = 0

CallInv == CallTypes /\ \A t \in Threads : OneMore(t)

LEMMA RateAttemptsPositive == RateAttempts \in Nat \ {0}
  BY PostAssumption DEF RateAttempts

LEMMA CallConstants ==
  /\ MaxAttempts \in Nat \ {0} /\ RateAttempts \in Nat \ {0}
  /\ \A p \in Payloads : TokenCeiling[p] \in Nat
  /\ \A usage \in Reports : usage \in Nat
  BY PostAssumption, RateAttemptsPositive

LEMMA CallInit == Init => CallInv
<1>1. SUFFICES ASSUME Init PROVE CallInv
  OBVIOUS
<1>2. (CHOOSE p \in Payloads : TRUE) \in Payloads
  BY PostAssumption
<1>3. CallTypes
  <2>1. 0 \in 0..(MaxAttempts - 1) /\ 0 \in 0..(RateAttempts - 1)
    BY PostAssumption, RateAttemptsPositive
  <2>2. /\ pc \in [Threads -> Places] /\ payload \in [Threads -> Payloads]
        /\ settled \in [Threads -> BOOLEAN]
        /\ after \in [Threads -> {"again", "raise", "return"}]
        /\ response \in [Threads -> Reports \cup {Untrusted, NoCall}]
    BY <1>1, <1>2 DEF Init, Places
  <2>3. /\ attempt \in [Threads -> 0..(MaxAttempts - 1)] /\ hits \in [Threads -> 0..(RateAttempts - 1)]
    BY <1>1, <2>1 DEF Init
  <2>4. requests \in [Threads -> Nat] /\ answers \in [Threads -> Nat]
    BY <1>1 DEF Init
  <2>5. posted \in Nat /\ billed \in Int
    BY <1>1 DEF Init
  <2>6. skipped \in BOOLEAN
    BY <1>1 DEF Init
  <2> QED
    BY <2>2, <2>3, <2>4, <2>5, <2>6 DEF CallTypes
<1>4. \A t \in Threads : OneMore(t)
  BY <1>1 DEF Init, OneMore, Retrying
<1> QED
  BY <1>3, <1>4 DEF CallInv

\* A step of one thread leaves the calls of the others where they are.
Others(t) ==
  \A u \in Threads \ {t} :
    /\ pc'[u] = pc[u] /\ attempt'[u] = attempt[u] /\ hits'[u] = hits[u]
    /\ after'[u] = after[u] /\ requests'[u] = requests[u] /\ answers'[u] = answers[u]
    /\ payload'[u] = payload[u] /\ settled'[u] = settled[u] /\ response'[u] = response[u]

LEMMA StepKeepsOthers ==
  ASSUME CallTypes, NEW t \in Threads, Step(t) \/ \E p \in Payloads : Call(t, p)
  PROVE  Others(t)
<1>1. CASE \E s \in Stages : Hook(t, s) \/ HookRefuses(t, s)
  BY <1>1 DEF Hook, HookRefuses, CallTypes, Goto, Others, call, history
<1>2. CASE ReserveCall(t) \/ ReserveRaises(t)
  BY <1>2 DEF ReserveCall, ReserveRaises, CallTypes, Goto, Others, call, history
<1>3. CASE Issue(t)
  BY <1>3 DEF Issue, CallTypes, Goto, Others, call, history
<1>4. CASE \E usage \in Reports \cup {Untrusted} : Answer(t, usage)
  BY <1>4 DEF Answer, CallTypes, Goto, Others, call, history
<1>5. CASE CommitCall(t) \/ CommitRaises(t)
  BY <1>5 DEF CommitCall, CommitRaises, CallTypes, Goto, Others, call, history
<1>6. CASE SettleCall(t) \/ Success(t)
  BY <1>6 DEF SettleCall, Success, CallTypes, Goto, Others, call, history
<1>7. CASE \E delayed \in BOOLEAN : RateLimited(t, delayed)
  BY <1>7 DEF RateLimited, CallTypes, Goto, Others, call, history
<1>8. CASE Transient(t)
  BY <1>8 DEF Transient, CallTypes, Goto, Others, call, history
<1>9. CASE Rejected(t) \/ Wake(t)
  BY <1>9 DEF Rejected, Wake, CallTypes, Goto, Others, call, history
<1>10. CASE FailCall(t) \/ FailRaises(t)
  BY <1>10 DEF FailCall, FailRaises, CallTypes, Goto, Others, call, history
<1>11. CASE ChargeCall(t) \/ ReleaseSlot(t)
  BY <1>11 DEF ChargeCall, ReleaseSlot, CallTypes, Goto, Others, call, history
<1>12. CASE \E p \in Payloads : Call(t, p)
  BY <1>12 DEF Call, CallTypes, Goto, Others, call, history
<1> QED
  BY <1>1, <1>2, <1>3, <1>4, <1>5, <1>6, <1>7, <1>8, <1>9, <1>10, <1>11, <1>12 DEF Step

\* The next request of a call is paid for by an attempt or by a 429.
LEMMA StepKeepsCall ==
  ASSUME CallInv, NEW t \in Threads, Step(t) \/ \E p \in Payloads : Call(t, p)
  PROVE  CallTypes' /\ OneMore(t)'
<1> USE DEF CallInv
<1>1. CASE \E s \in Stages : Hook(t, s) \/ HookRefuses(t, s)
  <2>1. CallTypes'
    BY <1>1, CallConstants DEF Hook, HookRefuses, CallTypes, Places, Goto, call, history
  <2>2. OneMore(t)'
    BY <1>1 DEF Hook, HookRefuses, CallTypes, OneMore, Retrying, Goto, call, history
  <2> QED
    BY <2>1, <2>2
<1>2. CASE ReserveCall(t) \/ ReserveRaises(t)
  <2>1. CallTypes'
    BY <1>2, CallConstants DEF ReserveCall, ReserveRaises, CallTypes, Places, Goto, call, history
  <2>2. OneMore(t)'
    BY <1>2 DEF ReserveCall, ReserveRaises, CallTypes, OneMore, Retrying, Goto, call, history
  <2> QED
    BY <2>1, <2>2
<1>3. CASE Issue(t)
  <2>1. CallTypes'
    BY <1>3, CallConstants DEF Issue, CallTypes, Places, Goto, call, history
  <2>2. OneMore(t)'
    BY <1>3 DEF Issue, CallTypes, OneMore, Retrying, Goto, call, history
  <2> QED
    BY <2>1, <2>2
<1>4. CASE \E usage \in Reports \cup {Untrusted} : Answer(t, usage)
  <2>1. CallTypes'
    BY <1>4, CallConstants DEF Answer, CallTypes, Places, Goto, call, history
  <2>2. OneMore(t)'
    BY <1>4 DEF Answer, CallTypes, OneMore, Retrying, Goto, call, history
  <2> QED
    BY <2>1, <2>2
<1>5. CASE CommitCall(t) \/ CommitRaises(t)
  <2>1. CallTypes'
    BY <1>5, CallConstants DEF CommitCall, CommitRaises, CallTypes, Places, Goto, call, history
  <2>2. OneMore(t)'
    BY <1>5 DEF CommitCall, CommitRaises, CallTypes, OneMore, Retrying, Goto, call, history
  <2> QED
    BY <2>1, <2>2
<1>6. CASE SettleCall(t) \/ Success(t)
  <2>1. CallTypes'
    BY <1>6, CallConstants DEF SettleCall, Success, CallTypes, Places, Goto, call, history
  <2>2. OneMore(t)'
    BY <1>6 DEF SettleCall, Success, CallTypes, OneMore, Retrying, Goto, call, history
  <2> QED
    BY <2>1, <2>2
<1>7. CASE \E delayed \in BOOLEAN : RateLimited(t, delayed)
  <2>1. CallTypes'
    BY <1>7, CallConstants DEF RateLimited, CallTypes, Places, Goto, call, history
  <2>2. OneMore(t)'
    BY <1>7 DEF RateLimited, CallTypes, OneMore, Retrying, Goto, call, history
  <2> QED
    BY <2>1, <2>2
<1>8. CASE Transient(t)
  <2>1. CallTypes'
    BY <1>8, CallConstants DEF Transient, CallTypes, Places, Goto, call, history
  <2>2. OneMore(t)'
    BY <1>8 DEF Transient, CallTypes, OneMore, Retrying, Goto, call, history
  <2> QED
    BY <2>1, <2>2
<1>9. CASE Rejected(t) \/ Wake(t)
  <2>1. CallTypes'
    BY <1>9, CallConstants DEF Rejected, Wake, CallTypes, Places, Goto, call, history
  <2>2. OneMore(t)'
    BY <1>9 DEF Rejected, Wake, CallTypes, OneMore, Retrying, Goto, call, history
  <2> QED
    BY <2>1, <2>2
<1>10. CASE FailCall(t) \/ FailRaises(t)
  <2>1. CallTypes'
    BY <1>10, CallConstants DEF FailCall, FailRaises, CallTypes, Places, Goto, call, history
  <2>2. OneMore(t)'
    BY <1>10 DEF FailCall, FailRaises, CallTypes, OneMore, Retrying, Goto, call, history
  <2> QED
    BY <2>1, <2>2
<1>11. CASE ChargeCall(t) \/ ReleaseSlot(t)
  <2>1. CallTypes'
    BY <1>11, CallConstants DEF ChargeCall, ReleaseSlot, CallTypes, Places, Goto, call, history
  <2>2. OneMore(t)'
    BY <1>11 DEF ChargeCall, ReleaseSlot, CallTypes, OneMore, Retrying, Goto, call, history
  <2> QED
    BY <2>1, <2>2
<1>12. CASE \E p \in Payloads : Call(t, p)
  <2>1. CallTypes'
    BY <1>12, CallConstants DEF Call, CallTypes, Places, Goto, call, history
  <2>2. OneMore(t)'
    BY <1>12 DEF Call, CallTypes, OneMore, Retrying, Goto, call, history
  <2> QED
    BY <2>1, <2>2
<1> QED
  BY <1>1, <1>2, <1>3, <1>4, <1>5, <1>6, <1>7, <1>8, <1>9, <1>10, <1>11, <1>12 DEF Step

LEMMA CallStep == CallInv /\ [Next]_vars => CallInv'
<1>1. SUFFICES ASSUME CallInv, [Next]_vars PROVE CallInv'
  OBVIOUS
<1>2. ASSUME NEW t \in Threads, Step(t) \/ \E p \in Payloads : Call(t, p)
      PROVE  CallInv'
  <2>1. CallTypes' /\ OneMore(t)' /\ Others(t)
    BY <1>1, <1>2, StepKeepsCall, StepKeepsOthers DEF CallInv
  <2>2. \A u \in Threads \ {t} : OneMore(u)'
    BY <1>1, <2>1 DEF CallInv, OneMore, Retrying, Others
  <2> QED
    BY <2>1, <2>2 DEF CallInv
<1>3. CASE Mount \/ Tick \/ UNCHANGED vars
  BY <1>1, <1>3 DEF Mount, Tick, CallInv, CallTypes, OneMore, Retrying, call, history, vars
<1> QED
  BY <1>1, <1>2, <1>3 DEF Next

LEMMA CallAlways == Spec => []CallInv
  BY CallInit, CallStep, PTL DEF Spec

\* No call asks for an answer again once it has been paid for one, whatever checkpoint
\* raises after the answer (the handlers of _post_json).
THEOREM NeverPaidTwice == Spec => []PaidOnce
<1>1. CallInv => PaidOnce
  BY DEF CallInv, OneMore, Retrying, PaidOnce
<1> QED
  BY <1>1, CallAlways, PTL

\* A call ends after max_retries + rate_limit_budget requests at most, however transport
\* failures and 429s alternate.
THEOREM CallsAreBounded == Spec => []RequestsBounded
<1>1. ASSUME CallInv, NEW t \in Threads
      PROVE  requests[t] <= MaxAttempts + RateAttempts - 1
  <2>1. /\ requests[t] \in Nat /\ attempt[t] \in 0..(MaxAttempts - 1)
        /\ hits[t] \in 0..(RateAttempts - 1) /\ requests[t] <= attempt[t] + hits[t] + 1
    BY <1>1 DEF CallInv, CallTypes, OneMore
  <2> QED
    BY <2>1, PostAssumption, RateAttemptsPositive
<1>2. CallInv => RequestsBounded
  BY <1>1 DEF RequestsBounded
<1> QED
  BY <1>2, CallAlways, PTL

-----------------------------------------------------------------------------
(* The gate.                                                               *)

LEMMA PhaseOf ==
  /\ GatePhase("gate") = "waiting"
  /\ \A place \in {"wire", "commit", "settle", "success"} : GatePhase(place) = "inflight"
  /\ GatePhase("cooling") = "backoff"
  /\ \A place \in {"sleeping", "finally", "charge", "release"} : GatePhase(place) = "leaving"
  /\ \A place \in {"out", "hook", "reserve"} : GatePhase(place) = "out"
  BY DEF GatePhase

Phases == [t \in Threads |-> GatePhase(pc[t])]

\* A thread that moves takes its phase along, and no other thread's phase changes.
LEMMA PhaseMoves ==
  ASSUME CallTypes, NEW t \in Threads, NEW place \in Places, Goto(t, place)
  PROVE  /\ Phases' = [Phases EXCEPT ![t] = GatePhase(place)]
         /\ Phases[t] = GatePhase(pc[t])
  BY DEF CallTypes, Goto, Phases

\* Moves that the gate does not see.
LEMMA PhaseStays ==
  ASSUME CallTypes, NEW t \in Threads, NEW place \in Places, Goto(t, place),
         GatePhase(place) = GatePhase(pc[t])
  PROVE  Phases' = Phases
  BY DEF CallTypes, Goto, Phases

\* What a step of one thread is to the gate and its clients.
LEMMA StepAtGate ==
  ASSUME CallTypes, NEW t \in Threads, Step(t) \/ \E p \in Payloads : Call(t, p)
  PROVE  GateView!ClientNext \/ skipped' \/ UNCHANGED GateView!clientVars
<1> USE DEF Places
<1>1. CASE \/ \E p \in Payloads : Call(t, p)
           \/ \E s \in Stages : HookRefuses(t, s)
           \/ ReserveRaises(t)
  <2>1. UNCHANGED gate
    BY <1>1 DEF Call, HookRefuses, ReserveRaises
  <2>2. Phases' = Phases
    BY <1>1, PhaseStays, PhaseOf DEF Call, HookRefuses, ReserveRaises
  <2> QED
    BY <2>1, <2>2 DEF GateView!clientVars, gate, Phases
<1>2. CASE \/ \E s \in Stages : Hook(t, s)
           \/ ReserveCall(t)
  <2>1. UNCHANGED gate
    BY <1>2 DEF Hook, ReserveCall
  <2>2. CASE Goto(t, "gate")
    <3>0. pc[t] \in {"hook", "reserve"}
      BY <1>2 DEF Hook, ReserveCall
    <3>1. Phases' = [Phases EXCEPT ![t] = "waiting"] /\ Phases[t] = "out"
      BY <2>2, <3>0, PhaseMoves, PhaseOf
    <3> QED
      BY <2>1, <3>1 DEF GateView!ClientNext, GateView!Arrive, GateView!gateVars, gate, Phases
  <2>3. CASE Goto(t, "reserve") /\ pc[t] = "hook"
    <3>1. Phases' = Phases
      BY <2>3, PhaseStays, PhaseOf
    <3> QED
      BY <2>1, <3>1 DEF GateView!clientVars, gate, Phases
  <2> QED
    BY <1>2, <2>2, <2>3 DEF Hook, ReserveCall
<1>3. CASE Issue(t)
  <2>1. Phases' = [Phases EXCEPT ![t] = "inflight"] /\ Phases[t] = "waiting"
    BY <1>3, PhaseMoves, PhaseOf DEF Issue
  <2>2. GateView!Acquire
    BY <1>3 DEF Issue, Gate!Acquire, Gate!HasRoom, GateView!Acquire, GateView!HasRoom
  <2> QED
    BY <2>1, <2>2 DEF GateView!ClientNext, GateView!Enter, Phases
<1>4. CASE \/ \E usage \in Reports \cup {Untrusted} : Answer(t, usage)
           \/ CommitCall(t) \/ SettleCall(t)
           \/ FailCall(t) \/ ChargeCall(t)
           \/ Wake(t) /\ pc[t] = "sleeping"
  <2>1. UNCHANGED gate
    BY <1>4 DEF Answer, CommitCall, SettleCall, FailCall, ChargeCall, Wake
  <2>2. Phases' = Phases
    BY <1>4, PhaseStays, PhaseOf DEF Answer, CommitCall, SettleCall, FailCall, ChargeCall, Wake
  <2> QED
    BY <2>1, <2>2 DEF GateView!clientVars, gate, Phases
<1>5. CASE CommitRaises(t) \/ Transient(t) \/ Rejected(t)
  <2>1. UNCHANGED gate
    BY <1>5 DEF CommitRaises, Transient, Rejected
  <2>0. PICK place \in {"sleeping", "finally"} : Goto(t, place) /\ pc[t] \in {"wire", "commit"}
    BY <1>5 DEF CommitRaises, Transient, Rejected
  <2>2. Phases' = [Phases EXCEPT ![t] = "leaving"] /\ Phases[t] = "inflight"
    BY <2>0, PhaseMoves, PhaseOf
  <2> QED
    BY <2>1, <2>2 DEF GateView!ClientNext, GateView!Answered, GateView!gateVars, gate, Phases
<1>6. CASE Success(t)
  <2>1. Phases' = [Phases EXCEPT ![t] = "leaving"] /\ Phases[t] = "inflight"
    BY <1>6, PhaseMoves, PhaseOf DEF Success
  <2>2. GateView!OnSuccess
    BY <1>6 DEF Success, Gate!OnSuccess, GateView!OnSuccess
  <2> QED
    BY <2>1, <2>2 DEF GateView!ClientNext, GateView!Succeeded, Phases
<1>7. CASE \E delayed \in BOOLEAN : RateLimited(t, delayed)
  <2>1. PICK delayed \in BOOLEAN : RateLimited(t, delayed)
    BY <1>7
  <2>2. Phases' = [Phases EXCEPT ![t] = "backoff"] /\ Phases[t] = "inflight"
    BY <2>1, PhaseMoves, PhaseOf DEF RateLimited
  <2>3. GateView!OnRateLimited(delayed)
    BY <2>1 DEF RateLimited, Gate!OnRateLimited, GateView!OnRateLimited, Gate!Halved, GateView!Halved
  <2>4. GateView!RateLimited(t, delayed)
    BY <2>2, <2>3 DEF GateView!RateLimited, Phases
  <2> QED
    BY <2>4 DEF GateView!ClientNext
<1>8. CASE Wake(t) /\ pc[t] = "cooling"
  <2>1. UNCHANGED gate
    BY <1>8 DEF Wake
  <2>2. Phases' = [Phases EXCEPT ![t] = "leaving"] /\ Phases[t] = "backoff"
    BY <1>8, PhaseMoves, PhaseOf DEF Wake
  <2> QED
    BY <2>1, <2>2 DEF GateView!ClientNext, GateView!WakeUp, GateView!gateVars, gate, Phases
<1>9. CASE FailRaises(t)
  BY <1>9 DEF FailRaises
<1>10. CASE ReleaseSlot(t)
  <2>1. Phases' = [Phases EXCEPT ![t] = "out"] /\ Phases[t] = "leaving"
    BY <1>10, PhaseMoves, PhaseOf DEF ReleaseSlot
  <2>2. GateView!Release
    BY <1>10 DEF ReleaseSlot, Gate!Release, GateView!Release
  <2> QED
    BY <2>1, <2>2 DEF GateView!ClientNext, GateView!Leave, Phases
<1>11. Wake(t) => pc[t] \in {"cooling", "sleeping"}
  BY DEF Wake
<1> QED
  BY <1>1, <1>2, <1>3, <1>4, <1>5, <1>6, <1>7, <1>8, <1>9, <1>10, <1>11 DEF Step

LEMMA GateStart == Init => GateView!ClientInit
<1>1. SUFFICES ASSUME Init PROVE GateView!ClientInit
  OBVIOUS
<1>2. GateView!GateInit
  BY <1>1 DEF Init, Gate!GateInit, GateView!GateInit
<1>3. Phases = [t \in Threads |-> "out"]
  BY <1>1, PhaseOf DEF Init, Phases
<1> QED
  BY <1>2, <1>3 DEF GateView!ClientInit, Phases

LEMMA GateStep ==
  CallInv /\ [Next]_vars => [GateView!ClientNext \/ skipped']_GateView!clientVars
<1>1. SUFFICES ASSUME CallInv, [Next]_vars
               PROVE  GateView!ClientNext \/ skipped' \/ UNCHANGED GateView!clientVars
  OBVIOUS
<1>2. CASE \E t \in Threads : Step(t) \/ \E p \in Payloads : Call(t, p)
  BY <1>1, <1>2, StepAtGate DEF CallInv
<1>3. CASE Mount \/ UNCHANGED vars
  <2>1. UNCHANGED <<gate, pc>>
    BY <1>3 DEF Mount, vars
  <2> QED
    BY <2>1 DEF GateView!clientVars, gate
<1>4. CASE Tick
  <2>1. GateView!PauseExpires /\ pc' = pc
    BY <1>4 DEF Tick, Gate!PauseExpires, GateView!PauseExpires
  <2> QED
    BY <2>1 DEF GateView!ClientNext, GateView!Expire
<1> QED
  BY <1>1, <1>2, <1>3, <1>4 DEF Next

\* _post_json uses the gate as RateGateClients says, on every way through its loop, unless
\* a finally clause is cut short by a checkpoint that raises.
THEOREM GateIsUsedAsAgreed == Spec => ImplementsGateClients
  BY GateStart, GateStep, CallAlways, PTL DEF Spec, ImplementsGateClients


-----------------------------------------------------------------------------
(* Sums.                                                                   *)

Columns(f, S) == UNION {{x} \X (1..f[x]) : x \in S}

\* A set with f[x] elements for each x of a finite set is finite.
LEMMA ColumnsFinite ==
  ASSUME NEW S, IsFiniteSet(S), NEW f, \A x \in S : f[x] \in Nat
  PROVE  IsFiniteSet(Columns(f, S))
<1> DEFINE all == {{x} \X (1..f[x]) : x \in S}
           column == [x \in S |-> {x} \X (1..f[x])]
<1>1. column \in Surjection(S, all)
  BY DEF Surjection
<1>2. IsFiniteSet(all)
  BY <1>1, FS_Surjection
<1>3. ASSUME NEW c \in all PROVE IsFiniteSet(c)
  <2>1. PICK x \in S : c = {x} \X (1..f[x])
    BY <1>3
  <2>2. IsFiniteSet({x}) /\ IsFiniteSet(1..f[x])
    <3>1. 1 \in Int /\ f[x] \in Int
      OBVIOUS
    <3> QED
      BY <3>1, FS_Singleton, FS_Interval
  <2> QED
    BY <2>1, <2>2, FS_Product
<1> QED
  BY <1>2, <1>3, FS_UNION DEF Columns

\* One value of f is one part of its total.
LEMMA TotalParts ==
  ASSUME NEW S, IsFiniteSet(S), NEW f \in [S -> Nat], NEW a \in S
  PROVE  /\ Cardinality(Columns(f, S \ {a})) \in Nat
         /\ Total(f) = Cardinality(Columns(f, S \ {a})) + f[a]
<1> DEFINE rest == Columns(f, S \ {a})
           column == {a} \X (1..f[a])
<1>1. IsFiniteSet(rest)
  BY ColumnsFinite, FS_Difference
<1>2. IsFiniteSet(column) /\ Cardinality(column) = f[a]
  <2>1. IsFiniteSet({a}) /\ Cardinality({a}) = 1
    BY FS_Singleton
  <2>2. IsFiniteSet(1..f[a]) /\ Cardinality(1..f[a]) = f[a]
    <3>1. 1 \in Int /\ f[a] \in Int /\ ~(1 > f[a] /\ f[a] # 0) /\ f[a] - 1 + 1 = f[a]
      OBVIOUS
    <3> QED
      BY <3>1, FS_Interval
  <2>3. IsFiniteSet(column) /\ Cardinality(column) = Cardinality({a}) * Cardinality(1..f[a])
    BY <2>1, <2>2, FS_Product
  <2> QED
    BY <2>1, <2>2, <2>3
<1>3. rest \cap column = {}
  BY DEF Columns
<1>4. UNION {{x} \X (1..f[x]) : x \in DOMAIN f} = rest \cup column
  BY DEF Columns
<1> HIDE DEF rest, column
<1>5. Cardinality(rest) \in Nat
  BY <1>1, FS_CardinalityType
<1>6. Cardinality(rest \cup column) = Cardinality(rest) + Cardinality(column) - Cardinality(rest \cap column)
  BY <1>1, <1>2, FS_Union
<1>7. Cardinality(rest \cap column) = 0
  BY <1>3, FS_EmptySet
<1>8. Cardinality(rest \cup column) = Cardinality(rest) + f[a]
  BY <1>2, <1>5, <1>6, <1>7
<1>9. Total(f) = Cardinality(rest \cup column)
  BY <1>4 DEF Total
<1> QED
  BY <1>5, <1>8, <1>9 DEF rest

LEMMA TotalIsNat ==
  ASSUME NEW S, IsFiniteSet(S), NEW f \in [S -> Nat]
  PROVE  Total(f) \in Nat
<1>1. IsFiniteSet(Columns(f, S))
  BY ColumnsFinite
<1>2. UNION {{x} \X (1..f[x]) : x \in DOMAIN f} = Columns(f, S)
  BY DEF Columns
<1> QED
  BY <1>1, <1>2, FS_CardinalityType DEF Total

\* A total changes by what changes in one place.
LEMMA TotalMoves ==
  ASSUME NEW S, IsFiniteSet(S), NEW f \in [S -> Nat], NEW g \in [S -> Nat], NEW a \in S,
         \A x \in S \ {a} : g[x] = f[x]
  PROVE  /\ Total(f) \in Nat /\ Total(g) \in Nat
         /\ Total(g) + f[a] = Total(f) + g[a]
<1>1. Columns(g, S \ {a}) = Columns(f, S \ {a})
  BY DEF Columns
<1>2. Total(f) = Cardinality(Columns(f, S \ {a})) + f[a]
      /\ Cardinality(Columns(f, S \ {a})) \in Nat
  BY TotalParts
<1>3. Total(g) = Cardinality(Columns(f, S \ {a})) + g[a]
  BY <1>1, TotalParts
<1>4. f[a] \in Nat /\ g[a] \in Nat
  OBVIOUS
<1> QED
  BY <1>2, <1>3, <1>4

LEMMA TotalOfNothing ==
  ASSUME NEW f, \A x \in DOMAIN f : f[x] = 0
  PROVE  Total(f) = 0
<1>1. UNION {{x} \X (1..f[x]) : x \in DOMAIN f} = {}
  <2>1. \A x \in DOMAIN f : 1..f[x] = {}
    OBVIOUS
  <2> QED
    BY <2>1
<1> QED
  BY <1>1, FS_EmptySet DEF Total

-----------------------------------------------------------------------------
(* What the ledger books.                                                  *)

Consumption ==
  [calls : Nat, tokens : Nat, reserved : Nat, failed : Nat, usageComplete : BOOLEAN]
Booking == [stage : Stages, ceiling : Nat]

LedgerTypes ==
  /\ attached \in BOOLEAN
  /\ consumed \in [Stages -> Consumption]
  /\ pending \in [Threads -> Booking \cup {NotPending}]

\* A step of the ledger in stage s for thread t: the other stages keep their accounts.
Touches(t, s) ==
  /\ LedgerTypes' /\ attached' = attached
  /\ \A x \in Stages \ {s} : consumed'[x] = consumed[x]
  /\ \A u \in Threads \ {t} : pending'[u] = pending[u]

\* intercept adds one call and reserves its ceiling.
LEMMA HookBooks ==
  ASSUME LedgerTypes, NEW t \in Threads, NEW s \in Stages, NEW ceiling \in Nat,
         Ledger!Intercept(t, s, ceiling, TRUE)
  PROVE  /\ Touches(t, s)
         /\ pending'[t] = [stage |-> s, ceiling |-> ceiling]
         /\ consumed'[s].calls = consumed[s].calls + 1
         /\ consumed'[s].tokens = consumed[s].tokens
         /\ consumed'[s].reserved = consumed[s].reserved + ceiling
<1>1. /\ consumed' = [consumed EXCEPT ![s].calls = @ + 1, ![s].reserved = @ + ceiling]
      /\ pending' = [pending EXCEPT ![t] = [stage |-> s, ceiling |-> ceiling]]
      /\ attached' = attached
  BY DEF Ledger!Intercept
<1>2. consumed[s] \in Consumption /\ attached \in BOOLEAN
  BY DEF LedgerTypes
<1>3. /\ consumed'[s] = [consumed[s] EXCEPT !.calls = @ + 1, !.reserved = @ + ceiling]
      /\ \A x \in Stages \ {s} : consumed'[x] = consumed[x]
      /\ consumed' = [x \in Stages |-> consumed'[x]]
  BY <1>1 DEF LedgerTypes
<1>4. consumed'[s] = [calls |-> consumed[s].calls + 1, tokens |-> consumed[s].tokens,
                      reserved |-> consumed[s].reserved + ceiling,
                      failed |-> consumed[s].failed,
                      usageComplete |-> consumed[s].usageComplete]
  BY <1>2, <1>3 DEF Consumption
<1>5. consumed'[s] \in Consumption
  BY <1>2, <1>4 DEF Consumption
<1>6. consumed' \in [Stages -> Consumption]
  BY <1>3, <1>5 DEF LedgerTypes
<1>7. pending' \in [Threads -> Booking \cup {NotPending}] /\ pending'[t] = [stage |-> s, ceiling |-> ceiling]
      /\ \A u \in Threads \ {t} : pending'[u] = pending[u]
  BY <1>1 DEF LedgerTypes, Booking
<1> QED
  BY <1>1, <1>2, <1>3, <1>4, <1>6, <1>7 DEF Touches, LedgerTypes

\* A settlement gives back at most the ceiling, keeps the calls and adds its charge.
Settled(t, s, charge) ==
  /\ Touches(t, s)
  /\ consumed'[s].calls = consumed[s].calls
  /\ consumed'[s].tokens = consumed[s].tokens + charge
  /\ consumed'[s].reserved + pending[t].ceiling >= consumed[s].reserved

LEMMA SettlementBooks ==
  ASSUME LedgerTypes, NEW t \in Threads, NEW s \in Stages, NEW ceiling \in Nat,
         ceiling = pending[t].ceiling, NEW charge \in Nat, NEW number \in Nat,
         NEW complete \in BOOLEAN,
         attached' = attached, pending' = [pending EXCEPT ![t] = NotPending],
         \A x \in Stages \ {s} : consumed'[x] = consumed[x],
         consumed' = [x \in Stages |-> consumed'[x]],
         consumed'[s] =
           [calls |-> consumed[s].calls, tokens |-> consumed[s].tokens + charge,
            reserved |-> Ledger!Less(consumed[s].reserved, ceiling),
            failed |-> number, usageComplete |-> complete]
  PROVE  Settled(t, s, charge)
<1>1. consumed[s] \in Consumption /\ attached \in BOOLEAN
  BY DEF LedgerTypes
<1>2. PICK rest \in Nat : /\ rest = Ledger!Less(consumed[s].reserved, ceiling)
                          /\ rest + ceiling >= consumed[s].reserved
  BY <1>1 DEF Consumption, Ledger!Less
<1>3. consumed'[s] = [calls |-> consumed[s].calls, tokens |-> consumed[s].tokens + charge,
                      reserved |-> rest, failed |-> number, usageComplete |-> complete]
  BY <1>2
<1>4. consumed'[s] \in Consumption
  BY <1>1, <1>3 DEF Consumption
<1>5. consumed' \in [Stages -> Consumption]
  BY <1>4 DEF LedgerTypes
<1>6. pending' \in [Threads -> Booking \cup {NotPending}]
      /\ \A u \in Threads \ {t} : pending'[u] = pending[u]
  BY DEF LedgerTypes
<1>7. Touches(t, s)
  BY <1>1, <1>5, <1>6 DEF Touches, LedgerTypes
<1> QED
  BY <1>2, <1>3, <1>7 DEF Settled

\* settle charges what is reported, or the ceiling when that cannot be trusted.
LEMMA SettleBooks ==
  ASSUME LedgerTypes, NEW t \in Threads, NEW usage \in Reports \cup {Untrusted},
         Ledger!Settle(t, usage, TRUE)
  PROVE  /\ pending[t] \in Booking
         /\ Settled(t, pending[t].stage,
                    IF usage = Untrusted THEN pending[t].ceiling ELSE usage)
<1>1. pending[t] \in Booking
  BY DEF Ledger!Settle, LedgerTypes
<1>2. PICK s \in Stages, ceiling \in Nat : s = pending[t].stage /\ ceiling = pending[t].ceiling
  BY <1>1 DEF Booking
<1>3. PICK charge \in Nat : charge = IF usage = Untrusted THEN ceiling ELSE usage
  BY PostAssumption
<1>4. PICK trusted \in BOOLEAN : trusted = (usage # Untrusted)
  OBVIOUS
<1>5. /\ attached' = attached /\ pending' = [pending EXCEPT ![t] = NotPending]
      /\ consumed' = [consumed EXCEPT
           ![s].reserved = Ledger!Less(@, ceiling), ![s].tokens = @ + charge,
           ![s].usageComplete = @ /\ trusted]
  BY <1>2, <1>3, <1>4 DEF Ledger!Settle
<1>6. consumed[s] \in Consumption
  BY DEF LedgerTypes
<1>7. /\ consumed'[s] = [consumed[s] EXCEPT
           !.reserved = Ledger!Less(@, ceiling), !.tokens = @ + charge,
           !.usageComplete = @ /\ trusted]
      /\ \A x \in Stages \ {s} : consumed'[x] = consumed[x]
      /\ consumed' = [x \in Stages |-> consumed'[x]]
  BY <1>5 DEF LedgerTypes
<1>8. PICK complete \in BOOLEAN : complete = (consumed[s].usageComplete /\ trusted)
  OBVIOUS
<1>9. consumed'[s] =
        [calls |-> consumed[s].calls, tokens |-> consumed[s].tokens + charge,
         reserved |-> Ledger!Less(consumed[s].reserved, ceiling),
         failed |-> consumed[s].failed, usageComplete |-> complete]
  BY <1>6, <1>7, <1>8 DEF Consumption
<1>10. consumed[s].failed \in Nat
  BY <1>6 DEF Consumption
<1>11. Settled(t, s, charge)
  BY ONLY LedgerTypes, t \in Threads, s \in Stages, ceiling \in Nat, charge \in Nat,
          complete \in BOOLEAN, <1>2, <1>5, <1>7, <1>9, <1>10, SettlementBooks, ZenonT(60)
<1> QED
  BY <1>1, <1>2, <1>3, <1>11

\* charge_failed always charges the ceiling.
LEMMA ChargeFailedBooks ==
  ASSUME LedgerTypes, NEW t \in Threads, Ledger!ChargeFailed(t, TRUE)
  PROVE  pending[t] \in Booking /\ Settled(t, pending[t].stage, pending[t].ceiling)
<1>1. pending[t] \in Booking
  BY DEF Ledger!ChargeFailed, LedgerTypes
<1>2. PICK s \in Stages, ceiling \in Nat : s = pending[t].stage /\ ceiling = pending[t].ceiling
  BY <1>1 DEF Booking
<1>3. PICK complete \in BOOLEAN : complete = FALSE
  OBVIOUS
<1>4. attached' = attached /\ pending' = [pending EXCEPT ![t] = NotPending]
  BY DEF Ledger!ChargeFailed
<1>5. consumed' = [consumed EXCEPT
        ![s].reserved = Ledger!Less(@, ceiling), ![s].tokens = @ + ceiling,
        ![s].failed = @ + 1, ![s].usageComplete = FALSE]
  BY <1>2 DEF Ledger!ChargeFailed
<1>6. consumed[s] \in Consumption
  BY DEF LedgerTypes
<1>7. /\ consumed'[s] = [consumed[s] EXCEPT
           !.reserved = Ledger!Less(@, ceiling), !.tokens = @ + ceiling,
           !.failed = @ + 1, !.usageComplete = complete]
      /\ \A x \in Stages \ {s} : consumed'[x] = consumed[x]
      /\ consumed' = [x \in Stages |-> consumed'[x]]
  BY <1>3, <1>5 DEF LedgerTypes
<1>8. PICK number \in Nat : number = consumed[s].failed + 1
  BY <1>6 DEF Consumption
<1>9. PICK charge \in Nat : charge = ceiling
  OBVIOUS
<1>10. consumed'[s] =
        [calls |-> consumed[s].calls, tokens |-> consumed[s].tokens + charge,
         reserved |-> Ledger!Less(consumed[s].reserved, ceiling),
         failed |-> number, usageComplete |-> complete]
  BY <1>6, <1>7, <1>8, <1>9 DEF Consumption
<1>11. /\ \A x \in Stages \ {s} : consumed'[x] = consumed[x]
       /\ consumed' = [x \in Stages |-> consumed'[x]]
  BY <1>7
<1>12. Settled(t, s, charge)
  BY ONLY LedgerTypes, t \in Threads, s \in Stages, ceiling \in Nat, charge \in Nat,
          number \in Nat, complete \in BOOLEAN, <1>2, <1>4, <1>10, <1>11, SettlementBooks
<1> QED
  BY <1>1, <1>2, <1>9, <1>12

-----------------------------------------------------------------------------
(* What has left is covered.                                               *)

\* A call that is booked in the ledger and has not been sent.
Unsent(t) == IF pc[t] \in {"reserve", "gate"} THEN 1 ELSE 0

\* What the ledger has booked for a call beyond what the call can have cost: all of it
\* before the request, and after a trusted answer what is left of the ceiling.
Credit(t) ==
  IF pc[t] \in {"reserve", "gate"} THEN TokenCeiling[payload[t]]
  ELSE IF /\ pc[t] \in {"commit", "settle"}
          /\ response[t] \in Nat /\ response[t] <= TokenCeiling[payload[t]]
         THEN TokenCeiling[payload[t]] - response[t] ELSE 0

UnsentCalls == [t \in Threads |-> Unsent(t)]
Credits == [t \in Threads |-> Credit(t)]
CallsOf == [s \in Stages |-> consumed[s].calls]
Booked == [s \in Stages |-> consumed[s].tokens + consumed[s].reserved]

\* A call between the hook and its settlement has a reservation of its ceiling.
Underway(t) ==
  /\ pc[t] \in {"reserve", "gate", "wire", "commit", "settle"} =>
       pending[t] # NotPending /\ pending[t].ceiling = TokenCeiling[payload[t]]
  /\ pc[t] \in {"commit", "settle"} => response[t] \in Reports \cup {Untrusted}

\* The ledger covers what has left and what is about to leave.
Covered ==
  /\ posted + Total(UnsentCalls) <= Total(CallsOf)
  /\ billed + Total(Credits) <= Total(Booked)

CoverInv ==
  /\ CallTypes /\ LedgerTypes
  /\ \A t \in Threads : Underway(t)
  /\ ~attached => posted = 0 /\ billed = 0 /\ \A t \in Threads : pc[t] = "out"
  /\ attached => Covered

LEMMA CeilingIs ==
  ASSUME CallTypes, NEW t \in Threads
  PROVE  TokenCeiling[payload[t]] \in Nat
  BY PostAssumption DEF CallTypes

LEMMA SummandsTyped ==
  ASSUME CallTypes, LedgerTypes
  PROVE  /\ UnsentCalls \in [Threads -> Nat] /\ Credits \in [Threads -> Nat]
         /\ CallsOf \in [Stages -> Nat] /\ Booked \in [Stages -> Nat]
<1>1. \A t \in Threads : Unsent(t) \in Nat
  BY DEF Unsent
<1>2. \A t \in Threads : Credit(t) \in Nat
  BY CeilingIs DEF Credit
<1>3. \A s \in Stages : consumed[s].calls \in Nat /\ consumed[s].tokens + consumed[s].reserved \in Nat
  BY DEF LedgerTypes, Consumption
<1> QED
  BY <1>1, <1>2, <1>3 DEF UnsentCalls, Credits, CallsOf, Booked

\* A step of a thread that leaves the ledger's accounts where they are.
Unbooked(t) ==
  /\ consumed' = consumed
  /\ posted' + Unsent(t)' <= posted + Unsent(t)
  /\ billed' + Credit(t)' <= billed + Credit(t)

\* A step of a thread that books in stage s: the difference covers what it owes more.
BookedIn(t, s) ==
  /\ \A x \in Stages \ {s} : consumed'[x] = consumed[x]
  /\ posted' + Unsent(t)' + consumed[s].calls <= posted + Unsent(t) + consumed'[s].calls
  /\ billed' + Credit(t)' + (consumed[s].tokens + consumed[s].reserved)
       <= billed + Credit(t) + (consumed'[s].tokens + consumed'[s].reserved)

\* A step of one thread moves the sums by what it moves itself.
LEMMA CoveredStep ==
  ASSUME CallTypes, LedgerTypes, CallTypes', LedgerTypes', Covered,
         NEW t \in Threads, Others(t),
         Unbooked(t) \/ \E s \in Stages : BookedIn(t, s)
  PROVE  Covered'
<1>1. /\ UnsentCalls \in [Threads -> Nat] /\ Credits \in [Threads -> Nat]
      /\ CallsOf \in [Stages -> Nat] /\ Booked \in [Stages -> Nat]
  BY SummandsTyped
<1>2. /\ UnsentCalls' \in [Threads -> Nat] /\ Credits' \in [Threads -> Nat]
      /\ CallsOf' \in [Stages -> Nat] /\ Booked' \in [Stages -> Nat]
  <2>1. \A u \in Threads : Unsent(u)' \in Nat
    BY DEF Unsent
  <2>2. \A u \in Threads : Credit(u)' \in Nat
    <3>1. \A u \in Threads : TokenCeiling[payload'[u]] \in Nat
      BY PostAssumption DEF CallTypes
    <3> QED
      BY <3>1 DEF Credit
  <2>3. \A s \in Stages : consumed'[s].calls \in Nat /\ consumed'[s].tokens + consumed'[s].reserved \in Nat
    BY DEF LedgerTypes, Consumption
  <2> QED
    BY <2>1, <2>2, <2>3 DEF UnsentCalls, Credits, CallsOf, Booked
<1>3. \A u \in Threads \ {t} : UnsentCalls'[u] = UnsentCalls[u] /\ Credits'[u] = Credits[u]
  BY DEF Others, UnsentCalls, Credits, Unsent, Credit
<1>4. /\ Total(UnsentCalls) \in Nat /\ Total(UnsentCalls') \in Nat
      /\ Total(UnsentCalls') + UnsentCalls[t] = Total(UnsentCalls) + UnsentCalls'[t]
      /\ Total(Credits) \in Nat /\ Total(Credits') \in Nat
      /\ Total(Credits') + Credits[t] = Total(Credits) + Credits'[t]
  BY <1>1, <1>2, <1>3, TotalMoves, PostAssumption
<1>5. /\ UnsentCalls[t] = Unsent(t) /\ UnsentCalls'[t] = Unsent(t)'
      /\ Credits[t] = Credit(t) /\ Credits'[t] = Credit(t)'
  BY DEF UnsentCalls, Credits
<1>6. /\ posted \in Nat /\ billed \in Int /\ posted' \in Nat /\ billed' \in Int
      /\ Unsent(t) \in Nat /\ Unsent(t)' \in Nat /\ Credit(t) \in Nat /\ Credit(t)' \in Nat
  BY <1>1, <1>2, <1>5 DEF CallTypes
<1>7. /\ posted + Total(UnsentCalls) <= Total(CallsOf)
      /\ billed + Total(Credits) <= Total(Booked)
  BY DEF Covered
<1>8. CASE Unbooked(t)
  <2>1. CallsOf' = CallsOf /\ Booked' = Booked
    BY <1>8 DEF Unbooked, CallsOf, Booked
  <2>2. Total(CallsOf) \in Nat /\ Total(Booked) \in Nat
    BY <1>1, TotalIsNat, PostAssumption
  <2>3. posted' + Total(UnsentCalls') <= Total(CallsOf')
    BY <1>4, <1>5, <1>6, <1>7, <1>8, <2>1, <2>2 DEF Unbooked
  <2>4. billed' + Total(Credits') <= Total(Booked')
    BY <1>4, <1>5, <1>6, <1>7, <1>8, <2>1, <2>2 DEF Unbooked
  <2> QED
    BY <2>3, <2>4 DEF Covered, Total
<1>9. ASSUME NEW s \in Stages, BookedIn(t, s) PROVE Covered'
  <2>1. \A x \in Stages \ {s} : CallsOf'[x] = CallsOf[x] /\ Booked'[x] = Booked[x]
    BY <1>9 DEF BookedIn, CallsOf, Booked
  <2>2. /\ Total(CallsOf) \in Nat /\ Total(CallsOf') \in Nat
        /\ Total(CallsOf') + CallsOf[s] = Total(CallsOf) + CallsOf'[s]
        /\ Total(Booked) \in Nat /\ Total(Booked') \in Nat
        /\ Total(Booked') + Booked[s] = Total(Booked) + Booked'[s]
    <3>0. IsFiniteSet(Stages)
      BY PostAssumption
    <3>1. /\ Total(CallsOf) \in Nat /\ Total(CallsOf') \in Nat
          /\ Total(CallsOf') + CallsOf[s] = Total(CallsOf) + CallsOf'[s]
      BY <1>1, <1>2, <2>1, <3>0, TotalMoves, SMTT(60)
    <3>2. /\ Total(Booked) \in Nat /\ Total(Booked') \in Nat
          /\ Total(Booked') + Booked[s] = Total(Booked) + Booked'[s]
      BY <1>1, <1>2, <2>1, <3>0, TotalMoves, SMTT(60)
    <3> QED
      BY <3>1, <3>2
  <2>3. CallsOf[s] \in Nat /\ CallsOf'[s] \in Nat /\ Booked[s] \in Nat /\ Booked'[s] \in Nat
    BY <1>1, <1>2
  <2>4. /\ posted' + Unsent(t)' + CallsOf[s] <= posted + Unsent(t) + CallsOf'[s]
        /\ billed' + Credit(t)' + Booked[s] <= billed + Credit(t) + Booked'[s]
    BY <1>9 DEF BookedIn, CallsOf, Booked
  <2>5. posted' + Total(UnsentCalls') <= Total(CallsOf')
    BY <1>4, <1>5, <1>6, <1>7, <2>2, <2>3, <2>4
  <2>6. billed' + Total(Credits') <= Total(Booked')
    BY <1>4, <1>5, <1>6, <1>7, <2>2, <2>3, <2>4
  <2> QED
    BY <2>5, <2>6 DEF Covered, Total
<1> QED
  BY <1>8, <1>9

\* What a step of a thread has to keep for the ledger to cover it.
Books(t) ==
  /\ LedgerTypes' /\ attached' = attached
  /\ \A u \in Threads \ {t} : pending'[u] = pending[u]
  /\ Underway(t)'
  /\ Unbooked(t) \/ \E s \in Stages : BookedIn(t, s)

LEMMA HookStep ==
  ASSUME CoverInv, CallTypes', NEW t \in Threads, NEW s \in Stages, Hook(t, s)
  PROVE  Books(t)
<1>1. PICK ceiling \in Nat : ceiling = TokenCeiling[payload[t]]
  BY CeilingIs DEF CoverInv
<1>2. /\ Touches(t, s)
      /\ pending'[t] = [stage |-> s, ceiling |-> ceiling]
      /\ consumed'[s].calls = consumed[s].calls + 1
      /\ consumed'[s].tokens = consumed[s].tokens
      /\ consumed'[s].reserved = consumed[s].reserved + ceiling
  BY <1>1, HookBooks DEF Hook, CoverInv
<1>3. /\ pc[t] = "hook" /\ pc'[t] \in {"reserve", "gate"} /\ payload' = payload
      /\ posted' = posted /\ billed' = billed
  BY DEF Hook, Goto, CoverInv, CallTypes, history
<1>4. Unsent(t) = 0 /\ Unsent(t)' = 1 /\ Credit(t) = 0 /\ Credit(t)' = ceiling
  BY <1>1, <1>3 DEF Unsent, Credit
<1>5. /\ consumed[s].calls \in Nat /\ consumed[s].tokens \in Nat /\ consumed[s].reserved \in Nat
      /\ posted \in Nat /\ billed \in Int
  BY DEF CoverInv, LedgerTypes, Consumption, CallTypes
<1>6. BookedIn(t, s)
  <2>1. \A x \in Stages \ {s} : consumed'[x] = consumed[x]
    BY <1>2 DEF Touches
  <2>2. posted' + Unsent(t)' + consumed[s].calls <= posted + Unsent(t) + consumed'[s].calls
    BY <1>2, <1>3, <1>4, <1>5
  <2>3. billed' + Credit(t)' + (consumed[s].tokens + consumed[s].reserved)
          <= billed + Credit(t) + (consumed'[s].tokens + consumed'[s].reserved)
    BY <1>2, <1>3, <1>4, <1>5
  <2> QED
    BY <2>1, <2>2, <2>3 DEF BookedIn
<1>7. pending'[t] # NotPending
  BY <1>2, PostAssumption
<1>8. Underway(t)'
  BY <1>1, <1>2, <1>3, <1>7 DEF Underway
<1> QED
  BY <1>2, <1>6, <1>8 DEF Books, Touches

LEMMA SettleStep ==
  ASSUME CoverInv, CallTypes', NEW t \in Threads, SettleCall(t)
  PROVE  Books(t)
<1>1. PICK ceiling \in Nat : ceiling = TokenCeiling[payload[t]]
  BY CeilingIs DEF CoverInv
<1>2. /\ pc[t] = "settle" /\ pc'[t] = "success" /\ payload' = payload /\ response' = response
      /\ posted' = posted /\ billed' = billed
  BY DEF SettleCall, Goto, CoverInv, CallTypes, call, history
<1>3. /\ response[t] \in Reports \cup {Untrusted}
      /\ pending[t].ceiling = ceiling
  BY <1>1, <1>2 DEF CoverInv, Underway
<1>4. PICK s \in Stages, charge \in Nat :
        /\ Settled(t, s, charge)
        /\ charge = IF response[t] = Untrusted THEN ceiling ELSE response[t]
  <2>1. /\ pending[t] \in Booking
        /\ Settled(t, pending[t].stage,
                   IF response[t] = Untrusted THEN pending[t].ceiling ELSE response[t])
    BY <1>3, SettleBooks DEF SettleCall, CoverInv
  <2>2. pending[t].stage \in Stages
    BY <2>1 DEF Booking
  <2>3. (IF response[t] = Untrusted THEN ceiling ELSE response[t]) \in Nat
    BY <1>3, PostAssumption
  <2> QED
    BY <1>3, <2>1, <2>2, <2>3
<1>5. Unsent(t) = 0 /\ Unsent(t)' = 0 /\ Credit(t)' = 0
  BY <1>2 DEF Unsent, Credit
<1>6. PICK credit \in Nat : credit = Credit(t) /\ charge + credit >= ceiling
  <2>1. CASE response[t] = Untrusted
    <3>1. Credit(t) = 0
      BY <1>2, <2>1, PostAssumption DEF Credit
    <3> QED
      BY <1>4, <2>1, <3>1
  <2>2. CASE response[t] # Untrusted
    <3>1. response[t] \in Nat /\ charge = response[t]
      BY <1>4, <2>2
    <3>2. Credit(t) = IF charge <= ceiling THEN ceiling - charge ELSE 0
      BY <1>1, <1>2, <3>1 DEF Credit
    <3> QED
      BY <3>2
  <2> QED
    BY <2>1, <2>2
<1>7. /\ consumed[s].calls \in Nat /\ consumed[s].tokens \in Nat /\ consumed[s].reserved \in Nat
      /\ consumed'[s].reserved \in Nat
      /\ posted \in Nat /\ billed \in Int
  BY <1>4 DEF CoverInv, LedgerTypes, Consumption, CallTypes, Settled, Touches
<1>8. /\ consumed'[s].calls = consumed[s].calls
      /\ consumed'[s].tokens = consumed[s].tokens + charge
      /\ consumed'[s].reserved + ceiling >= consumed[s].reserved
  BY <1>3, <1>4 DEF Settled
<1>9. BookedIn(t, s)
  <2>1. \A x \in Stages \ {s} : consumed'[x] = consumed[x]
    BY <1>4 DEF Settled, Touches
  <2>2. posted' + Unsent(t)' + consumed[s].calls <= posted + Unsent(t) + consumed'[s].calls
    BY <1>2, <1>5, <1>7, <1>8
  <2>3. billed' + Credit(t)' + (consumed[s].tokens + consumed[s].reserved)
          <= billed + Credit(t) + (consumed'[s].tokens + consumed'[s].reserved)
    BY <1>2, <1>5, <1>6, <1>7, <1>8
  <2> QED
    BY <2>1, <2>2, <2>3 DEF BookedIn
<1>10. Underway(t)'
  BY <1>2 DEF Underway
<1> QED
  BY <1>4, <1>9, <1>10 DEF Books, Settled, Touches

LEMMA ChargeStep ==
  ASSUME CoverInv, CallTypes', NEW t \in Threads, ChargeCall(t)
  PROVE  Books(t)
<1>1. /\ pc[t] = "charge" /\ pc'[t] = "release" /\ posted' = posted /\ billed' = billed
  BY DEF ChargeCall, Goto, CoverInv, CallTypes, history
<1>2. Unsent(t) = 0 /\ Unsent(t)' = 0 /\ Credit(t) = 0 /\ Credit(t)' = 0
  BY <1>1 DEF Unsent, Credit
<1>3. Underway(t)'
  BY <1>1 DEF Underway
<1>4. posted \in Nat /\ billed \in Int
  BY DEF CoverInv, CallTypes
<1>5. CASE UNCHANGED ledger
  <2>1. LedgerTypes' /\ attached' = attached /\ consumed' = consumed /\ pending' = pending
    BY <1>5 DEF CoverInv, LedgerTypes, ledger
  <2>2. Unbooked(t)
    BY <1>1, <1>2, <1>4, <2>1 DEF Unbooked
  <2> QED
    BY <1>3, <2>1, <2>2 DEF Books
<1>6. CASE Ledger!ChargeFailed(t, TRUE)
  <2>1. PICK s \in Stages, ceiling \in Nat : Settled(t, s, ceiling) /\ pending[t].ceiling = ceiling
    BY <1>6, ChargeFailedBooks DEF CoverInv, Booking
  <2>2. /\ consumed[s].calls \in Nat /\ consumed[s].tokens \in Nat /\ consumed[s].reserved \in Nat
        /\ consumed'[s].reserved \in Nat
    BY <2>1 DEF CoverInv, LedgerTypes, Consumption, Settled, Touches
  <2>3. /\ consumed'[s].calls = consumed[s].calls
        /\ consumed'[s].tokens = consumed[s].tokens + ceiling
        /\ consumed'[s].reserved + ceiling >= consumed[s].reserved
    BY <2>1 DEF Settled
  <2>4. BookedIn(t, s)
    <3>1. \A x \in Stages \ {s} : consumed'[x] = consumed[x]
      BY <2>1 DEF Settled, Touches
    <3>2. posted' + Unsent(t)' + consumed[s].calls <= posted + Unsent(t) + consumed'[s].calls
      BY <1>1, <1>2, <1>4, <2>2, <2>3
    <3>3. billed' + Credit(t)' + (consumed[s].tokens + consumed[s].reserved)
            <= billed + Credit(t) + (consumed'[s].tokens + consumed'[s].reserved)
      BY <1>1, <1>2, <1>4, <2>2, <2>3
    <3> QED
      BY <3>1, <3>2, <3>3 DEF BookedIn
  <2> QED
    BY <1>3, <2>1, <2>4 DEF Books, Settled, Touches
<1> QED
  BY <1>5, <1>6 DEF ChargeCall

\* A step outside of the ledger.
LEMMA QuietStep ==
  ASSUME CoverInv, NEW t \in Threads, UNCHANGED ledger, Underway(t)',
         posted' + Unsent(t)' <= posted + Unsent(t),
         billed' + Credit(t)' <= billed + Credit(t)
  PROVE  Books(t)
<1>1. attached' = attached /\ consumed' = consumed /\ pending' = pending
  BY DEF ledger
<1>2. LedgerTypes'
  BY <1>1 DEF CoverInv, LedgerTypes
<1> QED
  BY <1>1, <1>2 DEF Books, Unbooked

\* A step between two places where the ledger owes nothing to the call.
LEMMA IdleStep ==
  ASSUME CoverInv, CallTypes', NEW t \in Threads, UNCHANGED ledger,
         pc[t] \notin {"reserve", "gate", "commit", "settle"},
         pc'[t] \notin {"reserve", "gate", "wire", "commit", "settle"},
         posted' = posted, billed' = billed
  PROVE  Books(t)
<1>1. Unsent(t) = 0 /\ Unsent(t)' = 0 /\ Credit(t) = 0 /\ Credit(t)' = 0
  BY DEF Unsent, Credit
<1>2. Underway(t)'
  BY DEF Underway
<1>3. posted \in Nat /\ billed \in Int
  BY DEF CoverInv, CallTypes
<1> QED
  BY <1>1, <1>2, <1>3, QuietStep

LEMMA RefusalStep ==
  ASSUME CoverInv, CallTypes', NEW t \in Threads, NEW s \in Stages, HookRefuses(t, s)
  PROVE  Books(t)
<1>1. /\ pc[t] = "hook" /\ pc'[t] = "out" /\ posted' = posted /\ billed' = billed
      /\ consumed' = consumed /\ attached' = attached
      /\ pending' = [pending EXCEPT ![t] = NotPending]
  BY DEF HookRefuses, Goto, CoverInv, CallTypes, history, Ledger!InterceptRefused
<1>2. Unsent(t) = 0 /\ Unsent(t)' = 0 /\ Credit(t) = 0 /\ Credit(t)' = 0
  BY <1>1 DEF Unsent, Credit
<1>3. LedgerTypes' /\ \A u \in Threads \ {t} : pending'[u] = pending[u]
  BY <1>1 DEF CoverInv, LedgerTypes
<1>4. Underway(t)'
  BY <1>1 DEF Underway
<1>5. posted \in Nat /\ billed \in Int
  BY DEF CoverInv, CallTypes
<1> QED
  BY <1>1, <1>2, <1>3, <1>4, <1>5 DEF Books, Unbooked

\* The request leaves: what it can cost passes from the credit of the call to the bill.
LEMMA IssueStep ==
  ASSUME CoverInv, CallTypes', NEW t \in Threads, Issue(t)
  PROVE  Books(t)
<1>1. PICK ceiling \in Nat : ceiling = TokenCeiling[payload[t]]
  BY CeilingIs DEF CoverInv
<1>2. /\ pc[t] = "gate" /\ pc'[t] = "wire" /\ posted' = posted + 1 /\ billed' = billed + ceiling
      /\ payload' = payload /\ UNCHANGED ledger
  BY <1>1 DEF Issue, Goto, CoverInv, CallTypes, call
<1>3. Unsent(t) = 1 /\ Unsent(t)' = 0 /\ Credit(t) = ceiling /\ Credit(t)' = 0
  BY <1>1, <1>2 DEF Unsent, Credit
<1>4. Underway(t)'
  BY <1>2 DEF CoverInv, Underway, ledger
<1>5. posted \in Nat /\ billed \in Int
  BY DEF CoverInv, CallTypes
<1> QED
  BY <1>2, <1>3, <1>4, <1>5, QuietStep

\* A trusted answer gives back what it did not cost, which the ledger still has booked.
LEMMA AnswerStep ==
  ASSUME CoverInv, CallTypes', NEW t \in Threads, NEW usage \in Reports \cup {Untrusted},
         Answer(t, usage)
  PROVE  Books(t)
<1>1. PICK ceiling \in Nat : ceiling = TokenCeiling[payload[t]]
  BY CeilingIs DEF CoverInv
<1>2. /\ pc[t] = "wire" /\ pc'[t] \in {"commit", "settle"} /\ posted' = posted
      /\ billed' = IF usage = Untrusted \/ usage > ceiling THEN billed ELSE billed - ceiling + usage
      /\ response'[t] = usage /\ payload' = payload /\ UNCHANGED ledger
  BY <1>1 DEF Answer, Goto, CoverInv, CallTypes
<1>3. Unsent(t) = 0 /\ Unsent(t)' = 0 /\ Credit(t) = 0
  BY <1>2 DEF Unsent, Credit
<1>4. posted \in Nat /\ billed \in Int
  BY DEF CoverInv, CallTypes
<1>5. billed' + Credit(t)' <= billed + Credit(t)
  <2>1. CASE usage = Untrusted
    <3>1. Credit(t)' = 0 /\ billed' = billed
      BY <1>2, <2>1, PostAssumption DEF Credit
    <3> QED
      BY <1>3, <1>4, <3>1
  <2>2. CASE usage # Untrusted
    <3>1. usage \in Nat
      BY <2>2, PostAssumption
    <3>2. Credit(t)' = IF usage <= ceiling THEN ceiling - usage ELSE 0
      BY <1>1, <1>2, <3>1 DEF Credit
    <3>3. billed' = IF usage > ceiling THEN billed ELSE billed - ceiling + usage
      BY <1>2, <2>2
    <3> QED
      BY <1>3, <1>4, <3>1, <3>2, <3>3
  <2> QED
    BY <2>1, <2>2
<1>6. Underway(t)'
  BY <1>2 DEF CoverInv, Underway, ledger
<1> QED
  BY <1>2, <1>3, <1>4, <1>5, <1>6, QuietStep

\* The steps between the hook and the settlement that send and receive nothing.
LEMMA BudgetStep ==
  ASSUME CoverInv, CallTypes', NEW t \in Threads,
         ReserveCall(t) \/ ReserveRaises(t) \/ CommitCall(t) \/ CommitRaises(t)
  PROVE  Books(t)
<1>1. posted \in Nat /\ billed \in Int /\ Credit(t) \in Nat
  <2>1. Credit(t) \in Nat
    BY CeilingIs DEF Credit, CoverInv
  <2> QED
    BY <2>1 DEF CoverInv, CallTypes
<1>2. UNCHANGED <<ledger, payload, response, posted, billed>>
  BY DEF ReserveCall, ReserveRaises, CommitCall, CommitRaises, call, history
<1>3. \/ pc[t] = "reserve" /\ pc'[t] = "gate"
      \/ pc[t] = "reserve" /\ pc'[t] = "out"
      \/ pc[t] = "commit" /\ pc'[t] = "settle"
      \/ pc[t] = "commit" /\ pc'[t] = "finally"
  BY DEF ReserveCall, ReserveRaises, CommitCall, CommitRaises, Goto, CoverInv, CallTypes
<1>4. Unsent(t) \in {0, 1} /\ Unsent(t)' \in {0, 1} /\ Unsent(t)' <= Unsent(t)
  BY <1>3 DEF Unsent
<1>5. Credit(t)' = Credit(t) \/ Credit(t)' = 0
  BY <1>2, <1>3 DEF Credit
<1>6. Underway(t)'
  BY <1>2, <1>3 DEF CoverInv, Underway, ledger
<1> QED
  BY <1>1, <1>2, <1>4, <1>5, <1>6, QuietStep

LEMMA StepBooks ==
  ASSUME CoverInv, CallTypes', NEW t \in Threads, Step(t) \/ \E p \in Payloads : Call(t, p)
  PROVE  Books(t)
<1>1. CASE \E s \in Stages : Hook(t, s)
  BY <1>1, HookStep
<1>2. CASE \E s \in Stages : HookRefuses(t, s)
  BY <1>2, RefusalStep
<1>3. CASE ReserveCall(t) \/ ReserveRaises(t) \/ CommitCall(t) \/ CommitRaises(t)
  BY <1>3, BudgetStep
<1>4. CASE Issue(t)
  BY <1>4, IssueStep
<1>5. CASE \E usage \in Reports \cup {Untrusted} : Answer(t, usage)
  BY <1>5, AnswerStep
<1>6. CASE SettleCall(t)
  BY <1>6, SettleStep
<1>7. CASE ChargeCall(t)
  BY <1>7, ChargeStep
<1>8. CASE \/ \E p \in Payloads : Call(t, p)
           \/ Success(t)
           \/ \E delayed \in BOOLEAN : RateLimited(t, delayed)
           \/ Transient(t) \/ Rejected(t) \/ Wake(t)
           \/ FailCall(t) \/ FailRaises(t) \/ ReleaseSlot(t)
  <2>1. UNCHANGED <<ledger, posted, billed>>
    BY <1>8 DEF Call, Success, RateLimited, Transient, Rejected, Wake, FailCall, FailRaises,
                ReleaseSlot, history
  <2>2. /\ pc[t] \in {"out", "success", "wire", "cooling", "sleeping", "finally", "release"}
        /\ pc'[t] \in {"hook", "finally", "cooling", "sleeping", "charge", "out"}
    BY <1>8 DEF Call, Success, RateLimited, Transient, Rejected, Wake, FailCall, FailRaises,
                ReleaseSlot, Goto, CoverInv, CallTypes
  <2> QED
    BY <2>1, <2>2, IdleStep
<1> QED
  BY <1>1, <1>2, <1>3, <1>4, <1>5, <1>6, <1>7, <1>8 DEF Step

LEMMA CoverStep == CallInv /\ CoverInv /\ [Next]_vars => CoverInv'
<1>1. SUFFICES ASSUME CallInv, CoverInv, [Next]_vars PROVE CoverInv'
  OBVIOUS
<1>2. CallTypes'
  BY <1>1, CallStep DEF CallInv
<1>3. ASSUME NEW t \in Threads, Step(t) \/ \E p \in Payloads : Call(t, p)
      PROVE  CoverInv'
  <2>1. Books(t) /\ Others(t)
    BY <1>1, <1>2, <1>3, StepBooks, StepKeepsOthers DEF CallInv
  <2>2. attached
    <3>1. CASE \E p \in Payloads : Call(t, p)
      BY <3>1 DEF Call
    <3>2. CASE Step(t)
      <4>1. pc[t] # "out"
        BY <3>2 DEF Step, Hook, HookRefuses, ReserveCall, ReserveRaises, Issue, Answer, CommitCall,
                    CommitRaises, SettleCall, Success, RateLimited, Transient, Rejected, Wake,
                    FailCall, FailRaises, ChargeCall, ReleaseSlot
      <4> QED
        BY <1>1, <4>1 DEF CoverInv
    <3> QED
      BY <1>3, <3>1, <3>2
  <2>3. LedgerTypes' /\ attached'
    BY <1>1, <2>1, <2>2 DEF Books
  <2>4. \A u \in Threads : Underway(u)'
    <3>1. \A u \in Threads \ {t} : Underway(u)'
      BY <1>1, <2>1 DEF Books, Others, CoverInv, Underway
    <3> QED
      BY <2>1, <3>1 DEF Books
  <2>5. Covered'
    <3>1. Covered /\ CallTypes /\ LedgerTypes
      BY <1>1, <2>2 DEF CoverInv
    <3>2. Unbooked(t) \/ \E s \in Stages : BookedIn(t, s)
      BY <2>1 DEF Books
    <3> QED
      BY <1>2, <2>1, <2>3, <3>1, <3>2, CoveredStep
  <2> QED
    BY <1>2, <2>3, <2>4, <2>5 DEF CoverInv
<1>4. CASE Mount
  <2>1. /\ ~attached /\ attached' = TRUE /\ consumed' = Ledger!NothingConsumed
        /\ pending' = pending
        /\ UNCHANGED <<pc, payload, response, posted, billed>>
    BY <1>4 DEF Mount, Ledger!Attach, call, history
  <2>2. posted' = 0 /\ billed' = 0 /\ \A u \in Threads : pc'[u] = "out"
    BY <1>1, <2>1 DEF CoverInv
  <2>3. LedgerTypes'
    <3>1. Ledger!NothingConsumed \in [Stages -> Consumption]
      BY DEF Ledger!NothingConsumed, Consumption
    <3> QED
      BY <1>1, <2>1, <3>1 DEF LedgerTypes, CoverInv
  <2>4. \A u \in Threads : Underway(u)'
    BY <2>2 DEF Underway
  <2>5. Covered'
    <3>1. Total(UnsentCalls') = 0 /\ Total(Credits') = 0
      <4>1. \A u \in Threads : UnsentCalls'[u] = 0 /\ Credits'[u] = 0
        BY <2>2 DEF UnsentCalls, Credits, Unsent, Credit
      <4>2. DOMAIN UnsentCalls' = Threads /\ DOMAIN Credits' = Threads
        BY DEF UnsentCalls, Credits
      <4> QED
        BY <4>1, <4>2, TotalOfNothing
    <3>2. Total(CallsOf') = 0 /\ Total(Booked') = 0
      <4>1. \A s \in Stages : CallsOf'[s] = 0 /\ Booked'[s] = 0
        BY <2>1 DEF CallsOf, Booked, Ledger!NothingConsumed
      <4>2. DOMAIN CallsOf' = Stages /\ DOMAIN Booked' = Stages
        BY DEF CallsOf, Booked
      <4> QED
        BY <4>1, <4>2, TotalOfNothing
    <3> QED
      BY <2>2, <3>1, <3>2 DEF Covered, Total
  <2> QED
    BY <1>2, <2>1, <2>3, <2>4, <2>5 DEF CoverInv
<1>5. CASE Tick \/ UNCHANGED vars
  <2>1. UNCHANGED <<pc, payload, response, posted, billed, attached, consumed, pending>>
    BY <1>5 DEF Tick, vars, ledger, call, history
  <2>2. LedgerTypes' /\ \A u \in Threads : Underway(u)'
    BY <1>1, <2>1 DEF CoverInv, LedgerTypes, Underway
  <2>3. UnsentCalls' = UnsentCalls /\ Credits' = Credits /\ CallsOf' = CallsOf /\ Booked' = Booked
    BY <2>1 DEF UnsentCalls, Credits, Unsent, Credit, CallsOf, Booked
  <2>4. Covered => Covered'
    BY <2>1, <2>3 DEF Covered, Total
  <2> QED
    BY <1>1, <1>2, <2>1, <2>2, <2>4 DEF CoverInv
<1> QED
  BY <1>1, <1>3, <1>4, <1>5 DEF Next

LEMMA CoverInit == Init => CoverInv
<1>1. SUFFICES ASSUME Init PROVE CoverInv
  OBVIOUS
<1>2. CallTypes
  BY <1>1, CallInit DEF CallInv
<1>3. attached = FALSE /\ consumed = Ledger!NothingConsumed
      /\ pending = [u \in Threads |-> NotPending]
  BY <1>1 DEF Init, Ledger!LedgerInit
<1>4. Ledger!NothingConsumed \in [Stages -> Consumption]
  BY DEF Ledger!NothingConsumed, Consumption
<1>5. LedgerTypes
  BY <1>3, <1>4 DEF LedgerTypes
<1>6. posted = 0 /\ billed = 0 /\ \A t \in Threads : pc[t] = "out"
  BY <1>1 DEF Init
<1>7. \A t \in Threads : Underway(t)
  BY <1>6 DEF Underway
<1> QED
  BY <1>2, <1>3, <1>5, <1>6, <1>7 DEF CoverInv

LEMMA CoverAlways == Spec => [](CallInv /\ CoverInv)
  BY CallInit, CoverInit, CallStep, CoverStep, PTL DEF Spec

\* Every request that has left is among the calls that the document ledger counts, and what
\* it can have cost among the tokens, over every refusal, retry and exception.
THEOREM LedgerAlwaysCovers == Spec => []LedgerCoversRequests
<1>1. CoverInv => LedgerCoversRequests
  <2>1. SUFFICES ASSUME CoverInv, attached
                 PROVE  posted <= Total(CallsOf) /\ billed <= Total(Booked)
    BY DEF LedgerCoversRequests, CallsOf, Booked
  <2>2. /\ UnsentCalls \in [Threads -> Nat] /\ Credits \in [Threads -> Nat]
        /\ CallsOf \in [Stages -> Nat] /\ Booked \in [Stages -> Nat]
    BY <2>1, SummandsTyped DEF CoverInv
  <2>3. Total(UnsentCalls) \in Nat /\ Total(Credits) \in Nat
    BY <2>2, TotalIsNat, PostAssumption
  <2>4. Total(CallsOf) \in Nat /\ Total(Booked) \in Nat
    BY <2>2, TotalIsNat, PostAssumption
  <2>5. posted \in Nat /\ billed \in Int
    BY <2>1 DEF CoverInv, CallTypes
  <2> QED
    BY <2>1, <2>3, <2>4, <2>5 DEF CoverInv, Covered
<1> QED
  BY <1>1, CoverAlways, PTL

-----------------------------------------------------------------------------
(* What LlmClient_proofs says of the gate and of the request budget holds  *)
(* of those that _post_json uses: the calls that it makes are operations   *)
(* of theirs, with arguments that they admit.                              *)

Proved == INSTANCE LlmClient_proofs WITH phase <- Phases

\* The two instances are of one module: what they say is the same.
LEMMA SameSnapshots ==
  /\ Budget!Reserved = Proved!Reserved
  /\ Budget!Snapshot = Proved!Snapshot
  /\ Budget!Snapshot' = Proved!Snapshot'
<1>1. \A r, S : Budget!SumOfCeilings(r, S) = Proved!SumOfCeilings(r, S)
  <2>1. \A S : Budget!Cardinality(S) = Proved!Cardinality(S)
    BY Zenon DEF Budget!Cardinality, Proved!Cardinality
  <2>2. \A r, S : Budget!TokenUnits(r, S) = Proved!TokenUnits(r, S)
    BY Zenon DEF Budget!TokenUnits, Proved!TokenUnits
  <2> QED
    BY <2>1, <2>2, Zenon DEF Budget!SumOfCeilings, Proved!SumOfCeilings
<1>2. /\ Budget!Holding = Proved!Holding
      /\ Budget!Holding' = Proved!Holding'
  BY Zenon DEF Budget!Holding, Proved!Holding
<1>3. /\ Budget!Reserved = Proved!Reserved
      /\ Budget!Reserved' = Proved!Reserved'
  BY <1>1, <1>2, Zenon DEF Budget!Reserved, Proved!Reserved
<1> QED
  BY <1>3, Zenon DEF Budget!Snapshot, Proved!Snapshot

LEMMA SameOperations ==
  /\ \A t \in Threads, p \in Payloads :
       /\ Budget!Reserve(t, p) <=> Proved!Reserve(t, p)
       /\ Budget!ReserveRolledBack(t, p) <=> Proved!ReserveRolledBack(t, p)
       /\ Budget!ReserveStranded(t, p) <=> Proved!ReserveStranded(t, p)
       /\ Budget!ReserveRefused(t, p) <=> Proved!ReserveRefused(t, p)
  /\ \A t \in Threads : Budget!Send(t) <=> Proved!Send(t)
  /\ \A t \in Threads, persisted \in BOOLEAN :
       /\ \A usage \in Reports \cup {Untrusted} :
            Budget!Commit(t, usage, persisted) <=> Proved!Commit(t, usage, persisted)
       /\ Budget!Fail(t, persisted) <=> Proved!Fail(t, persisted)
  /\ Budget!Handover <=> Proved!Handover
  /\ Budget!BudgetCrash <=> Proved!BudgetCrash
  /\ Budget!Restore <=> Proved!Restore
<1> USE DEF Budget!memory, Proved!memory, Budget!history, Proved!history
<1>1. ASSUME NEW t \in Threads, NEW p \in Payloads
      PROVE  /\ Budget!CallsLeft <=> Proved!CallsLeft
             /\ Budget!Fits(p) <=> Proved!Fits(p)
             /\ Budget!Book(p) <=> Proved!Book(p)
             /\ Budget!Pop(t) <=> Proved!Pop(t)
             /\ \A usage : Budget!Charge(t, usage) = Proved!Charge(t, usage)
             /\ \A persisted : Budget!Persist(persisted) <=> Proved!Persist(persisted)
  <2>1. /\ Budget!CallsLeft <=> Proved!CallsLeft
        /\ Budget!Fits(p) <=> Proved!Fits(p)
    BY SameSnapshots, Zenon DEF Budget!CallsLeft, Proved!CallsLeft,
                                Budget!Fits, Proved!Fits
  <2>2. Budget!Book(p) <=> Proved!Book(p)
    BY <2>1, Zenon DEF Budget!Book, Proved!Book
  <2>3. Budget!Pop(t) <=> Proved!Pop(t)
    BY Zenon DEF Budget!Pop, Proved!Pop
  <2>4. \A usage : Budget!Charge(t, usage) = Proved!Charge(t, usage)
    BY Zenon DEF Budget!Charge, Proved!Charge
  <2>5. \A persisted : Budget!Persist(persisted) <=> Proved!Persist(persisted)
    BY SameSnapshots, Zenon DEF Budget!Persist, Proved!Persist
  <2> QED
    BY <2>1, <2>2, <2>3, <2>4, <2>5, Zenon
<1>2. ASSUME NEW t \in Threads, NEW p \in Payloads
      PROVE  /\ Budget!Reserve(t, p) <=> Proved!Reserve(t, p)
             /\ Budget!ReserveStranded(t, p) <=> Proved!ReserveStranded(t, p)
  BY <1>1, SameSnapshots, Zenon
  DEF Budget!Reserve, Proved!Reserve, Budget!ReserveStranded,
      Proved!ReserveStranded
<1>3. ASSUME NEW t \in Threads, NEW p \in Payloads
      PROVE  /\ Budget!ReserveRolledBack(t, p) <=> Proved!ReserveRolledBack(t, p)
             /\ Budget!ReserveRefused(t, p) <=> Proved!ReserveRefused(t, p)
  BY <1>1, Zenon
  DEF Budget!ReserveRolledBack, Proved!ReserveRolledBack,
      Budget!ReserveRefused, Proved!ReserveRefused,
      Budget!budgetVars, Proved!budgetVars
<1>4. ASSUME NEW t \in Threads PROVE Budget!Send(t) <=> Proved!Send(t)
  BY Zenon DEF Budget!Send, Proved!Send
<1>5. ASSUME NEW t \in Threads, NEW persisted \in BOOLEAN
      PROVE  /\ \A usage \in Reports \cup {Untrusted} :
                  Budget!Commit(t, usage, persisted)
                    <=> Proved!Commit(t, usage, persisted)
             /\ Budget!Fail(t, persisted) <=> Proved!Fail(t, persisted)
  <2>1. /\ Budget!Pop(t) <=> Proved!Pop(t)
        /\ \A usage : Budget!Charge(t, usage) = Proved!Charge(t, usage)
        /\ Budget!Persist(persisted) <=> Proved!Persist(persisted)
    BY <1>1, PostAssumption, Zenon
  <2> QED
    BY <2>1, Zenon DEF Budget!Commit, Proved!Commit, Budget!Fail, Proved!Fail
<1>6. /\ Budget!Handover <=> Proved!Handover
      /\ Budget!BudgetCrash <=> Proved!BudgetCrash
  BY SameSnapshots, Zenon DEF Budget!Handover, Proved!Handover,
                              Budget!BudgetCrash, Proved!BudgetCrash
<1>7. Budget!Restore <=> Proved!Restore
  BY Zenon DEF Budget!Restore, Proved!Restore, Budget!NoUnsettled,
               Proved!NoUnsettled, Budget!RestoredSnapshot,
               Proved!RestoredSnapshot
<1> QED
  BY <1>2, <1>3, <1>4, <1>5, <1>6, <1>7, Zenon

LEMMA SameBudget ==
  /\ Budget!BudgetInit <=> Proved!BudgetInit
  /\ [Budget!BudgetNext]_(Budget!budgetVars)
       <=> [Proved!BudgetNext]_(Proved!budgetVars)
  /\ Budget!AuthorisationHolds <=> Proved!AuthorisationHolds
  /\ Budget!DurableCoversTheWire <=> Proved!DurableCoversTheWire
<1>1. Budget!BudgetInit <=> Proved!BudgetInit
  BY SameSnapshots, Zenon DEF Budget!BudgetInit, Proved!BudgetInit
<1>2. Budget!BudgetNext <=> Proved!BudgetNext
  BY SameOperations, Zenon DEF Budget!BudgetNext, Proved!BudgetNext
<1>3. Budget!budgetVars = Proved!budgetVars
      /\ Budget!budgetVars' = Proved!budgetVars'
  BY Zenon DEF Budget!budgetVars, Proved!budgetVars, Budget!memory,
               Proved!memory, Budget!history, Proved!history
<1>4. /\ Budget!AuthorisationHolds <=> Proved!AuthorisationHolds
      /\ Budget!DurableCoversTheWire <=> Proved!DurableCoversTheWire
  BY Zenon DEF Budget!AuthorisationHolds, Proved!AuthorisationHolds,
               Budget!DurableCoversTheWire, Proved!DurableCoversTheWire
<1> QED
  BY <1>1, <1>2, <1>3, <1>4, Zenon

\* Each call of _post_json to its budget is an operation of RequestBudget.
LEMMA StepAtBudget ==
  ASSUME CallTypes, NEW t \in Threads, Underway(t),
         Step(t) \/ \E p \in Payloads : Call(t, p)
  PROVE  Budget!BudgetNext \/ UNCHANGED budget
<1>1. CASE ReserveCall(t) \/ ReserveRaises(t)
  <2>1. payload[t] \in Payloads
    BY DEF CallTypes
  <2> QED
    BY <1>1, <2>1 DEF ReserveCall, ReserveRaises, Budget!BudgetNext
<1>2. CASE Issue(t)
  BY <1>2 DEF Issue, Budget!BudgetNext
<1>3. CASE CommitCall(t) \/ CommitRaises(t)
  <2>1. response[t] \in Reports \cup {Untrusted}
    BY <1>3 DEF CommitCall, CommitRaises, Underway
  <2>2. \E persisted \in BOOLEAN : Budget!Commit(t, response[t], persisted)
    BY <1>3 DEF CommitCall, CommitRaises
  <2> QED
    BY <2>1, <2>2 DEF Budget!BudgetNext
<1>4. CASE FailCall(t) \/ FailRaises(t)
  <2>1. UNCHANGED budget \/ \E persisted \in BOOLEAN : Budget!Fail(t, persisted)
    BY <1>4 DEF FailCall, FailRaises
  <2> QED
    BY <2>1 DEF Budget!BudgetNext
<1>5. CASE ~(ReserveCall(t) \/ ReserveRaises(t) \/ Issue(t) \/ CommitCall(t)
              \/ CommitRaises(t) \/ FailCall(t) \/ FailRaises(t))
  BY <1>5 DEF Step, Call, Hook, HookRefuses, Answer, SettleCall, Success, RateLimited,
              Transient, Rejected, Wake, ChargeCall, ReleaseSlot
<1> QED
  BY <1>1, <1>2, <1>3, <1>4, <1>5

\* _post_json uses the budget as RequestBudget says, whatever the ledger, the gate and the
\* transport do in between.
THEOREM BudgetIsUsedAsModelled == Spec => Budget!BudgetSpec
<1>1. Init => Budget!BudgetInit
  BY DEF Init
<1>2. CallInv /\ CoverInv /\ [Next]_vars => [Budget!BudgetNext]_Budget!budgetVars
  <2>1. SUFFICES ASSUME CallInv, CoverInv, [Next]_vars
                 PROVE  Budget!BudgetNext \/ UNCHANGED budget
    BY DEF budget, Budget!budgetVars, Budget!memory, Budget!history
  <2>2. CASE \E t \in Threads : Step(t) \/ \E p \in Payloads : Call(t, p)
    BY <2>1, <2>2, StepAtBudget DEF CoverInv
  <2>3. CASE Mount \/ Tick \/ UNCHANGED vars
    BY <2>3 DEF Mount, Tick, vars
  <2> QED
    BY <2>1, <2>2, <2>3 DEF Next
<1> QED
  BY <1>1, <1>2, CoverAlways, PTL DEF Spec, Budget!BudgetSpec

\* Their assumptions, as the instance has them.
LEMMA ProofsApply ==
  /\ Proved!IsFiniteSet(Threads)
  /\ /\ GateCeiling \in Nat \ {0}
     /\ RecoverySuccesses \in Nat \ {0}
     /\ None \notin Int
  /\ /\ MaxCalls \in Nat \ {0}
     /\ MaxTokens \in Nat \ {0}
     /\ TokenCeiling \in [Payloads -> Nat \ {0}]
     /\ Reports \subseteq Nat
     /\ Untrusted \notin Nat
     /\ NoCall \notin Payloads
  BY PostAssumption DEF Proved!IsFiniteSet, IsFiniteSet

\* So the authorisation holds of what _post_json sends: however its threads retry, are
\* refused or lose a checkpoint, no more calls leave than were confirmed, their cost stays
\* within the confirmed tokens while providers stay within their ceilings, and the disk
\* covers both.
THEOREM CallsStayAuthorised ==
  Spec => [](Budget!AuthorisationHolds /\ Budget!DurableCoversTheWire)
<1>2. Proved!BudgetSpec => []Proved!AuthorisationHolds
  BY ProofsApply, Proved!HardBudget, PTL
<1>3. Proved!BudgetSpec => []Proved!DurableCoversTheWire
  BY ProofsApply, Proved!WriteAhead, PTL
<1> QED
  BY <1>2, <1>3, BudgetIsUsedAsModelled, SameBudget, PTL
  DEF Budget!BudgetSpec, Proved!BudgetSpec

LEMMA SkippedStays == [Next]_vars /\ skipped => skipped'
  BY DEF Next, Step, Mount, Tick, Call, Hook, HookRefuses, ReserveCall, ReserveRaises, Issue,
         Answer, CommitCall, CommitRaises, SettleCall, Success, RateLimited, Transient,
         Rejected, Wake, FailCall, FailRaises, ChargeCall, ReleaseSlot, history, vars

LEMMA SameGate ==
  /\ GateView!ClientInit <=> Proved!ClientInit
  /\ GateView!ClientNext <=> Proved!ClientNext
  /\ GateView!ActiveCountsHolders <=> Proved!ActiveCountsHolders
<1>1. GateView!ClientInit <=> Proved!ClientInit
  BY Zenon DEF GateView!ClientInit, Proved!ClientInit, GateView!GateInit, Proved!GateInit, Phases
<1>2. GateView!ClientNext <=> Proved!ClientNext
  BY ZenonT(60) DEF GateView!ClientNext, Proved!ClientNext, Phases,
    GateView!Arrive, Proved!Arrive, GateView!Enter, Proved!Enter,
    GateView!Answered, Proved!Answered, GateView!Succeeded, Proved!Succeeded,
    GateView!RateLimited, Proved!RateLimited, GateView!WakeUp, Proved!WakeUp,
    GateView!Leave, Proved!Leave, GateView!Expire, Proved!Expire,
    GateView!Acquire, Proved!Acquire, GateView!HasRoom, Proved!HasRoom,
    GateView!Release, Proved!Release, GateView!OnSuccess, Proved!OnSuccess,
    GateView!OnRateLimited, Proved!OnRateLimited, GateView!Halved, Proved!Halved,
    GateView!PauseExpires, Proved!PauseExpires, GateView!gateVars, Proved!gateVars
<1>3. GateView!ActiveCountsHolders <=> Proved!ActiveCountsHolders
  <2>1. \A S : GateView!Cardinality(S) = Proved!Cardinality(S)
    BY Zenon DEF GateView!Cardinality, Proved!Cardinality
  <2>2. GateView!SlotHolders = Proved!SlotHolders
    BY Zenon DEF GateView!SlotHolders, Proved!SlotHolders, Phases
  <2> QED
    BY <2>1, <2>2, Zenon DEF GateView!ActiveCountsHolders, Proved!ActiveCountsHolders
<1> QED
  BY <1>1, <1>2, <1>3

\* And the gate counts its slots until a finally clause has been cut short: _active is the
\* number of threads of _post_json between acquire() and release().
THEOREM SlotsAreCounted == Spec => [](~skipped => GateView!ActiveCountsHolders)
<1>1. Init => Proved!ClientInv
  <2>1. Init => Proved!ClientInit
    BY GateStart, SameGate
  <2> QED
    BY <2>1, ProofsApply, Proved!ClientStart
<1>2. /\ CallInv /\ [Next]_vars
      /\ skipped \/ Proved!ClientInv
      => (skipped \/ Proved!ClientInv)'
  <2>1. SUFFICES ASSUME CallInv, [Next]_vars, skipped \/ Proved!ClientInv, ~skipped'
                 PROVE  Proved!ClientInv'
    OBVIOUS
  <2>2. ~skipped
    BY <2>1, SkippedStays
  <2>3. GateView!ClientNext \/ UNCHANGED GateView!clientVars
    BY <2>1, GateStep
  <2>4. Proved!ClientNext \/ UNCHANGED Proved!clientVars
    BY <2>3, SameGate DEF GateView!clientVars, Proved!clientVars, Phases
  <2> QED
    BY <2>1, <2>2, <2>4, ProofsApply, Proved!ClientStep
<1>3. Proved!ClientInv => GateView!ActiveCountsHolders
  BY SameGate DEF Proved!ClientInv
<1> QED
  BY <1>1, <1>2, <1>3, CallAlways, PTL DEF Spec
=============================================================================
