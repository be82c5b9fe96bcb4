--------------------------- MODULE LlmClient_proofs ---------------------------
(***************************************************************************)
(* Theorems about the two things of src/llm_client.py that the threads of  *)
(* a process share: the 429 gate with its clients, for every number of     *)
(* threads, every ceiling and every recovery length; and LLMRequestBudget, *)
(* for every set of payloads and every authorisation.                      *)
(***************************************************************************)
EXTENDS RateGateClients, RequestBudget, FiniteSetTheorems, TLAPS

-----------------------------------------------------------------------------
(* The gate.                                                               *)

\* The halved limit is a legal limit: at least one request stays allowed,
\* whatever the gate let through before (the max(1, ...) of on_rate_limited).
LEMMA HalvedIsLegal ==
  ASSUME NEW base \in Nat
  PROVE  Halved(base) \in 1..GateCeiling
  BY GateAssumption DEF Halved

\* Every operation of the monitor keeps its state well typed.
LEMMA GateStepTypeOK ==
  ASSUME GateTypeOK,
         \/ Acquire \/ Release \/ OnSuccess \/ PauseExpires
         \/ \E delayed \in BOOLEAN : OnRateLimited(delayed)
         \/ UNCHANGED gateVars
  PROVE  GateTypeOK'
<1>1. CASE Acquire
  BY <1>1 DEF Acquire, GateTypeOK
<1>2. CASE Release
  BY <1>2 DEF Release, GateTypeOK
<1>3. CASE OnSuccess
  BY <1>3, GateAssumption DEF OnSuccess, GateTypeOK
<1>4. CASE PauseExpires
  BY <1>4 DEF PauseExpires, GateTypeOK
<1>5. CASE \E delayed \in BOOLEAN : OnRateLimited(delayed)
  <2>1. PICK delayed \in BOOLEAN : OnRateLimited(delayed)
    BY <1>5
  <2>2. (IF limit = None THEN active ELSE limit) \in Nat
    BY GateAssumption DEF GateTypeOK
  <2>3. limit' \in 1..GateCeiling
    BY <2>1, <2>2, HalvedIsLegal DEF OnRateLimited
  <2> QED
    BY <2>1, <2>3, GateAssumption DEF OnRateLimited, GateTypeOK
<1>6. CASE UNCHANGED gateVars
  BY <1>6 DEF gateVars, GateTypeOK
<1> QED
  BY <1>1, <1>2, <1>3, <1>4, <1>5, <1>6

-----------------------------------------------------------------------------
(* The slot count is inductive together with the types.                    *)

ClientInv == ClientTypeOK /\ ActiveCountsHolders

\* A thread that takes a slot raises the number of holders by one, a thread
\* that gives its slot back lowers it by one, and no other step changes it.
LEMMA SlotHoldersFinite ==
  IsFiniteSet(SlotHolders) /\ Cardinality(SlotHolders) \in Nat
  BY WorkersAssumption, FS_Subset, FS_CardinalityType DEF SlotHolders

\* The program counters change at one thread only.
LEMMA HoldersAfterMove ==
  ASSUME phase \in [Threads -> Phases], NEW t \in Threads, NEW p \in Phases,
         phase' = [phase EXCEPT ![t] = p]
  PROVE  SlotHolders' = IF p \in {"inflight", "backoff", "leaving"}
                        THEN SlotHolders \cup {t} ELSE SlotHolders \ {t}
  BY DEF SlotHolders

\* A move that neither takes nor gives a slot keeps the count.
LEMMA CountKept ==
  ASSUME ClientInv, NEW t \in Threads, NEW p \in Phases,
         phase' = [phase EXCEPT ![t] = p],
         t \in SlotHolders <=> p \in {"inflight", "backoff", "leaving"},
         active' = active
  PROVE  ActiveCountsHolders'
<1>1. SlotHolders' = SlotHolders
  BY ZenonT(60), HoldersAfterMove DEF ClientInv, ClientTypeOK
<1> QED
  BY <1>1 DEF ClientInv, ActiveCountsHolders

\* Each step of the clients preserves the invariant.
LEMMA ClientStep ==
  ASSUME ClientInv, [ClientNext]_clientVars
  PROVE  ClientInv'
<1> USE DEF ClientInv
<1>1. ASSUME NEW t \in Threads, Arrive(t) PROVE ClientInv'
  <2>1. GateTypeOK'
    BY <1>1, GateStepTypeOK DEF Arrive, ClientTypeOK
  <2>2. ActiveCountsHolders'
    BY <1>1, CountKept DEF Arrive, gateVars, SlotHolders, Phases
  <2> QED BY <1>1, <2>1, <2>2 DEF Arrive, ClientTypeOK, Phases
<1>2. ASSUME NEW t \in Threads, Enter(t) PROVE ClientInv'
  <2>1. GateTypeOK'
    BY <1>2, GateStepTypeOK DEF Enter, ClientTypeOK
  <2>2. SlotHolders' = SlotHolders \cup {t} /\ t \notin SlotHolders
    BY <1>2, HoldersAfterMove DEF Enter, ClientTypeOK, Phases, SlotHolders
  <2>3. Cardinality(SlotHolders') = Cardinality(SlotHolders) + 1
    BY <2>2, SlotHoldersFinite, FS_AddElement
  <2> QED BY <1>2, <2>1, <2>3
          DEF Enter, Acquire, ClientTypeOK, ActiveCountsHolders, Phases
<1>3. ASSUME NEW t \in Threads, Answered(t) PROVE ClientInv'
  <2>1. GateTypeOK'
    BY <1>3, GateStepTypeOK DEF Answered, ClientTypeOK
  <2>2. ActiveCountsHolders'
    BY <1>3, CountKept DEF Answered, gateVars, SlotHolders, Phases
  <2> QED BY <1>3, <2>1, <2>2 DEF Answered, ClientTypeOK, Phases
<1>4. ASSUME NEW t \in Threads, Succeeded(t) PROVE ClientInv'
  <2>1. GateTypeOK'
    BY <1>4, GateStepTypeOK DEF Succeeded, ClientTypeOK
  <2>2. ActiveCountsHolders'
    BY <1>4, CountKept DEF Succeeded, OnSuccess, SlotHolders, Phases
  <2> QED BY <1>4, <2>1, <2>2 DEF Succeeded, ClientTypeOK, Phases
<1>5. ASSUME NEW t \in Threads, NEW delayed \in BOOLEAN, RateLimited(t, delayed)
      PROVE  ClientInv'
  <2>1. GateTypeOK'
    BY <1>5, GateStepTypeOK DEF RateLimited, ClientTypeOK
  <2>2. ActiveCountsHolders'
    BY <1>5, CountKept DEF RateLimited, OnRateLimited, SlotHolders, Phases
  <2> QED BY <1>5, <2>1, <2>2 DEF RateLimited, ClientTypeOK, Phases
<1>6. ASSUME NEW t \in Threads, WakeUp(t) PROVE ClientInv'
  <2>1. GateTypeOK'
    BY <1>6, GateStepTypeOK DEF WakeUp, ClientTypeOK
  <2>2. ActiveCountsHolders'
    BY <1>6, CountKept DEF WakeUp, gateVars, SlotHolders, Phases
  <2> QED BY <1>6, <2>1, <2>2 DEF WakeUp, ClientTypeOK, Phases
<1>7. ASSUME NEW t \in Threads, Leave(t) PROVE ClientInv'
  <2>1. GateTypeOK'
    BY <1>7, GateStepTypeOK DEF Leave, ClientTypeOK
  <2>2. SlotHolders' = SlotHolders \ {t} /\ t \in SlotHolders
    BY <1>7, HoldersAfterMove DEF Leave, ClientTypeOK, Phases, SlotHolders
  <2>3. Cardinality(SlotHolders') = Cardinality(SlotHolders) - 1
    BY <2>2, SlotHoldersFinite, FS_RemoveElement
  <2>4. Cardinality(SlotHolders) # 0
    BY <2>2, SlotHoldersFinite, FS_EmptySet
  <2> QED BY <1>7, <2>1, <2>3, <2>4
          DEF Leave, Release, ClientTypeOK, ActiveCountsHolders, Phases
<1>8. ASSUME Expire PROVE ClientInv'
  <2>1. GateTypeOK'
    BY <1>8, GateStepTypeOK DEF Expire, ClientTypeOK
  <2> QED BY <1>8, <2>1
          DEF Expire, PauseExpires, ClientTypeOK, ActiveCountsHolders, SlotHolders
<1>9. ASSUME UNCHANGED clientVars PROVE ClientInv'
  BY <1>9 DEF clientVars, gateVars, ClientTypeOK, GateTypeOK,
              ActiveCountsHolders, SlotHolders
<1> QED
  BY <1>1, <1>2, <1>3, <1>4, <1>5, <1>6, <1>7, <1>8, <1>9 DEF ClientNext

LEMMA ClientStart == ClientInit => ClientInv
<1> SUFFICES ASSUME ClientInit PROVE ClientInv
  OBVIOUS
<1>1. ClientTypeOK
  <2>1. GateTypeOK
    <3>1. /\ limit \in (1..GateCeiling) \cup {None}
          /\ active \in Nat
          /\ successes \in 0..(RecoverySuccesses - 1)
      BY GateAssumption DEF ClientInit, GateInit
    <3>2. paused \in BOOLEAN
      BY Zenon DEF ClientInit, GateInit
    <3> QED
      BY <3>1, <3>2 DEF GateTypeOK
  <2>2. phase \in [Threads -> Phases]
    BY DEF ClientInit, Phases
  <2> QED
    BY <2>1, <2>2 DEF ClientTypeOK
<1>2. SlotHolders = {}
  BY DEF ClientInit, SlotHolders
<1> QED
  BY <1>1, <1>2, FS_EmptySet
  DEF ClientInv, ActiveCountsHolders, ClientInit, GateInit

LEMMA ClientInvariance == ClientSafety => []ClientInv
  BY ClientStart, ClientStep, PTL DEF ClientSafety

\* Every reachable state of the gate is well typed: above all, the limit is
\* never zero, so the gate of _AdaptiveRateGate cannot shut by arithmetic.
THEOREM GateTypeCorrect == ClientSafety => []ClientTypeOK
  BY ClientInvariance, PTL DEF ClientInv

\* _active is exactly the number of threads between acquire() and release().
THEOREM ActiveIsExact == ClientSafety => []ActiveCountsHolders
  BY ClientInvariance, PTL DEF ClientInv

\* No acquire() takes the gate above its limit: whatever is in flight beyond
\* the limit was admitted before the 429 that lowered it.
THEOREM ExcessDrains == ClientSafety => ExcessOnlyDrains
<1>1. ClientInv /\ [ClientNext]_clientVars
        => [limit' # None /\ active' > limit' => active' <= active]_clientVars
  <2> SUFFICES ASSUME ClientInv, [ClientNext]_clientVars,
                      limit' # None, active' > limit'
               PROVE  active' <= active
    OBVIOUS
  <2>1. active \in Nat /\ (limit # None => limit \in Nat)
    BY DEF ClientInv, ClientTypeOK, GateTypeOK
  <2>2. ASSUME NEW t \in Threads, Enter(t) PROVE FALSE
    <3>1. limit # None /\ active < limit /\ active' = active + 1 /\ limit' = limit
      BY <2>2 DEF Enter, Acquire, HasRoom
    <3> QED BY <2>1, <3>1
  <2>3. \/ active' = active
        \/ \E t \in Threads : Enter(t) \/ Leave(t)
    BY DEF ClientNext, Arrive, Answered, Succeeded, RateLimited, WakeUp, Expire,
           OnSuccess, OnRateLimited, PauseExpires, gateVars, clientVars
  <2>4. ASSUME NEW t \in Threads, Leave(t) PROVE active' <= active
    BY <2>1, <2>4 DEF Leave, Release
  <2> QED
    BY <2>1, <2>2, <2>3, <2>4
<1> QED
  BY <1>1, ClientInvariance, PTL DEF ClientSafety, ExcessOnlyDrains

-----------------------------------------------------------------------------
(* The request budget.                                                     *)

(* How the sum of the reserved ceilings reacts to one booking.             *)

\* The sum is a natural number.
LEMMA SumIsNat ==
  ASSUME NEW r, NEW S \in SUBSET Threads
  PROVE  IsFiniteSet(TokenUnits(r, S)) /\ SumOfCeilings(r, S) \in Nat
<1>1. IsFiniteSet(S) /\ IsFiniteSet(1..MaxTokens)
  <2>1. IsFiniteSet(Threads)
    BY WorkersAssumption
  <2>2. IsFiniteSet(S)
    BY <2>1, FS_Subset
  <2>3. 1 \in Int /\ MaxTokens \in Int
    BY BudgetAssumption
  <2>4. IsFiniteSet(1..MaxTokens)
    BY <2>3, FS_Interval
  <2> QED
    BY <2>2, <2>4
<1>2. IsFiniteSet(S \X (1..MaxTokens))
  BY <1>1, FS_Product
<1>3. IsFiniteSet(TokenUnits(r, S))
  BY <1>2, FS_Subset DEF TokenUnits
<1> QED
  BY <1>3, FS_CardinalityType DEF SumOfCeilings

\* Adding a thread adds exactly the ceiling of its payload.
LEMMA SumAdds ==
  ASSUME NEW r, NEW S \in SUBSET Threads, NEW t \in Threads, t \notin S,
         r[t] \in Payloads, TokenCeiling[r[t]] <= MaxTokens
  PROVE  SumOfCeilings(r, S \cup {t}) = SumOfCeilings(r, S) + TokenCeiling[r[t]]
<1> DEFINE c == TokenCeiling[r[t]]
           block == {t} \X (1..c)
<1>1. c \in Nat \ {0} /\ c <= MaxTokens /\ MaxTokens \in Nat
  BY BudgetAssumption
<1>2. TokenUnits(r, S \cup {t}) = TokenUnits(r, S) \cup block
  <2>1. ASSUME NEW u \in TokenUnits(r, S \cup {t})
        PROVE  u \in TokenUnits(r, S) \cup block
    <3>1. PICK x \in S \cup {t}, i \in 1..MaxTokens :
             u = <<x, i>> /\ i <= TokenCeiling[r[x]]
      BY <2>1 DEF TokenUnits
    <3>2. CASE x = t
      BY <1>1, <3>1, <3>2
    <3>3. CASE x # t
      BY <3>1, <3>3 DEF TokenUnits
    <3> QED
      BY <3>2, <3>3
  <2>2. TokenUnits(r, S) \subseteq TokenUnits(r, S \cup {t})
    BY DEF TokenUnits
  <2>3. ASSUME NEW u \in block PROVE u \in TokenUnits(r, S \cup {t})
    <3>1. PICK i \in 1..c : u = <<t, i>>
      BY <2>3
    <3> QED
      BY <1>1, <3>1 DEF TokenUnits
  <2> QED
    BY <2>1, <2>2, <2>3
<1>3. TokenUnits(r, S) \cap block = {}
  BY DEF TokenUnits
<1>4. IsFiniteSet(block) /\ Cardinality(block) = c
  <2>1. IsFiniteSet({t}) /\ Cardinality({t}) = 1
    BY FS_Singleton
  <2>2. IsFiniteSet(1..c) /\ Cardinality(1..c) = c
    <3> HIDE DEF c
    <3>1. 1 \in Int /\ c \in Int /\ ~(1 > c) /\ c - 1 + 1 = c
      BY <1>1
    <3> QED
      BY <3>1, FS_Interval
  <2>3. IsFiniteSet(block) /\ Cardinality(block) = Cardinality({t}) * Cardinality(1..c)
    BY <2>1, <2>2, FS_Product
  <2> QED
    BY <1>1, <2>1, <2>2, <2>3
<1> HIDE DEF block, c
<1>5. IsFiniteSet(TokenUnits(r, S)) /\ Cardinality(TokenUnits(r, S)) \in Nat
  BY SumIsNat DEF SumOfCeilings
<1>6. Cardinality(TokenUnits(r, S) \cup block) = Cardinality(TokenUnits(r, S)) + c
  <2>1. Cardinality(TokenUnits(r, S) \cap block) = 0
    BY <1>3, FS_EmptySet
  <2> QED
    BY <1>1, <1>4, <1>5, <2>1, FS_Union
<1> QED
  BY <1>2, <1>6 DEF SumOfCeilings, c

\* The sum depends on the bookings of the summed threads only.
LEMMA SumFrame ==
  ASSUME NEW r, NEW q, NEW S \in SUBSET Threads, \A t \in S : r[t] = q[t]
  PROVE  SumOfCeilings(r, S) = SumOfCeilings(q, S)
<1>1. TokenUnits(r, S) = TokenUnits(q, S)
  <2>1. \A u \in S \X (1..MaxTokens) : r[u[1]] = q[u[1]]
    OBVIOUS
  <2> QED
    BY <2>1 DEF TokenUnits
<1> QED
  BY <1>1 DEF SumOfCeilings

\* Over no threads the sum is zero.
LEMMA SumOfNone ==
  ASSUME NEW r PROVE SumOfCeilings(r, {}) = 0
<1>1. TokenUnits(r, {}) = {}
  BY DEF TokenUnits
<1> QED
  BY <1>1, FS_EmptySet DEF SumOfCeilings

-----------------------------------------------------------------------------
(* The inductive invariant.                                                *)

\* Threads that hold a reservation whose request has not left yet.
Unsent == Holding \ sent

\* The counters in memory agree with the checkpoint, and every reservation
\* that may still be sent is already counted there.
CallsBooked ==
  /\ \A t \in Holding : TokenCeiling[reservation[t]] <= MaxTokens
  /\ ~alive => Holding = {}
  /\ alive => attempted = durable.attempted
  /\ durable.attempted <= MaxCalls
  /\ issued + Cardinality(Unsent) <= durable.attempted

\* Neither the memory nor the checkpoint ever knows of less spending than can
\* have happened or can still happen, and both stay within the authorisation.
SpendingBooked ==
  /\ durable.tokens + durable.reserved <= MaxTokens
  /\ exposure + SumOfCeilings(reservation, Unsent)
       <= durable.tokens + durable.reserved
  /\ alive => exposure + SumOfCeilings(reservation, Unsent)
                <= tokens + SumOfCeilings(reservation, Holding)
  /\ alive => tokens + stranded + SumOfCeilings(reservation, Holding) <= MaxTokens

\* The memory is never behind its own checkpoint.
MemoryAhead ==
  alive => /\ failed >= durable.failed
           /\ tokens >= durable.tokens
           /\ usageComplete => durable.usageComplete
           /\ durable.denied => denied

BudgetInv ==
  /\ BudgetTypeOK
  /\ CallsBooked
  /\ ~overreported => SpendingBooked
  /\ MemoryAhead

\* What booking a reservation does to the sets and sums of the invariant.
LEMMA BookEffect ==
  ASSUME BudgetInv, NEW t \in Threads, NEW p \in Payloads,
         reservation[t] = NoCall, TokenCeiling[p] <= MaxTokens,
         reservation' = [reservation EXCEPT ![t] = p], sent' = sent
  PROVE  /\ Holding' = Holding \cup {t} /\ t \notin Holding
         /\ Unsent' = Unsent \cup {t} /\ t \notin Unsent
         /\ SumOfCeilings(reservation', Holding')
              = SumOfCeilings(reservation, Holding) + TokenCeiling[p]
         /\ SumOfCeilings(reservation', Unsent')
              = SumOfCeilings(reservation, Unsent) + TokenCeiling[p]
         /\ Cardinality(Unsent') = Cardinality(Unsent) + 1
<1>1. /\ reservation \in [Threads -> Payloads \cup {NoCall}]
      /\ sent \subseteq Holding
  BY DEF BudgetInv, BudgetTypeOK
<1>2. Holding' = Holding \cup {t} /\ t \notin Holding
  BY <1>1, BudgetAssumption DEF Holding
<1>3. Unsent' = Unsent \cup {t} /\ t \notin Unsent
  BY <1>1, <1>2 DEF Unsent
<1>4. Holding \subseteq Threads /\ Unsent \subseteq Threads
  BY DEF Holding, Unsent
<1>5. reservation'[t] = p /\ \A x \in Threads \ {t} : reservation'[x] = reservation[x]
  BY <1>1
<1>6. /\ SumOfCeilings(reservation', Holding \cup {t})
            = SumOfCeilings(reservation', Holding) + TokenCeiling[p]
      /\ SumOfCeilings(reservation', Unsent \cup {t})
            = SumOfCeilings(reservation', Unsent) + TokenCeiling[p]
  <2>1. \A S \in SUBSET Threads : t \notin S =>
          SumOfCeilings(reservation', S \cup {t})
            = SumOfCeilings(reservation', S) + TokenCeiling[p]
    <3>1. SUFFICES ASSUME NEW S \in SUBSET Threads, t \notin S
                   PROVE  SumOfCeilings(reservation', S \cup {t})
                            = SumOfCeilings(reservation', S) + TokenCeiling[p]
      OBVIOUS
    <3>2. reservation'[t] \in Payloads /\ TokenCeiling[reservation'[t]] <= MaxTokens
      BY <1>5
    <3>3. SumOfCeilings(reservation', S \cup {t})
            = SumOfCeilings(reservation', S) + TokenCeiling[reservation'[t]]
      BY ONLY <3>1, <3>2, SumAdds
    <3> QED
      BY <1>5, <3>3
  <2> QED
    BY <1>2, <1>3, <1>4, <2>1
<1>7. /\ SumOfCeilings(reservation', Holding) = SumOfCeilings(reservation, Holding)
      /\ SumOfCeilings(reservation', Unsent) = SumOfCeilings(reservation, Unsent)
  <2>1. \A S \in SUBSET Threads : t \notin S =>
          SumOfCeilings(reservation', S) = SumOfCeilings(reservation, S)
    <3>1. SUFFICES ASSUME NEW S \in SUBSET Threads, t \notin S
                   PROVE  SumOfCeilings(reservation', S) = SumOfCeilings(reservation, S)
      OBVIOUS
    <3>2. \A x \in S : reservation'[x] = reservation[x]
      BY <1>5, <3>1
    <3> QED
      BY <3>2, SumFrame
  <2> QED
    BY <1>2, <1>3, <1>4, <2>1
<1>8. IsFiniteSet(Unsent)
  BY <1>4, BudgetAssumption, WorkersAssumption, FS_Subset
<1>9. Cardinality(Unsent \cup {t}) = Cardinality(Unsent) + 1
  BY <1>3, <1>8, FS_AddElement
<1> QED
  BY <1>2, <1>3, <1>6, <1>7, <1>9

\* What settling a reservation does to them.
LEMMA PopEffect ==
  ASSUME BudgetInv, NEW t \in Threads, Pop(t)
  PROVE  /\ reservation[t] \in Payloads
         /\ TokenCeiling[reservation[t]] \in Nat
         /\ Holding' = Holding \ {t} /\ t \in Holding
         /\ Unsent' = Unsent \ {t}
         /\ SumOfCeilings(reservation, Holding)
              = SumOfCeilings(reservation', Holding') + TokenCeiling[reservation[t]]
         /\ SumOfCeilings(reservation, Unsent)
              = SumOfCeilings(reservation', Unsent')
                + IF t \in sent THEN 0 ELSE TokenCeiling[reservation[t]]
         /\ Cardinality(Unsent') <= Cardinality(Unsent)
<1>1. /\ reservation \in [Threads -> Payloads \cup {NoCall}]
      /\ sent \subseteq Holding
  BY DEF BudgetInv, BudgetTypeOK
<1>2. reservation[t] \in Payloads /\ TokenCeiling[reservation[t]] \in Nat
  BY <1>1, BudgetAssumption DEF Pop
<1>3. /\ reservation' = [reservation EXCEPT ![t] = NoCall]
      /\ sent' = sent \ {t} /\ t \in Holding
  BY DEF Pop, Holding
<1>4. Holding' = Holding \ {t}
  BY <1>1, <1>3 DEF Holding
<1>5. Unsent' = Unsent \ {t}
  BY <1>3, <1>4 DEF Unsent
<1>6. TokenCeiling[reservation[t]] <= MaxTokens
  BY <1>3 DEF BudgetInv, CallsBooked
<1>7. /\ Holding \subseteq Threads /\ Unsent \subseteq Threads
      /\ Holding \ {t} \in SUBSET Threads /\ Unsent \ {t} \in SUBSET Threads
  BY DEF Holding, Unsent
<1>8. \A x \in Threads \ {t} : reservation'[x] = reservation[x]
  BY <1>1, <1>3
<1>9. /\ SumOfCeilings(reservation', Holding \ {t}) = SumOfCeilings(reservation, Holding \ {t})
      /\ SumOfCeilings(reservation', Unsent \ {t}) = SumOfCeilings(reservation, Unsent \ {t})
  BY <1>7, <1>8, SumFrame
<1>10. SumOfCeilings(reservation, Holding)
         = SumOfCeilings(reservation, Holding \ {t}) + TokenCeiling[reservation[t]]
  <2>1. Holding = (Holding \ {t}) \cup {t} /\ t \notin Holding \ {t}
    BY <1>3
  <2> QED
    BY <1>2, <1>6, <1>7, <2>1, SumAdds
<1>11. SumOfCeilings(reservation, Unsent)
         = SumOfCeilings(reservation, Unsent \ {t})
           + IF t \in sent THEN 0 ELSE TokenCeiling[reservation[t]]
  <2>1. CASE t \in sent
    <3>1. Unsent \ {t} = Unsent
      BY <2>1 DEF Unsent
    <3>2. SumOfCeilings(reservation, Unsent) \in Nat
      BY <1>7, SumIsNat
    <3> QED
      BY <2>1, <3>1, <3>2
  <2>2. CASE t \notin sent
    <3>1. Unsent = (Unsent \ {t}) \cup {t} /\ t \notin Unsent \ {t}
      BY <1>3, <2>2 DEF Unsent
    <3>2. SumOfCeilings(reservation, (Unsent \ {t}) \cup {t})
            = SumOfCeilings(reservation, Unsent \ {t}) + TokenCeiling[reservation[t]]
      BY <1>2, <1>6, <1>7, <3>1, SumAdds
    <3> QED
      BY <2>2, <3>1, <3>2
  <2> QED
    BY <2>1, <2>2
<1>12. Cardinality(Unsent \ {t}) <= Cardinality(Unsent)
  <2>1. IsFiniteSet(Unsent)
    BY <1>7, BudgetAssumption, WorkersAssumption, FS_Subset
  <2> QED
    BY <2>1, FS_Subset
<1> QED
  BY <1>2, <1>3, <1>4, <1>5, <1>9, <1>10, <1>11, <1>12

\* The sums and counts of the invariant are natural numbers.
LEMMA CountsAreNat ==
  ASSUME BudgetInv
  PROVE  /\ SumOfCeilings(reservation, Holding) \in Nat
         /\ SumOfCeilings(reservation, Unsent) \in Nat
         /\ Cardinality(Unsent) \in Nat
         /\ Reserved \in Nat
         /\ MaxCalls \in Nat /\ MaxTokens \in Nat
<1>1. Holding \in SUBSET Threads /\ Unsent \in SUBSET Threads
  BY DEF Holding, Unsent
<1>2. IsFiniteSet(Unsent)
  BY <1>1, BudgetAssumption, WorkersAssumption, FS_Subset
<1>3. Cardinality(Unsent) \in Nat
  BY <1>2, FS_CardinalityType
<1>4. SumOfCeilings(reservation, Holding) \in Nat
      /\ SumOfCeilings(reservation, Unsent) \in Nat
  BY <1>1, SumIsNat
<1>5. stranded \in Nat
  BY DEF BudgetInv, BudgetTypeOK
<1> QED
  BY <1>3, <1>4, <1>5, BudgetAssumption DEF Reserved

-----------------------------------------------------------------------------
(* Each action preserves the invariant.                                    *)

\* Granting and persisting a reservation.
LEMMA ReserveStep ==
  ASSUME BudgetInv, NEW t \in Threads, NEW p \in Payloads, Reserve(t, p)
  PROVE  BudgetInv'
<1>1. /\ TokenCeiling[p] \in Nat /\ tokens \in Nat /\ Reserved \in Nat
      /\ attempted \in Nat /\ failed \in Nat /\ stranded \in Nat /\ exposure \in Int
      /\ issued \in Nat
  BY BudgetAssumption, CountsAreNat DEF BudgetInv, BudgetTypeOK
<1>2. /\ alive /\ reservation[t] = NoCall /\ attempted < MaxCalls
      /\ tokens + Reserved + TokenCeiling[p] <= MaxTokens
      /\ attempted' = attempted + 1
      /\ reservation' = [reservation EXCEPT ![t] = p]
      /\ UNCHANGED <<alive, failed, tokens, stranded, usageComplete, denied,
                     reason, sent, issued, exposure, overreported>>
      /\ durable' = Snapshot'
  BY DEF Reserve, Book, CallsLeft, Fits, history
<1>3. TokenCeiling[p] <= MaxTokens
  BY <1>1, <1>2, CountsAreNat
<1>4. /\ Holding' = Holding \cup {t} /\ t \notin Holding
      /\ Unsent' = Unsent \cup {t} /\ t \notin Unsent
      /\ SumOfCeilings(reservation', Holding')
           = SumOfCeilings(reservation, Holding) + TokenCeiling[p]
      /\ SumOfCeilings(reservation', Unsent')
           = SumOfCeilings(reservation, Unsent) + TokenCeiling[p]
      /\ Cardinality(Unsent') = Cardinality(Unsent) + 1
  BY <1>2, <1>3, BookEffect
<1>5. Reserved' = Reserved + TokenCeiling[p]
  BY <1>1, <1>2, <1>4, CountsAreNat DEF Reserved
<1>6. durable' = [attempted |-> attempted + 1, failed |-> failed, tokens |-> tokens,
                  reserved |-> Reserved + TokenCeiling[p],
                  usageComplete |-> usageComplete, denied |-> denied, reason |-> reason]
  BY <1>2, <1>5 DEF Snapshot
<1>7. BudgetTypeOK'
  <2>1. durable' \in SnapshotType
    BY <1>1, <1>6 DEF SnapshotType, BudgetInv, BudgetTypeOK
  <2>2. reservation' \in [Threads -> Payloads \cup {NoCall}]
    BY <1>2 DEF BudgetInv, BudgetTypeOK
  <2> QED
    BY <1>1, <1>2, <1>4, <2>1, <2>2 DEF BudgetInv, BudgetTypeOK
<1>8. CallsBooked'
  <2>1. \A x \in Holding' : TokenCeiling[reservation'[x]] <= MaxTokens
    BY <1>2, <1>3, <1>4 DEF BudgetInv, BudgetTypeOK, CallsBooked
  <2>2. durable'.attempted = attempted + 1 /\ attempted = durable.attempted
    BY <1>2, <1>6 DEF BudgetInv, CallsBooked
  <2>3. issued' + Cardinality(Unsent') <= durable'.attempted
    BY <1>1, <1>2, <1>4, <2>2, CountsAreNat DEF BudgetInv, CallsBooked
  <2>4. durable'.attempted <= MaxCalls
    BY <1>1, <1>2, <2>2, CountsAreNat
  <2> QED
    BY <1>2, <2>1, <2>2, <2>3, <2>4 DEF CallsBooked
<1>9. ~overreported' => SpendingBooked'
  <2> SUFFICES ASSUME ~overreported PROVE SpendingBooked'
    BY <1>2
  <2>1. durable'.tokens = tokens /\ durable'.reserved = Reserved + TokenCeiling[p]
    BY <1>6
  <2> QED
    BY <1>1, <1>2, <1>4, <2>1, CountsAreNat
    DEF BudgetInv, SpendingBooked, Reserved
<1>10. MemoryAhead'
  BY <1>1, <1>2, <1>6 DEF MemoryAhead
<1> QED
  BY <1>7, <1>8, <1>9, <1>10 DEF BudgetInv

\* A reservation that was persisted although reserve() raised.
LEMMA StrandedStep ==
  ASSUME BudgetInv, NEW t \in Threads, NEW p \in Payloads, ReserveStranded(t, p)
  PROVE  BudgetInv'
<1>1. /\ TokenCeiling[p] \in Nat /\ tokens \in Nat /\ Reserved \in Nat
      /\ attempted \in Nat /\ failed \in Nat /\ stranded \in Nat /\ exposure \in Int
      /\ issued \in Nat
  BY BudgetAssumption, CountsAreNat DEF BudgetInv, BudgetTypeOK
<1>2. /\ alive /\ attempted < MaxCalls
      /\ tokens + Reserved + TokenCeiling[p] <= MaxTokens
      /\ attempted' = attempted + 1
      /\ stranded' = stranded + TokenCeiling[p]
      /\ UNCHANGED <<alive, failed, tokens, reservation, usageComplete, denied,
                     reason, sent, issued, exposure, overreported>>
      /\ durable' = Snapshot'
  BY DEF ReserveStranded, Book, CallsLeft, Fits, history
<1>3. Holding' = Holding /\ Unsent' = Unsent
  BY <1>2 DEF Holding, Unsent
<1>4. /\ SumOfCeilings(reservation', Holding') = SumOfCeilings(reservation, Holding)
      /\ SumOfCeilings(reservation', Unsent') = SumOfCeilings(reservation, Unsent)
  BY <1>2, <1>3
<1>5. Reserved' = Reserved + TokenCeiling[p]
  BY <1>1, <1>2, <1>4, CountsAreNat DEF Reserved
<1>6. durable' = [attempted |-> attempted + 1, failed |-> failed, tokens |-> tokens,
                  reserved |-> Reserved + TokenCeiling[p],
                  usageComplete |-> usageComplete, denied |-> denied, reason |-> reason]
  BY <1>2, <1>5 DEF Snapshot
<1>7. BudgetTypeOK'
  <2>1. durable' \in SnapshotType
    BY <1>1, <1>6 DEF SnapshotType, BudgetInv, BudgetTypeOK
  <2> QED
    BY <1>1, <1>2, <1>3, <2>1 DEF BudgetInv, BudgetTypeOK
<1>8. CallsBooked'
  <2>1. durable'.attempted = attempted + 1 /\ attempted = durable.attempted
    BY <1>2, <1>6 DEF BudgetInv, CallsBooked
  <2> QED
    BY <1>1, <1>2, <1>3, <2>1, CountsAreNat DEF BudgetInv, CallsBooked
<1>9. ~overreported' => SpendingBooked'
  <2> SUFFICES ASSUME ~overreported PROVE SpendingBooked'
    BY <1>2
  <2>1. durable'.tokens = tokens /\ durable'.reserved = Reserved + TokenCeiling[p]
    BY <1>6
  <2> QED
    BY <1>1, <1>2, <1>4, <2>1, CountsAreNat
    DEF BudgetInv, SpendingBooked, Reserved
<1>10. MemoryAhead'
  BY <1>1, <1>2, <1>6 DEF MemoryAhead
<1> QED
  BY <1>7, <1>8, <1>9, <1>10 DEF BudgetInv

\* A refusal only raises the denied flag.
LEMMA RefusedStep ==
  ASSUME BudgetInv, NEW t \in Threads, NEW p \in Payloads, ReserveRefused(t, p)
  PROVE  BudgetInv'
<1>1. /\ denied' = TRUE /\ reason' \in Reasons
      /\ UNCHANGED <<alive, attempted, failed, tokens, stranded, usageComplete,
                     reservation, sent, durable, issued, exposure, overreported>>
  BY DEF ReserveRefused, Reasons, history
<1>2. Holding' = Holding /\ Unsent' = Unsent
  BY <1>1 DEF Holding, Unsent
<1>3. BudgetTypeOK'
  BY <1>1, <1>2 DEF BudgetInv, BudgetTypeOK
<1>4. CallsBooked'
  BY <1>1, <1>2 DEF BudgetInv, CallsBooked
<1>5. ~overreported' => SpendingBooked'
  BY <1>1, <1>2 DEF BudgetInv, SpendingBooked
<1>6. MemoryAhead'
  BY <1>1 DEF BudgetInv, MemoryAhead
<1> QED
  BY <1>3, <1>4, <1>5, <1>6 DEF BudgetInv

\* The request leaves: what was booked becomes exposure.
LEMMA SendStep ==
  ASSUME BudgetInv, NEW t \in Threads, Send(t)
  PROVE  BudgetInv'
<1>1. /\ alive /\ t \in Holding /\ t \notin sent /\ t \in Unsent
      /\ sent' = sent \cup {t} /\ issued' = issued + 1
      /\ exposure' = exposure + TokenCeiling[reservation[t]]
      /\ UNCHANGED <<alive, attempted, failed, tokens, stranded, usageComplete,
                     denied, reason, reservation, durable, overreported>>
  BY DEF Send, memory, Holding, Unsent
<1>2. /\ reservation[t] \in Payloads /\ TokenCeiling[reservation[t]] \in Nat
      /\ TokenCeiling[reservation[t]] <= MaxTokens
      /\ exposure \in Int /\ issued \in Nat
  BY <1>1, BudgetAssumption DEF BudgetInv, BudgetTypeOK, CallsBooked, Holding
<1>3. Holding' = Holding /\ Unsent' = Unsent \ {t}
  BY <1>1 DEF Holding, Unsent
<1>4. SumOfCeilings(reservation, Unsent)
        = SumOfCeilings(reservation, Unsent \ {t}) + TokenCeiling[reservation[t]]
  <2>1. Unsent \ {t} \in SUBSET Threads /\ t \notin Unsent \ {t}
    BY DEF Unsent, Holding
  <2>2. (Unsent \ {t}) \cup {t} = Unsent
    BY <1>1
  <2> QED
    BY <1>2, <2>1, <2>2, SumAdds
<1>5. Cardinality(Unsent) = Cardinality(Unsent \ {t}) + 1
  <2>1. IsFiniteSet(Unsent)
    BY BudgetAssumption, WorkersAssumption, FS_Subset DEF Unsent, Holding
  <2>2. Cardinality(Unsent \ {t}) = Cardinality(Unsent) - 1
    BY <1>1, <2>1, FS_RemoveElement
  <2> QED
    BY <2>2, CountsAreNat
<1>6. SumOfCeilings(reservation, Unsent \ {t}) \in Nat
  BY SumIsNat DEF Unsent, Holding
<1>7. BudgetTypeOK'
  BY <1>1, <1>2, <1>3 DEF BudgetInv, BudgetTypeOK
<1>8. CallsBooked'
  <2>1. issued' + Cardinality(Unsent') = issued + Cardinality(Unsent)
    <3>1. Cardinality(Unsent \ {t}) \in Int
      <4>1. IsFiniteSet(Unsent \ {t})
        BY BudgetAssumption, WorkersAssumption, FS_Subset DEF Unsent, Holding
      <4> QED
        BY <4>1, FS_CardinalityType
    <3> QED
      BY <1>1, <1>2, <1>3, <1>5, <3>1
  <2> QED
    BY <1>1, <1>3, <2>1 DEF BudgetInv, CallsBooked
<1>9. ~overreported' => SpendingBooked'
  <2> SUFFICES ASSUME ~overreported PROVE SpendingBooked'
    BY <1>1
  <2>1. exposure' + SumOfCeilings(reservation', Unsent')
          = exposure + SumOfCeilings(reservation, Unsent)
    BY <1>1, <1>2, <1>3, <1>4, <1>6
  <2> QED
    BY <1>1, <1>3, <2>1 DEF BudgetInv, SpendingBooked
<1>10. MemoryAhead'
  BY <1>1 DEF BudgetInv, MemoryAhead
<1> QED
  BY <1>7, <1>8, <1>9, <1>10 DEF BudgetInv

\* What commit and fail have in common: a reservation is popped, k tokens are
\* charged for it, and the snapshot is persisted or lost.
LEMMA SettleStep ==
  ASSUME BudgetInv, NEW t \in Threads, Pop(t),
         NEW k \in Nat, NEW persisted \in BOOLEAN, Persist(persisted),
         tokens' = tokens + k,
         failed' \in {failed, failed + 1},
         usageComplete' \in BOOLEAN, usageComplete' => usageComplete,
         denied' \in BOOLEAN, denied => denied', reason' \in Reasons,
         overreported' \in BOOLEAN,
         ~overreported' => ~overreported /\ k <= TokenCeiling[reservation[t]],
         exposure' = exposure - TokenCeiling[reservation[t]] + k
  PROVE  BudgetInv'
<1> DEFINE c == TokenCeiling[reservation[t]]
           sumHolding == SumOfCeilings(reservation, Holding)
           sumUnsent == SumOfCeilings(reservation, Unsent)
<1>1. /\ c \in Nat
      /\ Holding' = Holding \ {t}
      /\ Unsent' = Unsent \ {t}
      /\ sumHolding = SumOfCeilings(reservation', Holding') + c
      /\ sumUnsent = SumOfCeilings(reservation', Unsent')
                       + IF t \in sent THEN 0 ELSE c
      /\ Cardinality(Unsent') <= Cardinality(Unsent)
  BY PopEffect
<1>2. /\ tokens \in Nat /\ stranded \in Nat /\ attempted \in Nat /\ failed \in Nat
      /\ exposure \in Int /\ issued \in Nat
      /\ durable \in SnapshotType
      /\ sumHolding \in Nat /\ sumUnsent \in Nat /\ MaxTokens \in Nat /\ MaxCalls \in Nat
  BY CountsAreNat DEF BudgetInv, BudgetTypeOK
<1>3. Holding' \in SUBSET Threads /\ Unsent' \in SUBSET Threads
  BY DEF Holding, Unsent
<1>4. /\ SumOfCeilings(reservation', Holding') \in Nat
      /\ SumOfCeilings(reservation', Unsent') \in Nat
  <2>1. \A S \in SUBSET Threads : SumOfCeilings(reservation', S) \in Nat
    BY SumIsNat
  <2> QED
    BY <1>3, <2>1
<1>5. /\ alive /\ UNCHANGED <<alive, attempted, stranded, issued>>
      /\ reservation' = [reservation EXCEPT ![t] = NoCall]
      /\ sent' = sent \ {t}
  BY DEF Pop
<1>6. /\ Reserved = stranded + sumHolding
      /\ Reserved' = stranded + SumOfCeilings(reservation', Holding')
      /\ Reserved' \in Nat
  BY <1>2, <1>4, <1>5 DEF Reserved
<1>7. \/ durable' = durable
      \/ durable' = [attempted |-> attempted, failed |-> failed', tokens |-> tokens',
                     reserved |-> Reserved', usageComplete |-> usageComplete',
                     denied |-> denied', reason |-> reason']
  BY <1>5 DEF Persist, Snapshot
<1>8. BudgetTypeOK'
  <2>1. durable' \in SnapshotType
    BY <1>2, <1>6, <1>7 DEF SnapshotType
  <2>2. reservation' \in [Threads -> Payloads \cup {NoCall}]
    BY <1>5 DEF BudgetInv, BudgetTypeOK
  <2>3. sent' \subseteq Holding'
    BY <1>1, <1>5 DEF BudgetInv, BudgetTypeOK
  <2>4. exposure' \in Int /\ tokens' \in Nat /\ failed' \in Nat
    BY <1>1, <1>2
  <2> QED
    BY <1>2, <1>5, <2>1, <2>2, <2>3, <2>4 DEF BudgetInv, BudgetTypeOK
<1>9. CallsBooked'
  <2>1. durable'.attempted = durable.attempted /\ attempted = durable.attempted
    BY <1>5, <1>7 DEF BudgetInv, CallsBooked
  <2>2. \A x \in Holding' : TokenCeiling[reservation'[x]] <= MaxTokens
    BY <1>1, <1>5 DEF BudgetInv, BudgetTypeOK, CallsBooked, Holding
  <2>3. Cardinality(Unsent') \in Nat /\ Cardinality(Unsent) \in Nat
    <3>1. IsFiniteSet(Unsent')
      BY <1>3, BudgetAssumption, WorkersAssumption, FS_Subset
    <3> QED
      BY <3>1, FS_CardinalityType, CountsAreNat
  <2>4. durable.attempted \in Nat
    BY <1>2 DEF SnapshotType
  <2>5. issued' + Cardinality(Unsent') <= durable'.attempted
    BY <1>1, <1>2, <1>5, <2>1, <2>3, <2>4 DEF BudgetInv, CallsBooked
  <2> QED
    BY <1>5, <2>1, <2>2, <2>5 DEF BudgetInv, CallsBooked
<1>10. ~overreported' => SpendingBooked'
  <2> SUFFICES ASSUME ~overreported' PROVE SpendingBooked'
    OBVIOUS
  <2>1. k <= c /\ SpendingBooked
    BY DEF BudgetInv
  <2>2. durable.tokens \in Nat /\ durable.reserved \in Nat
    BY <1>2 DEF SnapshotType
  <2>3. /\ durable.tokens + durable.reserved <= MaxTokens
        /\ exposure + sumUnsent <= durable.tokens + durable.reserved
        /\ exposure + sumUnsent <= tokens + sumHolding
        /\ tokens + stranded + sumHolding <= MaxTokens
    BY <1>5, <2>1 DEF SpendingBooked
  <2> HIDE DEF c, sumHolding, sumUnsent
  <2>4. SumOfCeilings(reservation', Unsent') <= sumUnsent
    BY <1>1, <1>2, <1>4
  <2>5. exposure' + SumOfCeilings(reservation', Unsent')
          <= tokens' + SumOfCeilings(reservation', Holding')
    <3>1. exposure' = exposure - c + k
      BY DEF c
    <3> QED
      BY <1>1, <1>2, <1>4, <2>3, <2>4, <3>1
  <2>6. tokens' + stranded + SumOfCeilings(reservation', Holding') <= MaxTokens
    BY <1>1, <1>2, <1>4, <2>1, <2>3
  <2>7. CASE durable' = durable
    <3>1. exposure' <= exposure
      BY <1>1, <1>2, <2>1 DEF c
    <3>2. exposure' + SumOfCeilings(reservation', Unsent')
            <= durable.tokens + durable.reserved
      BY <1>1, <1>2, <1>4, <2>2, <2>3, <2>4, <3>1 DEF c
    <3> QED
      BY <1>5, <2>3, <2>5, <2>6, <2>7, <3>2 DEF SpendingBooked
  <2>8. CASE durable'.tokens = tokens' /\ durable'.reserved = Reserved'
    <3>1. durable'.tokens + durable'.reserved
            = tokens' + stranded + SumOfCeilings(reservation', Holding')
      BY <1>2, <1>4, <1>6, <2>8
    <3>2. exposure' + SumOfCeilings(reservation', Unsent')
            <= tokens' + stranded + SumOfCeilings(reservation', Holding')
      BY <1>1, <1>2, <1>4, <2>5 DEF c
    <3> QED
      BY <1>5, <2>5, <2>6, <3>1, <3>2 DEF SpendingBooked
  <2> QED
    BY <1>7, <2>7, <2>8
<1>11. MemoryAhead'
  <2>1. /\ failed >= durable.failed /\ tokens >= durable.tokens
        /\ usageComplete => durable.usageComplete
        /\ durable.denied => denied
    BY <1>5 DEF BudgetInv, MemoryAhead
  <2>2. durable.failed \in Nat /\ durable.tokens \in Nat
    BY <1>2 DEF SnapshotType
  <2>3. failed' \in Nat /\ failed' >= failed /\ tokens' \in Nat /\ tokens' >= tokens
    BY <1>2
  <2>4. CASE durable' = durable
    BY <1>2, <2>1, <2>2, <2>3, <2>4 DEF MemoryAhead
  <2>5. CASE durable'.failed = failed' /\ durable'.tokens = tokens'
             /\ durable'.usageComplete = usageComplete' /\ durable'.denied = denied'
    BY <2>3, <2>5 DEF MemoryAhead
  <2> QED
    BY <1>7, <2>4, <2>5
<1> QED
  BY <1>8, <1>9, <1>10, <1>11 DEF BudgetInv

\* commit charges the reported or the reserved amount.
LEMMA CommitStep ==
  ASSUME BudgetInv, NEW t \in Threads, NEW usage \in Reports \cup {Untrusted},
         NEW persisted \in BOOLEAN, Commit(t, usage, persisted)
  PROVE  BudgetInv'
<1> DEFINE k == Charge(t, usage)
<1>1. Pop(t) /\ Persist(persisted) /\ tokens' = tokens + k
  BY DEF Commit
<1>2. TokenCeiling[reservation[t]] \in Nat
  BY <1>1, PopEffect
<1>3. k \in Nat
  BY <1>2, BudgetAssumption DEF Charge
<1>4. failed' = failed /\ exposure' = exposure - TokenCeiling[reservation[t]] + k
  BY DEF Commit
<1>5. usageComplete' \in BOOLEAN /\ (usageComplete' => usageComplete)
  BY DEF Commit, BudgetInv, BudgetTypeOK
<1>6. denied' \in BOOLEAN /\ (denied => denied') /\ reason' \in Reasons
  BY DEF Commit, BudgetInv, BudgetTypeOK, Reasons
<1>7. overreported' \in BOOLEAN
      /\ (~overreported' => ~overreported /\ ~(k > TokenCeiling[reservation[t]]))
  BY DEF Commit
<1>8. ~overreported' => ~overreported /\ k <= TokenCeiling[reservation[t]]
  BY <1>2, <1>3, <1>7
<1> HIDE DEF k
<1> QED
  BY <1>1, <1>3, <1>4, <1>5, <1>6, <1>7, <1>8, SettleStep

\* fail charges the whole ceiling.
LEMMA FailStep ==
  ASSUME BudgetInv, NEW t \in Threads, NEW persisted \in BOOLEAN, Fail(t, persisted)
  PROVE  BudgetInv'
<1> DEFINE k == TokenCeiling[reservation[t]]
<1>1. Pop(t) /\ Persist(persisted) /\ tokens' = tokens + k
      /\ failed' = failed + 1 /\ usageComplete' = FALSE
      /\ UNCHANGED <<denied, reason, exposure, overreported>>
  BY DEF Fail
<1>2. k \in Nat
  BY <1>1, PopEffect
<1>3. exposure \in Int /\ denied \in BOOLEAN /\ reason \in Reasons /\ overreported \in BOOLEAN
  BY DEF BudgetInv, BudgetTypeOK
<1>4. exposure' = exposure - TokenCeiling[reservation[t]] + k /\ k <= TokenCeiling[reservation[t]]
  BY <1>1, <1>2, <1>3
<1> HIDE DEF k
<1> QED
  BY <1>1, <1>2, <1>3, <1>4, SettleStep

\* A hand-over writes what the memory knows.
LEMMA HandoverStep ==
  ASSUME BudgetInv, Handover
  PROVE  BudgetInv'
<1>1. /\ alive /\ durable' = Snapshot
      /\ UNCHANGED <<alive, attempted, failed, tokens, stranded, usageComplete, denied,
                     reason, reservation, sent, issued, exposure, overreported>>
  BY DEF Handover, memory, history
<1>2. Holding' = Holding /\ Unsent' = Unsent
  BY <1>1 DEF Holding, Unsent
<1>3. /\ durable'.attempted = attempted /\ durable'.failed = failed
      /\ durable'.tokens = tokens /\ durable'.reserved = Reserved
      /\ durable'.usageComplete = usageComplete /\ durable'.denied = denied
  BY <1>1 DEF Snapshot
<1>4. durable' \in SnapshotType
  BY <1>1, CountsAreNat DEF BudgetInv, BudgetTypeOK, Snapshot, SnapshotType
<1>5. BudgetTypeOK'
  BY <1>1, <1>2, <1>4 DEF BudgetInv, BudgetTypeOK
<1>6. CallsBooked'
  BY <1>1, <1>2, <1>3 DEF BudgetInv, CallsBooked
<1>7. ~overreported' => SpendingBooked'
  <2>1. tokens \in Nat /\ stranded \in Nat /\ exposure \in Int
    BY DEF BudgetInv, BudgetTypeOK
  <2> QED
    BY <1>1, <1>2, <1>3, <2>1, CountsAreNat DEF BudgetInv, SpendingBooked, Reserved
<1>8. MemoryAhead'
  <2>1. failed \in Nat /\ tokens \in Nat
    BY DEF BudgetInv, BudgetTypeOK
  <2>2. failed' >= durable'.failed /\ tokens' >= durable'.tokens
    BY <1>1, <1>3, <2>1
  <2>3. (usageComplete' => durable'.usageComplete) /\ (durable'.denied => denied')
    BY <1>1, <1>3, Zenon
  <2> QED
    BY <2>2, <2>3 DEF MemoryAhead
<1> QED
  BY <1>5, <1>6, <1>7, <1>8 DEF BudgetInv

\* A crash forgets the memory; the checkpoint still covers everything sent.
LEMMA CrashStep ==
  ASSUME BudgetInv, BudgetCrash
  PROVE  BudgetInv'
<1>1. /\ alive' = FALSE /\ sent' = {}
      /\ reservation' = [t \in Threads |-> NoCall]
      /\ UNCHANGED <<attempted, failed, tokens, stranded, usageComplete, denied,
                     reason, durable, issued, exposure, overreported>>
  BY DEF BudgetCrash, memory, history
<1>2. Holding' = {} /\ Unsent' = {}
  BY <1>1 DEF Holding, Unsent
<1>3. SumOfCeilings(reservation', Unsent') = 0
  <2>1. \A r : SumOfCeilings(r, {}) = 0
    BY SumOfNone
  <2> QED
    BY <1>2, <2>1
<1>4. Cardinality(Unsent') = 0
  BY <1>2, FS_EmptySet
<1>5. BudgetTypeOK'
  BY <1>1, <1>2 DEF BudgetInv, BudgetTypeOK
<1>6. CallsBooked'
  <2>1. issued \in Nat /\ durable.attempted \in Nat
    BY DEF BudgetInv, BudgetTypeOK, SnapshotType
  <2> QED
    BY <1>1, <1>2, <1>4, <2>1, CountsAreNat DEF BudgetInv, CallsBooked
<1>7. ~overreported' => SpendingBooked'
  <2>1. /\ exposure \in Int /\ durable.tokens \in Nat /\ durable.reserved \in Nat
    BY DEF BudgetInv, BudgetTypeOK, SnapshotType
  <2> QED
    BY <1>1, <1>2, <1>3, <2>1, CountsAreNat DEF BudgetInv, SpendingBooked
<1>8. MemoryAhead'
  BY <1>1 DEF MemoryAhead
<1> QED
  BY <1>5, <1>6, <1>7, <1>8 DEF BudgetInv

\* A restart takes over a settled checkpoint as it is.
LEMMA RestoreStep ==
  ASSUME BudgetInv, Restore
  PROVE  BudgetInv'
<1>1. /\ ~alive /\ durable.reserved = 0 /\ alive' = TRUE
      /\ attempted' = durable.attempted /\ failed' = durable.failed
      /\ tokens' = durable.tokens /\ stranded' = 0
      /\ usageComplete' = durable.usageComplete /\ denied' = durable.denied
      /\ reason' = durable.reason
      /\ UNCHANGED <<reservation, sent, durable, issued, exposure, overreported>>
  BY DEF Restore, RestoredSnapshot, NoUnsettled, history
<1>2. Holding = {} /\ Holding' = {} /\ Unsent' = {} /\ Unsent = {}
  <2>1. Holding = {}
    BY <1>1 DEF BudgetInv, CallsBooked
  <2>2. Holding' = Holding
    BY <1>1 DEF Holding
  <2> QED
    BY <2>1, <2>2 DEF Unsent
<1>3. /\ SumOfCeilings(reservation, {}) = 0
      /\ SumOfCeilings(reservation', {}) = 0
  <2>1. \A r : SumOfCeilings(r, {}) = 0
    BY SumOfNone
  <2> QED
    BY <2>1
<1>4. durable \in SnapshotType
  BY DEF BudgetInv, BudgetTypeOK
<1>5. BudgetTypeOK'
  BY <1>1, <1>2, <1>4 DEF BudgetInv, BudgetTypeOK, SnapshotType
<1>6. CallsBooked'
  BY <1>1, <1>2 DEF BudgetInv, CallsBooked
<1>7. ~overreported' => SpendingBooked'
  <2>1. durable.tokens \in Nat /\ exposure \in Int
    BY <1>4 DEF SnapshotType, BudgetInv, BudgetTypeOK
  <2> QED
    BY <1>1, <1>2, <1>3, <2>1, CountsAreNat DEF BudgetInv, SpendingBooked
<1>8. MemoryAhead'
  BY <1>1, <1>4 DEF MemoryAhead, SnapshotType
<1> QED
  BY <1>5, <1>6, <1>7, <1>8 DEF BudgetInv

\* A step that leaves every variable alone.
LEMMA BudgetStutter ==
  ASSUME BudgetInv, UNCHANGED budgetVars
  PROVE  BudgetInv'
<1>1. UNCHANGED <<alive, attempted, failed, tokens, stranded, usageComplete, denied,
                  reason, reservation, sent, durable, issued, exposure, overreported>>
  BY DEF budgetVars, memory, history
<1>2. Holding' = Holding /\ Unsent' = Unsent
  BY <1>1 DEF Holding, Unsent
<1> QED
  BY <1>1, <1>2
  DEF BudgetInv, BudgetTypeOK, CallsBooked, SpendingBooked, MemoryAhead

\* The invariant holds at the start and every step keeps it.
LEMMA BudgetInvariance == BudgetSpec => []BudgetInv
<1>1. BudgetInit => BudgetInv
  <2> SUFFICES ASSUME BudgetInit PROVE BudgetInv
    OBVIOUS
  <2>1. Holding = {} /\ Unsent = {}
    BY DEF BudgetInit, Holding, Unsent
  <2>2. SumOfCeilings(reservation, {}) = 0
    BY SumOfNone
  <2>3. /\ attempted = 0 /\ failed = 0 /\ tokens = 0 /\ stranded = 0
        /\ issued = 0 /\ exposure = 0 /\ sent = {} /\ durable = Snapshot
    BY Zenon DEF BudgetInit
  <2>4. /\ alive \in BOOLEAN /\ usageComplete \in BOOLEAN /\ denied \in BOOLEAN
        /\ overreported \in BOOLEAN
        /\ reservation \in [Threads -> Payloads \cup {NoCall}]
    BY DEF BudgetInit
  <2>5. reason \in Reasons
    BY Zenon DEF BudgetInit, Reasons
  <2>6. Reserved = 0
    BY ONLY <2>1, <2>2, <2>3 DEF Reserved
  <2>7. /\ durable.attempted = attempted /\ durable.failed = failed
        /\ durable.tokens = tokens /\ durable.reserved = Reserved
    BY ONLY <2>3 DEF Snapshot
  <2>8. durable \in SnapshotType
    <3>1. /\ attempted \in Nat /\ failed \in Nat /\ tokens \in Nat /\ Reserved \in Nat
      BY ONLY <2>3, <2>6
    <3> QED
      BY ONLY <3>1, <2>3, <2>4, <2>5 DEF Snapshot, SnapshotType
  <2>9. BudgetTypeOK
    BY ONLY <2>1, <2>3, <2>4, <2>5, <2>8 DEF BudgetTypeOK
  <2>10. CallsBooked
    BY ONLY <2>1, <2>3, <2>7, BudgetAssumption, FS_EmptySet DEF CallsBooked
  <2>11. SpendingBooked
    BY ONLY <2>1, <2>2, <2>3, <2>6, <2>7, BudgetAssumption DEF SpendingBooked
  <2>12. MemoryAhead
    <3>1. durable.usageComplete = usageComplete /\ durable.denied = denied
      BY ONLY <2>3 DEF Snapshot
    <3>2. failed >= durable.failed /\ tokens >= durable.tokens
      BY ONLY <2>3, <2>7
    <3> QED
      BY ONLY <3>1, <3>2, Zenon DEF MemoryAhead
  <2> QED
    BY <2>9, <2>10, <2>11, <2>12 DEF BudgetInv
<1>2. BudgetInv /\ [BudgetNext]_budgetVars => BudgetInv'
  <2> SUFFICES ASSUME BudgetInv, [BudgetNext]_budgetVars PROVE BudgetInv'
    OBVIOUS
  <2>1. ASSUME NEW t \in Threads, NEW p \in Payloads, Reserve(t, p)
        PROVE  BudgetInv'
    BY <2>1, ReserveStep
  <2>2. ASSUME NEW t \in Threads, NEW p \in Payloads, ReserveRolledBack(t, p)
        PROVE  BudgetInv'
    BY <2>2, BudgetStutter DEF ReserveRolledBack
  <2>3. ASSUME NEW t \in Threads, NEW p \in Payloads, ReserveStranded(t, p)
        PROVE  BudgetInv'
    BY <2>3, StrandedStep
  <2>4. ASSUME NEW t \in Threads, NEW p \in Payloads, ReserveRefused(t, p)
        PROVE  BudgetInv'
    BY <2>4, RefusedStep
  <2>5. ASSUME NEW t \in Threads, Send(t) PROVE BudgetInv'
    BY <2>5, SendStep
  <2>6. ASSUME NEW t \in Threads, NEW usage \in Reports \cup {Untrusted},
               NEW persisted \in BOOLEAN, Commit(t, usage, persisted)
        PROVE  BudgetInv'
    BY <2>6, CommitStep
  <2>7. ASSUME NEW t \in Threads, NEW persisted \in BOOLEAN, Fail(t, persisted)
        PROVE  BudgetInv'
    BY <2>7, FailStep
  <2>8. CASE Handover
    BY <2>8, HandoverStep
  <2>9. CASE BudgetCrash
    BY <2>9, CrashStep
  <2>10. CASE Restore
    BY <2>10, RestoreStep
  <2>11. CASE UNCHANGED budgetVars
    BY <2>11, BudgetStutter
  <2> QED
    BY <2>1, <2>2, <2>3, <2>4, <2>5, <2>6, <2>7, <2>8, <2>9, <2>10, <2>11
    DEF BudgetNext
<1> QED
  BY <1>1, <1>2, PTL DEF BudgetSpec

-----------------------------------------------------------------------------
(* What follows for a reader of the code.                                  *)

\* Every reachable state of the budget is well typed.
THEOREM BudgetTypeCorrect == BudgetSpec => []BudgetTypeOK
  BY BudgetInvariance, PTL DEF BudgetInv

\* A crash finds every sent call, and what it can have cost, on disk.
THEOREM WriteAhead == BudgetSpec => []DurableCoversTheWire
<1>1. BudgetInv => DurableCoversTheWire
  <2> SUFFICES ASSUME BudgetInv PROVE DurableCoversTheWire
    OBVIOUS
  <2>1. /\ issued \in Nat /\ exposure \in Int
        /\ durable.attempted \in Nat /\ durable.tokens \in Nat /\ durable.reserved \in Nat
    BY DEF BudgetInv, BudgetTypeOK, SnapshotType
  <2> QED
    BY <2>1, CountsAreNat
    DEF BudgetInv, CallsBooked, SpendingBooked, DurableCoversTheWire
<1> QED
  BY <1>1, BudgetInvariance, PTL

\* The authorisation is never exceeded, over any number of crashes and restarts.
THEOREM HardBudget == BudgetSpec => []AuthorisationHolds
<1>1. BudgetInv => AuthorisationHolds
  <2> SUFFICES ASSUME BudgetInv PROVE AuthorisationHolds
    OBVIOUS
  <2>1. /\ issued \in Nat /\ exposure \in Int
        /\ durable.attempted \in Nat /\ durable.tokens \in Nat /\ durable.reserved \in Nat
    BY DEF BudgetInv, BudgetTypeOK, SnapshotType
  <2> QED
    BY <2>1, CountsAreNat
    DEF BudgetInv, CallsBooked, SpendingBooked, AuthorisationHolds
<1> QED
  BY <1>1, BudgetInvariance, PTL

\* Spent and promised tokens fit the authorisation together.
THEOREM PromisesFit == BudgetSpec => []ReservationsFit
<1>1. BudgetInv => ReservationsFit
  <2> SUFFICES ASSUME BudgetInv, alive, ~overreported
               PROVE  tokens + Reserved <= MaxTokens
    BY DEF ReservationsFit
  <2>1. tokens \in Nat /\ stranded \in Nat
    BY DEF BudgetInv, BudgetTypeOK
  <2> QED
    BY <2>1, CountsAreNat DEF BudgetInv, SpendingBooked, Reserved
<1> QED
  BY <1>1, BudgetInvariance, PTL

\* The durable accounting moves forward one call at a time, also across restarts.
THEOREM DurableForward == BudgetSpec => DurableNeverRegresses
<1> DEFINE Forward ==
      /\ durable'.attempted \in {durable.attempted, durable.attempted + 1}
      /\ durable'.failed >= durable.failed
      /\ durable'.tokens >= durable.tokens
      /\ durable.usageComplete \/ ~durable'.usageComplete
      /\ durable.denied => durable'.denied
<1>1. BudgetInv /\ BudgetInv' /\ [BudgetNext]_budgetVars => [Forward]_durable
  <2> SUFFICES ASSUME BudgetInv, BudgetInv', [BudgetNext]_budgetVars, durable' # durable
               PROVE  Forward
    OBVIOUS
  <2> DEFINE Written == durable' = Snapshot' /\ alive
             Grows == /\ attempted' \in {attempted, attempted + 1}
                      /\ failed' >= failed /\ tokens' >= tokens
             Marks == (usageComplete' => usageComplete) /\ (denied => denied')
  <2>1. /\ attempted \in Nat /\ failed \in Nat /\ tokens \in Nat
        /\ durable.attempted \in Nat /\ durable.failed \in Nat /\ durable.tokens \in Nat
        /\ tokens' \in Nat /\ failed' \in Nat
        /\ usageComplete \in BOOLEAN /\ usageComplete' \in BOOLEAN
        /\ durable.usageComplete \in BOOLEAN
    BY DEF BudgetInv, BudgetTypeOK, SnapshotType
  <2>2. ASSUME NEW t \in Threads, NEW p \in Payloads,
               Reserve(t, p) \/ ReserveStranded(t, p)
        PROVE  Written /\ Grows /\ Marks
    <3>1. Book(p) /\ durable' = Snapshot' /\ alive
      BY <2>2, Zenon DEF Reserve, ReserveStranded
    <3>2. attempted' = attempted + 1 /\ failed' = failed /\ tokens' = tokens
      BY <3>1 DEF Book
    <3>3. usageComplete' = usageComplete /\ denied' = denied
      BY <3>1, Zenon DEF Book
    <3> QED
      BY <2>1, <3>1, <3>2, <3>3
  <2>3. ASSUME NEW t \in Threads, NEW usage \in Reports \cup {Untrusted},
               NEW persisted \in BOOLEAN, Commit(t, usage, persisted)
        PROVE  Written /\ Grows /\ Marks
    <3>1. Pop(t) /\ Persist(persisted)
      BY <2>3, Zenon DEF Commit
    <3>2. Written
      BY <3>1 DEF Pop, Persist
    <3>3. attempted' = attempted /\ failed' = failed
      BY <2>3, <3>1, Zenon DEF Pop, Commit
    <3>4. tokens' = tokens + Charge(t, usage)
      BY <2>3, Zenon DEF Commit
    <3>5. Charge(t, usage) \in Nat
      BY <3>1, PopEffect, BudgetAssumption DEF Charge
    <3>6. Marks
      BY <2>3, Zenon DEF Commit
    <3>7. Grows
      BY <2>1, <3>3, <3>4, <3>5
    <3> QED
      BY <3>2, <3>6, <3>7
  <2>4. ASSUME NEW t \in Threads, NEW persisted \in BOOLEAN, Fail(t, persisted)
        PROVE  Written /\ Grows /\ Marks
    <3>1. Pop(t) /\ Persist(persisted)
      BY <2>4, Zenon DEF Fail
    <3>2. Written
      BY <3>1 DEF Pop, Persist
    <3>3. attempted' = attempted
      BY <3>1, Zenon DEF Pop
    <3>4. tokens' = tokens + TokenCeiling[reservation[t]] /\ failed' = failed + 1
      BY <2>4, Zenon DEF Fail
    <3>5. TokenCeiling[reservation[t]] \in Nat
      BY <3>1, PopEffect
    <3>6. Marks
      BY <2>4, Zenon DEF Fail
    <3>7. Grows
      BY <2>1, <3>3, <3>4, <3>5
    <3> QED
      BY <3>2, <3>6, <3>7
  <2>5. ASSUME Handover PROVE Written /\ Grows /\ Marks
    <3>1. /\ durable' = Snapshot /\ Snapshot' = Snapshot /\ alive
          /\ UNCHANGED <<attempted, failed, tokens, usageComplete, denied>>
      BY <2>5 DEF Handover, memory, Snapshot, Reserved, Holding
    <3> QED
      BY <2>1, <3>1
  <2>6. Written /\ Grows /\ Marks
    <3>1. CASE UNCHANGED budgetVars
      BY <3>1 DEF budgetVars
    <3>2. CASE BudgetNext
      BY <2>2, <2>3, <2>4, <2>5, <3>2
      DEF BudgetNext, ReserveRolledBack, ReserveRefused, Send, BudgetCrash, Restore,
          budgetVars
    <3> QED
      BY <3>1, <3>2
  <2>7. /\ durable'.attempted = attempted' /\ durable'.failed = failed'
        /\ durable'.tokens = tokens' /\ durable'.usageComplete = usageComplete'
        /\ durable'.denied = denied'
    BY <2>6 DEF Snapshot
  <2>8. alive
    BY <2>6
  <2>9. /\ attempted = durable.attempted /\ failed >= durable.failed
        /\ tokens >= durable.tokens /\ (usageComplete => durable.usageComplete)
        /\ (durable.denied => denied)
    BY <2>8 DEF BudgetInv, CallsBooked, MemoryAhead
  <2>10. /\ durable'.attempted \in {durable.attempted, durable.attempted + 1}
        /\ durable'.failed >= durable.failed /\ durable'.tokens >= durable.tokens
    BY <2>1, <2>6, <2>7, <2>9
  <2>11. /\ durable.usageComplete \/ ~durable'.usageComplete
         /\ durable.denied => durable'.denied
    BY <2>6, <2>7, <2>9, Zenon
  <2> QED
    BY <2>10, <2>11
<1> QED
  BY <1>1, BudgetInvariance, PTL DEF BudgetSpec, DurableNeverRegresses

-----------------------------------------------------------------------------
(* The checkpoints that the outbox accepts.                                *)

\* A snapshot whose counters and flags tell the same story.
Coherent(s) ==
  /\ s.failed <= s.attempted
  /\ (s.reason # "") = s.denied
  /\ s.failed = 0 \/ ~s.usageComplete

\* The memory is coherent with room for the calls in flight: each of them may still
\* fail.
RoomToFail == failed + Cardinality(Holding) <= attempted

MarksAgree == /\ (reason # "") = denied
              /\ failed = 0 \/ ~usageComplete

Coherence == RoomToFail /\ MarksAgree /\ Coherent(durable)

\* The counts of the memory are natural numbers.
LEMMA HoldingIsCounted ==
  ASSUME BudgetTypeOK
  PROVE  /\ attempted \in Nat /\ failed \in Nat
         /\ IsFiniteSet(Holding) /\ Cardinality(Holding) \in Nat
<1>1. IsFiniteSet(Holding)
  BY BudgetAssumption, WorkersAssumption, FS_Subset DEF Holding
<1>2. Cardinality(Holding) \in Nat
  BY <1>1, FS_CardinalityType
<1> QED
  BY <1>1, <1>2 DEF BudgetTypeOK

\* What a coherent memory hands to its checkpoint is coherent.
LEMMA SnapshotIsCoherent ==
  ASSUME BudgetTypeOK, RoomToFail, MarksAgree
  PROVE  Coherent(Snapshot)
<1>1. /\ attempted \in Nat /\ failed \in Nat /\ Cardinality(Holding) \in Nat
      /\ failed + Cardinality(Holding) <= attempted
  BY HoldingIsCounted DEF RoomToFail
<1>2. failed <= attempted
  BY ONLY <1>1
<1>3. /\ Snapshot.attempted = attempted /\ Snapshot.failed = failed
      /\ Snapshot.reason = reason /\ Snapshot.denied = denied
      /\ Snapshot.usageComplete = usageComplete
  BY DEF Snapshot
<1> QED
  BY <1>2, <1>3, Zenon DEF MarksAgree, Coherent

\* How a step changes the room for failures.
LEMMA RoomStep ==
  ASSUME BudgetInv, BudgetTypeOK', RoomToFail, Coherent(durable), [BudgetNext]_budgetVars
  PROVE  RoomToFail'
<1>1. /\ attempted \in Nat /\ failed \in Nat
      /\ IsFiniteSet(Holding) /\ Cardinality(Holding) \in Nat
  BY HoldingIsCounted DEF BudgetInv
<1>2. failed + Cardinality(Holding) <= attempted
  BY DEF RoomToFail
<1>3. ASSUME NEW t \in Threads, NEW p \in Payloads, Reserve(t, p)
      PROVE  RoomToFail'
  <2>1. /\ reservation[t] = NoCall /\ reservation' = [reservation EXCEPT ![t] = p]
        /\ attempted' = attempted + 1 /\ failed' = failed /\ sent' = sent /\ Fits(p)
    BY <1>3, Zenon DEF Reserve, Book
  <2>2. /\ tokens \in Nat /\ Reserved \in Nat /\ MaxTokens \in Nat /\ TokenCeiling[p] \in Nat
        /\ tokens + Reserved + TokenCeiling[p] <= MaxTokens
    BY <2>1, CountsAreNat, BudgetAssumption DEF BudgetInv, BudgetTypeOK, Fits
  <2>3. TokenCeiling[p] <= MaxTokens
    BY ONLY <2>2
  <2>4. Holding' = Holding \cup {t} /\ t \notin Holding
    BY <2>1, <2>3, BookEffect
  <2>5. Cardinality(Holding') = Cardinality(Holding) + 1
    BY <1>1, <2>4, FS_AddElement
  <2>6. failed' + Cardinality(Holding') <= attempted'
    BY ONLY <1>1, <1>2, <2>1, <2>5
  <2> QED
    BY <2>6 DEF RoomToFail
<1>4. ASSUME NEW t \in Threads, NEW p \in Payloads, ReserveStranded(t, p)
      PROVE  RoomToFail'
  <2>1. attempted' = attempted + 1 /\ failed' = failed /\ reservation' = reservation
    BY <1>4, Zenon DEF ReserveStranded, Book
  <2>2. Holding' = Holding
    BY <2>1 DEF Holding
  <2>3. failed' + Cardinality(Holding') <= attempted'
    BY ONLY <1>1, <1>2, <2>1, <2>2
  <2> QED
    BY <2>3 DEF RoomToFail
<1>5. ASSUME NEW t \in Threads, Pop(t), failed' \in {failed, failed + 1}
      PROVE  RoomToFail'
  <2>1. Holding' = Holding \ {t} /\ t \in Holding
    BY <1>5, PopEffect
  <2>2. Cardinality(Holding') = Cardinality(Holding) - 1
    BY <1>1, <2>1, FS_RemoveElement
  <2>3. attempted' = attempted
    BY <1>5, Zenon DEF Pop
  <2>4. failed' + Cardinality(Holding') <= attempted'
    BY ONLY <1>1, <1>2, <1>5, <2>2, <2>3
  <2> QED
    BY <2>4 DEF RoomToFail
<1>6. ASSUME UNCHANGED <<attempted, failed, reservation>>
      PROVE  RoomToFail'
  BY <1>2, <1>6 DEF RoomToFail, Holding
<1>7. ASSUME Holding' = {}, \/ attempted' = attempted /\ failed' = failed
                            \/ attempted' = durable.attempted /\ failed' = durable.failed
      PROVE  RoomToFail'
  <2>1. Cardinality(Holding') = 0
    BY <1>7, FS_EmptySet
  <2>2. failed <= attempted
    BY ONLY <1>1, <1>2
  <2>3. durable.failed <= durable.attempted
    BY Zenon DEF Coherent
  <2>4. durable.failed \in Nat /\ durable.attempted \in Nat
    BY DEF BudgetInv, BudgetTypeOK, SnapshotType
  <2>5. failed' + Cardinality(Holding') <= attempted'
    BY ONLY <1>1, <1>7, <2>1, <2>2, <2>3, <2>4
  <2> QED
    BY <2>5 DEF RoomToFail
<1>8. ASSUME NEW t \in Threads, NEW usage \in Reports \cup {Untrusted},
             NEW persisted \in BOOLEAN, Commit(t, usage, persisted) \/ Fail(t, persisted)
      PROVE  RoomToFail'
  <2>1. Pop(t) /\ failed' \in {failed, failed + 1}
    BY <1>8, Zenon DEF Commit, Fail
  <2> QED
    BY <1>5, <2>1
<1>9. CASE BudgetCrash
  <2>1. Holding' = {} /\ attempted' = attempted /\ failed' = failed
    BY <1>9 DEF BudgetCrash, Holding, memory
  <2> QED
    BY <1>7, <2>1
<1>10. CASE Restore
  <2>1. /\ attempted' = durable.attempted /\ failed' = durable.failed
        /\ reservation' = reservation /\ ~alive
    BY <1>10, Zenon DEF Restore, RestoredSnapshot
  <2>2. Holding' = {}
    BY <2>1 DEF Holding, BudgetInv, CallsBooked
  <2> QED
    BY <1>7, <2>1, <2>2
<1>11. ASSUME NEW t \in Threads, NEW persisted \in BOOLEAN, Fail(t, persisted)
       PROVE  RoomToFail'
  BY <1>8, <1>11
<1> QED
  BY <1>3, <1>4, <1>6, <1>8, <1>9, <1>10, <1>11
  DEF BudgetNext, ReserveRolledBack, ReserveRefused, Send, Handover, memory, budgetVars

\* The marks go with the counts: a refusal names its reason, a failure makes the usage
\* incomplete.
LEMMA MarksStep ==
  ASSUME BudgetInv, MarksAgree, Coherent(durable), [BudgetNext]_budgetVars
  PROVE  MarksAgree'
<1>1. ASSUME UNCHANGED <<failed, usageComplete, denied, reason>>
      PROVE  MarksAgree'
  BY <1>1, Zenon DEF MarksAgree
<1>2. ASSUME NEW t \in Threads, NEW p \in Payloads, Reserve(t, p) \/ ReserveStranded(t, p)
      PROVE  MarksAgree'
  BY <1>1, <1>2, Zenon DEF Reserve, ReserveStranded, Book
<1>3. ASSUME NEW t \in Threads, NEW p \in Payloads, ReserveRefused(t, p)
      PROVE  MarksAgree'
  <2>1. /\ UNCHANGED <<failed, usageComplete>> /\ denied' = TRUE /\ reason' # ""
    BY <1>3 DEF ReserveRefused
  <2> QED
    BY <2>1, Zenon DEF MarksAgree
<1>4. ASSUME NEW t \in Threads, NEW usage \in Reports \cup {Untrusted},
             NEW persisted \in BOOLEAN, Commit(t, usage, persisted)
      PROVE  MarksAgree'
  <2>1. failed' = failed /\ usageComplete' = (usageComplete /\ usage # Untrusted)
    BY <1>4, Zenon DEF Commit
  <2>2. \/ denied' = TRUE /\ reason' = "reported_token_budget_exceeded"
        \/ denied' = denied /\ reason' = reason
    BY <1>4, Zenon DEF Commit
  <2>3. "reported_token_budget_exceeded" # ""
    OBVIOUS
  <2> QED
    BY <2>1, <2>2, <2>3, Zenon DEF MarksAgree
<1>5. ASSUME NEW t \in Threads, NEW persisted \in BOOLEAN, Fail(t, persisted)
      PROVE  MarksAgree'
  BY <1>5, Zenon DEF Fail, MarksAgree
<1>6. CASE Restore
  BY <1>6, Zenon DEF Restore, RestoredSnapshot, Coherent, MarksAgree
<1> QED
  BY <1>1, <1>2, <1>3, <1>4, <1>5, <1>6
  DEF BudgetNext, ReserveRolledBack, Send, Handover, BudgetCrash, memory, budgetVars

\* What is persisted is a snapshot of the memory.
LEMMA PersistedIsSnapshot ==
  ASSUME [BudgetNext]_budgetVars
  PROVE  durable' \in {durable, Snapshot, Snapshot'}
  BY DEF BudgetNext, Reserve, ReserveRolledBack, ReserveStranded, ReserveRefused, Send,
     Commit, Fail, Persist, Handover, BudgetCrash, Restore, history, budgetVars

\* Every checkpoint that the budget writes is one that its outbox accepts, while
\* providers stay within the ceilings.
THEOREM CheckpointsAccepted == BudgetSpec => []CheckpointsAcceptable
<1> DEFINE Handed == BudgetTypeOK /\ RoomToFail /\ MarksAgree => Coherent(Snapshot)
<1>1. BudgetInit => Coherence
  <2> SUFFICES ASSUME BudgetInit PROVE Coherence
    OBVIOUS
  <2>1. attempted = 0 /\ failed = 0 /\ reason = "" /\ denied = FALSE /\ durable = Snapshot
    BY Zenon DEF BudgetInit
  <2>2. Holding = {}
    BY DEF BudgetInit, Holding
  <2>3. Cardinality(Holding) = 0
    BY <2>2, FS_EmptySet
  <2>4. RoomToFail
    <3>1. attempted = 0 /\ failed = 0
      BY <2>1
    <3> QED
      BY ONLY <2>3, <3>1 DEF RoomToFail
  <2>5. MarksAgree
    BY <2>1, Zenon DEF MarksAgree
  <2>6. /\ durable.attempted = 0 /\ durable.failed = 0
        /\ durable.reason = "" /\ durable.denied = FALSE
    BY ONLY <2>1 DEF Snapshot
  <2>7. durable.failed <= durable.attempted
    <3>1. durable.attempted = 0 /\ durable.failed = 0
      BY <2>6
    <3> QED
      BY ONLY <3>1
  <2>8. Coherent(durable)
    BY <2>6, <2>7, Zenon DEF Coherent
  <2> QED
    BY <2>4, <2>5, <2>8 DEF Coherence
<1>2. Handed
  BY SnapshotIsCoherent
<1>3. /\ BudgetInv /\ BudgetInv' /\ Handed /\ Handed' /\ Coherence /\ [BudgetNext]_budgetVars
      => Coherence'
  <2> SUFFICES ASSUME BudgetInv, BudgetInv', Handed, Handed', Coherence,
                      [BudgetNext]_budgetVars
               PROVE  Coherence'
    OBVIOUS
  <2>1. BudgetTypeOK /\ BudgetTypeOK' /\ RoomToFail /\ MarksAgree /\ Coherent(durable)
    BY DEF BudgetInv, Coherence
  <2>2. RoomToFail'
    BY <2>1, RoomStep
  <2>3. MarksAgree'
    BY <2>1, MarksStep
  <2>4. Coherent(Snapshot) /\ Coherent(Snapshot)'
    BY <2>1, <2>2, <2>3
  <2>5. Coherent(durable)'
    BY <2>1, <2>4, PersistedIsSnapshot DEF Coherent
  <2> QED
    BY <2>2, <2>3, <2>5 DEF Coherence
<1>4. BudgetInv /\ Coherence => CheckpointsAcceptable
  <2> SUFFICES ASSUME BudgetInv, Coherence, ~overreported PROVE OutboxAccepts(durable)
    BY DEF CheckpointsAcceptable
  <2>1. /\ durable.tokens + durable.reserved <= MaxTokens /\ durable.attempted <= MaxCalls
    BY Zenon DEF BudgetInv, SpendingBooked, CallsBooked
  <2>2. /\ durable.tokens \in Nat /\ durable.reserved \in Nat /\ MaxTokens \in Nat
        /\ durable.failed \in Nat
    BY CountsAreNat DEF BudgetInv, BudgetTypeOK, SnapshotType
  <2>3. ~(durable.tokens > MaxTokens) /\ (durable.failed > 0 => durable.failed # 0)
    BY ONLY <2>1, <2>2
  <2> QED
    BY <2>1, <2>3, Zenon DEF Coherence, Coherent, OutboxAccepts
<1> QED
  BY <1>1, <1>2, <1>3, <1>4, BudgetInvariance, PTL DEF BudgetSpec
=============================================================================
