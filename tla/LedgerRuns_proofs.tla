--------------------------- MODULE LedgerRuns_proofs ---------------------------
(***************************************************************************)
(* Theorems about the document ledger over its runs, for every number of   *)
(* threads, stages, limits and runs.                                       *)
(***************************************************************************)
EXTENDS LedgerRuns, FiniteSetTheorems, TLAPS

Booking == [stage : Stages, ceiling : Ceilings]

Consumption ==
  [calls : Nat, tokens : Nat, reserved : Nat, failed : Nat, usageComplete : BOOLEAN]

-----------------------------------------------------------------------------
(* The tokens that calls in flight have reserved.                          *)

\* TokensInFlight for given bookings.
Units(p, s) ==
  UNION {{t} \X (1..p[t].ceiling) : t \in {x \in Threads : p[x] # NotPending /\ p[x].stage = s}}

\* A token belongs to one call in flight.
LEMMA UnitsMember ==
  ASSUME NEW p, NEW s, NEW u
  PROVE  u \in Units(p, s) <=>
           \E t \in Threads : /\ p[t] # NotPending /\ p[t].stage = s
                              /\ u \in {t} \X (1..p[t].ceiling)
BY DEF Units

\* A call of c tokens that is added to a set without them.
LEMMA BlockAdds ==
  ASSUME NEW U, IsFiniteSet(U), NEW t, NEW c \in Nat \ {0}, U \cap ({t} \X (1..c)) = {}
  PROVE  /\ IsFiniteSet(U \cup ({t} \X (1..c)))
         /\ Cardinality(U \cup ({t} \X (1..c))) = Cardinality(U) + c
<1> DEFINE block == {t} \X (1..c)
<1>1. IsFiniteSet({t}) /\ Cardinality({t}) = 1
  BY FS_Singleton
<1>2. IsFiniteSet(1..c) /\ Cardinality(1..c) = c
  <2>1. 1 \in Int /\ c \in Int /\ ~(1 > c) /\ c - 1 + 1 = c
    OBVIOUS
  <2> QED
    BY <2>1, FS_Interval
<1>3. IsFiniteSet(block) /\ Cardinality(block) = Cardinality({t}) * Cardinality(1..c)
  BY <1>1, <1>2, FS_Product
<1>4. Cardinality(block) = c
  BY <1>1, <1>2, <1>3
<1> HIDE DEF block
<1>5. Cardinality(U) \in Nat
  BY FS_CardinalityType
<1>6. Cardinality(U \cap block) = 0
  <2>1. U \cap block = {}
    BY DEF block
  <2> QED
    BY <2>1, FS_EmptySet
<1>7. IsFiniteSet(U \cup block)
      /\ Cardinality(U \cup block) = Cardinality(U) + Cardinality(block) - Cardinality(U \cap block)
  BY <1>3, FS_Union
<1> QED
  BY <1>4, <1>5, <1>6, <1>7 DEF block

\* Booking a call adds its tokens to its stage, and to no other.
LEMMA UnitsBooked ==
  ASSUME NEW p \in [Threads -> Booking \cup {NotPending}], NEW t \in Threads,
         p[t] = NotPending, NEW s \in Stages, NEW c \in Ceilings, NEW x \in Stages,
         NEW q, q[t] = [stage |-> s, ceiling |-> c],
         \A y \in Threads : y # t => q[y] = p[y], IsFiniteSet(Units(p, x))
  PROVE  /\ IsFiniteSet(Units(q, x))
         /\ Cardinality(Units(q, x)) = Cardinality(Units(p, x)) + IF x = s THEN c ELSE 0
<1>1. q[t].stage = s /\ q[t].ceiling = c
  OBVIOUS
<1>2. q[t] # NotPending
  BY <1>1, LedgerAssumption
<1>3. CASE x # s
  <2>1. \A u : u \in Units(q, x) <=> u \in Units(p, x)
    <3>1. ASSUME NEW u \in Units(q, x) PROVE u \in Units(p, x)
      <4>1. PICK y \in Threads : q[y] # NotPending /\ q[y].stage = x /\ u \in {y} \X (1..q[y].ceiling)
        BY UnitsMember
      <4>2. q[y] = p[y]
        BY <1>1, <1>3, <4>1
      <4> QED
        BY <4>1, <4>2, UnitsMember
    <3>2. ASSUME NEW u \in Units(p, x) PROVE u \in Units(q, x)
      <4>1. PICK y \in Threads : p[y] # NotPending /\ p[y].stage = x /\ u \in {y} \X (1..p[y].ceiling)
        BY UnitsMember
      <4>2. q[y] = p[y]
        BY <1>1, <4>1
      <4> QED
        BY <4>1, <4>2, UnitsMember
    <3> QED
      BY <3>1, <3>2
  <2>2. Units(q, x) = Units(p, x)
    BY <2>1
  <2>3. Cardinality(Units(p, x)) \in Nat
    BY FS_CardinalityType
  <2> QED
    BY <1>3, <2>2, <2>3
<1>4. CASE x = s
  <2>1. \A u : u \in Units(q, x) <=> (u \in Units(p, x) \/ u \in {t} \X (1..c))
    <3>1. ASSUME NEW u \in Units(q, x) PROVE u \in Units(p, x) \/ u \in {t} \X (1..c)
      <4>1. PICK y \in Threads : q[y] # NotPending /\ q[y].stage = x /\ u \in {y} \X (1..q[y].ceiling)
        BY UnitsMember
      <4>2. CASE y = t
        BY <1>1, <4>1, <4>2
      <4>3. CASE y # t
        <5>1. q[y] = p[y]
          BY <1>1, <4>3
        <5> QED
          BY <4>1, <5>1, UnitsMember
      <4> QED
        BY <4>2, <4>3
    <3>2. ASSUME NEW u \in Units(p, x) PROVE u \in Units(q, x)
      <4>1. PICK y \in Threads : p[y] # NotPending /\ p[y].stage = x /\ u \in {y} \X (1..p[y].ceiling)
        BY UnitsMember
      <4>2. q[y] = p[y]
        BY <1>1, <4>1
      <4> QED
        BY <4>1, <4>2, UnitsMember
    <3>3. ASSUME NEW u \in {t} \X (1..c) PROVE u \in Units(q, x)
      <4>1. q[t] # NotPending /\ q[t].stage = x /\ u \in {t} \X (1..q[t].ceiling)
        BY <1>1, <1>2, <1>4
      <4> QED
        BY <4>1, UnitsMember
    <3> QED
      BY <3>1, <3>2, <3>3
  <2>2. Units(q, x) = Units(p, x) \cup ({t} \X (1..c))
    BY <2>1
  <2>3. Units(p, x) \cap ({t} \X (1..c)) = {}
    <3>1. SUFFICES ASSUME NEW u \in Units(p, x), u \in {t} \X (1..c) PROVE FALSE
      OBVIOUS
    <3>2. PICK y \in Threads : p[y] # NotPending /\ u \in {y} \X (1..p[y].ceiling)
      BY <3>1, UnitsMember
    <3>3. y = t
      BY <3>1, <3>2
    <3> QED
      BY <3>2, <3>3
  <2>4. c \in Nat \ {0}
    BY LedgerAssumption
  <2>5. /\ IsFiniteSet(Units(p, x) \cup ({t} \X (1..c)))
        /\ Cardinality(Units(p, x) \cup ({t} \X (1..c))) = Cardinality(Units(p, x)) + c
    BY <2>3, <2>4, BlockAdds
  <2> QED
    BY <1>4, <2>2, <2>5
<1> QED
  BY <1>3, <1>4

\* Settling a call takes its tokens from its stage, and from no other.
LEMMA UnitsSettled ==
  ASSUME NEW p \in [Threads -> Booking \cup {NotPending}], NEW t \in Threads,
         p[t] # NotPending, NEW x \in Stages,
         NEW q \in [Threads -> Booking \cup {NotPending}], q[t] = NotPending,
         \A y \in Threads : y # t => q[y] = p[y], IsFiniteSet(Units(p, x))
  PROVE  /\ IsFiniteSet(Units(q, x))
         /\ Cardinality(Units(p, x))
              = Cardinality(Units(q, x)) + IF x = p[t].stage THEN p[t].ceiling ELSE 0
         /\ Cardinality(Units(q, x)) \in Nat
<1>1. p[t] \in Booking /\ p[t].stage \in Stages /\ p[t].ceiling \in Nat \ {0}
  BY LedgerAssumption DEF Booking
<1>2. p[t] = [stage |-> p[t].stage, ceiling |-> p[t].ceiling] /\ p[t].ceiling \in Ceilings
  BY <1>1 DEF Booking
<1>3. IsFiniteSet(Units(q, x))
  <2>1. ASSUME NEW u \in Units(q, x) PROVE u \in Units(p, x)
    <3>1. PICK y \in Threads : q[y] # NotPending /\ q[y].stage = x /\ u \in {y} \X (1..q[y].ceiling)
      BY UnitsMember
    <3>2. q[y] = p[y]
      BY <3>1
    <3> QED
      BY <3>1, <3>2, UnitsMember
  <2> QED
    BY <2>1, FS_Subset
<1>4. Cardinality(Units(p, x))
        = Cardinality(Units(q, x)) + IF x = p[t].stage THEN p[t].ceiling ELSE 0
  BY <1>1, <1>2, <1>3, UnitsBooked
<1> QED
  BY <1>3, <1>4, FS_CardinalityType

\* Without calls in flight there are none.
LEMMA UnitsNone ==
  ASSUME NEW p, \A t \in Threads : p[t] = NotPending, NEW s
  PROVE  IsFiniteSet(Units(p, s)) /\ Cardinality(Units(p, s)) = 0
<1>1. Units(p, s) = {}
  BY UnitsMember
<1> QED
  BY <1>1, FS_EmptySet

-----------------------------------------------------------------------------
(* What the actions do to the accounts.                                    *)

\* The state and the histories have the types that the code gives them.
RunsTyped ==
  /\ attached \in BOOLEAN /\ observing \in BOOLEAN /\ needsWork \in BOOLEAN
  /\ wrote \in BOOLEAN /\ degraded \in BOOLEAN /\ overreported \in BOOLEAN
  /\ consumed \in [Stages -> Consumption]
  /\ pending \in [Threads -> Booking \cup {NotPending}]
  /\ calling \subseteq Threads /\ stray \in [Stages -> Nat]
  /\ exhausted \subseteq Stages /\ refused \subseteq Stages

\* A new ledger: nothing is consumed, nothing in flight, no mark is set.
BlankLedger ==
  /\ consumed = NothingConsumed
  /\ calling = {} /\ stray = NothingStray
  /\ exhausted = {} /\ refused = {}
  /\ ~needsWork /\ ~degraded /\ ~overreported /\ ~wrote

\* The bookings of the calls in flight: what an abandoned call left pending is none.
Open == [t \in Threads |-> IF t \in calling THEN pending[t] ELSE NotPending]

LEMMA OpenTyped ==
  ASSUME RunsTyped
  PROVE  Open \in [Threads -> Booking \cup {NotPending}]
BY DEF RunsTyped, Open

\* A step that books a call of c tokens for stage s in thread t.
Books(t, s, c) ==
  /\ consumed' \in [Stages -> Consumption]
  /\ \A x \in Stages :
       /\ consumed'[x].calls = consumed[x].calls + IF x = s THEN 1 ELSE 0
       /\ consumed'[x].reserved = consumed[x].reserved + IF x = s THEN c ELSE 0
       /\ consumed'[x].tokens = consumed[x].tokens
       /\ consumed'[x].failed = consumed[x].failed
  /\ Open'[t] = [stage |-> s, ceiling |-> c]
  /\ \A y \in Threads : y # t => Open'[y] = Open[y]
  /\ stray' = stray

\* A step that settles the call of thread t for that many tokens.
Settles(t, charge) ==
  /\ consumed' \in [Stages -> Consumption]
  /\ \A x \in Stages :
       /\ consumed'[x].calls = consumed[x].calls
       /\ consumed'[x].reserved = IF x = Open[t].stage
                                   THEN Less(consumed[x].reserved, Open[t].ceiling)
                                   ELSE consumed[x].reserved
       /\ consumed'[x].tokens = consumed[x].tokens + IF x = Open[t].stage THEN charge ELSE 0
       /\ consumed'[x].failed >= consumed[x].failed
  /\ Open'[t] = NotPending
  /\ \A y \in Threads : y # t => Open'[y] = Open[y]
  /\ stray' = stray

\* A step of a run that has begun only adds consumption and marks, and what it
\* writes is what it has in memory.
Grows ==
  /\ attached
  /\ \A x \in Stages :
       /\ consumed'[x].calls >= consumed[x].calls
       /\ consumed'[x].tokens >= consumed[x].tokens
       /\ consumed'[x].failed >= consumed[x].failed
  /\ exhausted \subseteq exhausted'
  /\ needsWork => needsWork'
  /\ (wrote' = wrote /\ disk' = disk) \/ (wrote' /\ disk' = LedgerSnapshot')

\* The mount, the mode and the history stay.
SameRun ==
  /\ attached' = attached /\ observing' = observing /\ ending' = ending

\* The checkpoint keeps the marks, adds those it is asked for, and writes what is
\* in memory or nothing.
LEMMA CheckpointEffect ==
  ASSUME RunsTyped, NEW marked \in SUBSET Stages, NEW flagged \in BOOLEAN,
         NEW written \in BOOLEAN, Checkpoint(marked, flagged, written), Checkpointed(written)
  PROVE  /\ exhausted' \subseteq Stages /\ needsWork' \in BOOLEAN /\ wrote' \in BOOLEAN
         /\ exhausted \subseteq exhausted' /\ marked \subseteq exhausted'
         /\ needsWork => needsWork'
         /\ flagged => needsWork'
         /\ (wrote' = wrote /\ disk' = disk) \/ (wrote' /\ disk' = LedgerSnapshot')
         /\ ending' = ending
<1>1. /\ exhausted' = exhausted \cup marked \cup {s \in Stages : AtLimit(consumed', s)}
      /\ needsWork' = (needsWork \/ flagged \/ marked # {} \/ exhausted' # exhausted)
      /\ disk' = IF written THEN LedgerSnapshot' ELSE disk
      /\ wrote' = (wrote \/ written) /\ ending' = ending
  BY DEF Checkpoint, Evaluate, Write, Checkpointed
<1>2. exhausted \subseteq Stages /\ wrote \in BOOLEAN /\ needsWork \in BOOLEAN
  BY DEF RunsTyped
<1>3. exhausted' \subseteq Stages /\ exhausted \subseteq exhausted' /\ marked \subseteq exhausted'
  BY <1>1, <1>2
<1>4. needsWork' \in BOOLEAN /\ wrote' \in BOOLEAN /\ (needsWork => needsWork')
      /\ (flagged => needsWork')
  BY <1>1, <1>2
<1>5. (wrote' = wrote /\ disk' = disk) \/ (wrote' /\ disk' = LedgerSnapshot')
  <2>1. CASE written
    BY <1>1, <2>1
  <2>2. CASE ~written
    BY <1>1, <1>2, <2>2
  <2> QED
    BY <2>1, <2>2
<1> QED
  BY <1>1, <1>3, <1>4, <1>5

\* intercept, when it lets the call through.
LEMMA StartStep ==
  ASSUME RunsTyped, NEW t \in Threads, NEW s \in Stages, NEW ceiling \in Ceilings,
         NEW written \in BOOLEAN, Start(t, s, ceiling, written)
  PROVE  /\ RunsTyped' /\ Grows /\ SameRun /\ Books(t, s, ceiling)
         /\ Open[t] = NotPending
         /\ observing \/ Admitted(s, ceiling)
         /\ refused' = refused /\ degraded' = degraded /\ overreported' = overreported
<1>1. /\ t \notin calling /\ calling' = calling \cup {t} /\ stray' = stray
      /\ attached /\ (observing \/ Admitted(s, ceiling))
      /\ consumed' = [consumed EXCEPT ![s].calls = @ + 1, ![s].reserved = @ + ceiling]
      /\ pending' = [pending EXCEPT ![t] = [stage |-> s, ceiling |-> ceiling]]
      /\ attached' = attached /\ observing' = observing
      /\ refused' = refused /\ degraded' = degraded /\ overreported' = overreported
  BY DEF Start, Intercept, runHistory
<1>2. /\ consumed \in [Stages -> Consumption]
      /\ pending \in [Threads -> Booking \cup {NotPending}]
      /\ calling \subseteq Threads
      /\ ceiling \in Nat
  BY LedgerAssumption DEF RunsTyped
<1>3. consumed'[s] = [consumed[s] EXCEPT !.calls = @ + 1, !.reserved = @ + ceiling]
      /\ \A x \in Stages : x # s => consumed'[x] = consumed[x]
  BY <1>1, <1>2
<1>4. /\ consumed'[s] \in Consumption
      /\ consumed'[s].calls = consumed[s].calls + 1
      /\ consumed'[s].reserved = consumed[s].reserved + ceiling
      /\ consumed'[s].tokens = consumed[s].tokens
      /\ consumed'[s].failed = consumed[s].failed
  <2>1. /\ consumed[s] \in Consumption
        /\ consumed[s].calls + 1 \in Nat /\ consumed[s].reserved + ceiling \in Nat
        /\ consumed[s].tokens \in Nat /\ consumed[s].failed \in Nat
        /\ consumed[s].usageComplete \in BOOLEAN
    BY <1>2 DEF Consumption
  <2>2. consumed'[s] = [calls |-> consumed[s].calls + 1, tokens |-> consumed[s].tokens,
                        reserved |-> consumed[s].reserved + ceiling,
                        failed |-> consumed[s].failed,
                        usageComplete |-> consumed[s].usageComplete]
    BY <1>3, <2>1 DEF Consumption
  <2> QED
    BY <2>1, <2>2 DEF Consumption
<1>5. consumed' \in [Stages -> Consumption]
  BY <1>1, <1>2, <1>3, <1>4
<1>6. \A x \in Stages : /\ consumed[x].calls \in Nat /\ consumed[x].tokens \in Nat
                        /\ consumed[x].reserved \in Nat /\ consumed[x].failed \in Nat
  BY <1>2 DEF Consumption
<1>7. Books(t, s, ceiling)
  <2>1. /\ Open'[t] = [stage |-> s, ceiling |-> ceiling]
        /\ \A y \in Threads : y # t => Open'[y] = Open[y]
    BY <1>1, <1>2 DEF Open
  <2>2. \A x \in Stages :
          /\ consumed'[x].calls = consumed[x].calls + IF x = s THEN 1 ELSE 0
          /\ consumed'[x].reserved = consumed[x].reserved + IF x = s THEN ceiling ELSE 0
          /\ consumed'[x].tokens = consumed[x].tokens
          /\ consumed'[x].failed = consumed[x].failed
    <3>1. TAKE x \in Stages
    <3>2. CASE x = s
      BY <1>4, <3>2
    <3>3. CASE x # s
      BY <1>3, <1>6, <3>3
    <3> QED
      BY <3>2, <3>3
  <2> QED
    BY <1>1, <1>5, <2>1, <2>2 DEF Books
<1>8. \A x \in Stages : /\ consumed'[x].calls >= consumed[x].calls
                        /\ consumed'[x].tokens >= consumed[x].tokens
                        /\ consumed'[x].failed >= consumed[x].failed
  BY <1>6, <1>7 DEF Books
<1>9. /\ exhausted' \subseteq Stages /\ needsWork' \in BOOLEAN /\ wrote' \in BOOLEAN
      /\ exhausted \subseteq exhausted' /\ (needsWork => needsWork') /\ ending' = ending
      /\ (wrote' = wrote /\ disk' = disk) \/ (wrote' /\ disk' = LedgerSnapshot')
  <2>1. PICK marked \in SUBSET Stages : Checkpoint(marked, FALSE, written)
    BY DEF Start, Intercept
  <2>2. Checkpointed(written)
    BY DEF Start
  <2> QED
    BY <2>1, <2>2, CheckpointEffect
<1>10. RunsTyped'
  <2>1. /\ pending' \in [Threads -> Booking \cup {NotPending}]
        /\ calling' \subseteq Threads
    BY <1>1, <1>2 DEF Booking
  <2> QED
    BY <1>1, <1>5, <1>9, <2>1 DEF RunsTyped
<1>11. Open[t] = NotPending
  BY <1>1 DEF Open
<1> QED
  BY <1>11, <1>1, <1>7, <1>8, <1>9, <1>10 DEF Grows, SameRun

\* settle and charge_failed: a call in flight is charged and its reservation released.
LEMMA SettleEffect ==
  ASSUME RunsTyped, NEW t \in calling, pending[t] # NotPending,
         NEW charge \in Nat, NEW more \in Nat,
         consumed' = [x \in Stages |-> consumed'[x]],
         \A x \in Stages : x # pending[t].stage => consumed'[x] = consumed[x],
         consumed'[pending[t].stage] =
           [calls |-> consumed[pending[t].stage].calls,
            tokens |-> consumed[pending[t].stage].tokens + charge,
            reserved |-> Less(consumed[pending[t].stage].reserved, pending[t].ceiling),
            failed |-> consumed[pending[t].stage].failed + more,
            usageComplete |-> consumed'[pending[t].stage].usageComplete],
         consumed'[pending[t].stage].usageComplete \in BOOLEAN,
         pending' = [pending EXCEPT ![t] = NotPending], calling' = calling \ {t},
         stray' = stray
  PROVE  /\ Settles(t, charge) /\ Open[t] = pending[t]
         /\ pending' \in [Threads -> Booking \cup {NotPending}]
<1> DEFINE s == pending[t].stage
           rest == Less(consumed[s].reserved, pending[t].ceiling)
<1>1. /\ consumed \in [Stages -> Consumption]
      /\ pending \in [Threads -> Booking \cup {NotPending}]
      /\ t \in Threads
  BY DEF RunsTyped
<1>2. s \in Stages /\ pending[t].ceiling \in Nat
  BY <1>1, LedgerAssumption DEF Booking
<1>3. rest \in Nat
  BY <1>1, <1>2 DEF Consumption, Less
<1>4. /\ consumed'[s] = [calls |-> consumed[s].calls, tokens |-> consumed[s].tokens + charge,
                         reserved |-> rest, failed |-> consumed[s].failed + more,
                         usageComplete |-> consumed'[s].usageComplete]
      /\ consumed'[s].usageComplete \in BOOLEAN
      /\ \A x \in Stages : x # s => consumed'[x] = consumed[x]
      /\ consumed' = [x \in Stages |-> consumed'[x]]
  OBVIOUS
<1> HIDE DEF s, rest
<1>5. /\ consumed' \in [Stages -> Consumption]
      /\ \A x \in Stages :
           /\ consumed'[x].calls = consumed[x].calls
           /\ consumed'[x].reserved = IF x = s THEN rest ELSE consumed[x].reserved
           /\ consumed'[x].tokens = consumed[x].tokens + IF x = s THEN charge ELSE 0
           /\ consumed'[x].failed >= consumed[x].failed
  <2>1. \A x \in Stages : consumed[x].tokens \in Nat /\ consumed[x].failed \in Nat
    BY <1>1 DEF Consumption
  <2>2. /\ consumed'[s] \in Consumption
        /\ consumed'[s].calls = consumed[s].calls /\ consumed'[s].reserved = rest
        /\ consumed'[s].tokens = consumed[s].tokens + charge
        /\ consumed'[s].failed = consumed[s].failed + more
    BY ONLY <1>1, <1>2, <1>3, <1>4, charge \in Nat, more \in Nat
       DEF Consumption
  <2>3. consumed' \in [Stages -> Consumption]
    BY ONLY <1>1, <1>4, <2>2
  <2>4. ASSUME NEW x \in Stages
        PROVE  /\ consumed'[x].calls = consumed[x].calls
               /\ consumed'[x].reserved = IF x = s THEN rest ELSE consumed[x].reserved
               /\ consumed'[x].tokens = consumed[x].tokens + IF x = s THEN charge ELSE 0
               /\ consumed'[x].failed >= consumed[x].failed
    <3>1. CASE x = s
      BY ONLY <1>2, <2>1, <2>2, <3>1, charge \in Nat, more \in Nat
    <3>2. CASE x # s
      BY ONLY <1>4, <2>1, <2>4, <3>2
    <3> QED
      BY <3>1, <3>2
  <2> QED
    BY <2>3, <2>4
<1>6. /\ pending' \in [Threads -> Booking \cup {NotPending}]
      /\ Open[t] = pending[t]
      /\ Open'[t] = NotPending
      /\ \A y \in Threads : y # t => Open'[y] = Open[y]
  BY <1>1 DEF Open
<1>7. \A x \in Stages :
        consumed'[x].reserved = IF x = s THEN Less(consumed[x].reserved, pending[t].ceiling)
                                         ELSE consumed[x].reserved
  BY <1>5 DEF rest
<1>8. s = Open[t].stage /\ pending[t].ceiling = Open[t].ceiling
  BY <1>6 DEF s
<1> QED
  BY <1>5, <1>6, <1>7, <1>8 DEF Settles

\* settle: the usage that is reported, or the ceiling when it is not trusted.
LEMMA FinishStep ==
  ASSUME RunsTyped, NEW t \in Threads, NEW usage \in Reports \cup {Untrusted},
         NEW written \in BOOLEAN, Finish(t, usage, written)
  PROVE  /\ RunsTyped' /\ Grows /\ SameRun /\ Open[t] # NotPending
         /\ refused' = refused /\ degraded' = degraded
         /\ \E charge \in Nat : /\ Settles(t, charge)
                                /\ ~overreported' => ~overreported /\ charge <= Open[t].ceiling
<1> DEFINE s == pending[t].stage
           charge == IF usage # Untrusted THEN usage ELSE pending[t].ceiling
<1>1. /\ attached /\ pending[t] # NotPending
      /\ t \in calling /\ calling' = calling \ {t} /\ stray' = stray
      /\ consumed' = [consumed EXCEPT
           ![s].reserved = Less(@, pending[t].ceiling),
           ![s].tokens = @ + IF usage # Untrusted THEN usage ELSE pending[t].ceiling,
           ![s].usageComplete = @ /\ usage # Untrusted]
      /\ pending' = [pending EXCEPT ![t] = NotPending]
      /\ attached' = attached /\ observing' = observing
      /\ refused' = refused /\ degraded' = degraded
      /\ overreported' = (overreported \/ (usage # Untrusted /\ usage > pending[t].ceiling))
      /\ Checkpoint({}, FALSE, written) /\ Checkpointed(written)
  BY DEF Finish, Settle
<1>2. /\ consumed \in [Stages -> Consumption]
      /\ pending \in [Threads -> Booking \cup {NotPending}] /\ overreported \in BOOLEAN
  BY DEF RunsTyped
<1>3. s \in Stages /\ pending[t].ceiling \in Nat
  BY <1>1, <1>2, LedgerAssumption DEF Booking
<1>4. charge \in Nat
  BY <1>3, LedgerAssumption
<1>5. /\ consumed'[s] = [consumed[s] EXCEPT
           !.reserved = Less(@, pending[t].ceiling), !.tokens = @ + charge,
           !.usageComplete = @ /\ usage # Untrusted]
      /\ \A x \in Stages : x # s => consumed'[x] = consumed[x]
      /\ consumed' = [x \in Stages |-> consumed'[x]]
  BY <1>1, <1>2, <1>3
<1>6. consumed[s] \in Consumption
  BY <1>2, <1>3
<1>7. consumed'[s].usageComplete \in BOOLEAN
  BY <1>5, <1>6 DEF Consumption
<1> DEFINE more == 0
<1>8. more \in Nat /\ consumed[s].failed + more = consumed[s].failed
  BY <1>6 DEF Consumption
<1> HIDE DEF charge, more
<1>9. consumed'[s] =
        [calls |-> consumed[s].calls, tokens |-> consumed[s].tokens + charge,
         reserved |-> Less(consumed[s].reserved, pending[t].ceiling),
         failed |-> consumed[s].failed + more, usageComplete |-> consumed'[s].usageComplete]
  BY ONLY <1>4, <1>5, <1>6, <1>8 DEF Consumption
<1>10. /\ Settles(t, charge) /\ Open[t] = pending[t]
       /\ pending' \in [Threads -> Booking \cup {NotPending}]
  <2>1. /\ pending[t] # NotPending /\ pending' = [pending EXCEPT ![t] = NotPending]
        /\ t \in calling /\ calling' = calling \ {t} /\ stray' = stray
        /\ \A x \in Stages : x # s => consumed'[x] = consumed[x]
        /\ consumed' = [x \in Stages |-> consumed'[x]]
    BY <1>1, <1>5
  <2>2. more \in Nat
    BY <1>8
  <2> QED
    BY ONLY RunsTyped, <1>4, <1>7, <1>9, <2>1, <2>2, SettleEffect
<1>11. /\ exhausted' \subseteq Stages /\ needsWork' \in BOOLEAN /\ wrote' \in BOOLEAN
       /\ exhausted \subseteq exhausted' /\ (needsWork => needsWork') /\ ending' = ending
       /\ (wrote' = wrote /\ disk' = disk) \/ (wrote' /\ disk' = LedgerSnapshot')
  BY <1>1, CheckpointEffect
<1>12. RunsTyped'
  <2>1. overreported' \in BOOLEAN /\ calling' \subseteq Threads
    BY <1>1, <1>2 DEF RunsTyped
  <2> QED
    BY <1>1, <1>10, <1>11, <2>1 DEF RunsTyped, Settles
<1>13. \A x \in Stages : /\ consumed'[x].calls >= consumed[x].calls
                         /\ consumed'[x].tokens >= consumed[x].tokens
                         /\ consumed'[x].failed >= consumed[x].failed
  <2>1. \A x \in Stages : /\ consumed[x].calls \in Nat /\ consumed[x].tokens \in Nat
    BY <1>2 DEF Consumption
  <2> QED
    BY <1>4, <1>10, <2>1 DEF Settles
<1>14. ~overreported' => ~overreported /\ charge <= pending[t].ceiling
  <2>1. CASE usage = Untrusted
    <3>1. charge <= pending[t].ceiling
      BY <1>3, <2>1 DEF charge
    <3>2. ~overreported' => ~overreported
      BY <1>1, Zenon
    <3> QED
      BY <3>1, <3>2
  <2>2. CASE usage # Untrusted
    <3>1. usage \in Nat /\ charge = usage
      BY <2>2, LedgerAssumption DEF charge
    <3>2. ~overreported' => ~overreported /\ ~(usage > pending[t].ceiling)
      BY <1>1, <2>2, Zenon
    <3>3. ~(usage > pending[t].ceiling) => usage <= pending[t].ceiling
      BY <1>3, <3>1
    <3> QED
      BY <3>1, <3>2, <3>3
  <2> QED
    BY <2>1, <2>2
<1> QED
  BY <1>1, <1>4, <1>10, <1>11, <1>12, <1>13, <1>14 DEF Grows, SameRun

\* charge_failed: always the ceiling.
LEMMA FinishFailedStep ==
  ASSUME RunsTyped, NEW t \in Threads, NEW written \in BOOLEAN, FinishFailed(t, written)
  PROVE  /\ RunsTyped' /\ Grows /\ SameRun /\ Open[t] # NotPending
         /\ refused' = refused /\ degraded' = degraded /\ overreported' = overreported
         /\ Settles(t, Open[t].ceiling) /\ Open[t].ceiling \in Nat
<1> DEFINE s == pending[t].stage
           charge == pending[t].ceiling
<1>1. /\ attached /\ pending[t] # NotPending
      /\ t \in calling /\ calling' = calling \ {t} /\ stray' = stray
      /\ consumed' = [consumed EXCEPT
           ![s].reserved = Less(@, pending[t].ceiling), ![s].tokens = @ + pending[t].ceiling,
           ![s].failed = @ + 1, ![s].usageComplete = FALSE]
      /\ pending' = [pending EXCEPT ![t] = NotPending]
      /\ attached' = attached /\ observing' = observing
      /\ refused' = refused /\ degraded' = degraded /\ overreported' = overreported
      /\ Checkpoint({}, FALSE, written) /\ Checkpointed(written)
  BY DEF FinishFailed, ChargeFailed, runHistory
<1>2. /\ consumed \in [Stages -> Consumption]
      /\ pending \in [Threads -> Booking \cup {NotPending}]
  BY DEF RunsTyped
<1>3. s \in Stages /\ charge \in Nat
  BY <1>1, <1>2, LedgerAssumption DEF Booking
<1>4. /\ consumed'[s] = [consumed[s] EXCEPT
           !.reserved = Less(@, charge), !.tokens = @ + charge,
           !.failed = @ + 1, !.usageComplete = FALSE]
      /\ \A x \in Stages : x # s => consumed'[x] = consumed[x]
      /\ consumed' = [x \in Stages |-> consumed'[x]]
  BY <1>1, <1>2, <1>3
<1>5. consumed[s] \in Consumption
  BY <1>2, <1>3
<1>6. consumed'[s] =
        [calls |-> consumed[s].calls, tokens |-> consumed[s].tokens + charge,
         reserved |-> Less(consumed[s].reserved, charge),
         failed |-> consumed[s].failed + 1, usageComplete |-> FALSE]
  BY ONLY <1>3, <1>4, <1>5 DEF Consumption
<1>7. /\ Settles(t, charge) /\ Open[t] = pending[t]
      /\ pending' \in [Threads -> Booking \cup {NotPending}]
  BY <1>1, <1>3, <1>4, <1>6, SettleEffect
<1>8. /\ exhausted' \subseteq Stages /\ needsWork' \in BOOLEAN /\ wrote' \in BOOLEAN
      /\ exhausted \subseteq exhausted' /\ (needsWork => needsWork') /\ ending' = ending
      /\ (wrote' = wrote /\ disk' = disk) \/ (wrote' /\ disk' = LedgerSnapshot')
  BY <1>1, CheckpointEffect
<1>9. RunsTyped'
  BY <1>1, <1>7, <1>8 DEF RunsTyped, Settles
<1>10. \A x \in Stages : /\ consumed'[x].calls >= consumed[x].calls
                         /\ consumed'[x].tokens >= consumed[x].tokens
                         /\ consumed'[x].failed >= consumed[x].failed
  <2>1. \A x \in Stages : /\ consumed[x].calls \in Nat /\ consumed[x].tokens \in Nat
    BY <1>2 DEF Consumption
  <2> QED
    BY <1>3, <1>7, <2>1 DEF Settles
<1> QED
  BY <1>1, <1>3, <1>7, <1>8, <1>9, <1>10 DEF Grows, SameRun

\* A step that leaves the accounts alone.
SameAccounts == consumed' = consumed /\ Open' = Open /\ stray' = stray

\* record_cache_hit, record_route and mark_degraded only evaluate and save.
LEMMA QuietStep ==
  ASSUME RunsTyped, NEW written \in BOOLEAN,
         Traffic(written) \/ \E s \in Stages : Degrade(s, written)
  PROVE  /\ RunsTyped' /\ Grows /\ SameRun /\ SameAccounts
         /\ refused' = refused /\ overreported' = overreported
         /\ degraded' => degraded \/ needsWork'
<1>1. PICK flagged \in BOOLEAN :
        /\ attached /\ attached' = attached /\ observing' = observing
        /\ consumed' = consumed /\ pending' = pending
        /\ calling' = calling /\ stray' = stray
        /\ Checkpoint({}, flagged, written) /\ Checkpointed(written)
        /\ refused' = refused /\ overreported' = overreported
        /\ degraded' = (degraded \/ flagged)
  <2>1. CASE Traffic(written)
    <3>1. Checkpoint({}, FALSE, written) /\ degraded' = degraded
      BY <2>1 DEF Traffic, RecordTraffic, runHistory
    <3>2. degraded' = (degraded \/ FALSE)
      BY <3>1 DEF RunsTyped
    <3> QED
      BY <2>1, <3>1, <3>2 DEF Traffic, RecordTraffic, runHistory
  <2>2. CASE \E s \in Stages : Degrade(s, written)
    <3>1. PICK s \in Stages : Degrade(s, written)
      BY <2>2
    <3>2. (s = CoreStage) \in BOOLEAN
      OBVIOUS
    <3> QED
      BY <3>1, <3>2 DEF Degrade, MarkDegraded
  <2> QED
    BY <2>1, <2>2
<1>2. /\ exhausted' \subseteq Stages /\ needsWork' \in BOOLEAN /\ wrote' \in BOOLEAN
      /\ exhausted \subseteq exhausted' /\ (needsWork => needsWork')
      /\ flagged => needsWork'
      /\ (wrote' = wrote /\ disk' = disk) \/ (wrote' /\ disk' = LedgerSnapshot')
      /\ ending' = ending
  BY <1>1, CheckpointEffect
<1>3. RunsTyped'
  <2>1. degraded' \in BOOLEAN
    BY <1>1 DEF RunsTyped
  <2> QED
    BY <1>1, <1>2, <2>1 DEF RunsTyped
<1>4. \A x \in Stages : /\ consumed'[x].calls >= consumed[x].calls
                        /\ consumed'[x].tokens >= consumed[x].tokens
                        /\ consumed'[x].failed >= consumed[x].failed
  <2>1. \A x \in Stages : /\ consumed[x].calls \in Nat /\ consumed[x].tokens \in Nat
                          /\ consumed[x].failed \in Nat
    BY DEF RunsTyped, Consumption
  <2>2. consumed' = consumed
    BY <1>1
  <2> QED
    BY ONLY <2>1, <2>2
<1>5. Open' = Open
  BY <1>1 DEF Open
<1> QED
  BY <1>1, <1>2, <1>3, <1>4, <1>5 DEF Grows, SameRun, SameAccounts

\* A refusal marks the stage and the document, and nothing else.
LEMMA RefuseStep ==
  ASSUME RunsTyped, NEW t \in Threads, NEW s \in Stages, NEW ceiling \in Ceilings,
         Refuse(t, s, ceiling)
  PROVE  /\ RunsTyped' /\ Grows /\ SameRun /\ SameAccounts
         /\ refused' = refused \cup {s} /\ s \in exhausted' /\ needsWork'
         /\ degraded' = degraded /\ overreported' = overreported
<1>1. /\ attached /\ attached' = attached /\ observing' = observing /\ ending' = ending
      /\ consumed' = consumed /\ disk' = disk /\ wrote' = wrote
      /\ pending' = [pending EXCEPT ![t] = NotPending]
      /\ t \notin calling /\ calling' = calling /\ stray' = stray
      /\ exhausted' = exhausted \cup {s} /\ needsWork' = TRUE
      /\ refused' = refused \cup {s} /\ degraded' = degraded /\ overreported' = overreported
  BY DEF Refuse, InterceptRefused
<1>2. Open' = Open /\ pending' \in [Threads -> Booking \cup {NotPending}]
  BY <1>1 DEF RunsTyped, Open
<1>3. RunsTyped'
  BY <1>1, <1>2 DEF RunsTyped
<1>4. \A x \in Stages : /\ consumed'[x].calls >= consumed[x].calls
                        /\ consumed'[x].tokens >= consumed[x].tokens
                        /\ consumed'[x].failed >= consumed[x].failed
  <2>1. \A x \in Stages : /\ consumed[x].calls \in Nat /\ consumed[x].tokens \in Nat
                          /\ consumed[x].failed \in Nat
    BY DEF RunsTyped, Consumption
  <2>2. consumed' = consumed
    BY <1>1
  <2> QED
    BY ONLY <2>1, <2>2
<1> QED
  BY <1>1, <1>2, <1>3, <1>4 DEF Grows, SameRun, SameAccounts

\* A call that is abandoned leaves the ledger alone.
LEMMA AbandonStep ==
  ASSUME RunsTyped, NEW t \in Threads, Abandon(t)
  PROVE  /\ RunsTyped' /\ Grows /\ SameRun
         /\ refused' = refused /\ degraded' = degraded
<1>1. /\ pending[t] # NotPending /\ t \in calling /\ calling' = calling \ {t}
      /\ stray' = [stray EXCEPT ![pending[t].stage] = @ + pending[t].ceiling]
      /\ UNCHANGED <<attached, observing, consumed, pending, exhausted, needsWork, disk>>
      /\ UNCHANGED <<wrote, refused, degraded, overreported, ending>> /\ attached
  BY DEF Abandon, ledgerVars
<1>2. pending[t].ceiling \in Nat
  BY <1>1, LedgerAssumption DEF RunsTyped, Booking
<1>3. stray' \in [Stages -> Nat]
  <2>1. stray \in [Stages -> Nat]
    BY DEF RunsTyped
  <2>2. \A x \in Stages : stray'[x] \in Nat
    BY <1>1, <1>2, <2>1
  <2>3. stray' = [x \in Stages |-> stray'[x]]
    BY <1>1, <2>1
  <2> QED
    BY <2>2, <2>3
<1>4. RunsTyped'
  BY <1>1, <1>3 DEF RunsTyped
<1>5. \A x \in Stages : /\ consumed'[x].calls >= consumed[x].calls
                        /\ consumed'[x].tokens >= consumed[x].tokens
                        /\ consumed'[x].failed >= consumed[x].failed
  <2>1. \A x \in Stages : /\ consumed[x].calls \in Nat /\ consumed[x].tokens \in Nat
                          /\ consumed[x].failed \in Nat
    BY DEF RunsTyped, Consumption
  <2>2. consumed' = consumed
    BY <1>1
  <2> QED
    BY ONLY <2>1, <2>2
<1> QED
  BY <1>1, <1>4, <1>5 DEF Grows, SameRun

\* Attaching begins with a blank ledger.
LEMMA BeginStep ==
  ASSUME RunsTyped, Begin
  PROVE  RunsTyped' /\ BlankLedger' /\ attached' /\ disk' = disk /\ ending' = "none" /\ ~attached
<1>1. PICK observe \in BOOLEAN : Attach(observe)
  BY DEF Begin
<1>2. /\ consumed' = NothingConsumed /\ pending' = pending
      /\ calling' = {} /\ stray' = NothingStray
      /\ exhausted' = {} /\ refused' = {} /\ needsWork' = FALSE /\ degraded' = FALSE
      /\ overreported' = FALSE /\ wrote' = FALSE /\ attached' = TRUE /\ observing' = observe
      /\ disk' = disk /\ ending' = "none" /\ ~attached
  BY <1>1 DEF Begin, Attach
<1>3. NothingConsumed \in [Stages -> Consumption]
  BY DEF NothingConsumed, Consumption
<1>4. RunsTyped'
  BY <1>2, <1>3 DEF RunsTyped, NothingStray
<1> QED
  BY <1>2, <1>4 DEF BlankLedger, NothingStray

\* What ends a run leaves the memory as it is.
LEMMA EndStep ==
  ASSUME RunsTyped, Die \/ \E written \in BOOLEAN : End(written)
  PROVE  /\ RunsTyped' /\ ~attached' /\ attached
         /\ UNCHANGED <<consumed, exhausted, needsWork, refused, degraded>>
         /\ \/ disk' = disk /\ wrote' = wrote /\ ending' # "saved"
            \/ disk' = LedgerSnapshot' /\ wrote' /\ ending' = "saved"
<1>1. CASE Die
  BY <1>1 DEF Die, LedgerCrash, runHistory, RunsTyped
<1>2. CASE \E written \in BOOLEAN : End(written)
  <2>1. PICK written \in BOOLEAN : End(written)
    BY <1>2
  <2>2. /\ attached /\ attached' = FALSE
        /\ UNCHANGED <<observing, consumed, exhausted, needsWork, pending>>
        /\ UNCHANGED <<calling, refused, degraded, overreported, stray>>
        /\ disk' = IF written THEN LedgerSnapshot' ELSE disk
        /\ wrote' = (wrote \/ written)
        /\ ending' = IF written THEN "saved" ELSE "unsaved"
    BY <2>1 DEF End, Detach, Write, runHistory
  <2>3. RunsTyped'
    BY <2>2 DEF RunsTyped
  <2>4. CASE written
    BY <2>2, <2>3, <2>4
  <2>5. CASE ~written
    <3>1. wrote' = wrote
      BY <2>2, <2>5 DEF RunsTyped
    <3> QED
      BY <2>2, <2>3, <2>5, <3>1
  <2> QED
    BY <2>4, <2>5
<1> QED
  BY <1>1, <1>2

-----------------------------------------------------------------------------
(* What is reserved, and the limits.                                       *)

\* In an attached ledger the reservations are the tokens in flight and those that
\* abandoned calls have left.
ReservedExact ==
  attached => \A s \in Stages :
                /\ IsFiniteSet(Units(Open, s))
                /\ consumed[s].reserved = Cardinality(Units(Open, s)) + stray[s]

\* The limits hold because a reservation that is settled covers its charge, which
\* needs the reservations to be exact.
AccountsInv == RunsTyped /\ ReservedExact /\ StageLimitsHold

LEMMA InitTyped == RunsInit => RunsTyped /\ ~attached /\ ~wrote /\ ending = "none"
<1> SUFFICES ASSUME RunsInit PROVE RunsTyped /\ ~attached /\ ~wrote /\ ending = "none"
  OBVIOUS
<1>1. NothingConsumed \in [Stages -> Consumption]
  BY DEF NothingConsumed, Consumption
<1> QED
  BY <1>1 DEF RunsInit, LedgerInit, RunsTyped, NothingStray

LEMMA AccountsInit == RunsInit => AccountsInv
BY InitTyped DEF AccountsInv, ReservedExact, StageLimitsHold

LEMMA AccountsBooked ==
  ASSUME AccountsInv, NEW t \in Threads, NEW s \in Stages, NEW ceiling \in Ceilings,
         NEW written \in BOOLEAN, Start(t, s, ceiling, written)
  PROVE  AccountsInv'
<1>1. /\ RunsTyped /\ RunsTyped' /\ Books(t, s, ceiling) /\ Open[t] = NotPending
      /\ attached /\ attached' = attached /\ observing' = observing
      /\ (observing \/ Admitted(s, ceiling)) /\ overreported' = overreported
  BY StartStep DEF AccountsInv, Grows, SameRun
<1>2. ceiling \in Nat
  BY LedgerAssumption
<1>3. \A x \in Stages : IsFiniteSet(Units(Open, x))
                        /\ consumed[x].reserved = Cardinality(Units(Open, x)) + stray[x]
  BY <1>1 DEF AccountsInv, ReservedExact
<1>4. ReservedExact'
  <2>1. ASSUME NEW x \in Stages
        PROVE  IsFiniteSet(Units(Open', x))
               /\ consumed'[x].reserved = Cardinality(Units(Open', x)) + stray'[x]
    <3>1. /\ IsFiniteSet(Units(Open', x))
          /\ Cardinality(Units(Open', x))
               = Cardinality(Units(Open, x)) + IF x = s THEN ceiling ELSE 0
      <4>1. Open \in [Threads -> Booking \cup {NotPending}]
        BY <1>1, OpenTyped
      <4>2. /\ Open'[t] = [stage |-> s, ceiling |-> ceiling]
            /\ \A y \in Threads : y # t => Open'[y] = Open[y]
        BY <1>1 DEF Books
      <4>3. IsFiniteSet(Units(Open, x))
        BY <1>3
      <4> QED
        BY <1>1, <4>1, <4>2, <4>3, UnitsBooked
    <3>2. /\ consumed'[x].reserved = consumed[x].reserved + IF x = s THEN ceiling ELSE 0
          /\ stray'[x] = stray[x]
      BY <1>1 DEF Books
    <3>3. Cardinality(Units(Open, x)) \in Nat /\ stray[x] \in Nat
      BY <1>1, <1>3, FS_CardinalityType DEF RunsTyped
    <3> HIDE DEF Units
    <3> QED
      BY <1>2, <1>3, <3>1, <3>2, <3>3
  <2> QED
    BY <2>1 DEF ReservedExact
<1>5. StageLimitsHold'
  <2>1. SUFFICES ASSUME ~observing, ~overreported, NEW x \in Stages
                 PROVE  /\ consumed'[x].calls <= CallLimit[x]
                        /\ consumed'[x].tokens + consumed'[x].reserved <= TokenLimit[x]
    BY <1>1 DEF StageLimitsHold
  <2>2. /\ consumed[x].calls <= CallLimit[x]
        /\ consumed[x].tokens + consumed[x].reserved <= TokenLimit[x]
    BY <1>1, <2>1 DEF AccountsInv, StageLimitsHold
  <2>3. /\ CallLimit[x] \in Nat /\ TokenLimit[x] \in Nat
        /\ consumed[x].calls \in Nat /\ consumed[x].tokens \in Nat /\ consumed[x].reserved \in Nat
    BY <1>1, LedgerAssumption DEF RunsTyped, Consumption
  <2>4. /\ consumed[s].calls < CallLimit[s]
        /\ consumed[s].tokens + consumed[s].reserved + ceiling <= TokenLimit[s]
    BY <1>1, <2>1 DEF Admitted, CallsFit, TokensFit
  <2>5. /\ consumed'[x].calls = consumed[x].calls + IF x = s THEN 1 ELSE 0
        /\ consumed'[x].reserved = consumed[x].reserved + IF x = s THEN ceiling ELSE 0
        /\ consumed'[x].tokens = consumed[x].tokens
    BY <1>1 DEF Books
  <2>6. CASE x = s
    <3>1. /\ consumed'[x].calls = consumed[x].calls + 1
          /\ consumed'[x].reserved = consumed[x].reserved + ceiling
          /\ consumed[x].calls < CallLimit[x]
          /\ consumed[x].tokens + consumed[x].reserved + ceiling <= TokenLimit[x]
      BY <2>4, <2>5, <2>6
    <3> QED
      BY ONLY <1>2, <2>3, <2>5, <3>1
  <2>7. CASE x # s
    BY <2>2, <2>3, <2>5, <2>7
  <2> QED
    BY <2>6, <2>7
<1> QED
  BY <1>1, <1>4, <1>5 DEF AccountsInv

LEMMA AccountsSettled ==
  ASSUME AccountsInv, RunsTyped', SameRun, attached, NEW t \in Threads, Open[t] # NotPending,
         NEW charge \in Nat, Settles(t, charge),
         ~overreported' => ~overreported /\ charge <= Open[t].ceiling
  PROVE  AccountsInv'
<1>1. /\ RunsTyped /\ attached' = attached /\ observing' = observing
      /\ Open \in [Threads -> Booking \cup {NotPending}]
      /\ Open' \in [Threads -> Booking \cup {NotPending}]
      /\ stray \in [Stages -> Nat] /\ stray' = stray
  <2>1. RunsTyped /\ attached' = attached /\ observing' = observing
    BY DEF AccountsInv, SameRun
  <2>2. Open \in [Threads -> Booking \cup {NotPending}]
    BY <2>1, OpenTyped
  <2>3. Open' \in [Threads -> Booking \cup {NotPending}]
    BY DEF RunsTyped, Open
  <2> QED
    BY <2>1, <2>2, <2>3 DEF RunsTyped, Settles
<1>2. Open[t].stage \in Stages /\ Open[t].ceiling \in Nat
  BY <1>1, LedgerAssumption DEF Booking
<1>3. ASSUME NEW x \in Stages
      PROVE  /\ IsFiniteSet(Units(Open', x))
             /\ consumed[x].reserved
                  = Cardinality(Units(Open', x)) + stray[x]
                      + IF x = Open[t].stage THEN Open[t].ceiling ELSE 0
             /\ stray[x] \in Nat
             /\ Cardinality(Units(Open', x)) \in Nat
  <2>1. IsFiniteSet(Units(Open, x)) /\ consumed[x].reserved = Cardinality(Units(Open, x)) + stray[x]
    BY DEF AccountsInv, ReservedExact
  <2>2. Open'[t] = NotPending /\ \A y \in Threads : y # t => Open'[y] = Open[y]
    BY DEF Settles
  <2>3. /\ IsFiniteSet(Units(Open', x))
        /\ Cardinality(Units(Open, x))
             = Cardinality(Units(Open', x)) + IF x = Open[t].stage THEN Open[t].ceiling ELSE 0
        /\ Cardinality(Units(Open', x)) \in Nat
    BY <1>1, <2>1, <2>2, UnitsSettled
  <2>4. stray[x] \in Nat
    BY <1>1
  <2> HIDE DEF Units
  <2> QED
    BY <1>2, <2>1, <2>3, <2>4
<1>4. ASSUME NEW x \in Stages
      PROVE  consumed'[x].reserved = Cardinality(Units(Open', x)) + stray[x]
  <2>1. consumed'[x].reserved = IF x = Open[t].stage
                                THEN Less(consumed[x].reserved, Open[t].ceiling)
                                ELSE consumed[x].reserved
    BY DEF Settles
  <2>2. CASE x = Open[t].stage
    <3>1. /\ consumed[x].reserved = Cardinality(Units(Open', x)) + stray[x] + Open[t].ceiling
          /\ stray[x] \in Nat
          /\ Cardinality(Units(Open', x)) \in Nat
      BY <1>3, <2>2
    <3>2. consumed'[x].reserved = Less(consumed[x].reserved, Open[t].ceiling)
      BY <2>1, <2>2
    <3> QED
      BY ONLY <1>2, <3>1, <3>2 DEF Less
  <2>3. CASE x # Open[t].stage
    <3>1. /\ consumed[x].reserved = Cardinality(Units(Open', x)) + stray[x] + 0
          /\ stray[x] \in Nat
          /\ Cardinality(Units(Open', x)) \in Nat
      BY <1>3, <2>3
    <3>2. consumed'[x].reserved = consumed[x].reserved
      BY <2>1, <2>3
    <3> QED
      BY ONLY <3>1, <3>2
  <2> QED
    BY <2>2, <2>3
<1>5. ReservedExact'
  BY <1>1, <1>3, <1>4 DEF ReservedExact
<1>6. StageLimitsHold'
  <2>1. SUFFICES ASSUME ~observing, ~overreported', NEW x \in Stages
                 PROVE  /\ consumed'[x].calls <= CallLimit[x]
                        /\ consumed'[x].tokens + consumed'[x].reserved <= TokenLimit[x]
    BY <1>1 DEF StageLimitsHold
  <2>2. /\ consumed[x].calls <= CallLimit[x]
        /\ consumed[x].tokens + consumed[x].reserved <= TokenLimit[x]
    BY <2>1 DEF AccountsInv, StageLimitsHold
  <2>3. TokenLimit[x] \in Nat /\ consumed[x].tokens \in Nat
    BY <1>1, LedgerAssumption DEF RunsTyped, Consumption
  <2>4. charge <= Open[t].ceiling
    BY <2>1
  <2>5. /\ consumed'[x].calls = consumed[x].calls
        /\ consumed'[x].tokens = consumed[x].tokens + IF x = Open[t].stage THEN charge ELSE 0
    BY DEF Settles
  <2>6. /\ consumed'[x].reserved = Cardinality(Units(Open', x)) + stray[x]
        /\ Cardinality(Units(Open', x)) \in Nat /\ stray[x] \in Nat
        /\ consumed[x].reserved = Cardinality(Units(Open', x)) + stray[x]
                                    + IF x = Open[t].stage THEN Open[t].ceiling ELSE 0
    BY <1>3, <1>4
  <2> HIDE DEF Units
  <2>7. consumed'[x].tokens + consumed'[x].reserved <= TokenLimit[x]
    BY ONLY <1>2, <2>2, <2>3, <2>4, <2>5, <2>6, charge \in Nat
  <2> QED
    BY <2>2, <2>5, <2>7
<1> QED
  BY <1>5, <1>6 DEF AccountsInv

\* The call of thread t is left as it is, with its reservation.
LEMMA AccountsAbandoned ==
  ASSUME AccountsInv, NEW t \in Threads, Abandon(t)
  PROVE  AccountsInv'
<1>1. /\ RunsTyped /\ attached /\ t \in calling /\ calling' = calling \ {t}
      /\ stray' = [stray EXCEPT ![pending[t].stage] = @ + pending[t].ceiling]
      /\ UNCHANGED <<attached, observing, consumed, pending, overreported>>
  BY DEF AccountsInv, Abandon, ledgerVars
<1>2. RunsTyped'
  BY AbandonStep DEF AccountsInv
<1>3. StageLimitsHold'
  BY <1>1 DEF AccountsInv, StageLimitsHold
<1>4. /\ Open \in [Threads -> Booking \cup {NotPending}]
      /\ Open[t] = pending[t] /\ Open'[t] = NotPending
      /\ \A y \in Threads : y # t => Open'[y] = Open[y]
  BY <1>1, OpenTyped DEF RunsTyped, Open
<1>5. Open' \in [Threads -> Booking \cup {NotPending}]
  BY <1>2 DEF RunsTyped, Open
<1>6. Open[t] # NotPending
  BY <1>1, <1>4 DEF Abandon
<1>7. Open[t].stage \in Stages /\ Open[t].ceiling \in Nat
  BY <1>4, <1>6, LedgerAssumption DEF Booking
<1>8. ASSUME NEW x \in Stages
      PROVE  /\ IsFiniteSet(Units(Open', x))
             /\ consumed'[x].reserved = Cardinality(Units(Open', x)) + stray'[x]
  <2>1. IsFiniteSet(Units(Open, x)) /\ consumed[x].reserved = Cardinality(Units(Open, x)) + stray[x]
    BY <1>1 DEF AccountsInv, ReservedExact
  <2>2. /\ IsFiniteSet(Units(Open', x))
        /\ Cardinality(Units(Open, x))
             = Cardinality(Units(Open', x)) + IF x = Open[t].stage THEN Open[t].ceiling ELSE 0
        /\ Cardinality(Units(Open', x)) \in Nat
    BY <1>4, <1>5, <1>6, <2>1, UnitsSettled
  <2>3. /\ stray[x] \in Nat /\ consumed' = consumed
        /\ stray'[x] = stray[x] + IF x = Open[t].stage THEN Open[t].ceiling ELSE 0
    BY <1>1, <1>4, <1>7 DEF RunsTyped
  <2> HIDE DEF Units
  <2> QED
    BY <1>7, <2>1, <2>2, <2>3
<1> QED
  BY <1>2, <1>3, <1>8 DEF AccountsInv, ReservedExact

LEMMA AccountsUntouched ==
  ASSUME AccountsInv, RunsTyped', SameAccounts, SameRun, overreported' = overreported
  PROVE  AccountsInv'
BY DEF AccountsInv, SameAccounts, SameRun, ReservedExact, StageLimitsHold

LEMMA AccountsBlank ==
  ASSUME RunsTyped', BlankLedger'
  PROVE  AccountsInv'
<1>1. \A t \in Threads : Open'[t] = NotPending
  BY DEF BlankLedger, Open
<1>2. \A s \in Stages : IsFiniteSet(Units(Open', s)) /\ Cardinality(Units(Open', s)) = 0
  BY <1>1, UnitsNone
<1>3. \A s \in Stages : /\ consumed'[s].calls = 0 /\ consumed'[s].tokens = 0
                        /\ consumed'[s].reserved = 0 /\ stray'[s] = 0
  BY DEF BlankLedger, NothingConsumed, NothingStray
<1>4. \A s \in Stages : CallLimit[s] \in Nat /\ TokenLimit[s] \in Nat
  BY LedgerAssumption
<1>5. StageLimitsHold'
  BY <1>3, <1>4 DEF StageLimitsHold
<1>6. ReservedExact'
  BY <1>2, <1>3 DEF ReservedExact
<1> QED
  BY <1>5, <1>6 DEF AccountsInv

LEMMA AccountsStep == AccountsInv /\ [RunsNext]_runVars => AccountsInv'
<1> SUFFICES ASSUME AccountsInv, [RunsNext]_runVars PROVE AccountsInv'
  OBVIOUS
<1>0. RunsTyped
  BY DEF AccountsInv
<1>1. CASE Begin
  BY <1>0, <1>1, BeginStep, AccountsBlank
<1>2. CASE Die \/ \E written \in BOOLEAN : End(written)
  <2>1. RunsTyped' /\ ~attached'
    BY <1>0, <1>2, EndStep
  <2> QED
    BY <2>1 DEF AccountsInv, ReservedExact, StageLimitsHold
<1>3. CASE \E t \in Threads, s \in Stages, ceiling \in Ceilings : Refuse(t, s, ceiling)
  BY <1>0, <1>3, RefuseStep, AccountsUntouched
<1>4. CASE \E t \in Threads, s \in Stages, ceiling \in Ceilings, written \in BOOLEAN :
             Start(t, s, ceiling, written)
  BY <1>4, AccountsBooked
<1>5. CASE \E t \in Threads, usage \in Reports \cup {Untrusted}, written \in BOOLEAN :
             Finish(t, usage, written)
  <2>1. PICK t \in Threads, usage \in Reports \cup {Untrusted}, written \in BOOLEAN :
          Finish(t, usage, written)
    BY <1>5
  <2>2. /\ RunsTyped' /\ SameRun /\ attached /\ Open[t] # NotPending
        /\ \E charge \in Nat :
             /\ Settles(t, charge)
             /\ ~overreported' => ~overreported /\ charge <= Open[t].ceiling
    BY <1>0, <2>1, FinishStep DEF Grows
  <2> QED
    BY <2>2, AccountsSettled
<1>6. CASE \E t \in Threads, written \in BOOLEAN : FinishFailed(t, written)
  <2>1. PICK t \in Threads, written \in BOOLEAN : FinishFailed(t, written)
    BY <1>6
  <2>2. /\ RunsTyped' /\ SameRun /\ attached /\ Open[t] # NotPending
        /\ Open[t].ceiling \in Nat /\ Settles(t, Open[t].ceiling)
        /\ overreported' = overreported
    BY <1>0, <2>1, FinishFailedStep DEF Grows
  <2>3. Open[t].ceiling <= Open[t].ceiling
    BY <2>2
  <2> QED
    BY <2>2, <2>3, AccountsSettled
<1>7. CASE \E written \in BOOLEAN : Traffic(written) \/ \E s \in Stages : Degrade(s, written)
  BY <1>0, <1>7, QuietStep, AccountsUntouched
<1>8. CASE \E t \in Threads : Abandon(t)
  BY <1>8, AccountsAbandoned
<1>9. CASE UNCHANGED runVars
  BY <1>9 DEF runVars, ledgerVars, runHistory, AccountsInv, RunsTyped, ReservedExact,
              StageLimitsHold, Units, Open
<1> QED
  BY <1>1, <1>2, <1>3, <1>4, <1>5, <1>6, <1>7, <1>8, <1>9 DEF RunsNext

\* From mounting to taking off, what a stage has reserved is what its calls in flight have
\* reserved and what calls left by an exception between intercept and settlement had, for
\* any threads, stages, ceilings, limits and usage reports.
THEOREM ReservedIsAlwaysInFlight == RunsSpec => []ReservedIsInFlight
<1>1. AccountsInv => ReservedIsInFlight
  <2> SUFFICES ASSUME AccountsInv, attached, NEW s \in Stages
               PROVE  consumed[s].reserved = Cardinality(TokensInFlight(s)) + stray[s]
    BY DEF ReservedIsInFlight
  <2>1. {x \in Threads : Open[x] # NotPending /\ Open[x].stage = s} = CallersOf(s)
    BY DEF AccountsInv, RunsTyped, Open, CallersOf
  <2>2. \A x \in CallersOf(s) : {x} \X (1..Open[x].ceiling) = {x} \X (1..pending[x].ceiling)
    BY DEF AccountsInv, RunsTyped, Open, CallersOf
  <2>3. Units(Open, s) = TokensInFlight(s)
    BY <2>1, <2>2 DEF Units, TokensInFlight
  <2> QED
    BY <2>3 DEF AccountsInv, ReservedExact
<1> QED
  BY <1>1, AccountsInit, AccountsStep, PTL DEF RunsSpec

\* A ledger that blocks keeps every stage within its limits, reserved tokens counted,
\* until a provider reports more than the ceiling that was announced.
THEOREM StageLimitsAlwaysHold == RunsSpec => []StageLimitsHold
<1>1. AccountsInv => StageLimitsHold
  BY DEF AccountsInv
<1> QED
  BY <1>1, AccountsInit, AccountsStep, PTL DEF RunsSpec

-----------------------------------------------------------------------------
(* What reaches the disk.                                                  *)

\* Every refusal and the stub of the core deliverable have left their marks.
MarksKept ==
  attached => /\ ending = "none" /\ refused \subseteq exhausted
              /\ refused # {} \/ degraded => needsWork

\* What this run has written is no more than what it has in memory.
WrittenBelowMemory ==
  wrote =>
    /\ \A s \in Stages :
         /\ disk.consumed[s].calls <= consumed[s].calls
         /\ disk.consumed[s].tokens <= consumed[s].tokens
         /\ disk.consumed[s].failed <= consumed[s].failed
         /\ disk.consumed[s].calls \in Int /\ disk.consumed[s].tokens \in Int
         /\ disk.consumed[s].failed \in Int
    /\ disk.exhausted \subseteq exhausted
    /\ disk.needsWork => needsWork

\* A saved ledger has the marks because the memory that is saved has them.
RecordInv == RunsTyped /\ MarksKept /\ DegradationIsOnRecord /\ WrittenBelowMemory

LEMMA RecordInit == RunsInit => RecordInv
BY InitTyped DEF RecordInv, MarksKept, DegradationIsOnRecord, WrittenBelowMemory

\* The counters are integers.
LEMMA CountersTyped ==
  ASSUME RunsTyped
  PROVE  \A s \in Stages : /\ consumed[s].calls \in Int /\ consumed[s].tokens \in Int
                           /\ consumed[s].failed \in Int
BY DEF RunsTyped, Consumption

\* What is in memory may be written, at any time.
LEMMA MemoryWritten ==
  ASSUME RunsTyped', disk' = LedgerSnapshot'
  PROVE  WrittenBelowMemory'
<1>1. /\ disk'.consumed = consumed' /\ disk'.exhausted = exhausted' /\ disk'.needsWork = needsWork'
  BY DEF LedgerSnapshot
<1>2. \A s \in Stages : /\ consumed'[s].calls \in Int /\ consumed'[s].tokens \in Int
                        /\ consumed'[s].failed \in Int
  BY DEF RunsTyped, Consumption
<1>3. \A s \in Stages :
        /\ consumed'[s].calls <= consumed'[s].calls
        /\ consumed'[s].tokens <= consumed'[s].tokens
        /\ consumed'[s].failed <= consumed'[s].failed
  BY <1>2
<1> QED
  BY <1>1, <1>2, <1>3 DEF WrittenBelowMemory

\* A step that grows keeps what is written below the memory.
LEMMA GrowthKeepsOrder ==
  ASSUME RunsTyped, RunsTyped', WrittenBelowMemory, Grows
  PROVE  WrittenBelowMemory'
<1>1. CASE disk' = LedgerSnapshot'
  BY <1>1, MemoryWritten
<1>2. CASE wrote' = wrote /\ disk' = disk
  <2>1. SUFFICES ASSUME wrote PROVE WrittenBelowMemory'
    BY <1>2 DEF WrittenBelowMemory
  <2>2. \A s \in Stages :
          /\ disk.consumed[s].calls <= consumed'[s].calls
          /\ disk.consumed[s].tokens <= consumed'[s].tokens
          /\ disk.consumed[s].failed <= consumed'[s].failed
    <3>1. TAKE s \in Stages
    <3>2. /\ disk.consumed[s].calls <= consumed[s].calls
          /\ disk.consumed[s].tokens <= consumed[s].tokens
          /\ disk.consumed[s].failed <= consumed[s].failed
          /\ disk.consumed[s].calls \in Int /\ disk.consumed[s].tokens \in Int
          /\ disk.consumed[s].failed \in Int
      BY <2>1 DEF WrittenBelowMemory
    <3>3. /\ consumed'[s].calls >= consumed[s].calls
          /\ consumed'[s].tokens >= consumed[s].tokens
          /\ consumed'[s].failed >= consumed[s].failed
      BY DEF Grows
    <3>4. /\ consumed[s].calls \in Int /\ consumed[s].tokens \in Int /\ consumed[s].failed \in Int
          /\ consumed'[s].calls \in Int /\ consumed'[s].tokens \in Int
          /\ consumed'[s].failed \in Int
      BY DEF RunsTyped, Consumption
    <3> QED
      BY ONLY <3>2, <3>3, <3>4
  <2>3. disk.exhausted \subseteq exhausted' /\ (disk.needsWork => needsWork')
    BY <2>1 DEF WrittenBelowMemory, Grows
  <2>4. \A s \in Stages : /\ disk.consumed[s].calls \in Int /\ disk.consumed[s].tokens \in Int
                          /\ disk.consumed[s].failed \in Int
    BY <2>1 DEF WrittenBelowMemory
  <2> QED
    BY <1>2, <2>2, <2>3, <2>4 DEF WrittenBelowMemory
<1> QED
  BY <1>1, <1>2 DEF Grows

\* A step of a run that keeps the order keeps the record, given its marks.
LEMMA RecordGrows ==
  ASSUME RecordInv, RunsTyped', Grows, SameRun,
         refused' \subseteq refused \cup exhausted',
         refused' # {} => refused # {} \/ needsWork',
         degraded' => degraded \/ needsWork'
  PROVE  RecordInv'
<1>1. MarksKept'
  BY DEF RecordInv, MarksKept, Grows, SameRun
<1>2. DegradationIsOnRecord'
  BY DEF RecordInv, MarksKept, Grows, SameRun, DegradationIsOnRecord
<1>3. WrittenBelowMemory'
  BY GrowthKeepsOrder DEF RecordInv
<1> QED
  BY <1>1, <1>2, <1>3 DEF RecordInv

\* Every step of the ledger begins a run, ends one, or grows; only the ledger's
\* own checkpoints touch the disk.
LEMMA StepKinds ==
  ASSUME RunsTyped, RunsNext
  PROVE  \/ Begin
         \/ Die \/ \E written \in BOOLEAN : End(written)
         \/ /\ RunsTyped' /\ Grows /\ SameRun
            /\ refused' \subseteq refused \cup exhausted'
            /\ refused' # {} => refused # {} \/ needsWork'
            /\ degraded' => degraded \/ needsWork'
<1>1. CASE \E t \in Threads, s \in Stages, ceiling \in Ceilings : Refuse(t, s, ceiling)
  BY <1>1, RefuseStep
<1>2. CASE \E t \in Threads, s \in Stages, ceiling \in Ceilings, written \in BOOLEAN :
             Start(t, s, ceiling, written)
  BY <1>2, StartStep
<1>3. CASE \E t \in Threads, usage \in Reports \cup {Untrusted}, written \in BOOLEAN :
             Finish(t, usage, written)
  BY <1>3, FinishStep
<1>4. CASE \E t \in Threads, written \in BOOLEAN : FinishFailed(t, written)
  BY <1>4, FinishFailedStep
<1>5. CASE \E written \in BOOLEAN : Traffic(written) \/ \E s \in Stages : Degrade(s, written)
  BY <1>5, QuietStep
<1>6. CASE \E t \in Threads : Abandon(t)
  BY <1>6, AbandonStep
<1> QED
  BY <1>1, <1>2, <1>3, <1>4, <1>5, <1>6 DEF RunsNext

LEMMA RecordStep == RecordInv /\ [RunsNext]_runVars => RecordInv'
<1> SUFFICES ASSUME RecordInv, [RunsNext]_runVars PROVE RecordInv'
  OBVIOUS
<1>0. RunsTyped
  BY DEF RecordInv
<1>1. CASE Begin
  <2>1. RunsTyped' /\ BlankLedger' /\ ending' = "none"
    BY <1>0, <1>1, BeginStep
  <2> QED
    BY <2>1 DEF BlankLedger, RecordInv, MarksKept, DegradationIsOnRecord, WrittenBelowMemory
<1>2. CASE Die \/ \E written \in BOOLEAN : End(written)
  <2>1. /\ RunsTyped' /\ ~attached' /\ attached
        /\ UNCHANGED <<consumed, exhausted, needsWork, refused, degraded>>
        /\ \/ disk' = disk /\ wrote' = wrote /\ ending' # "saved"
           \/ disk' = LedgerSnapshot' /\ wrote' /\ ending' = "saved"
    BY <1>0, <1>2, EndStep
  <2>2. MarksKept'
    BY <2>1 DEF MarksKept
  <2>3. CASE disk' = disk /\ wrote' = wrote /\ ending' # "saved"
    BY <2>1, <2>2, <2>3 DEF RecordInv, DegradationIsOnRecord, WrittenBelowMemory
  <2>4. CASE disk' = LedgerSnapshot' /\ wrote' /\ ending' = "saved"
    <3>1. WrittenBelowMemory'
      BY <2>1, <2>4, MemoryWritten
    <3>2. disk'.exhausted = exhausted' /\ disk'.needsWork = needsWork'
      BY <2>4 DEF LedgerSnapshot
    <3>3. DegradationIsOnRecord'
      BY <2>1, <3>2 DEF RecordInv, MarksKept, DegradationIsOnRecord
    <3> QED
      BY <2>1, <2>2, <3>1, <3>3 DEF RecordInv
  <2> QED
    BY <2>1, <2>3, <2>4
<1>3. CASE /\ RunsTyped' /\ Grows /\ SameRun
           /\ refused' \subseteq refused \cup exhausted'
           /\ refused' # {} => refused # {} \/ needsWork'
           /\ degraded' => degraded \/ needsWork'
  BY <1>3, RecordGrows
<1>4. CASE UNCHANGED runVars
  BY <1>4 DEF runVars, ledgerVars, runHistory, RecordInv, RunsTyped, MarksKept,
              DegradationIsOnRecord, WrittenBelowMemory
<1> QED
  BY <1>0, <1>1, <1>2, <1>3, <1>4, StepKinds

\* "No silent pass" for every run: a ledger that is saved after a refusal or after the
\* stub of the core deliverable demands more work.
THEOREM DegradationIsAlwaysOnRecord == RunsSpec => []DegradationIsOnRecord
<1>1. RecordInv => DegradationIsOnRecord
  BY DEF RecordInv
<1> QED
  BY <1>1, RecordInit, RecordStep, PTL DEF RunsSpec

\* The checkpoints of one run that reach the disk only add to one another.
THEOREM CheckpointsAlwaysAddUp == RunsSpec => CheckpointsAddUp
<1> DEFINE
  Added == wrote =>
    /\ \A s \in Stages :
         /\ disk'.consumed[s].calls >= disk.consumed[s].calls
         /\ disk'.consumed[s].tokens >= disk.consumed[s].tokens
         /\ disk'.consumed[s].failed >= disk.consumed[s].failed
    /\ disk.exhausted \subseteq disk'.exhausted
    /\ disk.needsWork => disk'.needsWork
<1>1. ASSUME RecordInv, RecordInv', [RunsNext]_runVars PROVE [Added]_disk
  <2>1. SUFFICES ASSUME disk' # disk, wrote PROVE Added
    OBVIOUS
  <2>2. RunsTyped /\ RunsTyped' /\ WrittenBelowMemory
    BY <1>1 DEF RecordInv
  <2>3. RunsNext
    BY <1>1, <2>1 DEF runVars, ledgerVars
  <2>4. ~Begin
    BY <2>1, <2>2, BeginStep
  <2>5. /\ disk'.consumed = consumed' /\ disk'.exhausted = exhausted' /\ disk'.needsWork = needsWork'
    <3>1. disk' = LedgerSnapshot'
      <4>1. CASE Grows
        BY <2>1, <4>1 DEF Grows
      <4>2. CASE Die \/ \E written \in BOOLEAN : End(written)
        BY <2>1, <2>2, <4>2, EndStep
      <4> QED
        BY <2>2, <2>3, <2>4, <4>1, <4>2, StepKinds
    <3> QED
      BY <3>1 DEF LedgerSnapshot
  <2>6. /\ \A s \in Stages :
             /\ consumed'[s].calls >= consumed[s].calls
             /\ consumed'[s].tokens >= consumed[s].tokens
             /\ consumed'[s].failed >= consumed[s].failed
        /\ exhausted \subseteq exhausted' /\ (needsWork => needsWork')
    <3>1. CASE Grows
      BY <3>1 DEF Grows
    <3>2. CASE Die \/ \E written \in BOOLEAN : End(written)
      <4>1. consumed' = consumed /\ exhausted' = exhausted /\ needsWork' = needsWork
        BY <2>2, <3>2, EndStep
      <4>2. \A s \in Stages : /\ consumed[s].calls >= consumed[s].calls
                              /\ consumed[s].tokens >= consumed[s].tokens
                              /\ consumed[s].failed >= consumed[s].failed
        BY <2>2, CountersTyped
      <4> QED
        BY <4>1, <4>2
    <3> QED
      BY <2>2, <2>3, <2>4, <3>1, <3>2, StepKinds
  <2>7. ASSUME NEW s \in Stages
        PROVE  /\ disk'.consumed[s].calls >= disk.consumed[s].calls
               /\ disk'.consumed[s].tokens >= disk.consumed[s].tokens
               /\ disk'.consumed[s].failed >= disk.consumed[s].failed
    <3>1. /\ disk.consumed[s].calls <= consumed[s].calls
          /\ disk.consumed[s].tokens <= consumed[s].tokens
          /\ disk.consumed[s].failed <= consumed[s].failed
          /\ disk.consumed[s].calls \in Int /\ disk.consumed[s].tokens \in Int
          /\ disk.consumed[s].failed \in Int
      BY <2>1, <2>2 DEF WrittenBelowMemory
    <3>2. /\ consumed[s].calls \in Int /\ consumed[s].tokens \in Int /\ consumed[s].failed \in Int
          /\ consumed'[s].calls \in Int /\ consumed'[s].tokens \in Int
          /\ consumed'[s].failed \in Int
      BY <2>2 DEF RunsTyped, Consumption
    <3>3. /\ consumed'[s].calls >= consumed[s].calls
          /\ consumed'[s].tokens >= consumed[s].tokens
          /\ consumed'[s].failed >= consumed[s].failed
      BY <2>6
    <3>4. /\ consumed'[s].calls >= disk.consumed[s].calls
          /\ consumed'[s].tokens >= disk.consumed[s].tokens
          /\ consumed'[s].failed >= disk.consumed[s].failed
      BY ONLY <3>1, <3>2, <3>3
    <3> QED
      BY <2>5, <3>4
  <2>8. disk.exhausted \subseteq disk'.exhausted /\ (disk.needsWork => disk'.needsWork)
    BY <2>1, <2>2, <2>5, <2>6 DEF WrittenBelowMemory
  <2> QED
    BY <2>7, <2>8
<1> QED
  BY <1>1, RecordInit, RecordStep, PTL DEF RunsSpec, CheckpointsAddUp
=============================================================================
