------------------------- MODULE EffectiveFold_proofs -------------------------
(***************************************************************************)
(* That a decision is answered only when a fold has it in view, that no    *)
(* fold is run in vain and that no track is passed over twice, for every   *)
(* set of decisions and every limit on the passes of an owner.             *)
(***************************************************************************)
EXTENDS EffectiveFold, FiniteSetTheorems, TLAPS

InWait == {"awake", "asleep"}

\* Numbers in use have been allocated, and the next one covers whoever waits.
NumbersAllocated ==
  /\ \A r \in Tracks : completed[r] <= last
  /\ \A d \in Decisions : target[d] <= last + 1 /\ number[d] <= last

\* An owner begins no pass beyond the limit; whoever owns nothing has run none.
PassesLeft ==
  \A d \in Decisions :
    /\ pc[d] = "slot" => passes[d] < DrainPasses
    /\ pc[d] \notin {"slot", "folding", "leaving"} => passes[d] = 0

\* A decision in wait whose target has been reached is folded.
CompletedFolds ==
  \A e \in Decisions :
    pc[e] \in InWait /\ target[e] <= completed[TrackOf[e]] => e \in folded

\* A pass has its owner in view, and whoever waits for its number or a lower one.
PassSeesItsWaiters ==
  \A d \in Decisions : pc[d] = "folding" =>
    /\ d \in view[d]
    /\ \A e \in Decisions :
         TrackOf[e] = TrackOf[d] /\ pc[e] \in InWait /\ target[e] <= number[d]
           => e \in view[d]

OwnerIsFolded == \A d \in Decisions : pc[d] = "leaving" => d \in folded

\* The inductive invariant.  CoverIsFresh alone is not inductive: what a return relies
\* on is that the counter of completed passes never runs ahead of what was folded.
FoldInv ==
  /\ FoldTypeOK /\ SingleFlight
  /\ NumbersAllocated /\ PassesLeft
  /\ CompletedFolds /\ PassSeesItsWaiters /\ OwnerIsFolded
  /\ CoverIsFresh

\* One decision goes to a place; of the others, some that slept are awake.
Moved(d, place) ==
  /\ pc' \in [Decisions -> Places]
  /\ pc'[d] = place
  /\ \A e \in Decisions \ {d} :
       pc'[e] # pc[e] => pc[e] = "asleep" /\ pc'[e] = "awake"

LEMMA GotoMoves ==
  ASSUME FoldTypeOK, NEW d \in Decisions, NEW place \in Places, Goto(d, place)
  PROVE  Moved(d, place)
<1>1. pc \in [Decisions -> Places] /\ pc' = [pc EXCEPT ![d] = place]
  BY DEF FoldTypeOK, Goto
<1>2. pc' \in [Decisions -> Places]
  BY <1>1
<1>3. pc'[d] = place /\ \A e \in Decisions \ {d} : pc'[e] = pc[e]
  BY <1>1
<1> QED
  BY <1>2, <1>3 DEF Moved

LEMMA NotifiedMoves ==
  ASSUME FoldTypeOK, NEW d \in Decisions, NEW place \in Places \ {"asleep"},
         pc' = Notified([pc EXCEPT ![d] = place])
  PROVE  Moved(d, place)
<1>1. pc \in [Decisions -> Places]
  BY DEF FoldTypeOK
<1>2. pc' = [e \in Decisions |->
               IF [pc EXCEPT ![d] = place][e] = "asleep" THEN "awake"
                                                          ELSE [pc EXCEPT ![d] = place][e]]
  BY DEF Notified
<1>3. pc'[d] = place
  BY <1>1, <1>2
<1>4. \A e \in Decisions \ {d} : pc'[e] = IF pc[e] = "asleep" THEN "awake" ELSE pc[e]
  BY <1>1, <1>2
<1>5. \A e \in Decisions : pc'[e] \in Places
  BY <1>1, <1>3, <1>4 DEF Places
<1>6. pc' \in [Decisions -> Places]
  BY <1>2, <1>5
<1> QED
  BY <1>3, <1>4, <1>6 DEF Moved

\* What the end of a call leaves of its locals.
LEMMA Forgotten ==
  ASSUME FoldTypeOK, NEW d \in Decisions, Forget(d)
  PROVE  /\ target' \in [Decisions -> Nat] /\ number' \in [Decisions -> Nat]
         /\ passes' \in [Decisions -> 0..DrainPasses] /\ overtaken' \in [Decisions -> Nat]
         /\ target'[d] = 0 /\ number'[d] = 0 /\ passes'[d] = 0
         /\ \A e \in Decisions \ {d} :
              target'[e] = target[e] /\ number'[e] = number[e] /\ passes'[e] = passes[e]
         /\ view' = view /\ folded' = folded
  BY FoldAssumption DEF FoldTypeOK, Forget

\* The end of a wait or of an ownership disturbs nothing, if the decision is folded or
\* the call timed out.
LEMMA EndStep ==
  ASSUME FoldInv, NEW d \in Decisions, NEW place \in {"done", "timedOut"},
         Moved(d, place), Forget(d),
         place = "done" => d \in folded,
         UNCHANGED <<dirty, last, completed>>,
         preferred' \in Tracks \cup {Nobody},
         \/ pc[d] \in InWait /\ UNCHANGED inFlight
         \/ pc[d] = "leaving" /\ inFlight' = Nobody
  PROVE  FoldInv'
<1> USE DEF FoldInv
<1>a. /\ target' \in [Decisions -> Nat] /\ number' \in [Decisions -> Nat]
      /\ passes' \in [Decisions -> 0..DrainPasses] /\ overtaken' \in [Decisions -> Nat]
      /\ target'[d] = 0 /\ number'[d] = 0 /\ passes'[d] = 0
      /\ \A e \in Decisions \ {d} :
           target'[e] = target[e] /\ number'[e] = number[e] /\ passes'[e] = passes[e]
      /\ view' = view /\ folded' = folded
  BY Forgotten
<1>b. inFlight' \in Tracks \cup {Nobody}
  BY DEF FoldTypeOK
<1>1. FoldTypeOK'
  BY <1>a, <1>b DEF FoldTypeOK, Moved
<1>2. SingleFlight'
  BY DEF SingleFlight, Owners, Moved, InWait
<1>3. NumbersAllocated'
  BY <1>a DEF NumbersAllocated, FoldTypeOK
<1>4. PassesLeft'
  BY <1>a DEF PassesLeft, Moved
<1>5. CompletedFolds'
  BY <1>a DEF CompletedFolds, Moved, InWait
<1>6. PassSeesItsWaiters'
  BY <1>a DEF PassSeesItsWaiters, Moved, InWait
<1>7. OwnerIsFolded'
  BY <1>a DEF OwnerIsFolded, Moved
<1>8. CoverIsFresh'
  BY <1>a DEF CoverIsFresh, Moved
<1> QED
  BY <1>1, <1>2, <1>3, <1>4, <1>5, <1>6, <1>7, <1>8

\* A wait that ends without the slot, withdraws.
LEMMA WithdrawStep ==
  ASSUME FoldInv, NEW d \in Decisions, NEW place \in {"done", "timedOut"},
         pc[d] \in InWait, Withdraw(d, place), place = "done" => d \in folded
  PROVE  FoldInv'
<1>1. FoldTypeOK
  BY DEF FoldInv
<1>2. place \in Places \ {"asleep"}
  BY DEF Places
<1>3. Moved(d, place) /\ preferred' \in Tracks \cup {Nobody}
  <2>1. CASE preferred = TrackOf[d] /\ Waiting(TrackOf[d]) = {d}
    BY <2>1, <1>1, <1>2, NotifiedMoves DEF Withdraw
  <2>2. CASE ~(preferred = TrackOf[d] /\ Waiting(TrackOf[d]) = {d})
    <3>1. Goto(d, place) /\ preferred' = preferred
      BY <2>2 DEF Withdraw
    <3> QED
      BY <3>1, <1>1, <1>2, GotoMoves DEF FoldTypeOK
  <2> QED
    BY <2>1, <2>2
<1>4. Forget(d) /\ UNCHANGED <<inFlight, dirty, last, completed>>
  BY DEF Withdraw
<1> QED
  BY <1>3, <1>4, EndStep

LEMMA ReturnStep ==
  ASSUME FoldInv, NEW d \in Decisions, pc[d] \in InWait, Return(d)
  PROVE  FoldInv'
<1>1. TrackOf[d] \in Tracks
  BY FoldAssumption
<1>2. target[d] <= completed[TrackOf[d]]
  BY <1>1 DEF FoldInv, FoldTypeOK, Return, Covered
<1>3. d \in folded
  BY <1>2 DEF FoldInv, CompletedFolds
<1> QED
  BY <1>3, WithdrawStep DEF Return

LEMMA DecideStep ==
  ASSUME FoldInv, NEW d \in Decisions, Decide(d)
  PROVE  FoldInv'
<1>1. Moved(d, "decided")
  BY GotoMoves DEF FoldInv, Decide, Places
<1>2. pc[d] = "undecided" /\ UNCHANGED <<coordinator, caller, history>>
  BY DEF Decide
<1> USE DEF FoldInv, coordinator, caller, history
<1>3. FoldTypeOK' /\ NumbersAllocated'
  BY <1>1, <1>2 DEF FoldTypeOK, Moved, NumbersAllocated
<1>4. SingleFlight'
  BY <1>1, <1>2 DEF SingleFlight, Owners, Moved
<1>5. PassesLeft' /\ OwnerIsFolded' /\ CoverIsFresh'
  BY <1>1, <1>2 DEF PassesLeft, OwnerIsFolded, CoverIsFresh, Moved
<1>6. CompletedFolds' /\ PassSeesItsWaiters'
  BY <1>1, <1>2 DEF CompletedFolds, PassSeesItsWaiters, Moved, InWait
<1> QED
  BY <1>3, <1>4, <1>5, <1>6

\* The target lies beyond every number in use: no completed and no running pass covers
\* the decision.
LEMMA RegisterStep ==
  ASSUME FoldInv, NEW d \in Decisions, Register(d)
  PROVE  FoldInv'
<1>1. Moved(d, "awake")
  BY GotoMoves DEF FoldInv, Register, Places
<1>2. /\ pc[d] = "decided"
      /\ target' = [target EXCEPT ![d] = last + 1]
      /\ dirty' = dirty \cup {TrackOf[d]}
      /\ UNCHANGED <<inFlight, preferred, last, completed, passes, number, view, folded, overtaken>>
  BY DEF Register, history
<1>3. TrackOf \in [Decisions -> Tracks]
  BY FoldAssumption
<1> USE DEF FoldInv
<1>4. FoldTypeOK'
  <2>1. dirty' \subseteq Tracks
    BY <1>2, <1>3 DEF FoldTypeOK
  <2>2. target' \in [Decisions -> Nat]
    BY <1>2 DEF FoldTypeOK
  <2> QED
    BY <2>1, <2>2, <1>1, <1>2 DEF FoldTypeOK, Moved
<1>5. target'[d] = last + 1 /\ \A e \in Decisions \ {d} : target'[e] = target[e]
  BY <1>2 DEF FoldTypeOK
<1>6. NumbersAllocated'
  <2>1. last \in Nat /\ last' = last /\ completed' = completed /\ number' = number
    BY <1>2 DEF FoldTypeOK
  <2>2. \A e \in Decisions : target'[e] <= last + 1
    BY <2>1, <1>5 DEF NumbersAllocated
  <2> QED
    BY <2>1, <2>2 DEF NumbersAllocated
<1>7. SingleFlight'
  BY <1>1, <1>2 DEF SingleFlight, Owners, Moved
<1>8. PassesLeft' /\ OwnerIsFolded' /\ CoverIsFresh'
  BY <1>1, <1>2 DEF PassesLeft, OwnerIsFolded, CoverIsFresh, Moved
<1>9. CompletedFolds'
  <2>1. ~(target'[d] <= completed'[TrackOf[d]])
    <3>1. /\ TrackOf[d] \in Tracks /\ last \in Nat
          /\ completed[TrackOf[d]] \in Nat /\ completed[TrackOf[d]] <= last
      BY <1>3 DEF FoldTypeOK, NumbersAllocated
    <3> QED
      BY <3>1, <1>2, <1>5
  <2> QED
    BY <2>1, <1>1, <1>2, <1>5 DEF CompletedFolds, Moved, InWait
<1>10. PassSeesItsWaiters'
  <2>1. \A e \in Decisions : ~(target'[d] <= number'[e])
    <3>1. last \in Nat /\ \A e \in Decisions : number[e] \in Nat /\ number[e] <= last
      BY DEF NumbersAllocated, FoldTypeOK
    <3> QED
      BY <3>1, <1>2, <1>5
  <2> QED
    BY <2>1, <1>1, <1>2, <1>5 DEF PassSeesItsWaiters, Moved, InWait
<1> QED
  BY <1>4, <1>6, <1>7, <1>8, <1>9, <1>10

\* The slot is free, so that nobody owns it.
LEMMA TakeSlotStep ==
  ASSUME FoldInv, NEW d \in Decisions, pc[d] \in InWait, TakeSlot(d)
  PROVE  FoldInv'
<1>1. Moved(d, "slot")
  BY GotoMoves DEF FoldInv, TakeSlot, Places
<1>2. /\ inFlight = Nobody /\ inFlight' = TrackOf[d] /\ preferred' = Nobody
      /\ UNCHANGED <<dirty, last, completed, target, passes, number, view, folded>>
  BY DEF TakeSlot, MayTake, caller
<1>3. TrackOf \in [Decisions -> Tracks] /\ Nobody \notin Tracks /\ DrainPasses \in Nat \ {0}
  BY FoldAssumption
<1> USE DEF FoldInv
<1>4. overtaken' \in [Decisions -> Nat]
  <2>1. overtaken' = [e \in Decisions |->
          IF ~Covered(e) /\ \E r \in Tracks \ {TrackOf[d]} : e \in Waiting(r)
            THEN overtaken[e] + 1 ELSE overtaken[e]]
    BY DEF TakeSlot
  <2> QED
    BY <2>1 DEF FoldTypeOK
<1>5. FoldTypeOK' /\ NumbersAllocated'
  BY <1>1, <1>2, <1>3, <1>4 DEF FoldTypeOK, Moved, NumbersAllocated
<1>6. SingleFlight'
  <2>1. Owners = {}
    BY <1>2, <1>3 DEF SingleFlight, Owners
  <2>2. Owners' = {d}
    BY <2>1, <1>1 DEF Owners, Moved
  <2> QED
    BY <2>2, <1>2 DEF SingleFlight
<1>7. PassesLeft'
  BY <1>1, <1>2, <1>3 DEF PassesLeft, Moved, InWait, FoldTypeOK
<1>8. OwnerIsFolded' /\ CoverIsFresh'
  BY <1>1, <1>2 DEF OwnerIsFolded, CoverIsFresh, Moved
<1>9. CompletedFolds' /\ PassSeesItsWaiters'
  BY <1>1, <1>2 DEF CompletedFolds, PassSeesItsWaiters, Moved, InWait
<1> QED
  BY <1>5, <1>6, <1>7, <1>8, <1>9

LEMMA SleepStep ==
  ASSUME FoldInv, NEW d \in Decisions, pc[d] = "awake", Sleep(d)
  PROVE  FoldInv'
<1>1. Moved(d, "asleep")
  BY GotoMoves DEF FoldInv, Sleep, Places
<1>2. UNCHANGED <<coordinator, caller, history>>
  BY DEF Sleep
<1> USE DEF FoldInv, coordinator, caller, history
<1>3. FoldTypeOK' /\ NumbersAllocated'
  BY <1>1, <1>2 DEF FoldTypeOK, Moved, NumbersAllocated
<1>4. SingleFlight'
  BY <1>1, <1>2 DEF SingleFlight, Owners, Moved
<1>5. PassesLeft' /\ OwnerIsFolded' /\ CoverIsFresh'
  BY <1>1, <1>2 DEF PassesLeft, OwnerIsFolded, CoverIsFresh, Moved
<1>6. CompletedFolds' /\ PassSeesItsWaiters'
  BY <1>1, <1>2 DEF CompletedFolds, PassSeesItsWaiters, Moved, InWait
<1> QED
  BY <1>3, <1>4, <1>5, <1>6

LEMMA LookStep ==
  ASSUME FoldInv, NEW d \in Decisions, Look(d)
  PROVE  FoldInv'
  BY ReturnStep, TakeSlotStep, SleepStep DEF Look, InWait

LEMMA ExpireStep ==
  ASSUME FoldInv, NEW d \in Decisions, Expire(d)
  PROVE  FoldInv'
<1>1. pc[d] \in InWait
  BY DEF Expire, InWait
<1>2. CASE Withdraw(d, "timedOut")
  BY <1>1, <1>2, WithdrawStep
<1> QED
  BY <1>1, <1>2, ReturnStep, TakeSlotStep DEF Expire

\* The new number is beyond every target in use, and everybody who waits is in view.
LEMMA StartPassStep ==
  ASSUME FoldInv, NEW d \in Decisions, StartPass(d)
  PROVE  FoldInv'
<1>1. Moved(d, "folding")
  BY GotoMoves DEF FoldInv, StartPass, Places
<1>2. /\ pc[d] = "slot" /\ last' = last + 1
      /\ number' = [number EXCEPT ![d] = last + 1]
      /\ dirty' = dirty \ {TrackOf[d]}
      /\ passes' = [passes EXCEPT ![d] = @ + 1]
      /\ view' = [view EXCEPT ![d] =
           {e \in Decisions : TrackOf[e] = TrackOf[d] /\ pc[e] # "undecided"}]
      /\ UNCHANGED <<inFlight, preferred, completed, target, folded, overtaken>>
  BY DEF StartPass
<1> USE DEF FoldInv
<1>3. \A e \in Decisions \ {d} :
        number'[e] = number[e] /\ passes'[e] = passes[e] /\ view'[e] = view[e]
  BY <1>2 DEF FoldTypeOK
<1>4. /\ number'[d] = last + 1 /\ passes'[d] = passes[d] + 1
      /\ view'[d] = {e \in Decisions : TrackOf[e] = TrackOf[d] /\ pc[e] # "undecided"}
  BY <1>2 DEF FoldTypeOK
<1>5. passes[d] \in Nat /\ passes[d] < DrainPasses /\ DrainPasses \in Nat
  BY <1>2, FoldAssumption DEF PassesLeft, FoldTypeOK
<1>6. FoldTypeOK'
  <2>1. passes' \in [Decisions -> 0..DrainPasses]
    BY <1>2, <1>5 DEF FoldTypeOK
  <2>2. number' \in [Decisions -> Nat] /\ last' \in Nat
    BY <1>2 DEF FoldTypeOK
  <2>3. view' \in [Decisions -> SUBSET Decisions]
    BY <1>2 DEF FoldTypeOK
  <2> QED
    BY <2>1, <2>2, <2>3, <1>1, <1>2 DEF FoldTypeOK, Moved
<1>7. NumbersAllocated'
  <2>1. last \in Nat /\ completed \in [Tracks -> Nat] /\ number \in [Decisions -> Nat]
        /\ target \in [Decisions -> Nat]
    BY DEF FoldTypeOK
  <2>2. \A r \in Tracks : completed'[r] <= last'
    BY <2>1, <1>2 DEF NumbersAllocated
  <2>3. \A e \in Decisions : target'[e] <= last' + 1
    BY <2>1, <1>2 DEF NumbersAllocated
  <2>4. \A e \in Decisions : number'[e] <= last'
    BY <2>1, <1>2, <1>3, <1>4 DEF NumbersAllocated
  <2> QED
    BY <2>2, <2>3, <2>4 DEF NumbersAllocated
<1>8. SingleFlight'
  BY <1>1, <1>2 DEF SingleFlight, Owners, Moved
<1>9. PassesLeft'
  BY <1>1, <1>3 DEF PassesLeft, Moved
<1>10. OwnerIsFolded' /\ CoverIsFresh'
  BY <1>1, <1>2 DEF OwnerIsFolded, CoverIsFresh, Moved
<1>11. CompletedFolds'
  BY <1>1, <1>2 DEF CompletedFolds, Moved, InWait
<1>12. PassSeesItsWaiters'
  <2>1. \A e \in Decisions : pc'[e] = "folding" => e = d
    BY <1>1, <1>2 DEF SingleFlight, Owners, Moved
  <2>2. \A e \in Decisions : TrackOf[e] = TrackOf[d] /\ pc'[e] \in InWait => e \in view'[d]
    BY <1>1, <1>4 DEF Moved, InWait
  <2>3. d \in view'[d]
    BY <1>2, <1>4
  <2> QED
    BY <2>1, <2>2, <2>3 DEF PassSeesItsWaiters
<1> QED
  BY <1>6, <1>7, <1>8, <1>9, <1>10, <1>11, <1>12

\* What the pass had in view is folded before its number counts.
LEMMA EndPassStep ==
  ASSUME FoldInv, NEW d \in Decisions, EndPass(d)
  PROVE  FoldInv'
<1> DEFINE r == TrackOf[d]
           next == IF r \in dirty /\ passes[d] < DrainPasses THEN "slot" ELSE "leaving"
<1>1. /\ pc[d] = "folding"
      /\ completed' = [completed EXCEPT ![r] = IF @ < number[d] THEN number[d] ELSE @]
      /\ Goto(d, next)
      /\ folded' = folded \cup view[d] /\ view' = [view EXCEPT ![d] = {}]
      /\ UNCHANGED <<inFlight, dirty, preferred, last, target, passes, number, overtaken>>
  BY DEF EndPass, caller
<1>2. next \in {"slot", "leaving"} /\ (next = "slot" => passes[d] < DrainPasses)
  OBVIOUS
<1> HIDE DEF next
<1>3. Moved(d, next)
  BY <1>1, <1>2, GotoMoves DEF FoldInv, Places
<1> USE DEF FoldInv
<1>4. r \in Tracks /\ last \in Nat /\ completed[r] \in Nat /\ number[d] \in Nat
      /\ number[d] <= last /\ completed[r] <= last
  BY FoldAssumption DEF FoldTypeOK, NumbersAllocated
<1>5. /\ completed'[r] = (IF completed[r] < number[d] THEN number[d] ELSE completed[r])
      /\ \A q \in Tracks \ {r} : completed'[q] = completed[q]
  BY <1>1, <1>4 DEF FoldTypeOK
<1>6. d \in view[d]
  BY <1>1 DEF PassSeesItsWaiters
<1>7. FoldTypeOK'
  <2>1. completed' \in [Tracks -> Nat]
    BY <1>1, <1>4 DEF FoldTypeOK
  <2>2. folded' \subseteq Decisions /\ view' \in [Decisions -> SUBSET Decisions]
    BY <1>1 DEF FoldTypeOK
  <2> QED
    BY <2>1, <2>2, <1>1, <1>3 DEF FoldTypeOK, Moved
<1>8. NumbersAllocated'
  BY <1>1, <1>4, <1>5 DEF NumbersAllocated
<1>9. SingleFlight'
  BY <1>1, <1>2, <1>3 DEF SingleFlight, Owners, Moved
<1>10. PassesLeft'
  BY <1>1, <1>2, <1>3 DEF PassesLeft, Moved
<1>11. OwnerIsFolded' /\ CoverIsFresh'
  BY <1>1, <1>2, <1>3, <1>6 DEF OwnerIsFolded, CoverIsFresh, Moved
<1>12. CompletedFolds'
  <2> SUFFICES ASSUME NEW e \in Decisions, pc'[e] \in InWait,
                      target'[e] <= completed'[TrackOf[e]]
               PROVE  e \in folded'
    BY DEF CompletedFolds
  <2>1. pc[e] \in InWait /\ target'[e] = target[e] /\ TrackOf[e] \in Tracks
    BY <1>1, <1>2, <1>3, FoldAssumption DEF Moved, InWait
  <2>2. CASE target[e] <= completed[TrackOf[e]]
    BY <2>1, <2>2, <1>1 DEF CompletedFolds
  <2>3. CASE TrackOf[e] = r /\ target[e] <= number[d]
    BY <2>1, <2>3, <1>1 DEF PassSeesItsWaiters
  <2>4. CASE TrackOf[e] # r
    BY <2>1, <2>2, <2>4, <1>5
  <2> QED
    BY <2>1, <2>2, <2>3, <2>4, <1>5
<1>13. PassSeesItsWaiters'
  <2>1. \A e \in Decisions : pc'[e] # "folding"
    BY <1>1, <1>2, <1>3 DEF SingleFlight, Owners, Moved
  <2> QED
    BY <2>1 DEF PassSeesItsWaiters
<1> QED
  BY <1>7, <1>8, <1>9, <1>10, <1>11, <1>12, <1>13

LEMMA LeaveStep ==
  ASSUME FoldInv, NEW d \in Decisions, Leave(d)
  PROVE  FoldInv'
<1>1. /\ pc[d] = "leaving" /\ inFlight' = Nobody /\ Forget(d)
      /\ pc' = Notified([pc EXCEPT ![d] = "done"])
      /\ UNCHANGED <<dirty, last, completed>>
  BY DEF Leave
<1>2. Moved(d, "done")
  BY <1>1, NotifiedMoves DEF FoldInv, Places
<1>3. preferred' \in Tracks \cup {Nobody}
  <2> DEFINE others == {r \in Tracks \ {TrackOf[d]} : Waiting(r) # {}}
  <2>1. IF others = {} THEN preferred' = Nobody ELSE preferred' \in others
    BY DEF Leave
  <2> QED
    BY <2>1
<1>4. d \in folded
  BY <1>1 DEF FoldInv, OwnerIsFolded
<1> QED
  BY <1>1, <1>2, <1>3, <1>4, EndStep

LEMMA FoldInvariance == FoldSafety => []FoldInv
<1>1. FoldInit => FoldInv
  BY FoldAssumption DEF FoldInit, FoldInv, FoldTypeOK, SingleFlight, Owners, NumbersAllocated,
     PassesLeft, CompletedFolds, PassSeesItsWaiters, OwnerIsFolded, CoverIsFresh, Places, InWait
<1>2. FoldInv /\ [FoldNext]_foldVars => FoldInv'
  <2> SUFFICES ASSUME FoldInv, [FoldNext]_foldVars
               PROVE  FoldInv'
    OBVIOUS
  <2>1. CASE FoldNext
    BY <2>1, DecideStep, RegisterStep, LookStep, ExpireStep, StartPassStep, EndPassStep,
       LeaveStep DEF FoldNext, Run, Own
  <2>2. CASE UNCHANGED foldVars
    BY <2>2 DEF foldVars, coordinator, caller, history, FoldInv, FoldTypeOK, SingleFlight, Owners,
       NumbersAllocated, PassesLeft, CompletedFolds, PassSeesItsWaiters, OwnerIsFolded,
       CoverIsFresh
  <2> QED
    BY <2>1, <2>2
<1> QED
  BY <1>1, <1>2, PTL DEF FoldSafety

-----------------------------------------------------------------------------
(* The theorems.                                                           *)

\* The state of the coordinator and of its callers stays well typed; in particular no
\* owner runs more passes than _EFFECTIVE_FOLD_DRAIN_PASSES.
THEOREM FoldTypeCorrect == FoldSafety => []FoldTypeOK
  BY FoldInvariance, PTL DEF FoldInv

\* One decision owns the slot of its directory at a time.
THEOREM OneFoldAtATime == FoldSafety => []SingleFlight
  BY FoldInvariance, PTL DEF FoldInv

\* The contract of cover(): whoever returns without a timeout was in view of a pass of
\* its track that has ended.
THEOREM ReturnsAreFresh == FoldSafety => []CoverIsFresh
  BY FoldInvariance, PTL DEF FoldInv

-----------------------------------------------------------------------------
(* No pass without a decision of its own.                                  *)

Registered == {d \in Decisions : pc[d] \notin {"undecided", "decided"}}

\* A pass takes its track out of the dirty ones, which only a registration puts back.
PassesPaidFor ==
  /\ IsFiniteSet(dirty) /\ IsFiniteSet(Registered)
  /\ last + Cardinality(dirty) <= Cardinality(Registered)

OwnerIsDirty == \A d \in Decisions : pc[d] = "slot" => TrackOf[d] \in dirty

\* Whoever waits without being covered has its track dirty, unless the pass that will
\* cover it has begun.
DirtyUntilBegun ==
  \A e \in Decisions : pc[e] \in InWait =>
    \/ target[e] <= completed[TrackOf[e]]
    \/ TrackOf[e] \in dirty
    \/ \E d \in Decisions :
         pc[d] = "folding" /\ TrackOf[d] = TrackOf[e] /\ target[e] <= number[d]

PassInv == PassesPaidFor /\ OwnerIsDirty /\ DirtyUntilBegun

\* A step after which nobody else waits, owns or folds.
LEMMA QuietStep ==
  ASSUME PassInv, Registered' = Registered, UNCHANGED <<dirty, last, completed>>,
         \A e \in Decisions :
           /\ pc'[e] \in InWait => pc[e] \in InWait /\ target'[e] = target[e]
           /\ pc'[e] = "slot" => pc[e] = "slot"
           /\ pc[e] = "folding" => pc'[e] = "folding" /\ number'[e] = number[e]
  PROVE  PassInv'
  BY DEF PassInv, PassesPaidFor, OwnerIsDirty, DirtyUntilBegun

\* The end of a call, with or without the slot.
LEMMA EndIsQuiet ==
  ASSUME FoldTypeOK, PassInv, NEW d \in Decisions, NEW place \in {"done", "timedOut"},
         pc[d] \in InWait \cup {"leaving"}, Moved(d, place), Forget(d),
         UNCHANGED <<dirty, last, completed>>
  PROVE  PassInv'
<1>1. \A e \in Decisions \ {d} : target'[e] = target[e] /\ number'[e] = number[e]
  BY Forgotten
<1>2. Registered' = Registered
  BY DEF Registered, Moved, InWait
<1>3. \A e \in Decisions :
        /\ pc'[e] \in InWait => pc[e] \in InWait /\ target'[e] = target[e]
        /\ pc'[e] = "slot" => pc[e] = "slot"
        /\ pc[e] = "folding" => pc'[e] = "folding" /\ number'[e] = number[e]
  BY <1>1 DEF Moved, InWait
<1> QED
  BY <1>2, <1>3, QuietStep

LEMMA WithdrawIsQuiet ==
  ASSUME FoldTypeOK, PassInv, NEW d \in Decisions, NEW place \in {"done", "timedOut"},
         pc[d] \in InWait, Withdraw(d, place)
  PROVE  PassInv'
<1>1. place \in Places \ {"asleep"}
  BY DEF Places
<1>2. Moved(d, place)
  BY <1>1, GotoMoves, NotifiedMoves DEF Withdraw
<1> QED
  BY <1>2, EndIsQuiet DEF Withdraw

\* A registration pays for one pass.
LEMMA RegisterPays ==
  ASSUME FoldInv, PassInv, NEW d \in Decisions, Register(d)
  PROVE  PassInv'
<1>1. Moved(d, "awake")
  BY GotoMoves DEF FoldInv, Register, Places
<1>2. /\ pc[d] = "decided"
      /\ target' = [target EXCEPT ![d] = last + 1]
      /\ dirty' = dirty \cup {TrackOf[d]}
      /\ UNCHANGED <<last, completed, number>>
  BY DEF Register
<1>3. Registered' = Registered \cup {d} /\ d \notin Registered
  BY <1>1, <1>2 DEF Registered, Moved
<1>4. /\ IsFiniteSet(dirty) /\ IsFiniteSet(Registered) /\ last \in Nat
      /\ last + Cardinality(dirty) <= Cardinality(Registered)
  BY DEF PassInv, PassesPaidFor, FoldInv, FoldTypeOK
<1>5. /\ IsFiniteSet(Registered') /\ Cardinality(Registered') = Cardinality(Registered) + 1
  BY <1>3, <1>4, FS_AddElement
<1>6. /\ IsFiniteSet(dirty')
      /\ \/ Cardinality(dirty') = Cardinality(dirty)
         \/ Cardinality(dirty') = Cardinality(dirty) + 1
  BY <1>2, <1>4, FS_AddElement
<1>7. Cardinality(dirty) \in Nat /\ Cardinality(Registered) \in Nat
  BY <1>4, FS_CardinalityType
<1>8. last' + Cardinality(dirty') <= Cardinality(Registered')
  BY ONLY <1>2, <1>4, <1>5, <1>6, <1>7
<1>9. PassesPaidFor'
  BY <1>5, <1>6, <1>8 DEF PassesPaidFor
<1>10. OwnerIsDirty'
  BY <1>1, <1>2 DEF PassInv, OwnerIsDirty, Moved
<1>11. DirtyUntilBegun'
  <2> SUFFICES ASSUME NEW e \in Decisions, pc'[e] \in InWait, e # d
               PROVE  \/ target'[e] <= completed'[TrackOf[e]]
                      \/ TrackOf[e] \in dirty'
                      \/ \E f \in Decisions :
                           /\ pc'[f] = "folding" /\ TrackOf[f] = TrackOf[e]
                           /\ target'[e] <= number'[f]
    BY <1>2 DEF DirtyUntilBegun
  <2>1. pc[e] \in InWait /\ target'[e] = target[e]
    BY <1>1, <1>2 DEF Moved, InWait, FoldInv, FoldTypeOK
  <2>2. \A f \in Decisions : pc[f] = "folding" => pc'[f] = "folding"
    BY <1>1, <1>2 DEF Moved
  <2> QED
    BY <1>2, <2>1, <2>2 DEF PassInv, DirtyUntilBegun
<1> QED
  BY <1>9, <1>10, <1>11 DEF PassInv

\* The slot is free and the decision is not covered: its track is still dirty.
LEMMA TakenWhenDirty ==
  ASSUME FoldInv, PassInv, NEW d \in Decisions, pc[d] \in InWait, TakeSlot(d)
  PROVE  PassInv'
<1>1. Moved(d, "slot")
  BY GotoMoves DEF FoldInv, TakeSlot, Places
<1>2. /\ ~Covered(d) /\ inFlight = Nobody
      /\ UNCHANGED <<dirty, last, completed, target, number>>
  BY DEF TakeSlot, MayTake, caller
<1>3. TrackOf[d] \in Tracks /\ Nobody \notin Tracks
  BY FoldAssumption
<1>4. \A e \in Decisions : pc[e] # "folding"
  BY <1>2, FoldAssumption DEF FoldInv, SingleFlight, Owners
<1>5. ~(target[d] <= completed[TrackOf[d]])
  BY <1>2, <1>3 DEF Covered, FoldInv, FoldTypeOK
<1>6. TrackOf[d] \in dirty
  BY <1>4, <1>5 DEF PassInv, DirtyUntilBegun
<1>7. Registered' = Registered
  BY <1>1 DEF Registered, Moved, InWait
<1>8. PassesPaidFor'
  BY <1>2, <1>7 DEF PassInv, PassesPaidFor
<1>9. OwnerIsDirty'
  BY <1>1, <1>2, <1>6 DEF PassInv, OwnerIsDirty, Moved
<1>10. DirtyUntilBegun'
  <2>1. \A e \in Decisions : pc'[e] \in InWait => pc[e] \in InWait
    BY <1>1 DEF Moved, InWait
  <2> QED
    BY <1>2, <1>4, <2>1 DEF PassInv, DirtyUntilBegun
<1> QED
  BY <1>8, <1>9, <1>10 DEF PassInv

\* The pass takes what the registration has paid, and covers whoever waits.
LEMMA StartPassSpends ==
  ASSUME FoldInv, PassInv, NEW d \in Decisions, StartPass(d)
  PROVE  PassInv'
<1>1. Moved(d, "folding")
  BY GotoMoves DEF FoldInv, StartPass, Places
<1>2. /\ pc[d] = "slot" /\ last' = last + 1
      /\ number' = [number EXCEPT ![d] = last + 1]
      /\ dirty' = dirty \ {TrackOf[d]}
      /\ UNCHANGED <<completed, target>>
  BY DEF StartPass
<1>3. TrackOf[d] \in dirty
  BY <1>2 DEF PassInv, OwnerIsDirty
<1>4. /\ IsFiniteSet(dirty) /\ IsFiniteSet(Registered) /\ last \in Nat
      /\ last + Cardinality(dirty) <= Cardinality(Registered)
  BY DEF PassInv, PassesPaidFor, FoldInv, FoldTypeOK
<1>5. IsFiniteSet(dirty') /\ Cardinality(dirty') = Cardinality(dirty) - 1
  BY <1>2, <1>3, <1>4, FS_RemoveElement
<1>6. Cardinality(dirty) \in Nat /\ Cardinality(Registered) \in Nat
  BY <1>4, FS_CardinalityType
<1>7. Registered' = Registered
  BY <1>1, <1>2 DEF Registered, Moved
<1>8. last' + Cardinality(dirty') <= Cardinality(Registered')
  BY ONLY <1>2, <1>4, <1>5, <1>6, <1>7
<1>9. PassesPaidFor'
  BY <1>4, <1>5, <1>7, <1>8 DEF PassesPaidFor
<1>10. \A e \in Decisions \ {d} : pc[e] \notin {"slot", "folding"}
  BY <1>2 DEF FoldInv, SingleFlight, Owners
<1>11. OwnerIsDirty'
  BY <1>1, <1>10 DEF OwnerIsDirty, Moved
<1>12. DirtyUntilBegun'
  <2> SUFFICES ASSUME NEW e \in Decisions, pc'[e] \in InWait
               PROVE  \/ target'[e] <= completed'[TrackOf[e]]
                      \/ TrackOf[e] \in dirty'
                      \/ \E f \in Decisions :
                           /\ pc'[f] = "folding" /\ TrackOf[f] = TrackOf[e]
                           /\ target'[e] <= number'[f]
    BY DEF DirtyUntilBegun
  <2>1. pc[e] \in InWait
    BY <1>1 DEF Moved, InWait
  <2>2. pc'[d] = "folding" /\ number'[d] = last + 1 /\ target'[e] <= last + 1
    BY <1>1, <1>2 DEF Moved, FoldInv, FoldTypeOK, NumbersAllocated
  <2> QED
    BY <1>2, <1>10, <2>1, <2>2 DEF PassInv, DirtyUntilBegun
<1> QED
  BY <1>9, <1>11, <1>12 DEF PassInv

\* Another pass follows for a track that is dirty again.
LEMMA EndPassCovers ==
  ASSUME FoldInv, PassInv, NEW d \in Decisions, EndPass(d)
  PROVE  PassInv'
<1> DEFINE r == TrackOf[d]
           next == IF r \in dirty /\ passes[d] < DrainPasses THEN "slot" ELSE "leaving"
<1>1. /\ pc[d] = "folding"
      /\ completed' = [completed EXCEPT ![r] = IF @ < number[d] THEN number[d] ELSE @]
      /\ Goto(d, next)
      /\ UNCHANGED <<dirty, last, target, number>>
  BY DEF EndPass, caller
<1>2. next \in {"slot", "leaving"} /\ (next = "slot" => r \in dirty)
  OBVIOUS
<1> HIDE DEF next
<1>3. Moved(d, next)
  BY <1>1, <1>2, GotoMoves DEF FoldInv, Places
<1>4. Registered' = Registered
  BY <1>1, <1>2, <1>3 DEF Registered, Moved
<1>5. PassesPaidFor'
  BY <1>1, <1>4 DEF PassInv, PassesPaidFor
<1>6. OwnerIsDirty'
  BY <1>1, <1>2, <1>3 DEF PassInv, OwnerIsDirty, Moved
<1>7. DirtyUntilBegun'
  <2> SUFFICES ASSUME NEW e \in Decisions, pc'[e] \in InWait, TrackOf[e] \notin dirty'
               PROVE  target'[e] <= completed'[TrackOf[e]]
    BY DEF DirtyUntilBegun
  <2>1. pc[e] \in InWait /\ TrackOf[e] \in Tracks /\ r \in Tracks
    BY <1>1, <1>2, <1>3, FoldAssumption DEF Moved, InWait
  <2>2. \A f \in Decisions : pc[f] = "folding" => f = d
    BY <1>1 DEF FoldInv, SingleFlight, Owners
  <2>3. \/ target[e] <= completed[TrackOf[e]]
        \/ TrackOf[e] = r /\ target[e] <= number[d]
    BY <1>1, <2>1, <2>2 DEF PassInv, DirtyUntilBegun
  <2>4. /\ target[e] \in Nat /\ number[d] \in Nat /\ completed \in [Tracks -> Nat]
    BY DEF FoldInv, FoldTypeOK
  <2> QED
    BY <1>1, <2>1, <2>3, <2>4
<1> QED
  BY <1>5, <1>6, <1>7 DEF PassInv

LEMMA PassStep ==
  ASSUME FoldInv, PassInv, [FoldNext]_foldVars
  PROVE  PassInv'
<1>1. FoldTypeOK
  BY DEF FoldInv
<1>2. ASSUME NEW d \in Decisions, Decide(d)
      PROVE  PassInv'
  <2>1. Moved(d, "decided")
    BY <1>1, <1>2, GotoMoves DEF Decide, Places
  <2>2. pc[d] = "undecided" /\ UNCHANGED <<dirty, last, completed, target, number>>
    BY <1>2 DEF Decide, coordinator, caller
  <2>3. Registered' = Registered
    BY <2>1, <2>2 DEF Registered, Moved
  <2> QED
    BY <2>1, <2>2, <2>3, QuietStep DEF Moved, InWait
<1>3. ASSUME NEW d \in Decisions, pc[d] \in InWait, Return(d) \/ Withdraw(d, "timedOut")
      PROVE  PassInv'
  BY <1>1, <1>3, WithdrawIsQuiet DEF Return
<1>4. ASSUME NEW d \in Decisions, Look(d) \/ Expire(d)
      PROVE  PassInv'
  <2>1. pc[d] \in InWait
    BY <1>4 DEF Look, Expire, InWait
  <2>2. CASE pc[d] = "awake" /\ Sleep(d)
    <3>1. Moved(d, "asleep") /\ UNCHANGED <<dirty, last, completed, target, number>>
      BY <1>1, <2>2, GotoMoves DEF Sleep, coordinator, caller, Places
    <3>2. Registered' = Registered
      BY <2>2, <3>1 DEF Registered, Moved
    <3> QED
      BY <2>2, <3>1, <3>2, QuietStep DEF Moved, InWait
  <2> QED
    BY <1>3, <1>4, <2>1, <2>2, TakenWhenDirty DEF Look, Expire
<1>5. ASSUME NEW d \in Decisions, Leave(d)
      PROVE  PassInv'
  <2>1. /\ pc[d] = "leaving" /\ Forget(d) /\ UNCHANGED <<dirty, last, completed>>
        /\ pc' = Notified([pc EXCEPT ![d] = "done"])
    BY <1>5 DEF Leave
  <2>2. Moved(d, "done")
    BY <1>1, <2>1, NotifiedMoves DEF Places
  <2> QED
    BY <1>1, <2>1, <2>2, EndIsQuiet
<1>6. CASE UNCHANGED foldVars
  BY <1>6 DEF foldVars, coordinator, caller, PassInv, PassesPaidFor, Registered, OwnerIsDirty,
     DirtyUntilBegun
<1> QED
  BY <1>2, <1>4, <1>5, <1>6, RegisterPays, StartPassSpends, EndPassCovers
  DEF FoldNext, Run, Own

\* There are never more passes than registered decisions: a burst is collapsed.
THEOREM NoPassInVain == FoldSafety => []NeverMorePassesThanDecisions
<1>1. FoldInit => PassInv
  <2> SUFFICES ASSUME FoldInit PROVE PassInv
    OBVIOUS
  <2>1. Registered = {} /\ dirty = {} /\ last = 0
    BY DEF FoldInit, Registered
  <2>2. PassesPaidFor
    BY <2>1, FS_EmptySet DEF PassesPaidFor
  <2>3. OwnerIsDirty /\ DirtyUntilBegun
    BY DEF FoldInit, OwnerIsDirty, DirtyUntilBegun, InWait
  <2> QED
    BY <2>2, <2>3 DEF PassInv
<1>2. FoldInv /\ PassInv /\ [FoldNext]_foldVars => PassInv'
  BY PassStep
<1>3. FoldInv /\ PassInv => NeverMorePassesThanDecisions
  <2> SUFFICES ASSUME FoldInv, PassInv PROVE last <= Cardinality(Registered)
    BY DEF NeverMorePassesThanDecisions, Registered
  <2>1. /\ IsFiniteSet(dirty) /\ IsFiniteSet(Registered) /\ last \in Nat
        /\ last + Cardinality(dirty) <= Cardinality(Registered)
    BY DEF PassInv, PassesPaidFor, FoldInv, FoldTypeOK
  <2>2. Cardinality(dirty) \in Nat /\ Cardinality(Registered) \in Nat
    BY <2>1, FS_CardinalityType
  <2> QED
    BY ONLY <2>1, <2>2
<1> QED
  BY <1>1, <1>2, <1>3, FoldInvariance, PTL DEF FoldSafety

-----------------------------------------------------------------------------
(* Alternation.                                                            *)

\* The delivery tracks are "A" and "B"; with a third one the turn of a track could go
\* round to it twice before it comes back.
TwoTracks == \A p, q, r \in Tracks : p = q \/ q = r \/ p = r

\* A pass that covers e is sure to come before the slot is free again.
Underway(e) ==
  \E d \in Decisions :
    /\ TrackOf[d] = TrackOf[e]
    /\ pc[d] = "slot" \/ (pc[d] = "folding" /\ target[e] <= number[d])

\* Whoever has been overtaken has the other track in the slot, or is preferred to it, or
\* its own track is about to cover it.
TurnsInv ==
  /\ inFlight # Nobody => preferred = Nobody
  /\ \A e \in Decisions :
       /\ overtaken[e] \in {0, 1}
       /\ pc[e] \in {"undecided", "decided"} => overtaken[e] = 0
       /\ overtaken[e] = 1 /\ pc[e] \in InWait =>
            \/ target[e] <= completed[TrackOf[e]]
            \/ inFlight \notin {Nobody, TrackOf[e]}
            \/ preferred = TrackOf[e]
            \/ Underway(e)

\* A step that changes nothing for those that go on waiting.
LEMMA TurnsKept ==
  ASSUME TurnsInv, inFlight' # Nobody => preferred' = Nobody,
         UNCHANGED completed,
         \A e \in Decisions :
           /\ overtaken'[e] \in {0, overtaken[e]}
           /\ pc'[e] \in {"undecided", "decided"} => pc[e] \in {"undecided", "decided"}
           /\ pc'[e] \in InWait /\ overtaken'[e] = 1 =>
                /\ pc[e] \in InWait /\ target'[e] = target[e]
                /\ inFlight \notin {Nobody, TrackOf[e]} =>
                     inFlight' \notin {Nobody, TrackOf[e]} \/ preferred' = TrackOf[e]
                /\ preferred = TrackOf[e] => preferred' = TrackOf[e]
           /\ pc[e] = "slot" => pc'[e] = "slot"
           /\ pc[e] = "folding" => pc'[e] = "folding" /\ number'[e] = number[e]
  PROVE  TurnsInv'
<1> SUFFICES ASSUME NEW e \in Decisions
             PROVE  /\ overtaken'[e] \in {0, 1}
                    /\ pc'[e] \in {"undecided", "decided"} => overtaken'[e] = 0
                    /\ overtaken'[e] = 1 /\ pc'[e] \in InWait =>
                         \/ target'[e] <= completed'[TrackOf[e]]
                         \/ inFlight' \notin {Nobody, TrackOf[e]}
                         \/ preferred' = TrackOf[e]
                         \/ Underway(e)'
  BY DEF TurnsInv
<1>1. overtaken'[e] \in {0, 1} /\ (pc'[e] \in {"undecided", "decided"} => overtaken'[e] = 0)
  BY DEF TurnsInv
<1>2. ASSUME overtaken'[e] = 1, pc'[e] \in InWait
      PROVE  \/ target'[e] <= completed'[TrackOf[e]]
             \/ inFlight' \notin {Nobody, TrackOf[e]}
             \/ preferred' = TrackOf[e]
             \/ Underway(e)'
  <2>1. /\ overtaken[e] = 1 /\ pc[e] \in InWait /\ target'[e] = target[e]
    BY <1>2
  <2>2. Underway(e) => Underway(e)'
    BY <2>1 DEF Underway
  <2> QED
    BY <1>2, <2>1, <2>2 DEF TurnsInv
<1> QED
  BY <1>1, <1>2

\* What the end of a call means for the count.
LEMMA CountForgotten ==
  ASSUME FoldTypeOK, NEW d \in Decisions, Forget(d)
  PROVE  /\ overtaken'[d] = 0
         /\ \A e \in Decisions \ {d} : overtaken'[e] = overtaken[e]
  BY DEF FoldTypeOK, Forget

LEMMA WithdrawTurns ==
  ASSUME FoldInv, TurnsInv, NEW d \in Decisions, NEW place \in {"done", "timedOut"},
         pc[d] \in InWait, Withdraw(d, place)
  PROVE  TurnsInv'
<1>1. place \in Places \ {"asleep"} /\ FoldTypeOK
  BY DEF Places, FoldInv
<1>2. Moved(d, place) /\ Forget(d) /\ UNCHANGED <<inFlight, completed>>
  BY <1>1, GotoMoves, NotifiedMoves DEF Withdraw
<1>3. /\ overtaken'[d] = 0
      /\ \A e \in Decisions \ {d} :
           target'[e] = target[e] /\ number'[e] = number[e] /\ overtaken'[e] = overtaken[e]
  BY <1>1, <1>2, Forgotten, CountForgotten
<1>4. preferred' # preferred => preferred' = Nobody /\ Waiting(preferred) = {d}
  BY DEF Withdraw
<1>5. inFlight' # Nobody => preferred' = Nobody
  BY <1>2, <1>4 DEF TurnsInv
<1>6. ASSUME NEW e \in Decisions, pc'[e] \in InWait, preferred = TrackOf[e]
      PROVE  preferred' = TrackOf[e]
  <2>1. e # d /\ pc[e] \in InWait
    BY <1>2, <1>6 DEF Moved, InWait
  <2>2. e \in Waiting(preferred)
    BY <1>6, <2>1 DEF Waiting, InWait
  <2> QED
    BY <1>4, <1>6, <2>1, <2>2
<1>7. \A e \in Decisions :
        /\ overtaken'[e] \in {0, overtaken[e]}
        /\ pc'[e] \in {"undecided", "decided"} => pc[e] \in {"undecided", "decided"}
        /\ pc'[e] \in InWait /\ overtaken'[e] = 1 =>
             /\ pc[e] \in InWait /\ target'[e] = target[e]
             /\ inFlight \notin {Nobody, TrackOf[e]} =>
                  inFlight' \notin {Nobody, TrackOf[e]} \/ preferred' = TrackOf[e]
             /\ preferred = TrackOf[e] => preferred' = TrackOf[e]
        /\ pc[e] = "slot" => pc'[e] = "slot"
        /\ pc[e] = "folding" => pc'[e] = "folding" /\ number'[e] = number[e]
  BY <1>2, <1>3, <1>6 DEF Moved, InWait
<1> QED
  BY <1>2, <1>5, <1>7, TurnsKept

\* The other track cannot take the slot from one that is preferred to it.
LEMMA TakeSlotTurns ==
  ASSUME FoldInv, TurnsInv, TwoTracks, NEW d \in Decisions, pc[d] \in InWait, TakeSlot(d)
  PROVE  TurnsInv'
<1>1. Moved(d, "slot")
  BY GotoMoves DEF FoldInv, TakeSlot, Places
<1>2. /\ inFlight = Nobody /\ HandoffAllows(TrackOf[d])
      /\ inFlight' = TrackOf[d] /\ preferred' = Nobody
      /\ UNCHANGED <<completed, target, number>>
      /\ overtaken' = [e \in Decisions |->
           IF ~Covered(e) /\ \E r \in Tracks \ {TrackOf[d]} : e \in Waiting(r)
             THEN overtaken[e] + 1 ELSE overtaken[e]]
  BY DEF TakeSlot, MayTake, caller
<1>3. TrackOf \in [Decisions -> Tracks] /\ Nobody \notin Tracks
  BY FoldAssumption
<1>4. \A e \in Decisions : ~Underway(e)
  BY <1>2, <1>3 DEF FoldInv, SingleFlight, Owners, Underway
<1> SUFFICES ASSUME NEW e \in Decisions
             PROVE  /\ overtaken'[e] \in {0, 1}
                    /\ pc'[e] \in {"undecided", "decided"} => overtaken'[e] = 0
                    /\ overtaken'[e] = 1 /\ pc'[e] \in InWait =>
                         \/ target'[e] <= completed'[TrackOf[e]]
                         \/ inFlight' \notin {Nobody, TrackOf[e]}
                         \/ preferred' = TrackOf[e]
                         \/ Underway(e)'
  BY <1>2 DEF TurnsInv
<1>5. Covered(e) <=> target[e] <= completed[TrackOf[e]]
  BY <1>3 DEF Covered, FoldInv, FoldTypeOK
<1>6. CASE ~Covered(e) /\ \E r \in Tracks \ {TrackOf[d]} : e \in Waiting(r)
  <2>1. pc[e] \in InWait /\ TrackOf[e] # TrackOf[d] /\ e \in Waiting(TrackOf[e])
    BY <1>6 DEF Waiting, InWait
  <2>2. preferred # TrackOf[e]
    BY <1>2, <1>3, <2>1 DEF HandoffAllows
  <2>3. overtaken[e] = 0
    BY <1>2, <1>4, <1>5, <1>6, <2>1, <2>2 DEF TurnsInv
  <2>4. overtaken'[e] = 1
    BY <1>2, <1>6, <2>3
  <2>5. inFlight' \notin {Nobody, TrackOf[e]}
    BY <1>2, <1>3, <2>1
  <2>6. e # d /\ pc'[e] \notin {"undecided", "decided"}
    BY <1>1, <2>1 DEF Moved, InWait
  <2> QED
    BY <2>4, <2>5, <2>6
<1>7. CASE ~(~Covered(e) /\ \E r \in Tracks \ {TrackOf[d]} : e \in Waiting(r))
  <2>1. overtaken'[e] = overtaken[e]
    BY <1>2, <1>7
  <2>2. pc'[e] \in {"undecided", "decided"} => pc[e] \in {"undecided", "decided"}
    BY <1>1 DEF Moved
  <2>3. pc'[e] \in InWait => pc[e] \in InWait
    BY <1>1 DEF Moved, InWait
  <2>4. ASSUME pc'[e] \in InWait, ~Covered(e)
        PROVE  Underway(e)'
    <3>1. e \in Waiting(TrackOf[e])
      BY <2>3, <2>4 DEF Waiting, InWait
    <3>2. TrackOf[e] = TrackOf[d]
      BY <1>3, <1>7, <2>4, <3>1
    <3> QED
      BY <1>1, <3>2 DEF Underway, Moved
  <2> QED
    BY <1>2, <1>5, <2>1, <2>2, <2>3, <2>4 DEF TurnsInv
<1> QED
  BY <1>6, <1>7

LEMMA StartPassTurns ==
  ASSUME FoldInv, TurnsInv, NEW d \in Decisions, StartPass(d)
  PROVE  TurnsInv'
<1>1. Moved(d, "folding")
  BY GotoMoves DEF FoldInv, StartPass, Places
<1>2. /\ pc[d] = "slot" /\ number' = [number EXCEPT ![d] = last + 1]
      /\ UNCHANGED <<inFlight, preferred, completed, target, overtaken>>
  BY DEF StartPass
<1>3. \A e \in Decisions : number'[d] = last + 1 /\ target[e] <= last + 1
  BY <1>2 DEF FoldInv, FoldTypeOK, NumbersAllocated
<1>4. \A e \in Decisions : Underway(e) => Underway(e)'
  <2> SUFFICES ASSUME NEW e \in Decisions, NEW f \in Decisions,
                      TrackOf[f] = TrackOf[e], pc[f] \in {"slot", "folding"}
               PROVE  Underway(e)'
    BY DEF Underway
  <2>1. f = d
    BY <1>2 DEF FoldInv, SingleFlight, Owners
  <2>2. pc'[d] = "folding" /\ target'[e] <= number'[d]
    BY <1>1, <1>2, <1>3 DEF Moved
  <2> QED
    BY <2>1, <2>2 DEF Underway
<1>5. \A e \in Decisions :
        /\ pc'[e] \in InWait => pc[e] \in InWait
        /\ pc'[e] \in {"undecided", "decided"} => pc[e] \in {"undecided", "decided"}
  BY <1>1 DEF Moved, InWait
<1> QED
  BY <1>2, <1>4, <1>5 DEF TurnsInv

LEMMA EndPassTurns ==
  ASSUME FoldInv, TurnsInv, NEW d \in Decisions, EndPass(d)
  PROVE  TurnsInv'
<1> DEFINE r == TrackOf[d]
           next == IF r \in dirty /\ passes[d] < DrainPasses THEN "slot" ELSE "leaving"
<1>1. /\ pc[d] = "folding"
      /\ completed' = [completed EXCEPT ![r] = IF @ < number[d] THEN number[d] ELSE @]
      /\ Goto(d, next)
      /\ UNCHANGED <<inFlight, preferred, target, number, overtaken>>
  BY DEF EndPass, caller
<1>2. next \in {"slot", "leaving"}
  OBVIOUS
<1> HIDE DEF next
<1>3. Moved(d, next)
  BY <1>1, <1>2, GotoMoves DEF FoldInv, Places
<1>4. r \in Tracks /\ completed \in [Tracks -> Nat] /\ number[d] \in Nat
  BY FoldAssumption DEF FoldInv, FoldTypeOK
<1>5. \A e \in Decisions : Underway(e) => target[e] <= completed'[TrackOf[e]]
  <2> SUFFICES ASSUME NEW e \in Decisions, NEW f \in Decisions,
                      TrackOf[f] = TrackOf[e],
                      pc[f] = "slot" \/ (pc[f] = "folding" /\ target[e] <= number[f])
               PROVE  target[e] <= completed'[TrackOf[e]]
    BY DEF Underway
  <2>1. f = d
    BY <1>1 DEF FoldInv, SingleFlight, Owners
  <2>2. TrackOf[e] = r /\ target[e] <= number[d] /\ target[e] \in Nat
    BY <1>1, <2>1 DEF FoldInv, FoldTypeOK
  <2> QED
    BY <1>1, <1>4, <2>2
<1>6. \A e \in Decisions :
        target[e] <= completed[TrackOf[e]] => target[e] <= completed'[TrackOf[e]]
  <2> SUFFICES ASSUME NEW e \in Decisions, target[e] <= completed[TrackOf[e]]
               PROVE  target[e] <= completed'[TrackOf[e]]
    OBVIOUS
  <2>1. TrackOf[e] \in Tracks /\ target[e] \in Nat
    BY FoldAssumption DEF FoldInv, FoldTypeOK
  <2> QED
    BY <1>1, <1>4, <2>1
<1>7. \A e \in Decisions :
        /\ pc'[e] \in InWait => pc[e] \in InWait
        /\ pc'[e] \in {"undecided", "decided"} => pc[e] \in {"undecided", "decided"}
  BY <1>1, <1>2, <1>3 DEF Moved, InWait
<1> QED
  BY <1>1, <1>5, <1>6, <1>7 DEF TurnsInv

\* Who leaves the slot prefers the other track, if it has anybody in wait.
LEMMA LeaveTurns ==
  ASSUME FoldInv, TurnsInv, TwoTracks, NEW d \in Decisions, Leave(d)
  PROVE  TurnsInv'
<1> DEFINE others == {r \in Tracks \ {TrackOf[d]} : Waiting(r) # {}}
<1>1. /\ pc[d] = "leaving" /\ inFlight' = Nobody /\ Forget(d)
      /\ pc' = Notified([pc EXCEPT ![d] = "done"])
      /\ IF others = {} THEN preferred' = Nobody ELSE preferred' \in others
      /\ UNCHANGED completed
  BY DEF Leave
<1> HIDE DEF others
<1>2. FoldTypeOK /\ Moved(d, "done")
  BY <1>1, NotifiedMoves DEF FoldInv, Places
<1>3. /\ overtaken'[d] = 0
      /\ \A e \in Decisions \ {d} :
           target'[e] = target[e] /\ number'[e] = number[e] /\ overtaken'[e] = overtaken[e]
  BY <1>1, <1>2, Forgotten, CountForgotten
<1>4. inFlight = TrackOf[d] /\ inFlight # Nobody /\ preferred = Nobody
  BY <1>1, FoldAssumption DEF FoldInv, SingleFlight, Owners, TurnsInv
<1>5. ASSUME NEW e \in Decisions, pc'[e] \in InWait, TrackOf[e] # TrackOf[d]
      PROVE  preferred' = TrackOf[e]
  <2>1. e \in Waiting(TrackOf[e])
    BY <1>1, <1>2, <1>5 DEF Moved, InWait, Waiting
  <2>2. TrackOf[e] \in others
    BY <1>5, <2>1, FoldAssumption DEF others
  <2>3. \A r \in others : r = TrackOf[e]
    BY <1>5, FoldAssumption DEF others, TwoTracks
  <2> QED
    BY <1>1, <2>2, <2>3
<1>6. \A e \in Decisions :
        /\ overtaken'[e] \in {0, overtaken[e]}
        /\ pc'[e] \in {"undecided", "decided"} => pc[e] \in {"undecided", "decided"}
        /\ pc'[e] \in InWait /\ overtaken'[e] = 1 =>
             /\ pc[e] \in InWait /\ target'[e] = target[e]
             /\ inFlight \notin {Nobody, TrackOf[e]} =>
                  inFlight' \notin {Nobody, TrackOf[e]} \/ preferred' = TrackOf[e]
             /\ preferred = TrackOf[e] => preferred' = TrackOf[e]
        /\ pc[e] = "slot" => pc'[e] = "slot"
        /\ pc[e] = "folding" => pc'[e] = "folding" /\ number'[e] = number[e]
  BY <1>1, <1>2, <1>3, <1>4, <1>5, FoldAssumption DEF Moved, InWait
<1> QED
  BY <1>1, <1>6, TurnsKept

LEMMA TurnsStep ==
  ASSUME FoldInv, TurnsInv, TwoTracks, [FoldNext]_foldVars
  PROVE  TurnsInv'
<1>1. FoldTypeOK
  BY DEF FoldInv
<1>2. ASSUME NEW d \in Decisions, Decide(d)
      PROVE  TurnsInv'
  <2>1. Moved(d, "decided")
    BY <1>1, <1>2, GotoMoves DEF Decide, Places
  <2>2. pc[d] = "undecided" /\ UNCHANGED <<inFlight, preferred, completed, target, number, overtaken>>
    BY <1>2 DEF Decide, coordinator, caller, history
  <2> QED
    BY <2>1, <2>2, TurnsKept DEF Moved, InWait, TurnsInv
<1>3. ASSUME NEW d \in Decisions, Register(d)
      PROVE  TurnsInv'
  <2>1. Moved(d, "awake")
    BY <1>1, <1>3, GotoMoves DEF Register, Places
  <2>2. /\ pc[d] = "decided" /\ target' = [target EXCEPT ![d] = last + 1]
        /\ UNCHANGED <<inFlight, preferred, completed, number, overtaken>>
    BY <1>3 DEF Register, history
  <2>3. overtaken[d] = 0 /\ \A e \in Decisions \ {d} : target'[e] = target[e]
    BY <1>1, <2>2 DEF TurnsInv, FoldTypeOK
  <2> QED
    BY <2>1, <2>2, <2>3, TurnsKept DEF Moved, InWait, TurnsInv
<1>4. ASSUME NEW d \in Decisions, Look(d) \/ Expire(d)
      PROVE  TurnsInv'
  <2>1. pc[d] \in InWait
    BY <1>4 DEF Look, Expire, InWait
  <2>2. CASE pc[d] = "awake" /\ Sleep(d)
    <3>1. /\ Moved(d, "asleep")
          /\ UNCHANGED <<inFlight, preferred, completed, target, number, overtaken>>
      BY <1>1, <2>2, GotoMoves DEF Sleep, coordinator, caller, history, Places
    <3> QED
      BY <2>2, <3>1, TurnsKept DEF Moved, InWait, TurnsInv
  <2>3. CASE Return(d) \/ Withdraw(d, "timedOut")
    BY <2>1, <2>3, WithdrawTurns DEF Return
  <2> QED
    BY <1>4, <2>1, <2>2, <2>3, TakeSlotTurns DEF Look, Expire
<1>5. CASE UNCHANGED foldVars
  BY <1>5 DEF foldVars, coordinator, caller, history, TurnsInv, Underway
<1> QED
  BY <1>2, <1>3, <1>4, <1>5, StartPassTurns, EndPassTurns, LeaveTurns DEF FoldNext, Run, Own

\* While a decision waits for its track, the other track has the slot at most once.
THEOREM TracksAlternate ==
  ASSUME TwoTracks PROVE FoldSafety => []OvertakenAtMostOnce
<1>1. FoldInit => TurnsInv
  BY DEF FoldInit, TurnsInv, InWait
<1>2. FoldInv /\ TurnsInv /\ [FoldNext]_foldVars => TurnsInv'
  BY TurnsStep
<1>3. TurnsInv => OvertakenAtMostOnce
  BY DEF TurnsInv, OvertakenAtMostOnce
<1> QED
  BY <1>1, <1>2, <1>3, FoldInvariance, PTL DEF FoldSafety
=============================================================================
