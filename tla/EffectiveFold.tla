----------------------------- MODULE EffectiveFold -----------------------------
(***************************************************************************)
(* _EffectiveFoldCoordinator of src/review_state.py: every expert decision *)
(* waits for a fold of the effective claim ledger that began after the     *)
(* decision was durable, and a burst of decisions shares the folds.  The   *)
(* decisions of the two delivery tracks share one slot.                    *)
(*                                                                         *)
(* A decision is one call of cover().  What the code does between two      *)
(* points where it gives up the condition's lock is one step.  The fold    *)
(* reads its authority some time after its pass is numbered; the model has *)
(* it read at once, which is the least that it can see.                    *)
(***************************************************************************)
EXTENDS Integers, FiniteSets

CONSTANTS Decisions,       \* numbered in the order in which each track makes them
          Tracks,          \* authority_hook_track: "A" and "B"
          TrackOf,         \* the track of each decision
          Nobody,          \* None
          DrainPasses      \* _EFFECTIVE_FOLD_DRAIN_PASSES

ASSUME FoldAssumption ==
  /\ Decisions \subseteq Nat
  /\ TrackOf \in [Decisions -> Tracks]
  /\ Nobody \notin Tracks
  /\ DrainPasses \in Nat \ {0}

VARIABLES
  inFlight,   \* _in_flight: the track that has the slot
  dirty,      \* _dirty: tracks with a decision that no pass has begun for
  preferred,  \* _preferred: the track that is to have the slot next
  last,       \* _last_allocated
  completed,  \* _completed, by track
  pc,         \* where each decision is in cover()
  target,     \* the number from which on a pass covers the decision
  passes,     \* the passes that the decision has run as the owner of the slot
  number,     \* the number of its present pass
  view,       \* history: the decisions that the present pass of an owner folds
  folded,     \* history: the decisions that a completed pass had in its view
  overtaken   \* history: how often the other track took the slot while one was in wait

coordinator == <<inFlight, dirty, preferred, last, completed>>
caller == <<target, passes, number>>
history == <<view, folded, overtaken>>
foldVars == <<coordinator, pc, caller, history>>

FoldInit ==
  /\ inFlight = Nobody /\ preferred = Nobody
  /\ dirty = {} /\ last = 0
  /\ completed = [r \in Tracks |-> 0]
  /\ pc = [d \in Decisions |-> "undecided"]
  /\ target = [d \in Decisions |-> 0]
  /\ passes = [d \in Decisions |-> 0]
  /\ number = [d \in Decisions |-> 0]
  /\ view = [d \in Decisions |-> {}] /\ folded = {}
  /\ overtaken = [d \in Decisions |-> 0]

Goto(d, place) == pc' = [pc EXCEPT ![d] = place]

\* _waiting, of which the code keeps the number.
Waiting(r) == {d \in Decisions : pc[d] \in {"awake", "asleep"} /\ TrackOf[d] = r}

\* Mutant: whoever comes first has the slot.
HandoffToAnyone(r) == TRUE

HandoffAllows(r) == preferred \in {Nobody, r} \/ Waiting(preferred) = {}

\* notify_all, for the decisions whose place does not change otherwise.
Notified(places) == [d \in Decisions |-> IF places[d] = "asleep" THEN "awake" ELSE places[d]]

-----------------------------------------------------------------------------
(* A decision and its wait.                                                *)

\* The authority row is written and durable before cover() is called.
Decide(d) ==
  /\ pc[d] = "undecided" /\ Goto(d, "decided")
  /\ \A e \in Decisions : TrackOf[e] = TrackOf[d] /\ e < d => pc[e] # "undecided"
  /\ UNCHANGED <<coordinator, caller, history>>

\* Mutant: a pass that has begun already is good enough.
RegisterOnRunningPass(d) ==
  /\ pc[d] = "decided" /\ Goto(d, "awake")
  /\ target' = [target EXCEPT ![d] = last]
  /\ dirty' = dirty \cup {TrackOf[d]}
  /\ UNCHANGED <<inFlight, preferred, last, completed, passes, number, history>>

\* cover() up to the loop: any pass that is numbered from now on will do.
Register(d) ==
  /\ pc[d] = "decided" /\ Goto(d, "awake")
  /\ target' = [target EXCEPT ![d] = last + 1]
  /\ dirty' = dirty \cup {TrackOf[d]}
  /\ UNCHANGED <<inFlight, preferred, last, completed, passes, number, history>>

Covered(d) == completed[TrackOf[d]] >= target[d]
MayTake(d) == inFlight = Nobody /\ HandoffAllows(TrackOf[d])

\* The call is over, and with it what it knew; overtaken is about those that wait.
Forget(d) ==
  /\ target' = [target EXCEPT ![d] = 0]
  /\ passes' = [passes EXCEPT ![d] = 0]
  /\ number' = [number EXCEPT ![d] = 0]
  /\ overtaken' = [overtaken EXCEPT ![d] = 0]
  /\ UNCHANGED <<view, folded>>

\* The finally clause of a wait that ends without the slot: the last waiter of the
\* preferred track takes the preference away and wakes the others.
Withdraw(d, place) ==
  /\ IF preferred = TrackOf[d] /\ Waiting(TrackOf[d]) = {d}
       THEN preferred' = Nobody /\ pc' = Notified([pc EXCEPT ![d] = place])
       ELSE Goto(d, place) /\ UNCHANGED preferred
  /\ Forget(d)
  /\ UNCHANGED <<inFlight, dirty, last, completed>>

Return(d) == Covered(d) /\ Withdraw(d, "done")

\* Mutant: the slot is taken without looking whether it is free.
TakeSlotBlindly(d) ==
  /\ ~Covered(d) /\ HandoffAllows(TrackOf[d])
  /\ Goto(d, "slot")
  /\ inFlight' = TrackOf[d] /\ preferred' = Nobody
  /\ UNCHANGED <<dirty, last, completed, caller, history>>

TakeSlot(d) ==
  /\ ~Covered(d) /\ MayTake(d)
  /\ Goto(d, "slot")
  /\ inFlight' = TrackOf[d] /\ preferred' = Nobody
  /\ overtaken' = [e \in Decisions |->
       IF ~Covered(e) /\ \E r \in Tracks \ {TrackOf[d]} : e \in Waiting(r)
         THEN overtaken[e] + 1 ELSE overtaken[e]]
  /\ UNCHANGED <<dirty, last, completed, caller, view, folded>>

Sleep(d) ==
  /\ ~Covered(d) /\ ~MayTake(d) /\ Goto(d, "asleep")
  /\ UNCHANGED <<coordinator, caller, history>>

\* A turn of the wait loop.
Look(d) == pc[d] = "awake" /\ (Return(d) \/ TakeSlot(d) \/ Sleep(d))

\* EFFECTIVE_FOLD_COVER_TIMEOUT_S is over: one more turn, in which the wait ends in any
\* case, at the worst with EffectiveFoldCoverTimeout.  The decision stays.
Expire(d) ==
  /\ pc[d] \in {"awake", "asleep"}
  /\ \/ Return(d)
     \/ TakeSlot(d)
     \/ ~Covered(d) /\ ~MayTake(d) /\ Withdraw(d, "timedOut")

-----------------------------------------------------------------------------
(* The owner of the slot and its passes.                                   *)

\* Mutant: the track stays dirty.
StartPassDirty(d) ==
  /\ pc[d] = "slot" /\ Goto(d, "folding")
  /\ last' = last + 1
  /\ number' = [number EXCEPT ![d] = last + 1]
  /\ passes' = [passes EXCEPT ![d] = @ + 1]
  /\ view' = [view EXCEPT ![d] =
       {e \in Decisions : TrackOf[e] = TrackOf[d] /\ pc[e] # "undecided"}]
  /\ UNCHANGED <<inFlight, dirty, preferred, completed, target, folded, overtaken>>

\* A number for the pass, and the decisions that are durable by then in its view.
StartPass(d) ==
  /\ pc[d] = "slot" /\ Goto(d, "folding")
  /\ last' = last + 1
  /\ number' = [number EXCEPT ![d] = last + 1]
  /\ dirty' = dirty \ {TrackOf[d]}
  /\ passes' = [passes EXCEPT ![d] = @ + 1]
  /\ view' = [view EXCEPT ![d] =
       {e \in Decisions : TrackOf[e] = TrackOf[d] /\ pc[e] # "undecided"}]
  /\ UNCHANGED <<inFlight, preferred, completed, target, folded, overtaken>>

\* Mutant: the owner runs passes as long as decisions come in.
EndPassUnbounded(d) ==
  LET r == TrackOf[d] IN
  /\ pc[d] = "folding"
  /\ completed' = [completed EXCEPT ![r] = IF @ < number[d] THEN number[d] ELSE @]
  /\ Goto(d, IF r \in dirty THEN "slot" ELSE "leaving")
  /\ folded' = folded \cup view[d] /\ view' = [view EXCEPT ![d] = {}]
  /\ UNCHANGED <<inFlight, dirty, preferred, last, caller, overtaken>>

\* The fold returned or failed, which is logged; the pass counts either way.  Another
\* one follows while decisions have come in, up to the limit.
EndPass(d) ==
  LET r == TrackOf[d] IN
  /\ pc[d] = "folding"
  /\ completed' = [completed EXCEPT ![r] = IF @ < number[d] THEN number[d] ELSE @]
  /\ Goto(d, IF r \in dirty /\ passes[d] < DrainPasses THEN "slot" ELSE "leaving")
  /\ folded' = folded \cup view[d] /\ view' = [view EXCEPT ![d] = {}]
  /\ UNCHANGED <<inFlight, dirty, preferred, last, caller, overtaken>>

\* Mutant: the owner leaves without notify_all.
LeaveSilently(d) ==
  LET others == {r \in Tracks \ {TrackOf[d]} : Waiting(r) # {}} IN
  /\ pc[d] = "leaving"
  /\ inFlight' = Nobody
  /\ IF others = {} THEN preferred' = Nobody ELSE preferred' \in others
  /\ Goto(d, "done") /\ Forget(d)
  /\ UNCHANGED <<dirty, last, completed>>

\* The finally clause of the owner: _next_preferred is another track with waiters (the
\* first in order, of which there is one), and everybody is notified.
Leave(d) ==
  LET others == {r \in Tracks \ {TrackOf[d]} : Waiting(r) # {}} IN
  /\ pc[d] = "leaving"
  /\ inFlight' = Nobody
  /\ IF others = {} THEN preferred' = Nobody ELSE preferred' \in others
  /\ pc' = Notified([pc EXCEPT ![d] = "done"]) /\ Forget(d)
  /\ UNCHANGED <<dirty, last, completed>>

Own(d) == StartPass(d) \/ EndPass(d) \/ Leave(d)

\* What a thread does that has made its decision and can run.
Run(d) == Register(d) \/ Look(d) \/ Own(d)

FoldNext == \E d \in Decisions : Decide(d) \/ Run(d) \/ Expire(d)

FoldSafety == FoldInit /\ [][FoldNext]_foldVars

\* Threads that can run are run and folds end; nobody is obliged to decide, and no
\* deadline is counted on.
FoldFairness == \A d \in Decisions : WF_foldVars(Run(d))

FoldSpec == FoldSafety /\ FoldFairness

-----------------------------------------------------------------------------
(* Correctness.                                                            *)

Places == {"undecided", "decided", "awake", "asleep", "slot", "folding", "leaving",
           "done", "timedOut"}

FoldTypeOK ==
  /\ inFlight \in Tracks \cup {Nobody} /\ preferred \in Tracks \cup {Nobody}
  /\ dirty \subseteq Tracks /\ last \in Nat
  /\ completed \in [Tracks -> Nat]
  /\ pc \in [Decisions -> Places]
  /\ target \in [Decisions -> Nat] /\ number \in [Decisions -> Nat]
  /\ passes \in [Decisions -> 0..DrainPasses]
  /\ folded \subseteq Decisions
  /\ view \in [Decisions -> SUBSET Decisions]
  /\ overtaken \in [Decisions -> Nat]

\* "cover returns only after at least one fold pass of track that was numbered after
\* the caller registered has completed": whoever ran the fold, what a reviewer sees
\* after the answer has the decision in it, unless that fold failed, which is logged.
CoverIsFresh == \A d \in Decisions : pc[d] = "done" => d \in folded

\* "Per-root single-flight": one decision owns the slot, and it is its track's.
Owners == {d \in Decisions : pc[d] \in {"slot", "folding", "leaving"}}
SingleFlight ==
  /\ \A d, e \in Owners : d = e
  /\ \A d \in Owners : inFlight = TrackOf[d]

\* A burst of decisions is collapsed: there are never more passes than decisions
\* that were registered, however the waits interleave, end or time out.
NeverMorePassesThanDecisions ==
  last <= Cardinality({d \in Decisions : pc[d] \notin {"undecided", "decided"}})

\* "Both tracks waiting: alternation": while a decision waits for a pass of its own
\* track, the other track gets the slot at most once.
OvertakenAtMostOnce == \A d \in Decisions : overtaken[d] <= 1

\* Every cover() returns, without the deadline's help: the wait is bounded by the folds
\* and not by the timeout, which nothing here is obliged to raise.  There are finitely
\* many decisions, so that the end of them all comes to stay.
EveryCoverReturns ==
  <>[](\A d \in Decisions : pc[d] \in {"undecided", "done", "timedOut"})
=============================================================================
