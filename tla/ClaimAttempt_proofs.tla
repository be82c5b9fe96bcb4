-------------------------- MODULE ClaimAttempt_proofs --------------------------
(***************************************************************************)
(* Theorems about the paid re-extraction of a claim, for every number of   *)
(* executors and requests and every setting: crashes, resumptions, full    *)
(* extractions, reviews and adjudications without a bound.                 *)
(***************************************************************************)
EXTENDS ClaimAttempt, TLAPS

-----------------------------------------------------------------------------
(* Histories.                                                              *)

\* The events that a history holds at most once.
Single == Checkpoints \cup {"reextract_started"}

Counts(h) == {e.detail.calls : e \in {d \in h : d.kind = "budget_checkpoint"}}

\* What the appends keep: every event but the first has its cause, what happens once
\* happened once, there is one end, and the counts of the calls have a largest one.
Caused(h) == \A e \in h : e.kind # "reextract_started" => Has(h, Requires(e.kind))
Once(h) == \A e, f \in h : e.kind \in Single /\ e.kind = f.kind => e = f
OneEnd(h) == \A e, f \in h : e.kind \in Terminal /\ f.kind \in Terminal => e = f
Counted(h) ==
  /\ Counts(h) \subseteq Nat
  /\ Counts(h) = {} \/ \E n \in Counts(h) : \A m \in Counts(h) : m <= n
WellFormed(h) ==
  /\ \A e \in h : e.kind \in EventKinds
  /\ Caused(h) /\ Once(h) /\ OneEnd(h) /\ Counted(h)

\* An append as Accepts allows it, but for the budget checkpoint that is put back when a
\* scope ends, which nothing guards.
Grows(h, e) ==
  \/ e \in h
  \/ e.kind = "reextract_started" /\ h = {}
  \/ /\ e.kind \in EventKinds \ {"reextract_started"}
     /\ Has(h, Requires(e.kind))
     /\ e.kind # "budget_checkpoint" => ~Ended(h)
     /\ e.kind \in Checkpoints => ~Has(h, e.kind)
     /\ e.kind = "budget_checkpoint" => e.detail.calls \in Nat

LEMMA HasMore ==
  ASSUME NEW h, NEW e, NEW kind
  PROVE  Has(h \cup {e}, kind) <=> Has(h, kind) \/ e.kind = kind
BY DEF Has

LEMMA EndedMore ==
  ASSUME NEW h, NEW e
  PROVE  Ended(h \cup {e}) <=> Ended(h) \/ e.kind \in Terminal
BY HasMore DEF Ended

\* An accepted append keeps a history as it has to be.
LEMMA GrowsWell ==
  ASSUME NEW h, NEW e, WellFormed(h), Grows(h, e)
  PROVE  WellFormed(h \cup {e})
<1>1. CASE e \in h
  <2>1. h \cup {e} = h
    BY <1>1
  <2> QED
    BY <2>1
<1>2. CASE e.kind = "reextract_started" /\ h = {}
  <2>1. h \cup {e} = {e}
    BY <1>2
  <2>2. Counts({e}) = {}
    BY <1>2 DEF Counts
  <2>3. Caused({e}) /\ Once({e}) /\ OneEnd({e})
    BY <1>2 DEF Caused, Once, OneEnd
  <2> QED
    BY <1>2, <2>1, <2>2, <2>3 DEF WellFormed, Counted, EventKinds
<1>3. CASE /\ e \notin h
           /\ e.kind \in EventKinds \ {"reextract_started"}
           /\ Has(h, Requires(e.kind))
           /\ e.kind # "budget_checkpoint" => ~Ended(h)
           /\ e.kind \in Checkpoints => ~Has(h, e.kind)
           /\ e.kind = "budget_checkpoint" => e.detail.calls \in Nat
  <2>1. Caused(h \cup {e})
    BY <1>3, HasMore DEF Caused, WellFormed
  <2>2. Once(h \cup {e})
    <3>1. e.kind \in Single => ~Has(h, e.kind)
      BY <1>3 DEF Single
    <3> QED
      BY <3>1 DEF Once, WellFormed, Has
  <2>3. OneEnd(h \cup {e})
    <3>1. e.kind \in Terminal => \A f \in h : f.kind \notin Terminal
      BY <1>3 DEF Terminal, Ended, Has
    <3> QED
      BY <3>1 DEF OneEnd, WellFormed
  <2>4. Counted(h \cup {e})
    <3>1. CASE e.kind # "budget_checkpoint"
      <4>1. Counts(h \cup {e}) = Counts(h)
        BY <3>1 DEF Counts
      <4> QED
        BY <4>1 DEF Counted, WellFormed
    <3>2. CASE e.kind = "budget_checkpoint"
      <4> DEFINE n == e.detail.calls
      <4>1. Counts(h \cup {e}) = Counts(h) \cup {n}
        BY <3>2 DEF Counts
      <4>2. n \in Nat /\ Counted(h)
        BY <1>3, <3>2 DEF WellFormed
      <4> HIDE DEF n
      <4> QED
        BY <4>1, <4>2 DEF Counted
    <3> QED
      BY <3>1, <3>2
  <2>5. \A f \in h \cup {e} : f.kind \in EventKinds
    BY <1>3 DEF WellFormed
  <2> QED
    BY <2>1, <2>2, <2>3, <2>4, <2>5 DEF WellFormed
<1> QED
  BY <1>1, <1>2, <1>3 DEF Grows

\* The detail of an event that a history holds once.
LEMMA DetailIs ==
  ASSUME NEW h, Once(h), NEW e \in h, e.kind \in Single
  PROVE  Detail(h, e.kind) = e.detail
<1>1. \A f \in h : f.kind = e.kind => f = e
  BY DEF Once
<1> QED
  BY <1>1 DEF Detail

LEMMA DetailKept ==
  ASSUME NEW h, NEW e, Once(h), Once(h \cup {e}), NEW kind \in Single, Has(h, kind)
  PROVE  Detail(h \cup {e}, kind) = Detail(h, kind)
<1>1. PICK f \in h : f.kind = kind
  BY DEF Has
<1> QED
  BY <1>1, DetailIs

Largest(S) == IF S = {} THEN 0 ELSE CHOOSE n \in S : \A m \in S : m <= n

LEMMA CallsAre ==
  ASSUME NEW h
  PROVE  CallsRecorded(h) = Largest(Counts(h))
BY DEF CallsRecorded, Counts, Largest

\* The largest count.
LEMMA CallsMax ==
  ASSUME NEW h, Counted(h)
  PROVE  /\ CallsRecorded(h) \in Nat
         /\ \A n \in Counts(h) : n <= CallsRecorded(h)
         /\ CallsRecorded(h) = 0 \/ CallsRecorded(h) \in Counts(h)
BY CallsAre DEF Counted, Largest

LEMMA CallsKept ==
  ASSUME NEW h, NEW e, e.kind # "budget_checkpoint"
  PROVE  CallsRecorded(h \cup {e}) = CallsRecorded(h)
<1>1. Counts(h \cup {e}) = Counts(h)
  BY DEF Counts
<1> QED
  BY <1>1, CallsAre

LEMMA CallsBooked ==
  ASSUME NEW h, Counted(h), NEW n \in Nat
  PROVE  /\ Counted(h \cup {BudgetEvent(n)})
         /\ CallsRecorded(h \cup {BudgetEvent(n)})
              = IF n <= CallsRecorded(h) THEN CallsRecorded(h) ELSE n
<1> DEFINE e == BudgetEvent(n)
<1> DEFINE g == h \cup {e}
<1>1. Counts(g) = Counts(h) \cup {n}
  <2>1. e.kind = "budget_checkpoint" /\ e.detail.calls = n
    BY DEF BudgetEvent, Event
  <2> HIDE DEF e
  <2> QED
    BY <2>1 DEF Counts
<1>2. Counted(g)
  <2> HIDE DEF g
  <2> QED
    BY <1>1 DEF Counted
<1>3. CallsRecorded(g) \in Nat /\ (\A m \in Counts(g) : m <= CallsRecorded(g))
      /\ (CallsRecorded(g) = 0 \/ CallsRecorded(g) \in Counts(g))
  BY <1>2, CallsMax
<1>4. CallsRecorded(h) \in Nat /\ (\A m \in Counts(h) : m <= CallsRecorded(h))
      /\ (CallsRecorded(h) = 0 \/ CallsRecorded(h) \in Counts(h))
  BY CallsMax
<1> HIDE DEF g
<1>5. CallsRecorded(g) = IF n <= CallsRecorded(h) THEN CallsRecorded(h) ELSE n
  BY <1>1, <1>3, <1>4
<1> QED
  BY <1>2, <1>5 DEF g

LEMMA CallsInQueue ==
  ASSUME NEW h, Counted(h), NEW n, BudgetEvent(n) \in h
  PROVE  n <= CallsRecorded(h)
<1>1. n \in Counts(h)
  BY DEF Counts, BudgetEvent, Event
<1> QED
  BY <1>1, CallsMax

\* What has happened has its cause.
LEMMA Causes ==
  ASSUME NEW h, WellFormed(h)
  PROVE  /\ h # {} => Has(h, "reextract_started")
         /\ Has(h, "publication_prepared") => Has(h, "supplement_persisted")
         /\ Has(h, "requirements_published") => Has(h, "supplement_persisted")
         /\ Has(h, "base_rebuild_published") => Has(h, "requirements_published")
         /\ Has(h, "effective_folded") => Has(h, "base_rebuild_published")
         /\ Has(h, "reextract_succeeded") => Has(h, "effective_folded")
<1>1. \A kind : kind # "reextract_started" /\ Has(h, kind) => Has(h, Requires(kind))
  BY DEF WellFormed, Caused, Has
<1>2. /\ Requires("publication_prepared") = "supplement_persisted"
      /\ Requires("requirements_published") = "supplement_persisted"
      /\ Requires("base_rebuild_published") = "requirements_published"
      /\ Requires("effective_folded") = "base_rebuild_published"
      /\ Requires("reextract_succeeded") = "effective_folded"
      /\ Requires("supplement_persisted") = "reextract_started"
      /\ \A kind \in {"budget_checkpoint", "reextract_failed", "reextract_interrupted",
                      "reextract_aborted_stale"} : Requires(kind) = "reextract_started"
  BY DEF Requires
<1>3. \A e \in h : Has(h, e.kind) /\ e.kind \in EventKinds
  BY DEF Has, WellFormed
<1>4. h # {} => Has(h, "reextract_started")
  BY <1>1, <1>2, <1>3 DEF EventKinds, Checkpoints, Terminal
<1> QED
  BY <1>1, <1>2, <1>4

LEMMA Lifecycles ==
  ASSUME NEW h
  PROVE  /\ Lifecycle(h) = "succeeded" => Has(h, "reextract_succeeded")
         /\ Lifecycle(h) = "rebuild_pending" => ~Ended(h) /\ Has(h, "requirements_published")
         /\ Lifecycle(h) = "executing" => ~Ended(h) /\ h # {}
         /\ Live(h) <=> h # {} /\ ~Ended(h)
BY DEF Lifecycle, Live, Ended, Terminal, Has

-----------------------------------------------------------------------------
(* Types and the extraction lock.                                          *)

Types ==
  /\ setting \in Settings
  /\ log = [k \in Keys |-> log[k]]
  /\ outbox # Nobody => outbox \in [account : Keys, calls : Nat]
  /\ wal # Nobody =>
       wal \in [owner : Executors \cup {Nobody}, account : Keys \cup {Nobody}, calls : Nat]
  /\ product \in Product /\ cached \subseteq Product /\ extractions \in 0..MaxEditions
  /\ patches \subseteq Keys
  /\ base \in Base /\ effective \in Snapshot \cup {NoFold}
  /\ reviews \in 0..MaxReviews /\ decisions \in 0..MaxDecisions
  /\ pc \in [Executors -> Locked \cup Unlocked]
  /\ key \in [Executors -> Keys \cup {Nobody}]
  /\ budget \in [Executors -> 0..MaxCalls \cup {Nobody}]
  /\ seen = [w \in Executors |-> seen[w]]
  /\ paid \in [Keys -> Nat]

\* Where an executor pays or is to publish what it paid for, before the rebuild.
Unpublished == {"pay", "supplement", "revalidate", "prepare", "patch", "replace", "publish"}
Calling == {"sent", "settle"}

\* Who is inside the critical sections, who serves a request, and who has a budget.
LockedBy(w) ==
  /\ holder = w <=> pc[w] \in Locked
  /\ key[w] = Nobody <=> pc[w] = "idle"
  /\ pc[w] \in {"idle", "recover", "admit"} => budget[w] = Nobody
  /\ pc[w] \in Unpublished \cup Calling \cup {"derive", "attach", "reserved", "settled"} =>
       budget[w] # Nobody

\* The functional product that is about to be written is made from the one that is there.
Carries(w) == pc[w] = "replace" /\ Functional => seen[w] \in Merged(w)

Control == Types /\ \A w \in Executors : LockedBy(w) /\ Carries(w)

LEMMA SettingTypes ==
  ASSUME setting \in Settings
  PROVE  /\ MaxCalls \in Nat /\ MaxEditions \in Nat /\ MaxReviews \in Nat
         /\ MaxDecisions \in Nat /\ MaxCrashes \in Nat
         /\ Functional \in BOOLEAN /\ VerifierOn \in BOOLEAN
BY AttemptAssumption
   DEF MaxCalls, MaxEditions, MaxReviews, MaxDecisions, MaxCrashes, Functional, VerifierOn

\* What the executor at a place has in hand.
LEMMA InHand ==
  ASSUME Control, NEW w \in Executors
  PROVE  /\ pc[w] # "idle" => key[w] \in Keys
         /\ pc[w] \in Unpublished \cup Calling \cup {"derive", "attach", "reserved", "settled"}
              => budget[w] \in 0..MaxCalls
         /\ budget[w] # Nobody => budget[w] \in 0..MaxCalls /\ key[w] \in Keys
BY DEF Control, Types, LockedBy

LEMMA LeaveTypes ==
  ASSUME Control, NEW w \in Executors, Leave(w)
  PROVE  /\ pc' \in [Executors -> Locked \cup Unlocked]
         /\ key' \in [Executors -> Keys \cup {Nobody}]
         /\ budget' \in [Executors -> 0..MaxCalls \cup {Nobody}]
         /\ seen' = [v \in Executors |-> seen'[v]]
BY DEF Leave, Goto, Control, Types, Unlocked

LEMMA TypesStep ==
  ASSUME Control, AttemptNext
  PROVE  Types'
<1> USE AttemptAssumption DEF durable, authority, private, fanout, Control, Types, Product, Base,
     Snapshot, BaseNow, SnapshotNow, MaxEditions, MaxReviews, MaxDecisions, MaxCalls, Locked, Unlocked
<1>0. setting' = setting /\ AttemptStep
  BY DEF AttemptNext
<1>1. ASSUME NEW w \in Executors, Executor(w)
      PROVE  Types'
  <2>1. CASE \E k \in Keys : Begin(w, k)
    BY <2>1, <1>0 DEF Begin, Goto
  <2>2. CASE RecoverFanout(w)
    BY <1>0, <2>2 DEF RecoverFanout, ReplayQueue, ReplayVerifier, ReplayEnd, Put, Replayable
  <2>3. CASE Recover(w)
    BY ZenonT(60), <2>3, <1>0 DEF Recover, Put
  <2>4. CASE Recovered(w)
    BY <2>4, <1>0 DEF Recovered, Leave, Goto
  <2>5. CASE Replay(w)
    BY <2>5, <1>0 DEF Replay, Project, Leave, Goto, RecoverClaims, EndScope
  <2>6. CASE Resume(w)
    BY <2>6, <1>0 DEF Resume, Goto
  <2>7. CASE ResumeStale(w)
    BY ZenonT(60), <2>7, <1>0 DEF ResumeStale, Conclude, Put, Leave, Goto
  <2>8. CASE Start(w)
    <3>1. budget' \in [Executors -> 0..MaxCalls' \cup {Nobody}]
      BY <1>0, <2>8, InHand, SettingTypes DEF Start
    <3>2. log' = [k \in Keys |-> log'[k]]
      BY <1>0, <2>8, InHand DEF Start, Put
    <3> QED
      BY <1>0, <2>8, <3>1, <3>2 DEF Start, RecoverClaims, EndScope, Put, Goto
  <2>9. CASE Refuse(w)
    BY <2>9, <1>0, LeaveTypes DEF Refuse, RecoverClaims, EndScope
  <2>10. CASE Reserve(w)
    <3>1. budget' \in [Executors -> 0..MaxCalls' \cup {Nobody}]
      BY <1>0, <2>10, InHand, SettingTypes DEF Reserve, Unpublished
    <3>2. log' = [k \in Keys |-> log'[k]]
      BY <1>0, <2>10, InHand DEF Reserve, Checkpoint, Put
    <3> QED
      BY <1>0, <2>10, <3>1, <3>2 DEF Reserve, Checkpoint, Put, Goto
  <2>11. CASE Send(w)
    BY <1>0, <2>11, InHand, SettingTypes DEF Send, Goto, Unpublished, Calling
  <2>12. CASE Settle(w)
    BY ZenonT(60), <2>12, <1>0 DEF Settle, Checkpoint, Put, Goto
  <2>13. CASE Answered(w)
    BY <2>13, <1>0 DEF Answered, Goto
  <2>14. CASE Supplement(w)
    BY ZenonT(60), <2>14, <1>0 DEF Supplement, Checkpoint, Put, Goto
  <2>15. CASE Revalidate(w)
    BY <2>15, <1>0 DEF Revalidate, RecoverClaims, EndScope, Goto
  <2>16. CASE RevalidateConflict(w)
    BY ZenonT(60), <2>16, <1>0 DEF RevalidateConflict, Conclude, Put, Leave, Goto
  <2>17. CASE Prepare(w)
    <3>1. PICK new : /\ \E e : Put(key[w], e)
                     /\ Goto(w, "replace") /\ seen' = [seen EXCEPT ![w] = new]
      BY <2>17 DEF Prepare, Checkpoint
    <3>2. /\ log' = [k \in Keys |-> log'[k]] /\ pc' \in [Executors -> Locked \cup Unlocked]
          /\ seen' = [v \in Executors |-> seen'[v]]
      BY <3>1 DEF Put, Goto
    <3>3. cached' \subseteq cached
      BY <2>17 DEF Prepare
    <3> QED
      BY <1>0, <2>17, <3>2, <3>3 DEF Prepare
  <2>18. CASE Patch(w)
    BY <1>0, <2>18, InHand, SettingTypes DEF Patch, Goto, Unpublished, Calling
  <2>19. CASE Replace(w)
    <3>1. pc[w] = "replace" /\ key[w] \in Keys
      BY <2>19, InHand DEF Replace
    <3>2. product' \in Product
      <4>1. CASE Functional
        BY <2>19, <3>1, <4>1 DEF Replace, Carries, Merged
      <4>2. CASE ~Functional
        BY <2>19, <3>1, <4>2 DEF Replace, Patched
      <4> QED
        BY <4>1, <4>2
    <3>3. /\ pc' \in [Executors -> Locked \cup Unlocked]
          /\ seen' = [v \in Executors |-> seen'[v]]
      BY <2>19 DEF Replace, Goto
    <3> QED
      BY <1>0, <2>19, <3>2, <3>3 DEF Replace
  <2>20. CASE Unapplied(w)
    BY ZenonT(60), <2>20, <1>0 DEF Unapplied, Conclude, Put, Leave, Goto
  <2>21. CASE Publish(w)
    BY ZenonT(60), <2>21, <1>0 DEF Publish, Checkpoint, Put, Goto
  <2>22. CASE Derive(w)
    BY <2>22, <1>0 DEF Derive, Goto
  <2>23. CASE Fail(w)
    BY ZenonT(60), <2>23, <1>0 DEF Fail, Conclude, Put, Leave, Goto
  <2>24. CASE Rebuild(w)
    BY <2>24, <1>0 DEF Rebuild, RecoverClaims, EndScope, Goto
  <2>25. CASE Republish(w)
    BY <2>25, <1>0 DEF Republish, Goto
  <2>26. CASE Acquire(w)
    BY <2>26, <1>0 DEF Acquire, RecoverClaims, EndScope, Goto
  <2>27. CASE Overtaken(w)
    BY <2>27, <1>0 DEF Overtaken, RecoverClaims, EndScope, Goto
  <2>28. CASE EnterScope(w)
    BY <2>28, <1>0 DEF EnterScope, BeginScope, Goto, Account, CallsSoFar, Budgeted
  <2>29. CASE EnterFails(w)
    BY <2>29, <1>0, LeaveTypes DEF EnterFails
  <2>30. CASE AttachScope(w)
    BY <1>0, <2>30, InHand, SettingTypes DEF AttachScope, WriteOutbox, Goto, Unpublished, Calling
  <2>31. CASE ReserveInScope(w)
    <3>1. budget[w] \in 0..MaxCalls /\ key[w] \in Keys
      BY <1>0, <2>31, InHand DEF ReserveInScope, Budgeted
    <3>2. budget[w] + 1 \in 0..MaxCalls /\ budget[w] + 1 \in Nat
      BY <1>0, <2>31, <3>1, SettingTypes DEF ReserveInScope
    <3>3. budget' \in [Executors -> 0..MaxCalls' \cup {Nobody}]
      BY <1>0, <2>31, <3>2 DEF ReserveInScope
    <3>4. outbox' \in [account : Keys, calls : Nat]
      BY <1>0, <2>31, <3>1, <3>2 DEF ReserveInScope, WriteOutbox
    <3> QED
      BY <1>0, <2>31, <3>1, <3>2, <3>3, <3>4 DEF ReserveInScope, WriteOutbox, Goto
  <2>32. CASE SettleInScope(w)
    BY <1>0, <2>32, InHand, SettingTypes DEF SettleInScope, WriteOutbox, Goto, Unpublished, Calling
  <2>33. CASE ReplayInScope(w)
    BY <1>0, <2>33 DEF ReplayInScope, ReplayQueue, ReplayVerifier, ReplayEnd, Put, Goto, Replayable
  <2>34. CASE TransitionFails(w)
    BY <2>34, <1>0 DEF TransitionFails, Goto
  <2>35. CASE RefreshBase(w)
    BY <2>35, <1>0 DEF RefreshBase, EndScope, Put, Goto
  <2>36. CASE ScopeFails(w)
    BY <2>36, <1>0 DEF ScopeFails, Goto
  <2>37. CASE Unwind(w)
    BY <2>37, <1>0 DEF Unwind, Leave, Goto, EndScope
  <2>38. CASE UnwindFails(w)
    BY ZenonT(60), <2>38, <1>0 DEF UnwindFails, Leave, Goto, Abandon, Put
  <2>39. CASE Finalize(w)
    BY <2>39, <1>0 DEF Finalize, Goto
  <2>40. CASE LoadNothing(w)
    BY ZenonT(60), <2>40, <1>0 DEF LoadNothing, Checkpoint, Put, Goto, RecoverClaims, EndScope
  <2>41. CASE Fold(w)
    BY <2>41, <1>0 DEF Fold, Goto, RecoverClaims, EndScope
  <2>42. CASE Load(w)
    BY ZenonT(60), <2>42, <1>0 DEF Load, Goto, RecoverClaims, EndScope
  <2>43. CASE RecordBase(w)
    BY ZenonT(60), <2>43, <1>0 DEF RecordBase, Checkpoint, Put, Goto
  <2>44. CASE RecordFold(w)
    BY ZenonT(60), <2>44, <1>0 DEF RecordFold, Checkpoint, Put, Goto
  <2>45. CASE Succeed(w)
    BY ZenonT(60), <2>45, <1>0 DEF Succeed, Checkpoint, Put, Goto
  <2>46. CASE Succeeded(w)
    <3>1. effective' \in Snapshot' \cup {NoFold}
      BY <1>0, <2>46 DEF Succeeded, Project
    <3> QED
      BY ZenonT(60), <1>0, <2>46, <3>1 DEF Succeeded, Project, Leave, Goto, RecoverClaims, EndScope
  <2>47. CASE Falter(w)
    BY <2>47, <1>0, LeaveTypes DEF Falter
  <2> QED
    BY <1>1, <2>1, <2>2, <2>3, <2>4, <2>5, <2>6, <2>7, <2>8, <2>9, <2>10, <2>11, <2>12, <2>13,
       <2>14, <2>15, <2>16, <2>17, <2>18, <2>19, <2>20, <2>21, <2>22, <2>23, <2>24, <2>25,
       <2>26, <2>27, <2>28, <2>29, <2>30, <2>31, <2>32, <2>33, <2>34, <2>35, <2>36, <2>37,
       <2>38, <2>39, <2>40, <2>41, <2>42, <2>43, <2>44, <2>45, <2>46, <2>47 DEF Executor
<1>2. ASSUME NEW w \in Executors, Crash(w)
      PROVE  Types'
  BY <1>0, <1>2 DEF Crash, Leave, Goto, Abandon
<1>3. CASE FullExtraction
  BY <1>0, <1>3 DEF FullExtraction, Extract, NewEdition
<1>8. CASE FunctionalExtraction
  BY <1>0, <1>8 DEF FunctionalExtraction, Extract, NewEdition
<1>9. CASE Restore
  BY <1>0, <1>9 DEF Restore, Extract, NewEdition
<1>4. CASE Refresh
  BY <1>0, <1>4 DEF Refresh, RecoverClaims, EndScope
<1>5. CASE Review
  BY <1>0, <1>5 DEF Review
<1>6. CASE Decide
  BY <1>0, <1>6 DEF Decide, RecoverClaims, EndScope
<1>7. CASE FoldNow
  BY <1>0, <1>7 DEF FoldNow, RecoverClaims, EndScope
<1> QED
  BY <1>0, <1>1, <1>2, <1>3, <1>4, <1>5, <1>6, <1>7, <1>8, <1>9 DEF AttemptStep

\* A step of one executor: the others keep their places, requests and budgets and the
\* lock if they have it, and what the lock protects stays as it is without the lock.
StepOf(w) ==
  /\ \A v \in Executors \ {w} : pc'[v] = pc[v] /\ key'[v] = key[v] /\ budget'[v] = budget[v]
  /\ holder' = holder \/ (holder \in {Nobody, w} /\ holder' \in {Nobody, w})
  /\ holder # w => UNCHANGED <<log, product, patches, paid, outbox>>

\* A step of the environment.
Beside ==
  FullExtraction \/ FunctionalExtraction \/ Restore \/ Refresh \/ Review \/ Decide \/ FoldNow

StepBeside ==
  /\ UNCHANGED <<pc, key, budget, seen, holder, log, patches, paid, outbox>>
  /\ holder # Nobody => UNCHANGED product

LEMMA ExecutorStep ==
  ASSUME Control, NEW w \in Executors, Executor(w)
  PROVE  StepOf(w) /\ LockedBy(w)'
<1>1. /\ pc \in [Executors -> Locked \cup Unlocked] /\ key \in [Executors -> Keys \cup {Nobody}]
      /\ budget \in [Executors -> 0..MaxCalls \cup {Nobody}]
      /\ Nobody \notin Keys /\ Nobody \notin Executors /\ Nobody \notin Nat
      /\ LockedBy(w)
  BY AttemptAssumption DEF Control, Types
<1> USE DEF StepOf, LockedBy, durable, authority, private, fanout, Locked, Unlocked,
     Unpublished, Calling, MaxCalls

<1>2. CASE \E k \in Keys : Begin(w, k)
  BY <1>1, <1>2 DEF Begin, Goto
<1>3. CASE RecoverFanout(w)
  BY <1>1, <1>3 DEF RecoverFanout, ReplayQueue, ReplayVerifier, ReplayEnd, Put
<1>4. CASE Recover(w)
  BY <1>1, <1>4 DEF Recover, Put
<1>5. CASE Recovered(w)
  BY <1>1, <1>5 DEF Recovered, Leave, Goto
<1>6. CASE Replay(w)
  BY <1>1, <1>6 DEF Replay, Project, Leave, Goto, RecoverClaims, EndScope
<1>7. CASE Resume(w)
  BY <1>1, <1>7 DEF Resume, Goto
<1>8. CASE ResumeStale(w)
  BY <1>1, <1>8 DEF ResumeStale, Conclude, Put, Leave, Goto
<1>9. CASE Start(w)
  BY <1>1, <1>9 DEF Start, RecoverClaims, EndScope, Put, Goto
<1>10. CASE Refuse(w)
  BY <1>1, <1>10 DEF Refuse, Leave, Goto, RecoverClaims, EndScope
<1>11. CASE Reserve(w)
  BY <1>1, <1>11 DEF Reserve, Checkpoint, Put, Goto
<1>12. CASE Send(w)
  BY <1>1, <1>12 DEF Send, Goto
<1>13. CASE Settle(w)
  BY <1>1, <1>13 DEF Settle, Checkpoint, Put, Goto
<1>14. CASE Answered(w)
  BY <1>1, <1>14 DEF Answered, Goto
<1>15. CASE Supplement(w)
  BY <1>1, <1>15 DEF Supplement, Checkpoint, Put, Goto
<1>16. CASE Revalidate(w)
  BY <1>1, <1>16 DEF Revalidate, RecoverClaims, EndScope, Goto
<1>17. CASE RevalidateConflict(w)
  BY <1>1, <1>17 DEF RevalidateConflict, Conclude, Put, Leave, Goto
<1>18. CASE Prepare(w)
  BY <1>1, <1>18 DEF Prepare, Checkpoint, Put, Goto
<1>19. CASE Patch(w)
  BY <1>1, <1>19 DEF Patch, Goto
<1>20. CASE Replace(w)
  BY <1>1, <1>20 DEF Replace, Goto
<1>21. CASE Unapplied(w)
  BY <1>1, <1>21 DEF Unapplied, Conclude, Put, Leave, Goto
<1>22. CASE Publish(w)
  BY <1>1, <1>22 DEF Publish, Checkpoint, Put, Goto
<1>23. CASE Derive(w)
  BY <1>1, <1>23 DEF Derive, Goto
<1>24. CASE Fail(w)
  BY <1>1, <1>24 DEF Fail, Conclude, Put, Leave, Goto
<1>25. CASE Rebuild(w)
  BY <1>1, <1>25 DEF Rebuild, RecoverClaims, EndScope, Goto
<1>26. CASE Republish(w)
  BY <1>1, <1>26 DEF Republish, Goto
<1>27. CASE Acquire(w)
  BY <1>1, <1>27 DEF Acquire, RecoverClaims, EndScope, Goto
<1>28. CASE Overtaken(w)
  BY <1>1, <1>28 DEF Overtaken, RecoverClaims, EndScope, Goto
<1>29. CASE EnterScope(w)
  BY <1>1, <1>29 DEF EnterScope, BeginScope, Goto, Budgeted
<1>30. CASE EnterFails(w)
  BY <1>1, <1>30 DEF EnterFails, Leave, Goto
<1>31. CASE AttachScope(w)
  BY <1>1, <1>31 DEF AttachScope, WriteOutbox, Goto
<1>32. CASE ReserveInScope(w)
  BY <1>1, <1>32 DEF ReserveInScope, WriteOutbox, Goto, Budgeted
<1>33. CASE SettleInScope(w)
  BY <1>1, <1>33 DEF SettleInScope, WriteOutbox, Goto
<1>34. CASE ReplayInScope(w)
  BY <1>1, <1>34 DEF ReplayInScope, ReplayQueue, ReplayVerifier, ReplayEnd, Put, Goto
<1>35. CASE TransitionFails(w)
  BY <1>1, <1>35 DEF TransitionFails, Goto
<1>36. CASE RefreshBase(w)
  BY <1>1, <1>36 DEF RefreshBase, EndScope, Put, Goto
<1>37. CASE ScopeFails(w)
  BY <1>1, <1>37 DEF ScopeFails, Goto
<1>38. CASE Unwind(w)
  BY <1>1, <1>38 DEF Unwind, Leave, Goto, EndScope
<1>39. CASE UnwindFails(w)
  BY <1>1, <1>39 DEF UnwindFails, Leave, Goto, Abandon, Put
<1>40. CASE Finalize(w)
  BY <1>1, <1>40 DEF Finalize, Goto
<1>41. CASE LoadNothing(w)
  BY <1>1, <1>41 DEF LoadNothing, Checkpoint, Put, Goto, RecoverClaims, EndScope
<1>42. CASE Fold(w)
  BY <1>1, <1>42 DEF Fold, Goto, RecoverClaims, EndScope
<1>43. CASE Load(w)
  BY <1>1, <1>43 DEF Load, Goto, RecoverClaims, EndScope
<1>44. CASE RecordBase(w)
  BY <1>1, <1>44 DEF RecordBase, Checkpoint, Put, Goto
<1>45. CASE RecordFold(w)
  BY <1>1, <1>45 DEF RecordFold, Checkpoint, Put, Goto
<1>46. CASE Succeed(w)
  BY <1>1, <1>46 DEF Succeed, Checkpoint, Put, Goto
<1>47. CASE Succeeded(w)
  BY <1>1, <1>47 DEF Succeeded, Project, Leave, Goto, RecoverClaims, EndScope
<1>48. CASE Falter(w)
  BY <1>1, <1>48 DEF Falter, Leave, Goto
<1> QED
  BY <1>2, <1>3, <1>4, <1>5, <1>6, <1>7, <1>8, <1>9, <1>10, <1>11, <1>12, <1>13, <1>14, <1>15,
     <1>16, <1>17, <1>18, <1>19, <1>20, <1>21, <1>22, <1>23, <1>24, <1>25, <1>26, <1>27, <1>28,
     <1>29, <1>30, <1>31, <1>32, <1>33, <1>34, <1>35, <1>36, <1>37, <1>38, <1>39, <1>40, <1>41,
     <1>42, <1>43, <1>44, <1>45, <1>46, <1>47, <1>48 DEF Executor

LEMMA CrashStep ==
  ASSUME Control, NEW w \in Executors, Crash(w)
  PROVE  StepOf(w) /\ LockedBy(w)'
<1>1. /\ pc \in [Executors -> Locked \cup Unlocked] /\ key \in [Executors -> Keys \cup {Nobody}]
      /\ budget \in [Executors -> 0..MaxCalls \cup {Nobody}]
      /\ Nobody \notin Executors /\ LockedBy(w)
  BY AttemptAssumption DEF Control, Types
<1> QED
  BY <1>1 DEF Crash, Leave, Goto, Abandon, StepOf, LockedBy, Locked, Unlocked, Unpublished, Calling,
              durable, authority, private, fanout

LEMMA BesideStep ==
  ASSUME Beside
  PROVE  StepBeside
BY DEF Beside, FullExtraction, FunctionalExtraction, Restore, Extract, NewEdition,
       Refresh, Review, Decide, FoldNow, RecoverClaims, EndScope, StepBeside,
       durable, authority, private, fanout

\* Who can be behind a step.
LEMMA StepCases ==
  ASSUME AttemptNext
  PROVE  /\ setting' = setting
         /\ \/ \E w \in Executors : Executor(w) \/ Crash(w)
            \/ Beside
BY DEF AttemptNext, AttemptStep, Beside

\* An executor is served as before while another one acts.
LEMMA OthersLocked ==
  ASSUME Control, NEW w \in Executors, StepOf(w), NEW v \in Executors, v # w
  PROVE  LockedBy(v)'
<1>1. LockedBy(v) /\ v # Nobody
  BY AttemptAssumption DEF Control
<1>2. pc'[v] = pc[v] /\ key'[v] = key[v] /\ budget'[v] = budget[v]
  BY DEF StepOf
<1>3. holder' = v <=> holder = v
  BY <1>1 DEF StepOf
<1> QED
  BY <1>1, <1>2, <1>3 DEF LockedBy

\* Where the result of a functional attempt is not in the product yet.
Unheard == {"pay", "sent", "settle", "supplement", "revalidate", "prepare", "replace"}

\* The ways to these places.
LEMMA Arriving ==
  ASSUME Control, NEW w \in Executors, Executor(w) \/ Crash(w)
  PROVE  /\ pc'[w] \in Unheard =>
              /\ key'[w] = key[w] /\ product' = product
              /\ pc[w] \in Unheard \cup {"reserved", "patch"} \/ Start(w)
         /\ pc'[w] = "replace" => Prepare(w) \/ (Supplement(w) /\ ~Functional)
         /\ pc'[w] = "supplement" => Patch(w) \/ (Answered(w) /\ Functional)
<1> USE DEF Unheard, durable, authority, private, fanout
<1>1. pc \in [Executors -> Locked \cup Unlocked]
  BY DEF Control, Types
<1>2. CASE Leave(w)
  BY <1>1, <1>2 DEF Leave, Goto
<1>3. CASE \/ ResumeStale(w) \/ Refuse(w) \/ RevalidateConflict(w) \/ Unapplied(w) \/ Fail(w)
           \/ EnterFails(w) \/ Unwind(w) \/ UnwindFails(w) \/ Succeeded(w) \/ Falter(w)
           \/ Crash(w)
  BY <1>1, <1>2, <1>3
     DEF ResumeStale, Conclude, Refuse, RevalidateConflict, Unapplied, Fail, EnterFails,
         Unwind, UnwindFails, Succeeded, Project, Falter, Crash
<1>4. CASE \/ Replay(w) \/ Recovered(w)
  BY <1>1, <1>2, <1>4 DEF Replay, Project, Goto, Recovered
<1>5. CASE \/ RecoverFanout(w) \/ Recover(w) \/ ReplayInScope(w) \/ \E k \in Keys : Begin(w, k)
  BY <1>1, <1>5 DEF RecoverFanout, Recover, ReplayInScope, Begin, Goto
<1>6. CASE \/ Rebuild(w) \/ Republish(w) \/ Overtaken(w) \/ RefreshBase(w) \/ Finalize(w)
           \/ LoadNothing(w) \/ Fold(w) \/ Load(w) \/ RecordBase(w) \/ RecordFold(w) \/ Succeed(w)
  BY <1>1, <1>6
     DEF Rebuild, Republish, Overtaken, RefreshBase, Finalize, LoadNothing, Fold, Load, RecordBase,
         RecordFold, Succeed, Checkpoint, Goto
<1>7. CASE \/ Resume(w) \/ Start(w) \/ Reserve(w) \/ Send(w) \/ Settle(w) \/ Answered(w)
  BY <1>1, <1>7 DEF Resume, Goto, Start, Reserve, Checkpoint, Send, Settle, Answered
<1>8. CASE \/ Supplement(w) \/ Revalidate(w) \/ Prepare(w)
  BY <1>1, <1>8 DEF Supplement, Revalidate, Prepare, Checkpoint, Goto
<1>9. CASE \/ Patch(w) \/ Replace(w) \/ Publish(w) \/ Derive(w) \/ Acquire(w)
  BY <1>1, <1>9 DEF Patch, Goto, Replace, Publish, Checkpoint, Derive, Acquire
<1>10. CASE \/ EnterScope(w) \/ AttachScope(w) \/ ReserveInScope(w) \/ SettleInScope(w)
            \/ TransitionFails(w) \/ ScopeFails(w)
  BY <1>1, <1>10
     DEF Goto, EnterScope, AttachScope, ReserveInScope, SettleInScope, TransitionFails, ScopeFails
<1> QED
  BY <1>3, <1>4, <1>5, <1>6, <1>7, <1>8, <1>9, <1>10 DEF Executor

\* What an executor carries is its own business.
LEMMA SeenByOthers ==
  ASSUME Control, NEW w \in Executors, Executor(w) \/ Crash(w), NEW v \in Executors, v # w
  PROVE  seen'[v] = seen[v]
<1>1. seen = [x \in Executors |-> seen[x]]
  BY DEF Control, Types
<1>2. CASE seen' = seen
  BY <1>2
<1>3. CASE \E x : seen' = [seen EXCEPT ![w] = x]
  BY <1>1, <1>3
<1>4. seen' = seen \/ \E x : seen' = [seen EXCEPT ![w] = x]
  BY DEF Executor, Crash, Begin, RecoverFanout, Recover, Recovered, Leave, Replay, Project, Resume,
         ResumeStale, Conclude, Start, Refuse, Reserve, Send, Settle, Answered, Supplement,
         Revalidate, RevalidateConflict, Prepare, Patch, Replace, Unapplied, Publish, Derive, Fail,
         Rebuild, Republish, Acquire, Overtaken, EnterScope, EnterFails, AttachScope,
         ReserveInScope, SettleInScope, ReplayInScope, TransitionFails, RefreshBase, ScopeFails,
         Unwind, UnwindFails, Finalize, LoadNothing, Fold, Load, RecordBase, RecordFold, Succeed,
         Succeeded, Falter, private
<1> QED
  BY <1>2, <1>3, <1>4

LEMMA CarriesStep ==
  ASSUME Control, setting' = setting, NEW w \in Executors, Executor(w) \/ Crash(w), StepOf(w),
         NEW v \in Executors
  PROVE  Carries(v)'
<1> USE DEF Merged, SameProposal, Functional
<1>1. SUFFICES ASSUME pc'[v] = "replace", Functional
               PROVE  seen'[v] \in Merged(v)'
  BY DEF Carries
<1>2. CASE v = w
  <2>1. Prepare(w)
    BY <1>1, <1>2, Arriving
  <2>2. seen = [x \in Executors |-> seen[x]]
    BY DEF Control, Types
  <2>3. PICK new \in Merged(w) : seen' = [seen EXCEPT ![w] = new]
    BY <2>1 DEF Prepare
  <2>4. seen'[w] \in Merged(w)
    BY <2>2, <2>3
  <2> QED
    BY <1>2, <2>1, <2>4 DEF Prepare
<1>3. CASE v # w
  <2>1. pc[v] = "replace" /\ key'[v] = key[v]
    BY <1>1, <1>3 DEF StepOf
  <2>2. holder = v /\ product' = product
    BY <1>3, <2>1 DEF Control, LockedBy, StepOf, Locked
  <2>3. seen[v] \in Merged(v) /\ seen'[v] = seen[v]
    BY <1>1, <1>3, <2>1, SeenByOthers DEF Control, Carries
  <2>4. Merged(v)' = Merged(v)
    BY <2>1, <2>2
  <2> QED
    BY <2>3, <2>4
<1> QED
  BY <1>2, <1>3

LEMMA ControlStep ==
  ASSUME Control, AttemptNext
  PROVE  Control'
<1>1. Types'
  BY TypesStep
<1>2. CASE \E w \in Executors : Executor(w) \/ Crash(w)
  <2>1. PICK w \in Executors : Executor(w) \/ Crash(w)
    BY <1>2
  <2>2. StepOf(w) /\ LockedBy(w)'
    BY <2>1, ExecutorStep, CrashStep
  <2>3. \A v \in Executors : LockedBy(v)'
    BY <2>2, OthersLocked
  <2>4. \A v \in Executors : Carries(v)'
    BY <2>1, <2>2, CarriesStep, StepCases
  <2> QED
    BY <1>1, <2>3, <2>4 DEF Control
<1>3. CASE StepBeside
  <2>1. setting' = setting
    BY StepCases
  <2>2. ASSUME NEW v \in Executors
        PROVE  LockedBy(v)' /\ Carries(v)'
    <3>1. LockedBy(v) /\ Carries(v)
      BY DEF Control
    <3>2. pc[v] = "replace" => UNCHANGED product
      BY <1>3, <3>1, AttemptAssumption DEF StepBeside, LockedBy, Locked
    <3> QED
      BY <1>3, <2>1, <3>1, <3>2
         DEF StepBeside, LockedBy, Carries, Merged, SameProposal, Functional
  <2> QED
    BY <1>1, <2>2 DEF Control
<1> QED
  BY <1>2, <1>3, BesideStep, StepCases

LEMMA ControlInit ==
  ASSUME AttemptInit
  PROVE  Control
<1>1. setting \in Settings /\ MaxCalls \in Nat /\ MaxEditions \in Nat /\ MaxReviews \in Nat
      /\ MaxDecisions \in Nat
  BY SettingTypes DEF AttemptInit
<1>2. Original \in Product /\ BaseNow \in Base /\ SnapshotNow \in Snapshot
  BY <1>1 DEF AttemptInit, Original, Product, Base, BaseNow, Snapshot, SnapshotNow
<1>3. Types
  <2>1. product \in Product /\ cached \subseteq Product /\ extractions \in 0..MaxEditions
    BY <1>1, <1>2 DEF AttemptInit
  <2> QED
    BY <1>1, <1>2, <2>1 DEF AttemptInit, FanoutInit, Types, Unlocked
<1>4. \A w \in Executors : LockedBy(w) /\ Carries(w)
  BY AttemptAssumption
     DEF AttemptInit, LockedBy, Locked, Unpublished, Calling, Carries
<1> QED
  BY <1>3, <1>4 DEF Control

\* Nothing but a step of AttemptNext changes what the invariants speak of.
LEMMA ControlStutters ==
  ASSUME Control, UNCHANGED attemptVars
  PROVE  Control'
<1>1. Types'
  BY DEF Control, Types, Product, Base, Snapshot, MaxEditions, MaxReviews, MaxDecisions, MaxCalls,
         attemptVars, durable, authority, private, fanout
<1>2. UNCHANGED <<setting, product, pc, key, budget, seen, holder>>
  BY DEF attemptVars, durable, private
<1>3. \A w \in Executors : LockedBy(w)' /\ Carries(w)'
  BY <1>2 DEF Control, LockedBy, Carries, Merged, SameProposal, Functional
<1> QED
  BY <1>1, <1>3 DEF Control

-----------------------------------------------------------------------------
(* The attempt log.                                                        *)

Histories == \A k \in Keys : WellFormed(log[k])

\* Whoever has a budget serves a request on record.
BudgetStarted == \A w \in Executors : budget[w] # Nobody => Has(log[key[w]], "reextract_started")

\* The steps that write to the log.
Writes(w) ==
  \/ RecoverFanout(w) \/ Recover(w) \/ ResumeStale(w) \/ Start(w) \/ Reserve(w) \/ Settle(w)
  \/ Supplement(w) \/ RevalidateConflict(w) \/ Prepare(w) \/ Unapplied(w) \/ Publish(w)
  \/ Fail(w) \/ ReplayInScope(w) \/ RefreshBase(w) \/ UnwindFails(w) \/ LoadNothing(w)
  \/ RecordBase(w) \/ RecordFold(w) \/ Succeed(w)

LEMMA Writers ==
  ASSUME NEW w \in Executors, Executor(w) \/ Crash(w)
  PROVE  log' = log \/ Writes(w)
BY DEF Executor, Writes, Crash, Abandon, Begin, Recovered, Leave, Replay, Project,
       RecoverClaims, EndScope, Resume, Refuse, Send, Answered, Revalidate, Patch, Replace,
       Derive, Rebuild, Republish, Acquire, Overtaken, EnterScope, BeginScope, EnterFails,
       AttachScope, WriteOutbox, ReserveInScope, SettleInScope, TransitionFails, ScopeFails,
       Unwind, Finalize, Fold, Load, Succeeded, Falter, durable

LEMMA AcceptsGrows ==
  ASSUME NEW h, NEW e, Accepts(h, e), e.kind \in EventKinds,
         e.kind = "budget_checkpoint" => e.detail.calls \in Nat
  PROVE  Grows(h, e)
BY DEF Accepts, Grows

LEMMA EventIs ==
  ASSUME NEW kind, NEW detail
  PROVE  Event(kind, detail).kind = kind /\ Event(kind, detail).detail = detail
BY DEF Event

LEMMA BudgetEventIs ==
  ASSUME NEW n
  PROVE  BudgetEvent(n).kind = "budget_checkpoint" /\ BudgetEvent(n).detail.calls = n
BY DEF BudgetEvent, Event

LEMMA KindsAre ==
  /\ Terminal \subseteq EventKinds /\ Checkpoints \subseteq EventKinds
  /\ "reextract_started" \in EventKinds /\ "budget_checkpoint" \in EventKinds
  /\ "reextract_started" \notin Checkpoints \cup Terminal
  /\ "budget_checkpoint" \notin Checkpoints \cup Terminal \cup Single
  /\ Checkpoints \cap Terminal = {} /\ Single \cap Terminal = {}
BY DEF EventKinds, Terminal, Checkpoints, Single

LEMMA RequiresAre ==
  /\ Requires("supplement_persisted") = "reextract_started"
  /\ Requires("requirements_published") = "supplement_persisted"
  /\ Requires("reextract_aborted_stale") = "reextract_started"
  /\ Requires("reextract_interrupted") = "reextract_started"
BY DEF Requires

\* What recovery derives for an orphan can be appended.
LEMMA RecoversGrows ==
  ASSUME Histories, NEW k \in Keys, Orphan(k)
  PROVE  Grows(log[k], Recovers(k))
<1> DEFINE h == log[k]
<1>1. WellFormed(h) /\ ~Ended(h) /\ h # {} /\ ~Has(h, "requirements_published")
  BY Lifecycles DEF Histories, Orphan
<1>2. Has(h, "reextract_started")
        /\ (Has(h, "publication_prepared") => Has(h, "supplement_persisted"))
  BY <1>1, Causes
<1> SUFFICES Grows(h, Recovers(k))
  BY DEF h
<1> HIDE DEF h
<1>3. CASE Recovers(k) = Event("supplement_persisted", k) /\ ~Has(h, "supplement_persisted")
  BY <1>1, <1>2, <1>3, EventIs, KindsAre, RequiresAre DEF Grows, Checkpoints
<1>4. CASE Recovers(k) = Event("requirements_published", product) /\ Has(h, "supplement_persisted")
  BY <1>1, <1>2, <1>4, EventIs, KindsAre, RequiresAre DEF Grows, Checkpoints
<1>5. CASE \/ Recovers(k) = Event("reextract_aborted_stale", CallsRecorded(h))
           \/ Recovers(k) = Event("reextract_interrupted", CallsRecorded(h))
  BY <1>1, <1>2, <1>5, EventIs, KindsAre, RequiresAre DEF Grows, Terminal
<1> QED
  BY <1>2, <1>3, <1>4, <1>5 DEF Recovers, h

\* One event at the most is added, and the log accepts it.
Appends == log' = log \/ \E k \in Keys : \E e : Put(k, e) /\ Grows(log[k], e)

LEMMA ExecutorAppends ==
  ASSUME Control, Histories, BudgetStarted, NEW w \in Executors, Writes(w)
  PROVE  Appends
<1>1. pc[w] # "idle" => key[w] \in Keys
  BY InHand
<1>2. budget[w] # Nobody => budget[w] \in Nat /\ key[w] \in Keys
  BY InHand, SettingTypes DEF Control, Types
<1>3. ASSUME NEW e, Accepts(log[key[w]], e), Put(key[w], e), e.kind \in EventKinds \ {"budget_checkpoint"},
             pc[w] # "idle"
      PROVE  Appends
  BY <1>1, <1>3, AcceptsGrows DEF Appends
<1>4. ASSUME NEW n \in Nat, Accepts(log[key[w]], BudgetEvent(n)), Put(key[w], BudgetEvent(n)), pc[w] # "idle"
      PROVE  Appends
  BY <1>1, <1>4, AcceptsGrows, BudgetEventIs, KindsAre DEF Appends
<1>5. ASSUME ReplayQueue
      PROVE  Appends
  <2>1. outbox.account \in Keys /\ outbox.calls \in Nat
    BY <1>5 DEF ReplayQueue, Replayable, Control, Types
  <2>2. Grows(log[outbox.account], BudgetEvent(outbox.calls))
    BY <1>5, <2>1, AcceptsGrows, BudgetEventIs, KindsAre DEF ReplayQueue
  <2> QED
    BY <1>5, <2>1, <2>2 DEF ReplayQueue, Appends
<1>6. ASSUME budget[w] # Nobody, Put(key[w], BudgetEvent(budget[w]))
      PROVE  Appends
  <2>1. Has(log[key[w]], "reextract_started")
    BY <1>6 DEF BudgetStarted
  <2>2. Grows(log[key[w]], BudgetEvent(budget[w]))
    BY <1>2, <1>6, <2>1, BudgetEventIs, KindsAre DEF Grows, Requires
  <2> QED
    BY <1>2, <1>6, <2>2 DEF Appends
<1>7. CASE Recover(w)
  BY <1>7, RecoversGrows DEF Recover, Appends
<1>8. CASE Start(w)
  <2>1. log[key[w]] = {} /\ key[w] \in Keys
    BY <1>1, <1>8 DEF Start, Admissible
  <2>2. Grows(log[key[w]], Event("reextract_started", SnapshotNow))
    BY <2>1, EventIs DEF Grows
  <2> QED
    BY <1>8, <2>1, <2>2 DEF Start, Appends
<1>9. CASE RecoverFanout(w) \/ ReplayInScope(w)
  BY <1>5, <1>9 DEF RecoverFanout, ReplayInScope, ReplayVerifier, ReplayEnd, Appends
<1>10. CASE Reserve(w) \/ Settle(w)
  <2>1. budget[w] \in Nat /\ budget[w] + 1 \in Nat
    BY <1>2, <1>10 DEF Reserve, Settle, Control, LockedBy, Unpublished, Calling
  <2> QED
    BY <1>4, <1>10, <2>1 DEF Reserve, Settle, Checkpoint
<1>11. CASE ResumeStale(w) \/ RevalidateConflict(w) \/ Unapplied(w) \/ Fail(w)
  <2>1. pc[w] # "idle"
    BY <1>11 DEF ResumeStale, RevalidateConflict, Unapplied, Fail
  <2>2. \E kind \in {"reextract_aborted_stale", "reextract_failed"} : Conclude(w, kind)
    BY <1>11 DEF ResumeStale, RevalidateConflict, Unapplied, Fail
  <2> QED
    BY <1>3, <2>1, <2>2, EventIs DEF Conclude, EventKinds, Terminal
<1>12. CASE \/ Supplement(w) \/ Prepare(w) \/ Publish(w) \/ LoadNothing(w) \/ RecordBase(w)
            \/ RecordFold(w) \/ Succeed(w)
  <2>1. pc[w] # "idle"
    BY <1>12 DEF Supplement, Prepare, Publish, LoadNothing, RecordBase, RecordFold, Succeed
  <2>2. \E kind \in EventKinds \ {"budget_checkpoint"} : \E detail, next :
          Checkpoint(w, Event(kind, detail), next)
    <3>1. {"supplement_persisted", "publication_prepared", "requirements_published",
           "base_rebuild_published", "effective_folded", "reextract_succeeded"}
            \subseteq EventKinds \ {"budget_checkpoint"}
      BY DEF EventKinds, Checkpoints, Terminal
    <3> QED
      BY <1>12, <3>1 DEF Supplement, Prepare, Publish, LoadNothing, RecordBase, RecordFold, Succeed
  <2> QED
    BY <1>3, <2>1, <2>2, EventIs DEF Checkpoint
<1>13. CASE RefreshBase(w) \/ UnwindFails(w)
  BY <1>6, <1>13 DEF RefreshBase, UnwindFails, Budgeted, Appends
<1> QED
  BY <1>7, <1>8, <1>9, <1>10, <1>11, <1>12, <1>13 DEF Writes

LEMMA StepAppends ==
  ASSUME Control, Histories, BudgetStarted, AttemptNext
  PROVE  Appends
BY ExecutorAppends, Writers, StepCases, BesideStep DEF Appends, StepBeside

LEMMA LogOf ==
  ASSUME Control, NEW k \in Keys, NEW e, Put(k, e), NEW o \in Keys
  PROVE  log'[o] = IF o = k THEN log[o] \cup {e} ELSE log[o]
BY DEF Control, Types, Put

LEMMA HistoriesStep ==
  ASSUME Control, Histories, Appends
  PROVE  Histories'
<1>1. CASE log' = log
  BY <1>1 DEF Histories
<1>2. CASE \E k \in Keys : \E e : Put(k, e) /\ Grows(log[k], e)
  <2>0. PICK k \in Keys : \E e : Put(k, e) /\ Grows(log[k], e)
    BY <1>2
  <2>1. PICK e : Put(k, e) /\ Grows(log[k], e)
    BY <2>0
  <2>2. \A o \in Keys : log'[o] = IF o = k THEN log[o] \cup {e} ELSE log[o]
    BY <2>1, LogOf
  <2>3. \A o \in Keys : WellFormed(log'[o])
    <3>1. WellFormed(log[k] \cup {e})
      BY <2>1, GrowsWell DEF Histories
    <3> QED
      BY <2>2, <3>1 DEF Histories
  <2> QED
    BY <2>3 DEF Histories
<1> QED
  BY <1>1, <1>2 DEF Appends

\* An event stays in its history.
LEMMA Remembered ==
  ASSUME Control, Appends, NEW k \in Keys
  PROVE  /\ log[k] \subseteq log'[k]
         /\ \A kind : Has(log[k], kind) => Has(log'[k], kind)
<1>1. log[k] \subseteq log'[k]
  BY LogOf DEF Appends
<1> QED
  BY <1>1 DEF Has

\* A budget is made when a request is put on record, and for that request.
LEMMA BudgetMoves ==
  ASSUME Control, NEW w \in Executors, Executor(w) \/ Crash(w)
  PROVE  \/ budget'[w] = Nobody
         \/ budget[w] # Nobody /\ key'[w] = key[w]
         \/ Start(w)
<1> USE DEF Control, Types, durable, authority, private, fanout

<1>1. ASSUME Leave(w)
      PROVE  budget'[w] = Nobody
  BY <1>1 DEF Leave
<1>2. ASSUME NEW k \in Keys, Begin(w, k)
      PROVE  budget'[w] = Nobody
  BY <1>2 DEF Begin, LockedBy
<1>3. CASE Reserve(w) \/ ReserveInScope(w)
  BY <1>3 DEF Reserve, ReserveInScope, Budgeted, LockedBy, Unpublished
<1>4. \/ Leave(w) \/ UNCHANGED <<key, budget>> \/ Reserve(w) \/ ReserveInScope(w)
      \/ Start(w) \/ \E k \in Keys : Begin(w, k)
  BY
     DEF Executor, Crash, RecoverFanout, Recover, Recovered, Replay, Project, Resume,
         ResumeStale, Conclude, Refuse, Checkpoint, Send, Settle, Answered, Supplement,
         Revalidate, RevalidateConflict, Prepare, Patch, Replace, Unapplied, Publish, Derive,
         Fail, Rebuild, Republish, Acquire, Overtaken, EnterScope, EnterFails, AttachScope,
         SettleInScope, ReplayInScope, TransitionFails, RefreshBase, ScopeFails, Unwind,
         UnwindFails, Finalize, LoadNothing, Fold, Load, RecordBase, RecordFold, Succeed,
         Succeeded, Falter
<1> QED
  BY <1>1, <1>2, <1>3, <1>4

LEMMA BudgetStartedStep ==
  ASSUME Control, Histories, BudgetStarted, AttemptNext
  PROVE  BudgetStarted'
<1>1. Appends
  BY StepAppends
<1>2. ASSUME NEW v \in Executors, budget[v] # Nobody, budget'[v] # Nobody, key'[v] = key[v]
      PROVE  Has(log'[key'[v]], "reextract_started")
  BY <1>1, <1>2, InHand, Remembered DEF BudgetStarted
<1>3. CASE \E w \in Executors : Executor(w) \/ Crash(w)
  <2>1. PICK w \in Executors : Executor(w) \/ Crash(w)
    BY <1>3
  <2>2. StepOf(w)
    BY <2>1, ExecutorStep, CrashStep
  <2>3. ASSUME Start(w)
        PROVE  Has(log'[key'[w]], "reextract_started")
    <3>1. key[w] \in Keys /\ key' = key
      BY <2>3, InHand DEF Start
    <3>2. PICK e : Put(key[w], e) /\ e.kind = "reextract_started"
      BY <2>3, EventIs DEF Start
    <3>3. log'[key[w]] = log[key[w]] \cup {e}
      BY <3>1, <3>2, LogOf
    <3> QED
      BY <3>1, <3>2, <3>3, HasMore
  <2>4. ASSUME NEW v \in Executors, budget'[v] # Nobody
        PROVE  Has(log'[key'[v]], "reextract_started")
    <3>1. CASE v = w
      BY <1>2, <2>1, <2>3, <2>4, <3>1, BudgetMoves
    <3>2. CASE v # w
      BY <1>2, <2>2, <2>4, <3>2 DEF StepOf
    <3> QED
      BY <3>1, <3>2
  <2> QED
    BY <2>4 DEF BudgetStarted
<1>4. CASE StepBeside
  BY <1>2, <1>4 DEF StepBeside, BudgetStarted
<1> QED
  BY <1>3, <1>4, StepCases, BesideStep

\* Who writes which event first.
LEMMA Firsts ==
  ASSUME Control, NEW w \in Executors, Executor(w) \/ Crash(w), NEW k \in Keys, NEW kind,
         Has(log'[k], kind), ~Has(log[k], kind)
  PROVE  /\ kind = "reextract_started" => Start(w) /\ k = key[w]
         /\ kind = "publication_prepared" => Prepare(w) /\ k = key[w]
         /\ kind = "requirements_published" => (Publish(w) /\ k = key[w]) \/ Recover(w)
         /\ kind = "base_rebuild_published" => (LoadNothing(w) \/ RecordBase(w)) /\ k = key[w]
         /\ kind \in Terminal =>
              \/ Recover(w)
              \/ k = key[w] /\ (\/ ResumeStale(w) \/ RevalidateConflict(w) \/ Unapplied(w) \/ Fail(w)
                                \/ Succeed(w))
<1>1. log' # log
  OBVIOUS
<1>2. Writes(w)
  BY <1>1, Writers
<1>3. pc[w] # "idle" => key[w] \in Keys
  BY InHand
<1>4. ASSUME NEW o \in Keys, NEW e, Put(o, e)
      PROVE  k = o /\ kind = e.kind
  <2>1. log'[k] = IF k = o THEN log[k] \cup {e} ELSE log[k]
    BY <1>4, LogOf
  <2> QED
    BY <2>1, HasMore
<1>5. ASSUME ReplayQueue
      PROVE  kind = "budget_checkpoint"
  <2>1. outbox.account \in Keys
    BY <1>5 DEF ReplayQueue, Replayable, Control, Types
  <2> QED
    BY <1>4, <1>5, <2>1, BudgetEventIs DEF ReplayQueue
<1>6. ASSUME NEW e, Put(key[w], e), pc[w] # "idle"
      PROVE  k = key[w] /\ kind = e.kind
  BY <1>3, <1>4, <1>6
<1> USE KindsAre, EventIs, BudgetEventIs
<1>7. CASE Recover(w)
  BY <1>4, <1>7 DEF Recover, Recovers
<1>8. CASE RecoverFanout(w) \/ ReplayInScope(w)
  BY <1>1, <1>5, <1>8 DEF RecoverFanout, ReplayInScope, ReplayVerifier, ReplayEnd
<1>9. CASE Reserve(w) \/ Settle(w) \/ RefreshBase(w) \/ UnwindFails(w)
  BY <1>1, <1>6, <1>9 DEF Reserve, Settle, Checkpoint, RefreshBase, UnwindFails
<1>10. CASE Start(w)
  BY <1>6, <1>10 DEF Start
<1>11. CASE ResumeStale(w) \/ RevalidateConflict(w) \/ Unapplied(w) \/ Fail(w)
  <2>1. pc[w] # "idle" /\ \E e : Put(key[w], e) /\ e.kind \in Terminal
    BY <1>11 DEF ResumeStale, RevalidateConflict, Unapplied, Fail, Conclude, Terminal
  <2> QED
    BY <1>6, <1>11, <2>1 DEF Terminal

<1>12. CASE Supplement(w)
  <2>1. k = key[w] /\ kind = "supplement_persisted"
    BY <1>6, <1>12 DEF Supplement, Checkpoint
  <2> QED
    BY <1>12, <2>1 DEF Terminal
<1>13. CASE Prepare(w)
  <2>1. k = key[w] /\ kind = "publication_prepared"
    BY <1>6, <1>13 DEF Prepare, Checkpoint
  <2> QED
    BY <1>13, <2>1 DEF Terminal
<1>14. CASE Publish(w)
  <2>1. k = key[w] /\ kind = "requirements_published"
    BY <1>6, <1>14 DEF Publish, Checkpoint
  <2> QED
    BY <1>14, <2>1 DEF Terminal
<1>15. CASE LoadNothing(w)
  <2>1. k = key[w] /\ kind = "base_rebuild_published"
    BY <1>6, <1>15 DEF LoadNothing, Checkpoint
  <2> QED
    BY <1>15, <2>1 DEF Terminal
<1>16. CASE RecordBase(w)
  <2>1. k = key[w] /\ kind = "base_rebuild_published"
    BY <1>6, <1>16 DEF RecordBase, Checkpoint
  <2> QED
    BY <1>16, <2>1 DEF Terminal
<1>17. CASE RecordFold(w)
  <2>1. k = key[w] /\ kind = "effective_folded"
    BY <1>6, <1>17 DEF RecordFold, Checkpoint
  <2> QED
    BY <1>17, <2>1 DEF Terminal
<1>18. CASE Succeed(w)
  <2>1. k = key[w] /\ kind = "reextract_succeeded"
    BY <1>6, <1>18 DEF Succeed, Checkpoint
  <2> QED
    BY <1>18, <2>1 DEF Terminal
<1> QED
  BY <1>2, <1>7, <1>8, <1>9, <1>10, <1>11, <1>12, <1>13, <1>14, <1>15, <1>16, <1>17, <1>18
     DEF Writes

-----------------------------------------------------------------------------
(* Where an executor is, and what its request has come to.                 *)

\* The places of the verifier's scope, after it, and of the whole rebuild.
Scope == {"attach", "refresh", "reserved", "settled", "unwind"}
AfterScope == {"finalize", "load", "fold", "base", "folded", "succeed", "project"}
Rebuilding == {"derive", "rebuild", "republish", "acquire", "enter"} \cup Scope \cup AfterScope

\* Until the publication the attempt is live and not published, in the rebuild it is
\* published, and in the verifier's scope it has not ended.
PlaceOf(w) ==
  /\ pc[w] \in Unpublished => ~Ended(Fate(w)) /\ ~Published(w)
  /\ pc[w] \in Calling \cup {"derive", "enter"} \cup Scope => ~Ended(Fate(w))
  /\ pc[w] \in Rebuilding => Published(w)
  /\ pc[w] \in {"attach", "reserved", "settled"} => VerifierOn
  /\ pc[w] \in Calling /\ Published(w) => VerifierOn /\ ~Functional
  /\ pc[w] = "prepare" => Functional
  /\ pc[w] \in {"patch", "acquire", "enter"} \cup Scope => ~Functional

\* What the proposal of a request on record was made from.
StartedFrom(k) == Detail(log[k], "reextract_started").product

\* Contents that are newer than what an attempt started from: of a later edition, or of
\* the same one with the result of the attempt.
Newer(p, k) ==
  \/ p.edition > StartedFrom(k).edition
  \/ p.edition = StartedFrom(k).edition /\ k \in p.of

\* The contents of the atomic product and of the base against the history of each attempt.  A
\* base from before an attempt is one that no rebuild of this attempt has published:
\* this is why Acquire never starts a rebuild for an attempt that has ended.
ProgressOf(k) ==
  /\ k \in product.of \cup patches => log[k] # {}
  /\ Has(log[k], "reextract_started") =>
       /\ StartedFrom(k) \in [edition : Nat, of : SUBSET Keys]
       /\ k \notin StartedFrom(k).of /\ StartedFrom(k).edition <= product.edition
  /\ ~Has(log[k], "publication_prepared")
  /\ Has(log[k], "requirements_published") => Newer(product, k)
  /\ Has(log[k], "base_rebuild_published") => Newer(base.product, k)

\* The same for an attempt whose executor has not come to write its event.
ReachedBy(w) ==
  /\ pc[w] = "publish" => Newer(product, key[w])
  /\ pc[w] \in AfterScope => Newer(base.product, key[w])

Places == \A w \in Executors : PlaceOf(w)
Progress ==
  ~Functional =>
    /\ product.edition <= extractions
    /\ \A k \in Keys : ProgressOf(k)
    /\ \A w \in Executors : ReachedBy(w)

Sound == Control /\ Histories /\ BudgetStarted /\ Places /\ Progress

\* An attempt ends, or is published, only on the way to these places.
LEMMA EndsAt ==
  ASSUME Control, NEW w \in Executors, Executor(w) \/ Crash(w), NEW k \in Keys,
         ~Ended(log[k]), Ended(log'[k])
  PROVE  pc'[w] \in {"recover", "idle", "project"}
<1>1. PICK kind \in Terminal : Has(log'[k], kind) /\ ~Has(log[k], kind)
  BY DEF Ended
<1>2. Recover(w) \/ ResumeStale(w) \/ RevalidateConflict(w) \/ Unapplied(w) \/ Fail(w) \/ Succeed(w)
  BY <1>1, Firsts
<1> QED
  BY <1>2 DEF Control, Types, Recover, ResumeStale, RevalidateConflict, Unapplied, Fail, Succeed,
              Conclude, Checkpoint, Leave, Goto

LEMMA PublishedAt ==
  ASSUME Control, NEW w \in Executors, Executor(w) \/ Crash(w), NEW k \in Keys,
         ~Has(log[k], "requirements_published"), Has(log'[k], "requirements_published")
  PROVE  pc'[w] \in {"recover", "derive"}
<1>1. Recover(w) \/ Publish(w)
  BY Firsts
<1> QED
  BY <1>1 DEF Control, Types, Recover, Publish, Checkpoint, Goto

\* A base from before the attempt: the attempt is not over.
LEMMA NotYetEnded ==
  ASSUME Sound, ~Functional, NEW w \in Executors, key[w] \in Keys, IsPublished(w),
         base.product = Detail(Fate(w), "reextract_started").product
  PROVE  ~Ended(Fate(w))
<1> DEFINE k == key[w]
<1>1. WellFormed(log[k]) /\ ProgressOf(k)
  BY DEF Sound, Histories, Progress
<1>2. Has(log[k], "requirements_published")
  BY DEF IsPublished, Published, Fate
<1>3. Has(log[k], "reextract_started")
  BY <1>1, <1>2, Causes DEF Has
<1>4. base.product = StartedFrom(k)
  BY DEF Fate, StartedFrom
<1>5. ~Newer(base.product, k)
  BY <1>1, <1>3, <1>4 DEF ProgressOf, Newer
<1>6. ~Has(log[k], "base_rebuild_published")
  BY <1>1, <1>5 DEF ProgressOf
<1>7. ~Has(log[k], "reextract_succeeded")
  BY <1>1, <1>6, Causes
<1> QED
  BY <1>7 DEF IsPublished, Fate

LEMMA PlaceStep ==
  ASSUME Sound, Appends, setting' = setting, NEW w \in Executors, Executor(w) \/ Crash(w)
  PROVE  PlaceOf(w)'
<1> USE DEF PlaceOf, Fate, Published, Unpublished, Calling, Scope, AfterScope, Rebuilding,
     Functional, VerifierOn, durable, authority, private, fanout
<1>1. /\ pc \in [Executors -> Locked \cup Unlocked] /\ key \in [Executors -> Keys \cup {Nobody}]
      /\ LockedBy(w) /\ PlaceOf(w)
  BY DEF Sound, Places, Control, Types
<1>2. pc[w] # "idle" => key[w] \in Keys
  BY InHand DEF Sound
<1>3. key[w] \in Keys => \A kind : Has(log[key[w]], kind) => Has(log'[key[w]], kind)
  BY Remembered DEF Sound
<1>4. key[w] \in Keys /\ pc'[w] \notin {"recover", "idle", "project"} =>
        (Ended(log'[key[w]]) => Ended(log[key[w]]))
  BY EndsAt DEF Sound
<1>5. key[w] \in Keys /\ pc'[w] \notin {"recover", "derive"} =>
        (Has(log'[key[w]], "requirements_published") => Has(log[key[w]], "requirements_published"))
  BY PublishedAt DEF Sound
<1>6. CASE Leave(w)
  BY <1>1, <1>6 DEF Leave, Goto
<1>7. CASE pc'[w] \in {"recover", "admit"}
  BY <1>7

<1>8. CASE Resume(w)
  BY <1>1, <1>2, <1>3, <1>4, <1>5, <1>8, Lifecycles DEF Resume, Goto
<1>9. CASE Start(w)
  <2>1. ~Ended(log[key[w]]) /\ ~Has(log[key[w]], "requirements_published")
    BY <1>9 DEF Start, Admissible, Ended, Has
  <2> QED
    BY <1>1, <1>2, <1>3, <1>4, <1>5, <1>9, <2>1 DEF Start, Goto
<1>10. CASE Reserve(w)
  BY <1>1, <1>2, <1>3, <1>4, <1>5, <1>10 DEF Reserve, Checkpoint, Goto
<1>11. CASE Send(w)
  BY <1>1, <1>2, <1>3, <1>4, <1>5, <1>11 DEF Send, Goto
<1>12. CASE Settle(w)
  BY <1>1, <1>2, <1>3, <1>4, <1>5, <1>12 DEF Settle, Checkpoint, Goto
<1>13. CASE Answered(w)
  BY <1>1, <1>2, <1>3, <1>4, <1>5, <1>13 DEF Answered, Goto
<1>14. CASE Supplement(w)
  BY <1>1, <1>2, <1>3, <1>4, <1>5, <1>14 DEF Supplement, Checkpoint, Goto
<1>15. CASE Revalidate(w)
  BY <1>1, <1>2, <1>3, <1>4, <1>5, <1>15 DEF Revalidate, Goto
<1>16. CASE Prepare(w)
  BY <1>1, <1>2, <1>3, <1>4, <1>5, <1>16 DEF Prepare, Checkpoint, Goto
<1>17. CASE Patch(w)
  BY <1>1, <1>2, <1>3, <1>4, <1>5, <1>17 DEF Patch, Goto
<1>18. CASE Replace(w)
  BY <1>1, <1>2, <1>3, <1>4, <1>5, <1>18 DEF Replace, Goto
<1>19. CASE Publish(w)
  <2>1. Has(log'[key[w]], "requirements_published")
    <3>1. PICK e : Put(key[w], e) /\ e.kind = "requirements_published"
      BY <1>19, EventIs DEF Publish, Checkpoint
    <3>2. log'[key[w]] = log[key[w]] \cup {e}
      BY <1>2, <1>19, <3>1, LogOf DEF Sound, Publish
    <3> QED
      BY <3>1, <3>2, HasMore
  <2> QED
    BY <1>1, <1>2, <1>3, <1>4, <1>5, <1>19, <2>1 DEF Publish, Checkpoint, Goto
<1>20. CASE Derive(w)
  BY <1>1, <1>2, <1>3, <1>4, <1>5, <1>20 DEF Derive, Goto
<1>21. CASE Rebuild(w)
  BY <1>1, <1>2, <1>3, <1>4, <1>5, <1>21 DEF Rebuild, Goto, IsPublished
<1>22. CASE Republish(w)
  BY <1>1, <1>2, <1>3, <1>4, <1>5, <1>22 DEF Republish, Goto
<1>23. CASE Acquire(w)
  BY <1>1, <1>2, <1>3, <1>4, <1>5, <1>23, NotYetEnded DEF Acquire, Goto
<1>24. CASE Overtaken(w)
  BY <1>1, <1>2, <1>3, <1>4, <1>5, <1>24 DEF Overtaken, Goto
<1>25. CASE EnterScope(w)
  BY <1>1, <1>2, <1>3, <1>4, <1>5, <1>25 DEF EnterScope, Goto, Budgeted
<1>26. CASE AttachScope(w)
  BY <1>1, <1>2, <1>3, <1>4, <1>5, <1>26 DEF AttachScope, Goto
<1>27. CASE ReserveInScope(w)
  BY <1>1, <1>2, <1>3, <1>4, <1>5, <1>27 DEF ReserveInScope, Goto, Budgeted
<1>28. CASE SettleInScope(w)
  BY <1>1, <1>2, <1>3, <1>4, <1>5, <1>28 DEF SettleInScope, Goto
<1>29. CASE ReplayInScope(w)
  BY <1>1, <1>2, <1>3, <1>4, <1>5, <1>29 DEF ReplayInScope, Goto
<1>30. CASE TransitionFails(w)
  BY <1>1, <1>2, <1>3, <1>4, <1>5, <1>30 DEF TransitionFails, Goto
<1>31. CASE RefreshBase(w)
  BY <1>1, <1>2, <1>3, <1>4, <1>5, <1>31 DEF RefreshBase, Goto
<1>32. CASE ScopeFails(w)
  BY <1>1, <1>2, <1>3, <1>4, <1>5, <1>32 DEF ScopeFails, Goto
<1>33. CASE Finalize(w)
  BY <1>1, <1>2, <1>3, <1>4, <1>5, <1>33 DEF Finalize, Goto
<1>34. CASE LoadNothing(w)
  BY <1>1, <1>2, <1>3, <1>4, <1>5, <1>34 DEF LoadNothing, Checkpoint, Goto
<1>35. CASE Fold(w)
  BY <1>1, <1>2, <1>3, <1>4, <1>5, <1>35 DEF Fold, Goto
<1>36. CASE Load(w)
  BY <1>1, <1>2, <1>3, <1>4, <1>5, <1>36 DEF Load, Goto
<1>37. CASE RecordBase(w)
  BY <1>1, <1>2, <1>3, <1>4, <1>5, <1>37 DEF RecordBase, Checkpoint, Goto
<1>38. CASE RecordFold(w)
  BY <1>1, <1>2, <1>3, <1>4, <1>5, <1>38 DEF RecordFold, Checkpoint, Goto
<1>39. CASE Succeed(w)
  BY <1>1, <1>2, <1>3, <1>4, <1>5, <1>39 DEF Succeed, Checkpoint, Goto
<1>40. CASE Replay(w) \/ (\E k \in Keys : Begin(w, k)) \/ RecoverFanout(w) \/ Recover(w) \/ Recovered(w)
  BY <1>1, <1>6, <1>7, <1>40
     DEF Replay, Project, Begin, RecoverFanout, Recover, Recovered, ReplayQueue,
         ReplayVerifier, ReplayEnd, Goto
<1>41. CASE ResumeStale(w) \/ Refuse(w) \/ RevalidateConflict(w) \/ Unapplied(w) \/ Fail(w)
           \/ EnterFails(w) \/ Unwind(w) \/ UnwindFails(w) \/ Succeeded(w) \/ Falter(w) \/ Crash(w)
  BY <1>6, <1>41
     DEF ResumeStale, Refuse, RevalidateConflict, Unapplied, Fail, EnterFails, Unwind,
         UnwindFails, Succeeded, Falter, Crash, Conclude, Project
<1> QED
  BY <1>8, <1>9, <1>10, <1>11, <1>12, <1>13, <1>14, <1>15, <1>16, <1>17, <1>18, <1>19, <1>20,
     <1>21, <1>22, <1>23, <1>24, <1>25, <1>26, <1>27, <1>28, <1>29, <1>30, <1>31, <1>32, <1>33,
     <1>34, <1>35, <1>36, <1>37, <1>38, <1>39, <1>40, <1>41 DEF Executor

LEMMA OthersPlaced ==
  ASSUME Sound, Appends, setting' = setting, NEW v \in Executors,
         pc'[v] = pc[v], key'[v] = key[v], pc[v] \in Locked => log' = log
  PROVE  PlaceOf(v)'
<1> USE DEF PlaceOf, Fate, Published, Unpublished, Calling, Scope, AfterScope, Rebuilding,
     Functional, VerifierOn
<1>1. PlaceOf(v) /\ pc[v] \in Locked \cup Unlocked
  BY DEF Sound, Places, Control, Types
<1>2. CASE pc[v] \in Locked
  BY <1>1, <1>2
<1>3. CASE pc[v] \in Unlocked
  <2>1. pc[v] # "idle" => key[v] \in Keys
    BY InHand DEF Sound
  <2>2. key[v] \in Keys => (Published(v) => Has(log'[key[v]], "requirements_published"))
    BY Remembered DEF Sound
  <2> QED
    BY <1>1, <1>3, <2>1, <2>2 DEF Unlocked
<1> QED
  BY <1>1, <1>2, <1>3

LEMMA PlacesStep ==
  ASSUME Sound, AttemptNext
  PROVE  Places'
<1>1. Appends /\ setting' = setting
  BY StepAppends, StepCases DEF Sound
<1>2. CASE \E w \in Executors : Executor(w) \/ Crash(w)
  <2>1. PICK w \in Executors : Executor(w) \/ Crash(w)
    BY <1>2
  <2>2. StepOf(w) /\ PlaceOf(w)'
    BY <1>1, <2>1, ExecutorStep, CrashStep, PlaceStep DEF Sound
  <2>3. ASSUME NEW v \in Executors, v # w
        PROVE  PlaceOf(v)'
    <3>1. pc'[v] = pc[v] /\ key'[v] = key[v] /\ (pc[v] \in Locked => log' = log)
      BY <2>2, <2>3 DEF StepOf, Sound, Control, LockedBy
    <3> QED
      BY <1>1, <3>1, OthersPlaced
  <2> QED
    BY <2>2, <2>3 DEF Places
<1>3. CASE StepBeside
  BY <1>1, <1>3, OthersPlaced DEF StepBeside, Places
<1> QED
  BY <1>2, <1>3, StepCases, BesideStep

-----------------------------------------------------------------------------
(* What was published is newer than what it was made from.                 *)

\* Who moves the product, the supplement log and the base.
LEMMA Moves ==
  ASSUME NEW w \in Executors, Executor(w) \/ Crash(w)
  PROVE  /\ product' = product \/ Replace(w)
         /\ extractions' = extractions
         /\ patches' = patches \/ Patch(w)
         /\ base' = base \/ (base' = BaseNow /\ UNCHANGED <<log, product>>)
            \/ (base' = BaseNow /\ RefreshBase(w) /\ UNCHANGED product)
BY DEF Executor, Crash, Begin, RecoverFanout, ReplayQueue, ReplayVerifier, ReplayEnd, Recover,
       Recovered, Leave, Replay, Project, RecoverClaims, EndScope, Resume, ResumeStale,
       Conclude, Start, Refuse, Reserve, Checkpoint, Send, Settle, Answered, Supplement,
       Revalidate, RevalidateConflict, Prepare, Unapplied, Publish, Derive, Fail, Rebuild,
       Republish, Acquire, Overtaken, EnterScope, BeginScope, EnterFails, AttachScope,
       WriteOutbox, ReserveInScope, SettleInScope, ReplayInScope, TransitionFails, RefreshBase,
       ScopeFails, Unwind, UnwindFails, Abandon, Finalize, LoadNothing, Fold, Load, RecordBase,
       RecordFold, Succeed, Succeeded, Falter, Crash, Replace, Patch, durable

LEMMA MovesBeside ==
  ASSUME Control, ~Functional, product.edition <= extractions, Beside
  PROVE  /\ UNCHANGED <<log, patches, pc, key>>
         /\ \/ UNCHANGED product
            \/ product'.edition > product.edition /\ product'.of \subseteq patches /\ base' = base
         /\ base' = base \/ base' = BaseNow
         /\ product'.edition <= extractions'
BY DEF Beside, FullExtraction, FunctionalExtraction, Restore, Extract, NewEdition,
       Refresh, Review, Decide, FoldNow, RecoverClaims, EndScope, BaseNow, Control,
       Types, Product, Functional, durable, private, fanout

\* The contents of the product are only ever replaced by newer ones.
ProductGrows ==
  \/ product'.edition > product.edition
  \/ product'.edition = product.edition /\ product.of \subseteq product'.of

LEMMA ReplaceGrows ==
  ASSUME Control, ~Functional, NEW w \in Executors, Replace(w)
  PROVE  /\ ProductGrows /\ key[w] \in product'.of /\ product'.of \subseteq product.of \cup patches \cup {key[w]}
         /\ product'.edition = product.edition
BY DEF Replace, Patched, ProductGrows, Control, Types, Product

LEMMA ContentTypes ==
  ASSUME Control
  PROVE  /\ product.edition \in Nat /\ product.of \subseteq Keys
         /\ base.product.edition \in Nat /\ base.product.of \subseteq Keys
BY DEF Control, Types, Product, Base

\* What a request started from does not change any more.
LEMMA StartKept ==
  ASSUME Control, Histories, Histories', Appends, NEW k \in Keys, NEW kind \in Single, Has(log[k], kind)
  PROVE  Detail(log'[k], kind) = Detail(log[k], kind)
<1>1. CASE log' = log
  BY <1>1
<1>2. CASE \E o \in Keys : \E e : Put(o, e) /\ Grows(log[o], e)
  <2>0. PICK o \in Keys : \E e : Put(o, e)
    BY <1>2
  <2>1. PICK e : Put(o, e)
    BY <2>0
  <2>2. log'[k] = IF k = o THEN log[k] \cup {e} ELSE log[k]
    BY <2>1, LogOf
  <2>3. Once(log[k]) /\ Once(log'[k])
    BY DEF Histories, WellFormed
  <2>4. CASE k = o
    <3>1. Once(log[k] \cup {e}) /\ log'[k] = log[k] \cup {e}
      BY <2>2, <2>3, <2>4
    <3>2. Detail(log[k] \cup {e}, kind) = Detail(log[k], kind)
      BY <2>3, <3>1, DetailKept
    <3> QED
      BY <3>1, <3>2
  <2> QED
    BY <2>2, <2>4
<1> QED
  BY <1>1, <1>2 DEF Appends

\* A request that is put on record starts from what the product holds, without a result of
\* its own in it.
LEMMA StartProgress ==
  ASSUME Sound, ~Functional, Histories', NEW w \in Executors, Start(w), NEW k, k = key[w]
  PROVE  ProgressOf(k)'
<1>1. k \in Keys /\ log[k] = {} /\ UNCHANGED <<product, patches, base>>
  BY InHand DEF Sound, Start, Admissible
<1>8. PICK e : Put(k, e) /\ e.kind = "reextract_started" /\ e.detail = SnapshotNow
  BY EventIs DEF Start
<1>2. log'[k] = {e}
  BY <1>1, <1>8, LogOf DEF Sound
<1>3. \A kind : Has(log'[k], kind) <=> kind = "reextract_started"
  BY <1>2, <1>8 DEF Has
<1>4. Detail(log'[k], "reextract_started") = SnapshotNow
  <2>1. Once(log'[k]) /\ e \in log'[k]
    BY <1>1, <1>2 DEF Histories, WellFormed
  <2> QED
    BY <1>8, <2>1, DetailIs DEF Single
<1>5. StartedFrom(k)' = product
  BY <1>4 DEF StartedFrom, SnapshotNow
<1>6. k \notin product.of
  BY <1>1 DEF Sound, Progress, ProgressOf
<1>7. product \in [edition : Nat, of : SUBSET Keys]
  BY SettingTypes DEF Sound, Control, Types, Product
<1>9. /\ StartedFrom(k)' \in [edition : Nat, of : SUBSET Keys]
      /\ k \notin StartedFrom(k)'.of /\ StartedFrom(k)'.edition <= product'.edition
  <2>1. product.edition \in Nat
    BY <1>7
  <2> QED
    BY <1>1, <1>5, <1>6, <1>7, <2>1
<1>10. log'[k] # {}
  BY <1>2
<1> QED
  BY <1>3, <1>9, <1>10 DEF ProgressOf

\* The contents of the product and the base after a step, for a request on record.
LEMMA OnRecord ==
  ASSUME Sound, ~Functional, Control', Histories', Appends, NEW k \in Keys, Has(log[k], "reextract_started"),
         ProductGrows,
         base' = base \/ (base'.product = product' /\ product' = product),
         Has(log'[k], "publication_prepared") => Has(log[k], "publication_prepared"),
         Has(log'[k], "requirements_published") /\ ~Has(log[k], "requirements_published") =>
           Newer(product, k),
         Has(log'[k], "base_rebuild_published") /\ ~Has(log[k], "base_rebuild_published") =>
           Newer(base.product, k)
  PROVE  ProgressOf(k)' /\ StartedFrom(k)' = StartedFrom(k)
<1>1. ProgressOf(k) /\ Control /\ Histories
  BY DEF Sound, Progress
<1>2. StartedFrom(k)' = StartedFrom(k)
  BY <1>1, StartKept DEF StartedFrom, Single
<1>4. /\ StartedFrom(k).edition \in Nat /\ product.edition \in Nat /\ product'.edition \in Nat
      /\ base.product.edition \in Nat /\ base'.product.edition \in Nat
  BY <1>1, ContentTypes DEF ProgressOf, Control, Types, Product, Base
<1>5. \A kind : Has(log[k], kind) => Has(log'[k], kind)
  BY <1>1, Remembered
<1>6. Newer(product, k) => Newer(product, k)'
  BY <1>2, <1>4 DEF Newer, ProductGrows
<1>7. Newer(base.product, k) /\ base' = base => Newer(base.product, k)'
  BY <1>2 DEF Newer
<1>8. base'.product = product' /\ product' = product =>
        (Newer(product, k) => Newer(base.product, k)')
  BY <1>2 DEF Newer
<1>9. Has(log[k], "base_rebuild_published") => Newer(product, k) /\ Newer(base.product, k)
  BY <1>1, Causes DEF ProgressOf, Histories
<1>10. Has(log'[k], "requirements_published") => Newer(product, k)
  BY <1>1 DEF ProgressOf
<1>11. Has(log'[k], "base_rebuild_published") => Newer(product, k)
  BY <1>10, Causes DEF Histories
<1>12. log'[k] # {}
  BY <1>5 DEF Has
<1>13. StartedFrom(k).edition <= product'.edition
  BY <1>1, <1>4 DEF ProgressOf, ProductGrows
<1>14. Has(log'[k], "base_rebuild_published") => Newer(base.product, k)'
  BY <1>7, <1>8, <1>9, <1>11
<1>15. ~Has(log'[k], "publication_prepared")
  BY <1>1 DEF ProgressOf
<1> QED
  BY <1>1, <1>2, <1>6, <1>10, <1>12, <1>13, <1>14, <1>15 DEF ProgressOf

\* Without a record there is nothing of an attempt anywhere.
LEMMA OffRecord ==
  ASSUME Sound, Control', Histories', NEW k \in Keys, log'[k] = {},
         k \notin product'.of \cup patches'
  PROVE  ProgressOf(k)'
<1>1. \A kind : ~Has(log'[k], kind)
  BY DEF Has
<1> QED
  BY <1>1 DEF ProgressOf

LEMMA RecordedOrNot ==
  ASSUME Histories, NEW k \in Keys
  PROVE  Has(log[k], "reextract_started") <=> log[k] # {}
BY Causes DEF Histories, Has

\* What an executor writes into the log is true of the product and the base.
LEMMA FirstsAreNewer ==
  ASSUME Sound, ~Functional, Histories', NEW w \in Executors, Executor(w) \/ Crash(w), NEW k \in Keys
  PROVE  /\ Has(log'[k], "publication_prepared") => Has(log[k], "publication_prepared")
         /\ Has(log'[k], "requirements_published") /\ ~Has(log[k], "requirements_published") =>
              Newer(product, k)
         /\ Has(log'[k], "base_rebuild_published") /\ ~Has(log[k], "base_rebuild_published") =>
              Newer(base.product, k)
<1>1. Control /\ Histories /\ ProgressOf(k) /\ ReachedBy(w)
  BY DEF Sound, Progress
<1>2. Has(log'[k], "publication_prepared") => Has(log[k], "publication_prepared")
  <2>1. ~Prepare(w)
    BY DEF Prepare, Sound, Places, PlaceOf
  <2> QED
    BY <1>1, <2>1, Firsts
<1>3. ASSUME Has(log'[k], "requirements_published"), ~Has(log[k], "requirements_published")
      PROVE  Newer(product, k)
  <2>1. (Publish(w) /\ k = key[w]) \/ Recover(w)
    BY <1>1, <1>3, Firsts
  <2>2. CASE Publish(w) /\ k = key[w]
    BY <1>1, <2>2 DEF Publish, ReachedBy
  <2>3. CASE Recover(w)
    <3>1. PICK o \in Keys : Orphan(o) /\ Put(o, Recovers(o))
      BY <2>3 DEF Recover
    <3>2. k = o /\ Recovers(o).kind = "requirements_published"
      <4>1. log'[k] = IF k = o THEN log[k] \cup {Recovers(o)} ELSE log[k]
        BY <1>1, <3>1, LogOf
      <4> QED
        BY <1>3, <4>1, HasMore
    <3>3. Has(log[k], "reextract_started")
      BY <1>1, <3>1, <3>2, Lifecycles, RecordedOrNot DEF Orphan
    <3>4. k \in product.of
      BY <1>1, <3>2, EventIs DEF Recovers, ProgressOf
    <3> QED
      BY <1>1, <3>3, <3>4, ContentTypes DEF ProgressOf, Newer
  <2> QED
    BY <2>1, <2>2, <2>3
<1>4. ASSUME Has(log'[k], "base_rebuild_published"), ~Has(log[k], "base_rebuild_published")
      PROVE  Newer(base.product, k)
  <2>1. (LoadNothing(w) \/ RecordBase(w)) /\ k = key[w]
    BY <1>1, <1>4, Firsts
  <2> QED
    BY <1>1, <2>1 DEF LoadNothing, RecordBase, ReachedBy, AfterScope
<1> QED
  BY <1>2, <1>3, <1>4

\* How an executor comes to publish, and to finish.
LEMMA Entering ==
  ASSUME Control, NEW w \in Executors, Executor(w) \/ Crash(w)
  PROVE  /\ pc'[w] = "publish" => Replace(w) /\ key'[w] = key[w]
         /\ pc'[w] \in AfterScope =>
              /\ key'[w] = key[w]
              /\ pc[w] \in AfterScope \/ base'.product = product'
<1> USE DEF AfterScope, durable, authority, private, fanout
<1>1. pc \in [Executors -> Locked \cup Unlocked]
  BY DEF Control, Types
<1>2. CASE Leave(w)
  BY <1>1, <1>2 DEF Leave, Goto

<1>3. CASE \/ ResumeStale(w) \/ Refuse(w) \/ RevalidateConflict(w) \/ Unapplied(w) \/ Fail(w)
           \/ EnterFails(w) \/ Unwind(w) \/ UnwindFails(w) \/ Succeeded(w) \/ Falter(w)
           \/ Crash(w)
  BY <1>1, <1>2, <1>3
     DEF ResumeStale, Conclude, Refuse, RevalidateConflict, Unapplied, Fail, EnterFails,
         Unwind, UnwindFails, Succeeded, Project, Falter, Crash
<1>4. CASE \/ Replay(w) \/ Recovered(w)
  BY <1>1, <1>2, <1>4 DEF Replay, Project, Goto, Recovered
<1>5. CASE \/ RecoverFanout(w) \/ Recover(w)
  BY <1>1, <1>5 DEF RecoverFanout, Recover
<1>6. CASE \/ ReplayInScope(w)
  BY <1>1, <1>6 DEF ReplayInScope, Goto
<1>7. CASE \E k \in Keys : Begin(w, k)
  BY <1>1, <1>7 DEF Begin, Goto
<1>8. CASE \/ Rebuild(w)
  BY <1>1, <1>8 DEF Rebuild, Goto, BaseNow
<1>9. CASE \/ Republish(w)
  BY <1>1, <1>9 DEF Republish, Goto, BaseNow
<1>10. CASE \/ Overtaken(w)
  BY <1>1, <1>10 DEF Overtaken, Goto, BaseNow, IsPublished
<1>11. CASE \/ RefreshBase(w)
  BY <1>1, <1>11 DEF RefreshBase, Goto, BaseNow
<1>12. CASE \/ Finalize(w)
  BY <1>1, <1>12 DEF Finalize, Goto
<1>13. CASE \/ LoadNothing(w)
  BY <1>1, <1>13 DEF LoadNothing, Checkpoint, Goto
<1>14. CASE \/ Fold(w)
  BY <1>1, <1>14 DEF Fold, Goto
<1>15. CASE \/ Load(w)
  BY <1>1, <1>15 DEF Load, Goto
<1>16. CASE \/ RecordBase(w)
  BY <1>1, <1>16 DEF RecordBase, Checkpoint, Goto
<1>17. CASE \/ RecordFold(w)
  BY <1>1, <1>17 DEF RecordFold, Checkpoint, Goto
<1>18. CASE \/ Succeed(w)
  BY <1>1, <1>18 DEF Succeed, Checkpoint, Goto
<1>19. CASE \/ Resume(w) \/ Start(w) \/ Reserve(w) \/ Send(w) \/ Settle(w) \/ Answered(w)
           \/ Supplement(w) \/ Revalidate(w) \/ Prepare(w)
  BY <1>1, <1>19
     DEF Resume, Goto, Start, Reserve, Checkpoint, Send, Settle, Answered, Supplement,
         Revalidate, Prepare
<1>20. CASE \/ Patch(w) \/ Replace(w) \/ Publish(w) \/ Derive(w) \/ Acquire(w) \/ EnterScope(w)
           \/ AttachScope(w) \/ ReserveInScope(w) \/ SettleInScope(w) \/ TransitionFails(w)
           \/ ScopeFails(w)
  BY <1>1, <1>20
     DEF Patch, Goto, Replace, Publish, Checkpoint, Derive, Acquire, EnterScope, AttachScope,
         ReserveInScope, SettleInScope, TransitionFails, ScopeFails
<1> QED
  BY <1>3, <1>4, <1>5, <1>6, <1>7, <1>8, <1>9, <1>10, <1>11, <1>12, <1>13, <1>14, <1>15, <1>16,
     <1>17, <1>18, <1>19, <1>20 DEF Executor

\* A request with an executor at these places is on record.
LEMMA ServedStarted ==
  ASSUME Sound, NEW v \in Executors, pc[v] \in Unpublished \cup Calling \cup Rebuilding
  PROVE  key[v] \in Keys /\ Has(log[key[v]], "reextract_started")
<1>1. pc[v] # "idle" /\ Control /\ Histories
  BY DEF Sound, Unpublished, Calling, Rebuilding, Scope, AfterScope
<1>2. key[v] \in Keys
  BY <1>1, InHand
<1>3. CASE pc[v] \in Rebuilding
  <2>1. Has(log[key[v]], "requirements_published")
    BY <1>3 DEF Sound, Places, PlaceOf, Published, Fate
  <2> QED
    BY <1>1, <1>2, <2>1, RecordedOrNot DEF Has
<1>4. CASE pc[v] \in Unpublished \cup Calling
  BY <1>1, <1>2, <1>4 DEF Sound, BudgetStarted, Control, LockedBy
<1> QED
  BY <1>2, <1>3, <1>4

\* What was reached stays reached.
LEMMA StaysReached ==
  ASSUME Sound, ~Functional, Control', Places', NEW v \in Executors, NEW k \in Keys,
         key[v] = k, key'[v] = k, ProgressOf(k)', ProductGrows,
         Has(log[k], "reextract_started") => StartedFrom(k)' = StartedFrom(k),
         base' = base \/ (base'.product = product' /\ product' = product),
         pc'[v] = "publish" =>
           pc[v] = "publish" \/ (k \in product'.of /\ Has(log[k], "reextract_started")),
         pc'[v] \in AfterScope => pc[v] \in AfterScope \/ base'.product = product'
  PROVE  ReachedBy(v)'
<1>1. Control /\ ProgressOf(k) /\ ReachedBy(v)
  BY DEF Sound, Progress
<1>2. product.edition \in Nat /\ product'.edition \in Nat
  BY <1>1, ContentTypes DEF Control, Types, Product
<1>3. ASSUME pc'[v] = "publish"
      PROVE  Newer(product, k)'
  <2>1. Has(log[k], "reextract_started")
    BY <1>3, ServedStarted DEF Unpublished
  <2>2. StartedFrom(k)' = StartedFrom(k) /\ StartedFrom(k).edition \in Nat
        /\ StartedFrom(k).edition <= product.edition
    BY <1>1, <2>1 DEF ProgressOf
  <2>3. Newer(product, k) \/ k \in product'.of
    BY <1>1, <1>3 DEF ReachedBy
  <2> QED
    BY <1>2, <2>2, <2>3 DEF Newer, ProductGrows
<1>4. ASSUME pc'[v] \in AfterScope
      PROVE  Newer(base.product, k)'
  <2>1. CASE base'.product = product'
    <3>1. Has(log'[k], "requirements_published")
      BY <1>4 DEF Places, PlaceOf, Rebuilding, Published, Fate
    <3>2. Newer(product, k)'
      BY <3>1 DEF ProgressOf
    <3> QED
      BY <2>1, <3>2 DEF Newer
  <2>2. CASE base' = base /\ pc[v] \in AfterScope
    <3>1. StartedFrom(k)' = StartedFrom(k)
      BY <2>2, ServedStarted DEF Rebuilding
    <3>2. Newer(base.product, k)
      BY <1>1, <2>2 DEF ReachedBy
    <3> QED
      BY <2>2, <3>1, <3>2 DEF Newer
  <2> QED
    BY <1>4, <2>1, <2>2
<1> QED
  BY <1>3, <1>4 DEF ReachedBy, Newer, StartedFrom

LEMMA ProgressStep ==
  ASSUME Sound, AttemptNext, Control', Histories', Places', Appends
  PROVE  Progress'
<1> SUFFICES ASSUME ~Functional
             PROVE  /\ product'.edition <= extractions'
                    /\ \A k \in Keys : ProgressOf(k)'
                    /\ \A v \in Executors : ReachedBy(v)'
  BY StepCases DEF Progress, Functional
<1>1. /\ Control /\ Histories /\ BudgetStarted /\ \A k \in Keys : ProgressOf(k)
      /\ product.edition <= extractions
  BY DEF Sound, Progress
<1>2. CASE \E w \in Executors : Executor(w) \/ Crash(w)
  <2>1. PICK w \in Executors : Executor(w) \/ Crash(w)
    BY <1>2
  <2>2. ProductGrows
    BY <1>1, <2>1, Moves, ReplaceGrows, ContentTypes DEF ProductGrows
  <2>3. base' = base \/ (base'.product = product' /\ product' = product)
    BY <2>1, Moves DEF BaseNow
  <2>7. product'.edition <= extractions'
    BY <1>1, <2>1, Moves, ReplaceGrows
  <2>4. Replace(w) \/ Patch(w) => key[w] \in Keys /\ log[key[w]] # {}
    BY <1>1, ServedStarted DEF Replace, Patch, Unpublished, Has
  <2>5. ASSUME NEW k \in Keys
        PROVE  ProgressOf(k)' /\ (Has(log[k], "reextract_started") => StartedFrom(k)' = StartedFrom(k))
    <3>1. CASE Has(log[k], "reextract_started")
      BY <2>1, <2>2, <2>3, <2>5, <3>1, OnRecord, FirstsAreNewer
    <3>2. CASE log[k] = {} /\ log'[k] = {}
      <4>1. k \notin product'.of
        BY <1>1, <2>1, <2>4, <3>2, Moves, ReplaceGrows DEF ProgressOf
      <4>2. k \notin patches'
        BY <1>1, <2>1, <2>4, <3>2, Moves DEF ProgressOf, Patch
      <4> QED
        BY <3>2, <4>1, <4>2, OffRecord DEF Has
    <3>3. CASE log[k] = {} /\ log'[k] # {}
      <4>1. Has(log'[k], "reextract_started") /\ ~Has(log[k], "reextract_started")
        BY <3>3, Causes DEF Histories, Has
      <4>2. Start(w) /\ k = key[w]
        BY <1>1, <2>1, <4>1, Firsts
      <4> QED
        BY <4>1, <4>2, StartProgress
    <3> QED
      BY <1>1, <3>1, <3>2, <3>3, RecordedOrNot
  <2>6. ASSUME NEW v \in Executors
        PROVE  ReachedBy(v)'
    <3>1. CASE pc'[v] \notin {"publish"} \cup AfterScope
      BY <3>1 DEF ReachedBy
    <3>2. CASE pc'[v] \in {"publish"} \cup AfterScope
      <4>1. StepOf(w)
        BY <1>1, <2>1, ExecutorStep, CrashStep
      <4>2. key'[v] = key[v]
        BY <1>1, <2>1, <3>2, <4>1, Entering DEF StepOf
      <4>3. key'[v] \in Keys
        <5>1. pc'[v] # "idle"
          BY <3>2 DEF AfterScope
        <5> QED
          BY <5>1 DEF Control, Types, LockedBy
      <4>4. pc'[v] = "publish" =>
              pc[v] = "publish" \/ (key[v] \in product'.of /\ Has(log[key[v]], "reextract_started"))
        <5>1. CASE v = w
          BY <1>1, <2>1, <5>1, Entering, ReplaceGrows, ServedStarted DEF Replace, Unpublished
        <5>2. CASE v # w
          BY <4>1, <5>2 DEF StepOf
        <5> QED
          BY <5>1, <5>2
      <4>5. pc'[v] \in AfterScope => pc[v] \in AfterScope \/ base'.product = product'
        BY <1>1, <2>1, <4>1, Entering DEF StepOf
      <4> QED
        BY <2>2, <2>3, <2>5, <4>2, <4>3, <4>4, <4>5, StaysReached
    <3> QED
      BY <3>1, <3>2
  <2> QED
    BY <2>5, <2>6, <2>7
<1>3. CASE Beside
  <2>1. /\ UNCHANGED <<log, patches, pc, key>>
        /\ \/ UNCHANGED product
           \/ product'.edition > product.edition /\ product'.of \subseteq patches /\ base' = base
        /\ base' = base \/ base' = BaseNow
        /\ product'.edition <= extractions'
    BY <1>1, <1>3, MovesBeside
  <2>2. ProductGrows
    BY <1>1, <2>1, ContentTypes DEF ProductGrows
  <2>3. base' = base \/ (base'.product = product' /\ product' = product)
    BY <1>1, <2>1, <1>3
       DEF BaseNow, Beside, FullExtraction, FunctionalExtraction, Restore, Refresh, Review, Decide,
           FoldNow, durable
  <2>4. ASSUME NEW k \in Keys
        PROVE  ProgressOf(k)' /\ (Has(log[k], "reextract_started") => StartedFrom(k)' = StartedFrom(k))
    <3>1. CASE Has(log[k], "reextract_started")
      BY <2>1, <2>2, <2>3, <2>4, <3>1, OnRecord
    <3>2. CASE log[k] = {}
      BY <1>1, <2>1, <3>2, OffRecord DEF ProgressOf, Has
    <3> QED
      BY <1>1, <3>1, <3>2, RecordedOrNot
  <2>5. ASSUME NEW v \in Executors
        PROVE  ReachedBy(v)'
    <3>1. CASE pc[v] \notin {"publish"} \cup AfterScope
      BY <2>1, <3>1 DEF ReachedBy
    <3>2. CASE pc[v] \in {"publish"} \cup AfterScope
      <4>1. key[v] \in Keys
        BY <3>2, ServedStarted DEF Unpublished, Rebuilding
      <4> QED
        BY <2>1, <2>2, <2>3, <2>4, <4>1, StaysReached
    <3> QED
      BY <3>1, <3>2
  <2> QED
    BY <2>1, <2>4, <2>5
<1> QED
  BY <1>2, <1>3, StepCases

LEMMA SoundStep ==
  ASSUME Sound, [AttemptNext]_attemptVars
  PROVE  Sound'
<1>1. CASE AttemptNext
  <2>1. Control' /\ Appends /\ BudgetStarted' /\ Places'
    BY <1>1, ControlStep, StepAppends, BudgetStartedStep, PlacesStep DEF Sound
  <2>2. Histories'
    BY <2>1, HistoriesStep DEF Sound
  <2> QED
    BY <1>1, <2>1, <2>2, ProgressStep DEF Sound
<1>2. CASE UNCHANGED attemptVars
  <2>1. Control'
    BY <1>2, ControlStutters DEF Sound
  <2> QED
    BY <1>2, <2>1
       DEF Sound, Histories, BudgetStarted, Places, PlaceOf, Progress, ProgressOf, ReachedBy, Newer,
           StartedFrom, Fate, Published, Functional, VerifierOn, attemptVars, durable, private
<1> QED
  BY <1>1, <1>2

LEMMA SoundInit ==
  ASSUME AttemptInit
  PROVE  Sound
<1>1. Control
  BY ControlInit
<1>2. \A k \in Keys : log[k] = {}
  BY DEF AttemptInit
<1>3. Histories
  <2>1. Counts({}) = {}
    BY DEF Counts
  <2> QED
    BY <1>2, <2>1 DEF Histories, WellFormed, Caused, Once, OneEnd, Counted
<1>4. BudgetStarted /\ Places
  BY DEF AttemptInit, BudgetStarted, Places, PlaceOf, Unpublished, Calling, Scope, AfterScope, Rebuilding
<1>5. Progress
  <2>1. \A k \in Keys : ProgressOf(k)
    BY <1>2 DEF AttemptInit, Original, ProgressOf, Has
  <2>2. product.edition <= extractions
    BY DEF AttemptInit, Original
  <2> QED
    BY <2>1, <2>2 DEF AttemptInit, Progress, ReachedBy, AfterScope
<1> QED
  BY <1>1, <1>3, <1>4, <1>5 DEF Sound

-----------------------------------------------------------------------------
(* The calls: paid for, on record, in the budget and in the verifier's     *)
(* accounts.                                                               *)

\* An executor of which the verifier's checkpoint file is.
InScope(w) == pc[w] \in Scope \/ (pc[w] \in Calling /\ Published(w))

Calls(k) == CallsRecorded(log[k])

\* No call is paid for that is not on record.
PaidOf(k) == paid[k] <= Calls(k) /\ Calls(k) <= MaxCalls

\* The budget of a request is what its log has, but for the transition that is under way
\* in the verifier's scope and for a checkpoint that got lost at its end.
SpendsOf(w) ==
  budget[w] # Nobody =>
    /\ Calls(key[w]) <= budget[w]
    /\ pc[w] = "sent" => paid[key[w]] < Calls(key[w])
    /\ pc[w] = "reserved" => paid[key[w]] < budget[w]
    /\ InScope(w) /\ VerifierOn /\ outbox = Nobody => budget[w] = wal.calls
    /\ InScope(w) /\ VerifierOn /\ outbox # Nobody => budget[w] = outbox.calls
    /\ ~InScope(w) /\ wal # Nobody => wal.account # key[w]
    /\ ~InScope(w) /\ pc[w] \notin AfterScope => Calls(key[w]) = budget[w]

\* Where the lock can be while an outbox is there.
BesideOutbox == {"recover", "load"} \cup (Scope \ {"attach"})

OwnsOf(w) ==
  /\ InScope(w) => wal # Nobody /\ wal.owner = w /\ wal.account = Account(w)
  /\ pc[w] \in {"reserved", "settled"} => outbox # Nobody
  /\ outbox # Nobody /\ pc[w] \in Locked => pc[w] \in BesideOutbox

OneSpender ==
  \A v, w \in Executors : budget[v] # Nobody /\ budget[w] # Nobody /\ key[v] = key[w] => v = w

FileOK ==
  wal # Nobody =>
    /\ wal.owner # Nobody => InScope(wal.owner)
    /\ wal.account # Nobody => Has(log[wal.account], "reextract_started")
    /\ wal.account # Nobody /\ outbox = Nobody => wal.calls = Calls(wal.account)

OutboxOK ==
  outbox # Nobody =>
    /\ wal # Nobody /\ wal.account = outbox.account
    /\ ~Ended(log[outbox.account])
    /\ Calls(outbox.account) <= outbox.calls /\ outbox.calls <= MaxCalls

\* An attempt that is booked is neither in the checkpoint file nor going to be.
RowOK(row) ==
  /\ row \in [account : Keys, calls : Nat]
  /\ wal # Nobody => wal.account # row.account
  /\ Has(log[row.account], "reextract_started")
  /\ row.calls = Calls(row.account)
  /\ \A w \in Executors : budget[w] # Nobody /\ key[w] = row.account => pc[w] \in AfterScope

Accounts ==
  /\ \A k \in Keys : PaidOf(k)
  /\ \A w \in Executors : SpendsOf(w) /\ OwnsOf(w)
  /\ OneSpender /\ FileOK /\ OutboxOK
  /\ \A row \in rows : RowOK(row)

\* An executor through a step that books nothing.
CalmFor(v) ==
  /\ \/ budget'[v] = Nobody
     \/ /\ budget'[v] = budget[v] /\ key'[v] = key[v]
        /\ pc[v] \in AfterScope => pc'[v] \in AfterScope
        /\ InScope(v) => InScope(v)'
  /\ InScope(v)' => InScope(v) /\ key'[v] = key[v] /\ budget'[v] = budget[v]
  /\ \A place \in {"sent", "reserved", "settled"} : pc'[v] = place => pc[v] = place
  /\ outbox # Nobody /\ pc'[v] \in Locked => pc'[v] \in BesideOutbox

\* The accounts are left alone, the checkpoint file of nobody or of an executor that leaves
\* is booked, or the file loses its owner.
Booked ==
  /\ outbox = Nobody /\ wal # Nobody
  /\ \A v \in Executors : v = wal.owner => budget'[v] = Nobody /\ ~InScope(v)'
  /\ wal' = Nobody /\ rows' = rows \cup Row(wal.account, wal.calls)

Detached ==
  /\ wal # Nobody /\ wal' = [wal EXCEPT !.owner = Nobody] /\ rows' = rows
  /\ \A v \in Executors : InScope(v)' => v # wal.owner

Left ==
  /\ UNCHANGED <<wal, rows>>
  /\ wal # Nobody /\ wal.owner # Nobody => InScope(wal.owner)'

Calm ==
  /\ UNCHANGED <<setting, paid, outbox>>
  /\ \A k \in Keys : Calls(k)' = Calls(k)
  /\ \A v \in Executors : CalmFor(v)
  /\ outbox # Nobody /\ Ended(log'[outbox.account]) => Ended(log[outbox.account])
  /\ Left \/ Booked \/ Detached

\* What the file and the outbox are made of.
LEMMA AccountTypes ==
  ASSUME Control
  PROVE  /\ Nobody \notin Keys /\ Nobody \notin Executors
         /\ outbox # Nobody => outbox.account \in Keys /\ outbox.calls \in Nat
         /\ wal # Nobody => /\ wal.owner \in Executors \cup {Nobody}
                            /\ wal.account \in Keys \cup {Nobody} /\ wal.calls \in Nat
                            /\ [wal EXCEPT !.owner = Nobody] # Nobody
                            /\ [wal EXCEPT !.owner = Nobody].owner = Nobody
                            /\ [wal EXCEPT !.owner = Nobody].account = wal.account
                            /\ [wal EXCEPT !.owner = Nobody].calls = wal.calls
<1>1. ASSUME wal # Nobody
      PROVE  [wal EXCEPT !.owner = Nobody] \in
               [owner : Executors \cup {Nobody}, account : Keys \cup {Nobody}, calls : Nat]
  BY <1>1 DEF Control, Types
<1> QED
  BY <1>1, AttemptAssumption DEF Control, Types

\* The file after a calm step.
LEMMA CalmFile ==
  ASSUME Control, Calm
  PROVE  wal' # Nobody =>
           /\ wal # Nobody /\ wal'.account = wal.account /\ wal'.calls = wal.calls
           /\ wal'.owner # Nobody => wal'.owner = wal.owner /\ InScope(wal.owner)'
           /\ wal'.owner = wal.owner \/ \A v \in Executors : InScope(v)' => v # wal.owner
           /\ rows' = rows
BY AccountTypes DEF Calm, Left, Booked, Detached

LEMMA CalmSpends ==
  ASSUME Control, Accounts, Calm, NEW v \in Executors
  PROVE  SpendsOf(v)'
<1>1. SUFFICES ASSUME budget'[v] # Nobody
               PROVE  SpendsOf(v)'
  BY DEF SpendsOf
<1>2. /\ budget'[v] = budget[v] /\ key'[v] = key[v] /\ budget[v] # Nobody
      /\ pc[v] \in AfterScope => pc'[v] \in AfterScope
      /\ InScope(v)' <=> InScope(v)
      /\ pc'[v] = "sent" => pc[v] = "sent"
      /\ pc'[v] = "reserved" => pc[v] = "reserved"
  BY <1>1 DEF Calm, CalmFor
<1>3. key[v] \in Keys
  BY <1>2, InHand
<1>4. Calls(key[v])' = Calls(key[v]) /\ paid' = paid /\ outbox' = outbox
  <2>1. \A k \in Keys : CallsRecorded(log'[k]) = CallsRecorded(log[k])
    BY DEF Calm, Calls
  <2> QED
    BY <1>2, <1>3, <2>1 DEF Calm, Calls
<1>5. SpendsOf(v) /\ OwnsOf(v)
  BY DEF Accounts
<1>6. InScope(v) => wal # Nobody /\ wal' # Nobody /\ wal'.calls = wal.calls
  BY <1>1, <1>2, <1>5, AccountTypes, CalmFile DEF OwnsOf, Calm, Left, Booked, Detached
<1>7. wal' # Nobody => wal # Nobody /\ wal'.account = wal.account
  BY CalmFile
<1>8. VerifierOn' = VerifierOn
  BY DEF Calm, VerifierOn
<1>9. Calls(key[v])' <= budget'[v]
  BY <1>2, <1>4, <1>5 DEF SpendsOf
<1>10. /\ pc'[v] = "sent" => paid'[key'[v]] < Calls(key[v])'
       /\ pc'[v] = "reserved" => paid'[key'[v]] < budget'[v]
  BY <1>2, <1>4, <1>5 DEF SpendsOf
<1>11. /\ InScope(v)' /\ VerifierOn' /\ outbox' = Nobody => budget'[v] = wal'.calls
       /\ InScope(v)' /\ VerifierOn' /\ outbox' # Nobody => budget'[v] = outbox'.calls
  BY <1>2, <1>4, <1>5, <1>6, <1>8 DEF SpendsOf
<1>12. /\ ~InScope(v)' /\ wal' # Nobody => wal'.account # key'[v]
       /\ ~InScope(v)' /\ pc'[v] \notin AfterScope => Calls(key[v])' = budget'[v]
  BY <1>2, <1>4, <1>5, <1>7 DEF SpendsOf
<1> QED
  BY <1>9, <1>10, <1>11, <1>12 DEF SpendsOf

LEMMA CalmOwns ==
  ASSUME Control, Accounts, Calm, NEW v \in Executors
  PROVE  OwnsOf(v)'
<1>1. OwnsOf(v) /\ CalmFor(v) /\ outbox' = outbox
  BY DEF Accounts, Calm
<1>2. ASSUME InScope(v)'
      PROVE  wal' = wal /\ InScope(v) /\ key'[v] = key[v] /\ budget'[v] = budget[v]
  BY <1>1, <1>2, AccountTypes DEF CalmFor, OwnsOf, Calm, Left, Booked, Detached
<1>3. Account(v)' = IF budget'[v] # Nobody /\ VerifierOn THEN key'[v] ELSE Nobody
  BY DEF Account, Budgeted, Calm, VerifierOn
<1>4. Account(v) = IF budget[v] # Nobody /\ VerifierOn THEN key[v] ELSE Nobody
  BY DEF Account, Budgeted
<1>5. InScope(v)' => wal' # Nobody /\ wal'.owner = v /\ wal'.account = Account(v)'
  BY <1>1, <1>2, <1>3, <1>4 DEF OwnsOf
<1> QED
  BY <1>1, <1>5 DEF OwnsOf, CalmFor

LEMMA CalmRows ==
  ASSUME Control, Accounts, Calm, Appends, NEW row \in rows'
  PROVE  RowOK(row)'
<1>1. \A k \in Keys : CallsRecorded(log'[k]) = CallsRecorded(log[k])
  BY DEF Calm, Calls
<1>2. \A w \in Executors : budget'[w] # Nobody =>
        /\ budget[w] # Nobody /\ key'[w] = key[w] /\ (pc[w] \in AfterScope => pc'[w] \in AfterScope)
  BY DEF Calm, CalmFor
<1>3. CASE row \in rows
  <2>1. RowOK(row) /\ row.account \in Keys
    BY <1>3 DEF Accounts, RowOK
  <2>2. Has(log'[row.account], "reextract_started")
    BY <2>1, Remembered DEF RowOK
  <2>3. wal' # Nobody => wal'.account # row.account
    BY <2>1, CalmFile DEF RowOK
  <2> QED
    BY <1>1, <1>2, <2>1, <2>2, <2>3 DEF RowOK, Calls
<1>4. CASE row \notin rows
  <2>1. Booked /\ row \in Row(wal.account, wal.calls)
    BY <1>4 DEF Calm, Left, Booked, Detached
  <2>2. /\ wal.account # Nobody /\ wal.account \in Keys /\ wal.calls \in Nat
        /\ row = [account |-> wal.account, calls |-> wal.calls]
    BY <2>1, AccountTypes DEF Row, Booked
  <2>3. Has(log[row.account], "reextract_started") /\ row.calls = Calls(row.account)
        /\ row.account \in Keys
    BY <2>1, <2>2 DEF Accounts, FileOK, Booked
  <2>4. ASSUME NEW w \in Executors, budget[w] # Nobody, budget'[w] # Nobody
        PROVE  key[w] # row.account
    <3>1. ~InScope(w)
      BY <2>1, <2>4 DEF Accounts, OwnsOf, Booked
    <3> QED
      BY <2>1, <2>2, <2>4, <3>1 DEF Accounts, SpendsOf, Booked
  <2>5. wal' = Nobody
    BY <2>1 DEF Booked
  <2>6. Has(log'[row.account], "reextract_started")
    BY <2>3, Remembered
  <2> QED
    BY <1>1, <1>2, <2>2, <2>3, <2>4, <2>5, <2>6 DEF RowOK, Calls
<1> QED
  BY <1>3, <1>4

LEMMA CalmStep ==
  ASSUME Control, Control', Accounts, Calm, Appends
  PROVE  Accounts'
<1>1. \A k \in Keys : CallsRecorded(log'[k]) = CallsRecorded(log[k])
  BY DEF Calm, Calls
<1>2. /\ setting' = setting /\ paid' = paid /\ outbox' = outbox
  BY DEF Calm
<1>3. \A k \in Keys : PaidOf(k)'
  BY <1>1, <1>2 DEF Accounts, PaidOf, Calls, MaxCalls
<1>4. OneSpender'
  BY DEF Accounts, OneSpender, Calm, CalmFor
<1>5. FileOK'
  <2>1. SUFFICES ASSUME wal' # Nobody
                 PROVE  /\ wal'.owner # Nobody => InScope(wal.owner)'
                        /\ wal'.account # Nobody => Has(log'[wal'.account], "reextract_started")
                        /\ wal'.account # Nobody /\ outbox' = Nobody =>
                             wal'.calls = CallsRecorded(log'[wal'.account])
    BY DEF FileOK, Calls
  <2>2. /\ wal # Nobody /\ wal'.account = wal.account /\ wal'.calls = wal.calls
        /\ wal'.owner # Nobody => wal'.owner = wal.owner /\ InScope(wal.owner)'
    BY <2>1, CalmFile
  <2>3. wal.account # Nobody => wal.account \in Keys
    BY <2>2, AccountTypes
  <2>4. wal.account # Nobody => Has(log'[wal.account], "reextract_started")
    BY <2>2, <2>3, Remembered DEF Accounts, FileOK
  <2> QED
    BY <1>1, <1>2, <2>2, <2>3, <2>4 DEF Accounts, FileOK, Calls
<1>6. OutboxOK'
  <2>1. CASE outbox = Nobody
    BY <1>2, <2>1 DEF OutboxOK
  <2>2. CASE outbox # Nobody
    <3>1. outbox.account \in Keys /\ OutboxOK
      BY <2>2, AccountTypes DEF Accounts
    <3>2. wal' # Nobody /\ wal'.account = wal.account
      BY <2>2, <3>1, AccountTypes DEF OutboxOK, Calm, Left, Booked, Detached
    <3>3. ~Ended(log'[outbox.account])
      BY <2>2, <3>1 DEF OutboxOK, Calm
    <3> QED
      BY <1>1, <1>2, <2>2, <3>1, <3>2, <3>3 DEF OutboxOK, Calls, MaxCalls
  <2> QED
    BY <2>1, <2>2
<1>7. \A w \in Executors : SpendsOf(w)' /\ OwnsOf(w)'
  BY CalmSpends, CalmOwns
<1>8. \A row \in rows' : RowOK(row)'
  BY CalmRows
<1> QED
  BY <1>3, <1>4, <1>5, <1>6, <1>7, <1>8 DEF Accounts

\* The steps that move the accounts of the calls.
Spends(w) ==
  \/ RecoverFanout(w) \/ Start(w) \/ Reserve(w) \/ Send(w) \/ EnterScope(w) \/ EnterFails(w)
  \/ AttachScope(w) \/ ReserveInScope(w) \/ SettleInScope(w) \/ ReplayInScope(w)
  \/ RefreshBase(w) \/ Unwind(w) \/ UnwindFails(w)

LEMMA RecoverIs ==
  ASSUME RecoverClaims
  PROVE  outbox = Nobody /\ outbox' = Nobody /\ (UNCHANGED <<wal, rows>> \/ Booked)
BY AttemptAssumption DEF RecoverClaims, Blocked, EndScope, Booked, fanout

\* The count is moved by budget checkpoints only.
LEMMA CallsMove ==
  ASSUME Sound, NEW o \in Keys, NEW e, Put(o, e)
  PROVE  /\ \A k \in Keys : k # o => Calls(k)' = Calls(k)
         /\ e.kind # "budget_checkpoint" => Calls(o)' = Calls(o)
         /\ \A n \in Nat : e = BudgetEvent(n) =>
              Calls(o)' = IF n <= Calls(o) THEN Calls(o) ELSE n
<1>1. \A k \in Keys : log'[k] = IF k = o THEN log[k] \cup {e} ELSE log[k]
  BY LogOf DEF Sound
<1>2. \A k \in Keys : k # o => Calls(k)' = Calls(k)
  BY <1>1 DEF Calls
<1>3. e.kind # "budget_checkpoint" => Calls(o)' = Calls(o)
  BY <1>1, CallsKept DEF Calls
<1>4. ASSUME NEW n \in Nat, e = BudgetEvent(n)
      PROVE  Calls(o)' = IF n <= Calls(o) THEN Calls(o) ELSE n
  <2>1. Counted(log[o])
    BY DEF Sound, Histories, WellFormed
  <2>2. log'[o] = log[o] \cup {BudgetEvent(n)}
    BY <1>1, <1>4
  <2> QED
    BY <1>4, <2>1, <2>2, CallsBooked DEF Calls
<1> QED
  BY <1>2, <1>3, <1>4

LEMMA CallsTypes ==
  ASSUME Sound
  PROVE  \A k \in Keys : Calls(k) \in Nat
BY CallsMax DEF Sound, Histories, WellFormed, Calls

\* A step that moves no account counts as many calls as before.
LEMMA CallsSame ==
  ASSUME Sound, Accounts, NEW w \in Executors, Executor(w) \/ Crash(w), ~Spends(w), NEW k \in Keys
  PROVE  Calls(k)' = Calls(k)
<1>1. pc[w] # "idle" => key[w] \in Keys
  BY InHand DEF Sound
<1>2. ASSUME NEW o \in Keys, NEW e, Put(o, e), e.kind # "budget_checkpoint"
      PROVE  Calls(k)' = Calls(k)
  BY <1>2, CallsMove
<1>3. CASE log' = log
  BY <1>3 DEF Calls
<1>4. CASE Recover(w)
  <2>1. PICK o \in Keys : Put(o, Recovers(o))
    BY <1>4 DEF Recover
  <2>2. Recovers(o).kind # "budget_checkpoint"
    BY EventIs DEF Recovers
  <2> QED
    BY <1>2, <2>1, <2>2
<1>5. CASE ResumeStale(w) \/ RevalidateConflict(w) \/ Unapplied(w) \/ Fail(w)
  <2>1. pc[w] # "idle" /\ \E e : Put(key[w], e) /\ e.kind \in Terminal
    BY <1>5, EventIs DEF ResumeStale, RevalidateConflict, Unapplied, Fail, Conclude, Terminal
  <2> QED
    BY <1>1, <1>2, <2>1, KindsAre
<1>6. CASE \/ Supplement(w) \/ Prepare(w) \/ Publish(w) \/ LoadNothing(w) \/ RecordBase(w)
           \/ RecordFold(w) \/ Succeed(w)
  <2>1. pc[w] # "idle" /\ \E e : Put(key[w], e) /\ e.kind # "budget_checkpoint"
    <3>1. CASE Prepare(w)
      BY <3>1, EventIs DEF Prepare, Checkpoint
    <3> QED
      BY <1>6, <3>1, EventIs
         DEF Supplement, Publish, LoadNothing, RecordBase, RecordFold, Succeed, Checkpoint
  <2> QED
    BY <1>1, <1>2, <2>1
<1>7. CASE Settle(w)
  <2>1. key[w] \in Keys /\ budget[w] # Nobody /\ budget[w] \in Nat /\ pc[w] = "settle" /\ ~Published(w)
    BY <1>7, InHand, SettingTypes
       DEF Sound, Control, Types, LockedBy, Settle, Calling
  <2>2. ~InScope(w)
    BY <2>1 DEF InScope, Scope
  <2>3. Calls(key[w]) = budget[w]
    BY <2>1, <2>2 DEF Accounts, SpendsOf, AfterScope
  <2>4. Put(key[w], BudgetEvent(budget[w]))
    BY <1>7 DEF Settle, Checkpoint
  <2>5. \A o \in Keys : o # key[w] => Calls(o)' = Calls(o)
    BY <2>1, <2>4, CallsMove
  <2>6. ASSUME NEW o \in Keys, o = key[w]
        PROVE  Calls(o)' = Calls(o)
    <3>1. Calls(o)' = IF budget[w] <= Calls(o) THEN Calls(o) ELSE budget[w]
      BY <2>1, <2>4, <2>6, CallsMove
    <3>2. Calls(o) = budget[w] /\ Calls(o) \in Nat
      BY <2>1, <2>3, <2>6
    <3> QED
      BY <3>1, <3>2
  <2> QED
    BY <2>5, <2>6
<1> QED
  BY <1>3, <1>4, <1>5, <1>6, <1>7, Writers DEF Writes, Spends

\* What a step that moves no account does for its executor.
LEMMA CalmOwn ==
  ASSUME Sound, Accounts, setting' = setting, NEW w \in Executors, Executor(w) \/ Crash(w), ~Spends(w)
  PROVE  /\ CalmFor(w) /\ paid' = paid
         /\ UNCHANGED fanout \/ (Booked /\ outbox' = outbox) \/ (Crash(w) /\ Abandon(w))
         /\ InScope(w) => InScope(w)' \/ Crash(w)
<1> USE DEF durable, authority, private, Unpublished, Calling, Scope, AfterScope, BesideOutbox,
     CalmFor, InScope, Published, Fate
<1>1. /\ pc \in [Executors -> Locked \cup Unlocked] /\ key \in [Executors -> Keys \cup {Nobody}]
      /\ budget \in [Executors -> 0..MaxCalls \cup {Nobody}] /\ LockedBy(w) /\ OwnsOf(w)
  BY DEF Sound, Control, Types, Accounts
<1>2. key[w] \in Keys => \A kind : Has(log[key[w]], kind) => Has(log'[key[w]], kind)
  <2>1. Appends
    <3>1. Control /\ Histories /\ BudgetStarted
      BY DEF Sound
    <3> QED
      BY <3>1, ExecutorAppends, Writers DEF Appends
  <2> QED
    BY <2>1, Remembered DEF Sound
<1>3. pc[w] # "idle" => key[w] \in Keys
  BY InHand DEF Sound
<1>4. RecoverClaims => outbox = Nobody /\ outbox' = Nobody /\ (UNCHANGED <<wal, rows>> \/ Booked)
  BY RecoverIs
<1>5. outbox # Nobody /\ pc[w] \in Locked => pc[w] \in BesideOutbox
  BY <1>1 DEF OwnsOf

<1>6. CASE \E k \in Keys : Begin(w, k)
  BY <1>1, <1>2, <1>3, <1>4, <1>5, <1>6 DEF Begin, Goto, LockedBy, Locked, fanout
<1>7. CASE Recover(w)
  BY <1>1, <1>2, <1>3, <1>4, <1>5, <1>7 DEF Recover, LockedBy, Locked, fanout
<1>8. CASE Recovered(w)
  BY <1>1, <1>2, <1>3, <1>4, <1>5, <1>8 DEF Recovered, Leave, Goto, LockedBy, Locked, fanout
<1>9. CASE Replay(w)
  BY <1>1, <1>2, <1>3, <1>4, <1>5, <1>9
     DEF Replay, Project, Leave, Goto, LockedBy, Locked, fanout
<1>10. CASE Resume(w)
  BY <1>1, <1>2, <1>3, <1>4, <1>5, <1>10 DEF Resume, Goto, LockedBy, Locked, fanout
<1>11. CASE ResumeStale(w)
  BY <1>1, <1>2, <1>3, <1>4, <1>5, <1>11
     DEF ResumeStale, Conclude, Leave, Goto, LockedBy, Locked, fanout
<1>12. CASE Refuse(w)
  BY <1>1, <1>2, <1>3, <1>4, <1>5, <1>12 DEF Refuse, Leave, Goto, LockedBy, Locked, fanout
<1>13. CASE Settle(w)
  BY <1>1, <1>2, <1>3, <1>4, <1>5, <1>13 DEF Settle, Checkpoint, Goto, LockedBy, Locked, fanout
<1>14. CASE Answered(w)
  BY <1>1, <1>2, <1>3, <1>4, <1>5, <1>14 DEF Answered, Goto, LockedBy, Locked, fanout
<1>15. CASE Supplement(w)
  BY <1>1, <1>2, <1>3, <1>4, <1>5, <1>15
     DEF Supplement, Checkpoint, Goto, LockedBy, Locked, fanout
<1>16. CASE Revalidate(w)
  BY <1>1, <1>2, <1>3, <1>4, <1>5, <1>16 DEF Revalidate, Goto, LockedBy, Locked, fanout
<1>17. CASE RevalidateConflict(w)
  BY <1>1, <1>2, <1>3, <1>4, <1>5, <1>17
     DEF RevalidateConflict, Conclude, Leave, Goto, LockedBy, Locked, fanout
<1>18. CASE Prepare(w)
  BY <1>1, <1>2, <1>3, <1>4, <1>5, <1>18 DEF Prepare, Checkpoint, Goto, LockedBy, Locked, fanout
<1>19. CASE Patch(w)
  BY <1>1, <1>2, <1>3, <1>4, <1>5, <1>19 DEF Patch, Goto, LockedBy, Locked, fanout
<1>20. CASE Replace(w)
  BY <1>1, <1>2, <1>3, <1>4, <1>5, <1>20 DEF Replace, Goto, LockedBy, Locked, fanout
<1>21. CASE Unapplied(w)
  BY <1>1, <1>2, <1>3, <1>4, <1>5, <1>21
     DEF Unapplied, Conclude, Leave, Goto, LockedBy, Locked, fanout
<1>22. CASE Publish(w)
  BY <1>1, <1>2, <1>3, <1>4, <1>5, <1>22 DEF Publish, Checkpoint, Goto, LockedBy, Locked, fanout
<1>23. CASE Derive(w)
  BY <1>1, <1>2, <1>3, <1>4, <1>5, <1>23 DEF Derive, Goto, LockedBy, Locked, fanout
<1>24. CASE Fail(w)
  BY <1>1, <1>2, <1>3, <1>4, <1>5, <1>24
     DEF Fail, Conclude, Leave, Goto, LockedBy, Locked, fanout
<1>25. CASE Rebuild(w)
  BY <1>1, <1>2, <1>3, <1>4, <1>5, <1>25 DEF Rebuild, Goto, LockedBy, Locked, fanout
<1>26. CASE Republish(w)
  BY <1>1, <1>2, <1>3, <1>4, <1>5, <1>26 DEF Republish, Goto, LockedBy, Locked, fanout
<1>27. CASE Acquire(w)
  BY <1>1, <1>2, <1>3, <1>4, <1>5, <1>27 DEF Acquire, Goto, LockedBy, Locked, fanout
<1>28. CASE Overtaken(w)
  BY <1>1, <1>2, <1>3, <1>4, <1>5, <1>28 DEF Overtaken, Goto, LockedBy, Locked, fanout
<1>29. CASE TransitionFails(w)
  BY <1>1, <1>2, <1>3, <1>4, <1>5, <1>29 DEF TransitionFails, Goto, LockedBy, Locked, fanout
<1>30. CASE ScopeFails(w)
  BY <1>1, <1>2, <1>3, <1>4, <1>5, <1>30 DEF ScopeFails, Goto, LockedBy, Locked, fanout
<1>31. CASE Finalize(w)
  BY <1>1, <1>2, <1>3, <1>4, <1>5, <1>31 DEF Finalize, Goto, LockedBy, Locked, fanout
<1>32. CASE LoadNothing(w)
  BY <1>1, <1>2, <1>3, <1>4, <1>5, <1>32
     DEF LoadNothing, Checkpoint, Goto, LockedBy, Locked, fanout
<1>33. CASE Fold(w)
  BY <1>1, <1>2, <1>3, <1>4, <1>5, <1>33 DEF Fold, Goto, LockedBy, Locked, fanout
<1>34. CASE Load(w)
  BY <1>1, <1>2, <1>3, <1>4, <1>5, <1>34 DEF Load, Goto, LockedBy, Locked, fanout
<1>35. CASE RecordBase(w)
  BY <1>1, <1>2, <1>3, <1>4, <1>5, <1>35
     DEF RecordBase, Checkpoint, Goto, LockedBy, Locked, fanout
<1>36. CASE RecordFold(w)
  BY <1>1, <1>2, <1>3, <1>4, <1>5, <1>36
     DEF RecordFold, Checkpoint, Goto, LockedBy, Locked, fanout
<1>37. CASE Succeed(w)
  BY <1>1, <1>2, <1>3, <1>4, <1>5, <1>37 DEF Succeed, Checkpoint, Goto, LockedBy, Locked, fanout
<1>38. CASE Succeeded(w)
  BY <1>1, <1>2, <1>3, <1>4, <1>5, <1>38
     DEF Succeeded, Project, Leave, Goto, LockedBy, Locked, fanout
<1>39. CASE Falter(w)
  BY <1>1, <1>2, <1>3, <1>4, <1>5, <1>39 DEF Falter, Leave, Goto, LockedBy, Locked, fanout
<1>40. CASE Crash(w)
  BY <1>1, <1>2, <1>3, <1>4, <1>5, <1>40 DEF Crash, Leave, Goto, LockedBy, Locked, fanout
<1> QED
  BY <1>6, <1>7, <1>8, <1>9, <1>10, <1>11, <1>12, <1>13, <1>14, <1>15, <1>16, <1>17, <1>18,
     <1>19, <1>20, <1>21, <1>22, <1>23, <1>24, <1>25, <1>26, <1>27, <1>28, <1>29, <1>30, <1>31,
     <1>32, <1>33, <1>34, <1>35, <1>36, <1>37, <1>38, <1>39, <1>40 DEF Executor, Spends

\* While an outbox is there, no attempt ends.
LEMMA NoEndBesideOutbox ==
  ASSUME Control, NEW w \in Executors, OwnsOf(w), Executor(w) \/ Crash(w), outbox # Nobody,
         NEW k \in Keys, ~Ended(log[k])
  PROVE  ~Ended(log'[k])
<1>1. SUFFICES ASSUME Ended(log'[k])
               PROVE  FALSE
  OBVIOUS
<1>2. PICK kind \in Terminal : Has(log'[k], kind) /\ ~Has(log[k], kind)
  BY <1>1 DEF Ended
<1>3. Recover(w) \/ ResumeStale(w) \/ RevalidateConflict(w) \/ Unapplied(w) \/ Fail(w) \/ Succeed(w)
  BY <1>2, Firsts
<1>4. pc[w] \in Locked => pc[w] \in BesideOutbox
  BY DEF OwnsOf
<1> QED
  BY <1>3, <1>4
     DEF Recover, ResumeStale, RevalidateConflict, Unapplied, Fail, Succeed, Locked, BesideOutbox, Scope

\* The others, while one executor acts.
LEMMA OthersScope ==
  ASSUME Control, NEW w \in Executors, StepOf(w), NEW v \in Executors, v # w
  PROVE  /\ pc'[v] = pc[v] /\ key'[v] = key[v] /\ budget'[v] = budget[v]
         /\ InScope(v)' <=> InScope(v)
         /\ holder = w => ~InScope(v) /\ pc[v] \notin Locked
<1>1. pc'[v] = pc[v] /\ key'[v] = key[v] /\ budget'[v] = budget[v]
  BY DEF StepOf
<1>2. holder = v <=> pc[v] \in Locked
  BY DEF Control, LockedBy
<1>3. InScope(v) => pc[v] \in Locked
  BY DEF InScope, Scope, Calling, Locked
<1>4. CASE pc[v] \in Locked
  <2>1. log' = log
    BY <1>2, <1>4 DEF StepOf
  <2> QED
    BY <1>1, <1>2, <1>4, <2>1 DEF InScope, Published, Fate
<1>5. CASE pc[v] \notin Locked
  BY <1>1, <1>5 DEF InScope, Scope, Calling, Locked
<1> QED
  BY <1>1, <1>2, <1>3, <1>4, <1>5

LEMMA OthersCalm ==
  ASSUME Control, Accounts, NEW w \in Executors, StepOf(w), outbox' = outbox, NEW v \in Executors, v # w
  PROVE  CalmFor(v)
BY OthersScope DEF CalmFor, Accounts, OwnsOf

LEMMA CalmExecutor ==
  ASSUME Sound, Accounts, setting' = setting, NEW w \in Executors, Executor(w) \/ Crash(w), ~Spends(w)
  PROVE  Calm
<1>1. Control /\ StepOf(w)
  BY ExecutorStep, CrashStep DEF Sound
<1>2. /\ CalmFor(w) /\ paid' = paid
      /\ UNCHANGED fanout \/ (Booked /\ outbox' = outbox) \/ (Crash(w) /\ Abandon(w))
      /\ InScope(w) => InScope(w)' \/ Crash(w)
  BY CalmOwn
<1>3. outbox' = outbox
  BY <1>2 DEF fanout, Abandon
<1>4. \A v \in Executors : CalmFor(v)
  BY <1>1, <1>2, <1>3, OthersCalm
<1>5. \A k \in Keys : Calls(k)' = Calls(k)
  BY CallsSame
<1>6. outbox # Nobody /\ Ended(log'[outbox.account]) => Ended(log[outbox.account])
  BY <1>1, NoEndBesideOutbox, AccountTypes DEF Accounts
<1>7. Left \/ Booked \/ Detached
  <2>1. ASSUME NEW v \in Executors, wal # Nobody, wal.owner = v, wal' = wal, v # w \/ ~Crash(w)
        PROVE  InScope(v)'
    <3>1. InScope(v)
      BY <2>1, AttemptAssumption DEF Accounts, FileOK
    <3> QED
      BY <1>1, <1>2, <2>1, <3>1, OthersScope
  <2>2. wal # Nobody /\ wal.owner # Nobody => wal.owner \in Executors
    BY <1>1, AccountTypes
  <2>3. CASE UNCHANGED fanout /\ ~Crash(w)
    <3>1. \A v \in Executors : wal # Nobody /\ wal.owner = v => InScope(v)'
      BY <2>1, <2>3 DEF fanout
    <3>2. wal # Nobody /\ wal.owner # Nobody => InScope(wal.owner)'
      BY <2>2, <2>3, <3>1 DEF fanout, InScope, Published, Fate
    <3> QED
      BY <2>3, <3>2 DEF Left, fanout
  <2>4. CASE Crash(w)
    <3>1. Abandon(w) /\ pc'[w] = "idle"
      BY <1>1, <2>4 DEF Crash, Leave, Goto, Control, Types
    <3>2. ~InScope(w)'
      BY <3>1 DEF InScope, Scope, Calling
    <3>3. CASE wal # Nobody /\ wal.owner = w
      BY <3>1, <3>2, <3>3 DEF Abandon, Detached
    <3>4. CASE ~(wal # Nobody /\ wal.owner = w)
      <4>1. UNCHANGED <<wal, rows>>
        BY <3>1, <3>4 DEF Abandon
      <4>2. \A v \in Executors : wal # Nobody /\ wal.owner = v => InScope(v)'
        BY <2>1, <3>4, <4>1
      <4>3. wal # Nobody /\ wal.owner # Nobody => InScope(wal.owner)'
        BY <2>2, <4>1, <4>2 DEF InScope, Published, Fate
      <4> QED
        BY <4>1, <4>3 DEF Left
    <3> QED
      BY <3>3, <3>4
  <2> QED
    BY <1>2, <2>3, <2>4
<1> QED
  BY <1>2, <1>3, <1>4, <1>5, <1>6, <1>7 DEF Calm

LEMMA CalmBeside ==
  ASSUME Sound, Accounts, setting' = setting, Beside
  PROVE  Calm
<1>1. UNCHANGED <<pc, key, budget, holder, log, patches, paid, outbox>>
  BY BesideStep DEF StepBeside
<1>2. UNCHANGED <<wal, rows>> \/ Booked
  BY RecoverIs DEF Beside, FullExtraction, FunctionalExtraction, Restore, Extract, NewEdition,
       Refresh, Review, Decide, FoldNow, durable, fanout
<1>3. \A v \in Executors : (InScope(v)' <=> InScope(v)) /\ OwnsOf(v)
  BY <1>1 DEF InScope, Published, Fate, Accounts
<1>4. \A v \in Executors : CalmFor(v)
  BY <1>1, <1>3 DEF CalmFor, OwnsOf
<1>5. CASE UNCHANGED <<wal, rows>>
  <2>1. wal # Nobody /\ wal.owner # Nobody => InScope(wal.owner)'
    BY <1>1, <1>5 DEF InScope, Published, Fate, Accounts, FileOK
  <2>2. Left
    BY <1>5, <2>1 DEF Left
  <2> QED
    BY <1>1, <1>4, <2>2 DEF Calm, Calls
<1>6. CASE Booked
  BY <1>1, <1>4, <1>6 DEF Calm, Calls
<1> QED
  BY <1>2, <1>5, <1>6

-----------------------------------------------------------------------------
(* The steps that move the accounts, all of them under the lock.           *)

\* Whoever holds the lock is the only one with a call or a scope.
LEMMA Alone ==
  ASSUME Sound, Accounts, NEW w \in Executors, holder = w
  PROVE  /\ \A v \in Executors \ {w} : ~InScope(v) /\ pc[v] \notin Locked
         /\ wal # Nobody /\ wal.owner # Nobody => wal.owner = w /\ InScope(w)
         /\ wal # Nobody => wal.owner \in {Nobody, w}
<1>1. \A v \in Executors \ {w} : ~InScope(v) /\ pc[v] \notin Locked
  BY DEF Sound, Control, LockedBy, InScope, Scope, Calling, Locked
<1> QED
  BY <1>1, AccountTypes DEF Sound, Accounts, FileOK

LEMMA OthersAccounts ==
  ASSUME Sound, Accounts, NEW w \in Executors, StepOf(w), holder = w, NEW v \in Executors, v # w,
         budget[v] # Nobody => CallsRecorded(log'[key[v]]) = Calls(key[v]),
         budget[v] # Nobody /\ wal' # Nobody => wal'.account # key[v]
  PROVE  SpendsOf(v)' /\ OwnsOf(v)'
<1>1. /\ pc'[v] = pc[v] /\ key'[v] = key[v] /\ budget'[v] = budget[v]
      /\ ~InScope(v)' /\ ~InScope(v) /\ pc[v] \notin Locked
  BY OthersScope DEF Sound
<1>2. pc[v] \notin {"sent", "reserved", "settled"}
  BY <1>1 DEF Locked
<1>3. SpendsOf(v)
  BY DEF Accounts
<1>4. SpendsOf(v)'
  BY <1>1, <1>2, <1>3 DEF SpendsOf, Calls
<1> QED
  BY <1>1, <1>2, <1>4 DEF OwnsOf

\* The spender of a request is the only one.
LEMMA OtherKeys ==
  ASSUME Accounts, NEW w \in Executors, budget[w] # Nobody, NEW v \in Executors, v # w, budget[v] # Nobody
  PROVE  key[v] # key[w]
BY DEF Accounts, OneSpender

LEMMA OneSpenderKept ==
  ASSUME Accounts, NEW w \in Executors, StepOf(w),
         budget'[w] = Nobody \/ (budget[w] # Nobody /\ key'[w] = key[w])
  PROVE  OneSpender'
BY DEF Accounts, OneSpender, StepOf

LEMMA RowsKept ==
  ASSUME Sound, Appends, NEW w \in Executors, StepOf(w), NEW row, RowOK(row),
         CallsRecorded(log'[row.account]) = Calls(row.account),
         wal' # Nobody => wal'.account # row.account,
         budget'[w] # Nobody /\ key'[w] = row.account => pc'[w] \in AfterScope
  PROVE  RowOK(row)'
<1>1. row.account \in Keys
  BY DEF RowOK
<1>2. Has(log'[row.account], "reextract_started")
  BY <1>1, Remembered DEF RowOK, Sound
<1>3. \A v \in Executors : budget'[v] # Nobody /\ key'[v] = row.account => pc'[v] \in AfterScope
  BY DEF RowOK, StepOf
<1> QED
  BY <1>1, <1>2, <1>3 DEF RowOK, Calls

\* A new row, for an attempt that nobody else reports to.
LEMMA RowsAdded ==
  ASSUME Sound, Accounts, Appends, NEW w \in Executors, StepOf(w), NEW k \in Keys, NEW row,
         row = [account |-> k, calls |-> Calls(k)],
         Has(log[k], "reextract_started"), CallsRecorded(log'[k]) = Calls(k),
         wal' # Nobody => wal'.account # k,
         \A v \in Executors \ {w} : budget[v] # Nobody => key[v] # k,
         budget'[w] # Nobody /\ key'[w] = k => pc'[w] \in AfterScope
  PROVE  RowOK(row)'
<1>1. Calls(k) \in Nat /\ Has(log'[k], "reextract_started")
  BY CallsTypes, Remembered DEF Sound
<1>2. \A v \in Executors : budget'[v] # Nobody /\ key'[v] = k => pc'[v] \in AfterScope
  BY DEF StepOf
<1> QED
  BY <1>1, <1>2 DEF RowOK, Calls

LEMMA SendAccounts ==
  ASSUME Sound, Accounts, Appends, setting' = setting, NEW w \in Executors, Send(w)
  PROVE  Accounts'
<1>1. Control /\ StepOf(w) /\ holder = w /\ pc[w] = "sent" /\ pc'[w] = "settle"
      /\ key[w] \in Keys /\ budget[w] # Nobody
  <2>1. Executor(w)
    BY DEF Executor
  <2> QED
    BY <2>1, ExecutorStep, InHand
       DEF Sound, Send, Goto, Control, Types, LockedBy, Locked, Calling
<1>2. UNCHANGED <<log, outbox, wal, rows, key, budget>> /\ paid' = [paid EXCEPT ![key[w]] = @ + 1]
  BY DEF Send, durable, fanout, private
<1>3. \A k \in Keys : PaidOf(k)'
  <2>1. paid[key[w]] < Calls(key[w])
    BY <1>1 DEF Accounts, SpendsOf
  <2>2. \A k \in Keys : Calls(k) \in Nat /\ paid[k] \in Nat /\ PaidOf(k)
    BY CallsTypes DEF Sound, Control, Types, Accounts
  <2> QED
    BY <1>1, <1>2, <2>1, <2>2 DEF PaidOf, Calls, MaxCalls, Sound, Control, Types
<1>4. InScope(w)' <=> InScope(w)
  BY <1>1, <1>2 DEF InScope, Published, Fate, Scope, Calling
<1>5. SpendsOf(w)' /\ OwnsOf(w)'
  <2>1. SpendsOf(w) /\ OwnsOf(w)
    BY DEF Accounts
  <2>2. Account(w)' = Account(w) /\ VerifierOn' = VerifierOn
    BY <1>2 DEF Account, Budgeted, VerifierOn
  <2>3. outbox = Nobody
    BY <1>1, <2>1 DEF OwnsOf, BesideOutbox, Scope, Locked
  <2> QED
    BY <1>1, <1>2, <1>4, <2>1, <2>2, <2>3 DEF SpendsOf, OwnsOf, Calls, AfterScope
<1>6. ASSUME NEW v \in Executors, v # w
      PROVE  SpendsOf(v)' /\ OwnsOf(v)'
  <2>1. budget[v] # Nobody /\ wal' # Nobody => wal'.account # key[v]
    BY <1>1, <1>2, <1>6, Alone DEF Accounts, SpendsOf
  <2> QED
    BY <1>1, <1>2, <1>6, <2>1, OthersAccounts DEF Calls
<1>7. OneSpender'
  BY <1>1, <1>2, OneSpenderKept
<1>8. FileOK'
  BY <1>1, <1>2, <1>4, Alone DEF Accounts, FileOK, Calls, InScope, Published, Fate
<1>9. OutboxOK'
  BY <1>2 DEF Accounts, OutboxOK, Calls, MaxCalls
<1>10. ASSUME NEW row \in rows'
       PROVE  RowOK(row)'
  <2>1. RowOK(row)
    BY <1>2, <1>10 DEF Accounts
  <2>2. key[w] # row.account
    BY <1>1, <2>1 DEF RowOK, AfterScope
  <2> QED
    BY <1>1, <1>2, <2>1, <2>2, RowsKept DEF RowOK, Calls
<1> QED
  BY <1>3, <1>5, <1>6, <1>7, <1>8, <1>9, <1>10 DEF Accounts

LEMMA ReserveAccounts ==
  ASSUME Sound, Accounts, Appends, setting' = setting, NEW w \in Executors, Reserve(w)
  PROVE  Accounts'
<1>1. /\ Control /\ StepOf(w) /\ holder = w /\ pc[w] = "pay" /\ pc'[w] = "sent"
      /\ key[w] \in Keys /\ budget[w] \in Nat /\ budget[w] + 1 \in Nat
      /\ budget[w] # Nobody /\ budget'[w] # Nobody
      /\ budget[w] < MaxCalls /\ MaxCalls \in Nat /\ Executor(w)
  <2>1. Executor(w)
    BY DEF Executor
  <2>2. budget[w] \in Nat /\ budget[w] # Nobody /\ MaxCalls \in Nat
    BY InHand, SettingTypes DEF Sound, Reserve, Control, Types, LockedBy, Unpublished
  <2>3. budget'[w] = budget[w] + 1
    BY DEF Reserve, Sound, Control, Types
  <2> QED
    BY <2>1, <2>2, <2>3, ExecutorStep, InHand, AttemptAssumption
       DEF Sound, Reserve, Checkpoint, Goto, Control, Types, LockedBy, Locked
<1>2. UNCHANGED <<outbox, wal, rows, key, paid>> /\ budget'[w] = budget[w] + 1
  BY DEF Reserve, fanout, Sound, Control, Types
<1>3. ~InScope(w) /\ ~Published(w)
  BY <1>1 DEF InScope, Scope, Calling, Sound, Places, PlaceOf, Unpublished
<1>4. ~InScope(w)'
  BY <1>1, <1>2, <1>3, PublishedAt DEF InScope, Scope, Published, Fate
<1>5. /\ \A k \in Keys : k # key[w] => CallsRecorded(log'[k]) = Calls(k)
      /\ CallsRecorded(log'[key[w]]) = budget[w] + 1
      /\ Calls(key[w]) = budget[w]
  <2>1. SpendsOf(w)
    BY DEF Accounts
  <2>2. Calls(key[w]) = budget[w]
    BY <1>1, <1>3, <2>1 DEF SpendsOf, AfterScope
  <2>3. Put(key[w], BudgetEvent(budget[w] + 1))
    BY DEF Reserve, Checkpoint
  <2>4. ASSUME NEW k, k = key[w]
        PROVE  CallsRecorded(log'[k]) = budget[w] + 1
    <3>1. Calls(k)' = IF budget[w] + 1 <= Calls(k) THEN Calls(k) ELSE budget[w] + 1
      BY <1>1, <2>3, <2>4, CallsMove
    <3> QED
      BY <1>1, <2>2, <2>4, <3>1 DEF Calls
  <2>5. \A k \in Keys : k # key[w] => Calls(k)' = Calls(k)
    BY <1>1, <2>3, CallsMove
  <2> QED
    BY <2>2, <2>4, <2>5 DEF Calls
<1>6. \A k \in Keys : PaidOf(k)'
  <2>1. \A k \in Keys : paid[k] \in Nat /\ Calls(k) \in Nat /\ PaidOf(k)
    BY CallsTypes DEF Accounts, Sound, Control, Types
  <2>2. MaxCalls' = MaxCalls
    BY DEF MaxCalls
  <2> QED
    BY <1>1, <1>2, <1>5, <2>1, <2>2 DEF PaidOf, Calls
<1>7. outbox = Nobody
  BY <1>1 DEF Accounts, OwnsOf, BesideOutbox, Scope, Locked
<1>8. SpendsOf(w)' /\ OwnsOf(w)'
  <2>1. paid[key[w]] < budget[w] + 1
    BY <1>1, <1>5, CallsTypes DEF Accounts, PaidOf, Sound, Control, Types
  <2>2. wal' # Nobody => wal'.account # key'[w]
    BY <1>1, <1>2, <1>3 DEF Accounts, SpendsOf
  <2> QED
    BY <1>1, <1>2, <1>4, <1>5, <1>7, <2>1, <2>2 DEF SpendsOf, OwnsOf, Calls
<1>9. ASSUME NEW v \in Executors, v # w
      PROVE  SpendsOf(v)' /\ OwnsOf(v)'
  <2>1. budget[v] # Nobody => key[v] \in Keys /\ key[v] # key[w]
    BY <1>1, <1>9, OtherKeys, InHand
  <2>2. budget[v] # Nobody /\ wal' # Nobody => wal'.account # key[v]
    BY <1>1, <1>2, <1>9, Alone DEF Accounts, SpendsOf
  <2> QED
    BY <1>1, <1>5, <1>9, <2>1, <2>2, OthersAccounts
<1>10. OneSpender'
  BY <1>1, <1>2, OneSpenderKept
<1>11. FileOK'
  <2>1. wal # Nobody => wal.owner = Nobody /\ wal.account # key[w] /\ wal.account \in Keys \cup {Nobody}
    BY <1>1, <1>3, Alone, AccountTypes DEF Accounts, SpendsOf
  <2>2. wal # Nobody /\ wal.account # Nobody => Has(log'[wal.account], "reextract_started")
    BY <1>1, <2>1, Remembered DEF Accounts, FileOK
  <2> QED
    BY <1>2, <1>5, <1>7, <2>1, <2>2 DEF Accounts, FileOK, Calls
<1>12. OutboxOK'
  BY <1>2, <1>7 DEF OutboxOK
<1>13. ASSUME NEW row \in rows'
       PROVE  RowOK(row)'
  <2>1. RowOK(row)
    BY <1>2, <1>13 DEF Accounts
  <2>2. key[w] # row.account /\ row.account \in Keys
    BY <1>1, <2>1 DEF RowOK, AfterScope
  <2> QED
    BY <1>1, <1>2, <1>5, <2>1, <2>2, RowsKept DEF RowOK
<1> QED
  BY <1>6, <1>8, <1>9, <1>10, <1>11, <1>12, <1>13 DEF Accounts

LEMMA StartAccounts ==
  ASSUME Sound, Accounts, Appends, setting' = setting, NEW w \in Executors, Start(w)
  PROVE  Accounts'
<1>1. /\ Control /\ StepOf(w) /\ holder = w /\ pc[w] = "admit" /\ pc'[w] = "pay"
      /\ key[w] \in Keys /\ budget[w] = Nobody /\ budget'[w] = 0 /\ key' = key /\ paid' = paid
  <2>1. Executor(w)
    BY DEF Executor
  <2> QED
    BY <2>1, ExecutorStep, InHand
       DEF Sound, Start, Goto, Control, Types, LockedBy, Locked
<1>2. log[key[w]] = {} /\ ~Has(log[key[w]], "reextract_started")
  BY DEF Start, Admissible, Has
<1>3. /\ outbox = Nobody /\ outbox' = Nobody /\ wal' = Nobody
      /\ (rows' = rows \/ Booked)
  BY RecoverIs DEF Start, RecoverClaims, EndScope, fanout
<1>4. \A k \in Keys : CallsRecorded(log'[k]) = Calls(k)
  <2>1. PICK e : Put(key[w], e) /\ e.kind # "budget_checkpoint"
    BY EventIs DEF Start
  <2> QED
    BY <1>1, <2>1, CallsMove DEF Calls
<1>5. Calls(key[w]) = 0
  <2>1. Counts({}) = {}
    BY DEF Counts
  <2> QED
    BY <1>2, <2>1, CallsAre DEF Calls, Largest
<1>6. \A k \in Keys : PaidOf(k)'
  BY <1>1, <1>4 DEF Accounts, PaidOf, Calls, MaxCalls
<1>7. ~InScope(w)'
  BY <1>1 DEF InScope, Scope, Calling
<1>8. SpendsOf(w)' /\ OwnsOf(w)'
  <2>1. CallsRecorded(log'[key[w]]) = 0
    BY <1>1, <1>4, <1>5
  <2> QED
    BY <1>1, <1>3, <1>7, <2>1 DEF SpendsOf, OwnsOf, Calls
<1>9. ASSUME NEW v \in Executors, v # w
      PROVE  SpendsOf(v)' /\ OwnsOf(v)'
  <2>1. budget[v] # Nobody => key[v] \in Keys
    BY <1>1, InHand
  <2> QED
    BY <1>1, <1>3, <1>4, <1>9, <2>1, OthersAccounts
<1>10. OneSpender'
  <2>1. \A v \in Executors : budget[v] # Nobody => key[v] # key[w]
    BY <1>2 DEF Sound, BudgetStarted
  <2> QED
    BY <1>1, <2>1 DEF Accounts, OneSpender, StepOf
<1>11. FileOK' /\ OutboxOK'
  BY <1>3 DEF FileOK, OutboxOK
<1>12. ASSUME NEW row \in rows'
       PROVE  RowOK(row)'
  <2>1. CASE row \in rows
    <3>1. RowOK(row) /\ row.account \in Keys
      BY <2>1 DEF Accounts, RowOK
    <3>2. row.account # key[w]
      BY <1>2, <3>1 DEF RowOK
    <3> QED
      BY <1>1, <1>3, <1>4, <3>1, <3>2, RowsKept
  <2>2. CASE row \notin rows
    <3>1. Booked /\ row \in Row(wal.account, wal.calls)
      BY <1>3, <1>12, <2>2 DEF Booked
    <3>2. /\ wal # Nobody /\ wal.account \in Keys /\ wal.account # Nobody
          /\ row = [account |-> wal.account, calls |-> wal.calls]
      BY <1>1, <3>1, AccountTypes DEF Row, Booked
    <3>3. Has(log[wal.account], "reextract_started") /\ wal.calls = Calls(wal.account)
      BY <1>3, <3>2 DEF Accounts, FileOK
    <3>4. \A v \in Executors \ {w} : budget[v] # Nobody => key[v] # wal.account
      BY <1>1, <3>2, Alone DEF Accounts, SpendsOf
    <3>5. key[w] # wal.account
      BY <1>2, <3>3
    <3> QED
      BY <1>1, <1>3, <1>4, <3>2, <3>3, <3>4, <3>5, RowsAdded
  <2> QED
    BY <2>1, <2>2
<1> QED
  BY <1>6, <1>8, <1>9, <1>10, <1>11, <1>12 DEF Accounts

\* The accounts after a step under the lock, put together.
LEMMA UnderLock ==
  ASSUME Sound, Accounts, Appends, NEW w \in Executors, StepOf(w), holder = w,
         \A k \in Keys : PaidOf(k)',
         SpendsOf(w)', OwnsOf(w)', FileOK', OutboxOK',
         budget'[w] = Nobody \/ (budget[w] # Nobody /\ key'[w] = key[w]),
         \A v \in Executors \ {w} : budget[v] # Nobody =>
           /\ CallsRecorded(log'[key[v]]) = Calls(key[v])
           /\ wal' # Nobody => wal'.account # key[v],
         \A row \in rows :
           /\ CallsRecorded(log'[row.account]) = Calls(row.account)
           /\ wal' # Nobody => wal'.account # row.account
           /\ budget'[w] # Nobody /\ key'[w] = row.account => pc'[w] \in AfterScope,
         \A row \in rows' \ rows : RowOK(row)'
  PROVE  Accounts'
<1>1. \A v \in Executors \ {w} : SpendsOf(v)' /\ OwnsOf(v)'
  BY OthersAccounts
<1>2. OneSpender'
  BY OneSpenderKept
<1>3. \A row \in rows' : RowOK(row)'
  BY RowsKept DEF Accounts
<1> QED
  BY <1>1, <1>2, <1>3 DEF Accounts

LEMMA EnterAccounts ==
  ASSUME Sound, Accounts, Appends, setting' = setting, NEW w \in Executors, EnterScope(w)
  PROVE  Accounts'
<1>1. /\ Control /\ StepOf(w) /\ holder = w /\ pc[w] = "enter" /\ key[w] \in Keys
      /\ pc'[w] = IF Budgeted(w) THEN "attach" ELSE "refresh"
  <2>1. Executor(w)
    BY DEF Executor
  <2> QED
    BY <2>1, ExecutorStep, InHand DEF Sound, EnterScope, Goto, Control, Types, LockedBy, Locked
<1>2. /\ outbox = Nobody /\ outbox' = Nobody /\ UNCHANGED <<log, rows, key, budget, paid>>
      /\ wal' = [owner |-> w, account |-> Account(w), calls |-> CallsSoFar(w)]
  BY DEF EnterScope, BeginScope, private
<1>3. /\ wal' # Nobody /\ wal'.owner = w /\ wal'.account = Account(w) /\ wal'.calls = CallsSoFar(w)
  <2>1. wal' \in [owner : Executors \cup {Nobody}, account : Keys \cup {Nobody}, calls : Nat]
    <3>1. Account(w) \in Keys \cup {Nobody}
      BY <1>1 DEF Account
    <3>2. CallsSoFar(w) \in Nat
      BY <1>1, InHand, SettingTypes DEF CallsSoFar, Budgeted, Control, Types
    <3> QED
      BY <1>2, <3>1, <3>2
  <2> QED
    BY <1>2, <2>1, AttemptAssumption
<1>4. InScope(w)' /\ ~InScope(w)
  BY <1>1 DEF InScope, Scope, Calling
<1>5. \A k \in Keys : CallsRecorded(log'[k]) = Calls(k) /\ PaidOf(k)'
  BY <1>2 DEF Accounts, PaidOf, Calls, MaxCalls
<1>6. Account(w)' = Account(w) /\ VerifierOn' = VerifierOn /\ (Budgeted(w)' <=> Budgeted(w))
  BY <1>2 DEF Account, Budgeted, VerifierOn
<1>7. budget[w] # Nobody => Calls(key[w]) = budget[w]
  BY <1>1, <1>4 DEF Accounts, SpendsOf, AfterScope
<1>8. Account(w) # Nobody => Account(w) = key[w] /\ budget[w] # Nobody /\ CallsSoFar(w) = budget[w]
  BY DEF Account, CallsSoFar, Budgeted
<1>9. SpendsOf(w)'
  <2>1. VerifierOn /\ budget[w] # Nobody => CallsSoFar(w) = budget[w]
    BY DEF CallsSoFar, Budgeted
  <2>2. pc'[w] # "sent" /\ pc'[w] # "reserved"
    BY <1>1
  <2>3. budget[w] # Nobody => CallsRecorded(log[key[w]]) <= budget[w]
    BY DEF Accounts, SpendsOf, Calls
  <2> QED
    BY <1>2, <1>3, <1>4, <1>6, <2>1, <2>2, <2>3 DEF SpendsOf, Calls
<1>10. OwnsOf(w)'
  BY <1>1, <1>2, <1>3, <1>6 DEF OwnsOf
<1>11. FileOK' /\ OutboxOK'
  <2>1. Account(w) # Nobody => Has(log[Account(w)], "reextract_started")
    BY <1>8 DEF Sound, BudgetStarted
  <2> QED
    BY <1>2, <1>3, <1>4, <1>7, <1>8, <2>1 DEF FileOK, OutboxOK, Calls, InScope, Published, Fate
<1>12. ASSUME NEW v \in Executors \ {w}, budget[v] # Nobody
       PROVE  CallsRecorded(log'[key[v]]) = Calls(key[v]) /\ wal'.account # key[v]
  BY <1>1, <1>2, <1>3, <1>8, <1>12, OtherKeys, AccountTypes, InHand DEF Calls
<1>13. ASSUME NEW row \in rows
       PROVE  /\ CallsRecorded(log'[row.account]) = Calls(row.account)
              /\ wal'.account # row.account
              /\ budget'[w] # Nobody => key[w] # row.account
  BY <1>1, <1>2, <1>3, <1>8, <1>13, AccountTypes DEF Accounts, RowOK, Calls, AfterScope
<1>14. budget'[w] = Nobody \/ (budget[w] # Nobody /\ key'[w] = key[w])
  BY <1>2
<1> QED
  BY <1>1, <1>2, <1>5, <1>9, <1>10, <1>11, <1>12, <1>13, <1>14, UnderLock

LEMMA EnterFailsAccounts ==
  ASSUME Sound, Accounts, Appends, setting' = setting, NEW w \in Executors, EnterFails(w)
  PROVE  Accounts'
<1>1. /\ Control /\ StepOf(w) /\ holder = w /\ pc[w] = "enter" /\ key[w] \in Keys
      /\ pc'[w] = "idle" /\ budget'[w] = Nobody
  <2>1. Executor(w)
    BY DEF Executor
  <2> QED
    BY <2>1, ExecutorStep, InHand
       DEF Sound, EnterFails, Leave, Goto, Control, Types, LockedBy, Locked
<1>2. /\ UNCHANGED <<log, outbox, wal, paid>>
      /\ rows' \in {rows, rows \cup Row(Account(w), CallsSoFar(w))}
  BY DEF EnterFails
<1>3. ~InScope(w) /\ ~InScope(w)'
  BY <1>1 DEF InScope, Scope, Calling
<1>4. outbox = Nobody
  BY <1>1 DEF Accounts, OwnsOf, BesideOutbox, Scope, Locked
<1>5. wal # Nobody => wal.owner = Nobody
  BY <1>1, <1>3, Alone
<1>6. \A k \in Keys : CallsRecorded(log'[k]) = Calls(k) /\ PaidOf(k)'
  BY <1>2 DEF Accounts, PaidOf, Calls, MaxCalls
<1>7. SpendsOf(w)' /\ OwnsOf(w)'
  BY <1>1, <1>2, <1>3, <1>4 DEF SpendsOf, OwnsOf
<1>8. FileOK' /\ OutboxOK'
  BY <1>2, <1>4, <1>5 DEF Accounts, FileOK, OutboxOK, Calls
<1>9. ASSUME NEW v \in Executors \ {w}, budget[v] # Nobody
      PROVE  CallsRecorded(log'[key[v]]) = Calls(key[v]) /\ (wal' # Nobody => wal'.account # key[v])
  BY <1>1, <1>2, <1>9, Alone DEF Accounts, SpendsOf, Calls
<1>10. ASSUME NEW row \in rows
       PROVE  /\ CallsRecorded(log'[row.account]) = Calls(row.account)
              /\ wal' # Nobody => wal'.account # row.account
  BY <1>2 DEF Accounts, RowOK, Calls
<1>11. ASSUME NEW row \in rows' \ rows
       PROVE  RowOK(row)'
  <2>1. /\ budget[w] # Nobody /\ row = [account |-> key[w], calls |-> budget[w]]
    BY <1>2, <1>11 DEF Row, Account, CallsSoFar, Budgeted
  <2>2. /\ Calls(key[w]) = budget[w] /\ (wal # Nobody => wal.account # key[w])
        /\ Has(log[key[w]], "reextract_started")
    BY <1>1, <1>3, <2>1 DEF Accounts, SpendsOf, AfterScope, Sound, BudgetStarted
  <2>3. \A v \in Executors \ {w} : budget[v] # Nobody => key[v] # key[w]
    BY <2>1, OtherKeys
  <2> QED
    BY <1>1, <1>2, <1>6, <2>1, <2>2, <2>3, RowsAdded
<1> QED
  BY <1>1, <1>6, <1>7, <1>8, <1>9, <1>10, <1>11, UnderLock

\* A transition of the scope goes to the outbox.
LEMMA OutboxAccounts ==
  ASSUME Sound, Accounts, Appends, setting' = setting, NEW w \in Executors, Executor(w), holder = w,
         NEW n \in Nat, WriteOutbox(key[w], n), UNCHANGED <<log, key, paid>>, budget'[w] = n,
         key[w] \in Keys, InScope(w), InScope(w)', Budgeted(w), ~Ended(log[key[w]]),
         Calls(key[w]) <= n, n <= MaxCalls,
         pc'[w] \in {"reserved", "settled"}, pc'[w] = "reserved" => paid[key[w]] < n
  PROVE  Accounts'
<1>1. Control /\ StepOf(w)
  BY ExecutorStep DEF Sound
<1>2. /\ outbox = Nobody /\ outbox' # Nobody /\ outbox'.account = key[w] /\ outbox'.calls = n
      /\ UNCHANGED <<wal, rows>>
  <2>1. outbox' = [account |-> key[w], calls |-> n] /\ outbox' \in [account : Keys, calls : Nat]
    BY DEF WriteOutbox
  <2> QED
    BY <2>1, AttemptAssumption DEF WriteOutbox
<1>3. /\ wal # Nobody /\ wal.owner = w /\ wal.account = key[w] /\ budget[w] # Nobody
      /\ budget'[w] # Nobody /\ VerifierOn
  BY AttemptAssumption DEF Accounts, OwnsOf, Account, Budgeted
<1>4. \A k \in Keys : CallsRecorded(log'[k]) = Calls(k) /\ PaidOf(k)'
  BY DEF Accounts, PaidOf, Calls, MaxCalls
<1>5. SpendsOf(w)'
  BY <1>2, <1>3 DEF SpendsOf, Calls
<1>6. Account(w)' = key[w]
  BY <1>3 DEF Account, Budgeted, VerifierOn
<1>7. OwnsOf(w)'
  BY <1>2, <1>3, <1>6 DEF OwnsOf, BesideOutbox, Scope
<1>8. FileOK'
  BY <1>2, <1>3 DEF Accounts, FileOK, InScope, Published, Fate
<1>9. OutboxOK'
  BY <1>2, <1>3 DEF OutboxOK, Calls, MaxCalls
<1>10. ASSUME NEW v \in Executors \ {w}, budget[v] # Nobody
       PROVE  CallsRecorded(log'[key[v]]) = Calls(key[v]) /\ wal'.account # key[v]
  BY <1>2, <1>3, <1>10, OtherKeys DEF Calls
<1>11. ASSUME NEW row \in rows
       PROVE  /\ CallsRecorded(log'[row.account]) = Calls(row.account)
              /\ wal'.account # row.account /\ key'[w] # row.account
  BY <1>2, <1>3, <1>11 DEF Accounts, RowOK, Calls
<1> QED
  BY <1>1, <1>2, <1>3, <1>4, <1>5, <1>7, <1>8, <1>9, <1>10, <1>11, UnderLock

LEMMA AttachAccounts ==
  ASSUME Sound, Accounts, Appends, setting' = setting, NEW w \in Executors, AttachScope(w)
  PROVE  Accounts'
<1>1. /\ Executor(w) /\ holder = w /\ pc[w] = "attach" /\ pc'[w] = "settled"
      /\ key[w] \in Keys /\ budget[w] \in Nat /\ budget[w] <= MaxCalls /\ budget[w] # Nobody
  <2>1. Executor(w)
    BY DEF Executor
  <2>2. budget[w] \in 0..MaxCalls /\ budget[w] # Nobody
    BY InHand DEF Sound, Control, Types, LockedBy, AttachScope
  <2> QED
    BY <2>1, <2>2, InHand, SettingTypes
       DEF Sound, AttachScope, Goto, Control, Types, LockedBy, Locked
<1>2. InScope(w) /\ InScope(w)'
  BY <1>1 DEF InScope, Scope
<1>3. VerifierOn /\ ~Ended(log[key[w]])
  BY <1>1 DEF Sound, Places, PlaceOf, Scope, Fate
<1>4. Calls(key[w]) <= budget[w]
  BY <1>1 DEF Accounts, SpendsOf
<1>5. /\ WriteOutbox(key[w], budget[w]) /\ UNCHANGED <<log, key, paid, budget>> /\ Budgeted(w)
  BY <1>1, <1>3 DEF AttachScope, private, Budgeted
<1> QED
  BY <1>1, <1>2, <1>3, <1>4, <1>5, OutboxAccounts

LEMMA ReserveInScopeAccounts ==
  ASSUME Sound, Accounts, Appends, setting' = setting, NEW w \in Executors, ReserveInScope(w)
  PROVE  Accounts'
<1>1. /\ Executor(w) /\ holder = w /\ pc[w] = "refresh" /\ pc'[w] = "reserved"
      /\ key[w] \in Keys /\ budget[w] \in Nat /\ budget[w] < MaxCalls /\ budget[w] # Nobody
      /\ MaxCalls \in Nat /\ budget'[w] = budget[w] + 1
  <2>1. Executor(w)
    BY DEF Executor
  <2>2. budget[w] # Nobody /\ budget[w] < MaxCalls /\ pc[w] = "refresh"
    BY DEF ReserveInScope, Budgeted
  <2>3. budget[w] \in 0..MaxCalls /\ MaxCalls \in Nat
    BY <2>2, InHand, SettingTypes DEF Sound, Control, Types
  <2> QED
    BY <2>1, <2>2, <2>3, InHand DEF Sound, ReserveInScope, Goto, Control, Types, LockedBy, Locked
<1>2. InScope(w) /\ InScope(w)'
  BY <1>1 DEF InScope, Scope
<1>3. ~Ended(log[key[w]])
  BY <1>1 DEF Sound, Places, PlaceOf, Scope, Fate
<1>4. /\ Calls(key[w]) <= budget[w] /\ paid[key[w]] <= Calls(key[w])
      /\ Calls(key[w]) \in Nat /\ paid[key[w]] \in Nat
  BY <1>1, CallsTypes DEF Accounts, SpendsOf, PaidOf, Sound, Control, Types
<1>5. /\ WriteOutbox(key[w], budget[w] + 1) /\ UNCHANGED <<log, key, paid>> /\ Budgeted(w)
  BY DEF ReserveInScope
<1>6. /\ budget[w] + 1 \in Nat /\ budget[w] + 1 <= MaxCalls /\ Calls(key[w]) <= budget[w] + 1
      /\ paid[key[w]] < budget[w] + 1
  BY <1>1, <1>4
<1> QED
  BY <1>1, <1>2, <1>3, <1>5, <1>6, OutboxAccounts

LEMMA SettleInScopeAccounts ==
  ASSUME Sound, Accounts, Appends, setting' = setting, NEW w \in Executors, SettleInScope(w)
  PROVE  Accounts'
<1>1. /\ Executor(w) /\ holder = w /\ pc[w] = "settle" /\ Control
      /\ key[w] \in Keys /\ budget[w] \in Nat /\ budget[w] <= MaxCalls /\ budget[w] # Nobody
  <2>1. Executor(w)
    BY DEF Executor
  <2>2. budget[w] \in 0..MaxCalls /\ budget[w] # Nobody
    BY InHand DEF Sound, Control, Types, LockedBy, SettleInScope, Calling
  <2> QED
    BY <2>1, <2>2, InHand, SettingTypes
       DEF Sound, SettleInScope, Goto, Control, Types, LockedBy, Locked
<1>2. InScope(w) /\ Published(w)
  BY <1>1 DEF InScope, Calling, SettleInScope
<1>3. VerifierOn /\ ~Ended(log[key[w]])
  BY <1>1, <1>2 DEF Sound, Places, PlaceOf, Calling, Fate
<1>4. Calls(key[w]) <= budget[w]
  BY <1>1 DEF Accounts, SpendsOf
<1>5. UNCHANGED <<setting, log, key, paid, budget>> /\ Budgeted(w)
  BY <1>1, <1>3 DEF SettleInScope, private, Budgeted
<1>6. CASE WriteOutbox(key[w], budget[w]) /\ Goto(w, "settled")
  <2>1. pc'[w] = "settled" /\ InScope(w)'
    BY <1>1, <1>6 DEF Control, Types, Goto, InScope, Scope
  <2> QED
    BY <1>1, <1>2, <1>3, <1>4, <1>5, <1>6, <2>1, OutboxAccounts
<1>7. CASE UNCHANGED fanout /\ Goto(w, "refresh")
  <2>1. pc'[w] = "refresh" /\ InScope(w)'
    BY <1>1, <1>7 DEF Control, Types, Goto, InScope, Scope
  <2>2. outbox = Nobody /\ UNCHANGED <<outbox, wal, rows>>
    BY <1>1, <1>7 DEF Accounts, OwnsOf, BesideOutbox, Scope, Locked, fanout
  <2>3. CalmFor(w)
    BY <1>1, <1>2, <1>5, <2>1, <2>2 DEF CalmFor, AfterScope
  <2>4. \A v \in Executors : CalmFor(v)
    BY <1>1, <2>2, <2>3, OthersCalm, ExecutorStep
  <2>5. Left
    BY <1>1, <2>1, <2>2, Alone DEF Left, Accounts, FileOK, InScope, Published, Fate
  <2>6. Calm
    BY <1>5, <2>2, <2>4, <2>5 DEF Calm, Calls
  <2>7. Control'
    BY <1>1, ControlStep DEF AttemptNext, AttemptStep
  <2> QED
    BY <1>1, <2>6, <2>7, CalmStep
<1> QED
  BY <1>6, <1>7 DEF SettleInScope

\* What the outbox, the file and the executors are to each other in a replay.
LEMMA ReplayFacts ==
  ASSUME Sound, Accounts, NEW w \in Executors, RecoverFanout(w) \/ ReplayInScope(w)
  PROVE  /\ Control /\ StepOf(w) /\ holder = w /\ UNCHANGED <<key, budget, paid, rows>>
         /\ outbox # Nobody /\ wal # Nobody /\ outbox.account \in Keys /\ outbox.calls \in Nat
         /\ wal.account = outbox.account /\ ~Ended(log[outbox.account])
         /\ Calls(outbox.account) <= outbox.calls /\ outbox.calls <= MaxCalls
         /\ pc[w] \in {"recover", "reserved", "settled", "unwind"}
         /\ pc'[w] \in {pc[w], "sent", "refresh"}
         /\ InScope(w) <=> pc[w] # "recover"
         /\ InScope(w)' <=> pc[w] # "recover"
         /\ pc[w] = "recover" => pc'[w] = "recover"
         /\ InScope(w) => wal.owner = w /\ Account(w) = wal.account
         /\ wal.owner # Nobody => wal.owner = w /\ InScope(w)
         /\ budget[w] # Nobody => InScope(w) /\ key[w] = outbox.account /\ budget[w] = outbox.calls
<1>1. /\ pc[w] \in {"recover", "reserved", "settled", "unwind"} /\ Executor(w) /\ Replayable
      /\ UNCHANGED <<key, budget, paid, rows>>
      /\ pc' = pc \/ (pc[w] # "recover" /\ (Goto(w, "sent") \/ Goto(w, "refresh")))
  BY DEF RecoverFanout, ReplayInScope, ReplayQueue, ReplayVerifier, ReplayEnd, fanout, private, Executor
<1>2. Control /\ StepOf(w) /\ holder = w
  BY <1>1, ExecutorStep DEF Sound, Control, LockedBy, Locked
<1>3. /\ outbox # Nobody /\ wal # Nobody /\ outbox.account \in Keys /\ outbox.calls \in Nat
      /\ wal.account = outbox.account /\ ~Ended(log[outbox.account])
      /\ Calls(outbox.account) <= outbox.calls /\ outbox.calls <= MaxCalls
  BY <1>1, <1>2, AccountTypes DEF Replayable, Accounts, OutboxOK
<1>4. /\ pc'[w] \in {pc[w], "sent", "refresh"} /\ (pc[w] = "recover" => pc'[w] = "recover")
      /\ pc[w] # "recover" => pc'[w] # "recover"
  BY <1>1, <1>2 DEF Goto, Control, Types
<1>5. InScope(w) <=> pc[w] # "recover"
  BY <1>1 DEF InScope, Scope, Calling
<1>6. InScope(w)' <=> pc[w] # "recover"
  <2>1. CASE pc[w] = "recover"
    BY <1>4, <2>1 DEF InScope, Scope, Calling
  <2>2. CASE pc[w] # "recover"
    <3>1. key[w] \in Keys /\ Has(log[key[w]], "requirements_published")
      BY <1>1, <1>2, <2>2, InHand DEF Sound, Places, PlaceOf, Rebuilding, Scope, Published, Fate
    <3>2. Has(log'[key[w]], "requirements_published")
      <4>1. Appends
        BY <1>1, ExecutorAppends, Writers DEF Sound, Appends
      <4> QED
        BY <1>2, <3>1, <4>1, Remembered
    <3> QED
      BY <1>1, <1>4, <2>2, <3>2 DEF InScope, Scope, Calling, Published, Fate
  <2> QED
    BY <2>1, <2>2
<1>7. /\ InScope(w) => wal.owner = w /\ Account(w) = wal.account
      /\ wal.owner # Nobody => wal.owner = w /\ InScope(w)
  BY <1>2, <1>3, Alone DEF Accounts, OwnsOf
<1>8. budget[w] # Nobody => InScope(w) /\ key[w] = outbox.account /\ budget[w] = outbox.calls
  <2>1. pc[w] = "recover" => budget[w] = Nobody
    BY <1>2 DEF Control, LockedBy
  <2>2. InScope(w) => Budgeted(w) /\ key[w] = outbox.account
    BY <1>2, <1>3, <1>7, AccountTypes DEF Account
  <2> QED
    BY <1>3, <1>5, <2>1, <2>2 DEF Accounts, SpendsOf, Budgeted
<1> QED
  BY <1>1, <1>2, <1>3, <1>4, <1>5, <1>6, <1>7, <1>8

\* The others report to other attempts than the outbox, and so do the booked ones.
LEMMA ReplayOthers ==
  ASSUME Sound, Accounts, NEW w \in Executors, RecoverFanout(w) \/ ReplayInScope(w)
  PROVE  /\ \A v \in Executors \ {w} : budget[v] # Nobody => key[v] \in Keys /\ key[v] # outbox.account
         /\ \A row \in rows : row.account \in Keys /\ row.account # outbox.account
<1>1. /\ Control /\ holder = w /\ wal # Nobody /\ wal.account = outbox.account
  BY ReplayFacts
<1>2. ASSUME NEW v \in Executors \ {w}, budget[v] # Nobody
      PROVE  key[v] \in Keys /\ key[v] # outbox.account
  BY <1>1, <1>2, Alone, InHand DEF Accounts, SpendsOf
<1> QED
  BY <1>1, <1>2 DEF Accounts, RowOK

\* Whatever a replay does, if it leaves the file and the outbox in order.
LEMMA ReplayKeeps ==
  ASSUME Sound, Accounts, Appends, setting' = setting, NEW w \in Executors,
         RecoverFanout(w) \/ ReplayInScope(w),
         wal' # Nobody, wal'.account = wal.account, wal'.owner = wal.owner,
         \A k \in Keys : k # outbox.account => CallsRecorded(log'[k]) = Calls(k),
         Calls(outbox.account) <= CallsRecorded(log'[outbox.account]),
         CallsRecorded(log'[outbox.account]) <= outbox.calls,
         pc'[w] = "sent" => pc[w] = "reserved" /\ outbox' = Nobody,
         pc'[w] \in {"reserved", "settled"} => pc'[w] = pc[w] /\ outbox' # Nobody,
         outbox' = outbox \/ (/\ outbox' = Nobody /\ wal'.calls = outbox.calls
                              /\ CallsRecorded(log'[outbox.account]) = outbox.calls)
  PROVE  Accounts'
<1>1. /\ Control /\ StepOf(w) /\ holder = w /\ UNCHANGED <<key, budget, paid, rows>>
      /\ outbox # Nobody /\ wal # Nobody /\ outbox.account \in Keys /\ outbox.calls \in Nat
      /\ wal.account = outbox.account /\ ~Ended(log[outbox.account]) /\ outbox.calls <= MaxCalls
      /\ pc'[w] \in {"recover", "reserved", "settled", "unwind", "sent", "refresh"}
      /\ InScope(w)' <=> InScope(w)
      /\ InScope(w) => wal.owner = w /\ Account(w) = wal.account
      /\ wal.owner # Nobody => wal.owner = w /\ InScope(w)
      /\ budget[w] # Nobody => InScope(w) /\ key[w] = outbox.account /\ budget[w] = outbox.calls
  BY ReplayFacts
<1>2. /\ \A v \in Executors \ {w} : budget[v] # Nobody => key[v] \in Keys /\ key[v] # outbox.account
      /\ \A row \in rows : row.account \in Keys /\ row.account # outbox.account
  BY ReplayOthers
<1>3. MaxCalls' = MaxCalls /\ VerifierOn' = VerifierOn
  BY DEF MaxCalls, VerifierOn
<1>4. \A k \in Keys : PaidOf(k)'
  <2>1. \A k \in Keys : paid[k] \in Nat /\ Calls(k) \in Nat /\ PaidOf(k)
    BY CallsTypes DEF Accounts, Sound, Control, Types
  <2>2. MaxCalls \in Nat /\ CallsRecorded(log'[outbox.account]) \in Nat
    <3>1. Counted(log'[outbox.account])
      BY <1>1, HistoriesStep DEF Sound, Histories, WellFormed
    <3> QED
      BY <1>1, <3>1, CallsMax, SettingTypes DEF Sound, Control, Types
  <2>3. ASSUME NEW k \in Keys
        PROVE  paid[k] <= CallsRecorded(log'[k]) /\ CallsRecorded(log'[k]) <= MaxCalls
    <3>1. CASE k = outbox.account
      BY <1>1, <2>1, <2>2, <3>1 DEF PaidOf
    <3>2. CASE k # outbox.account
      BY <2>1, <2>3, <3>2 DEF PaidOf
    <3> QED
      BY <3>1, <3>2
  <2> QED
    BY <1>1, <1>3, <2>3 DEF PaidOf, Calls
<1>5. SpendsOf(w)'
  <2>1. SUFFICES ASSUME budget[w] # Nobody
                 PROVE  SpendsOf(w)'
    BY <1>1 DEF SpendsOf
  <2>2. /\ InScope(w)' /\ key'[w] = outbox.account /\ budget'[w] = outbox.calls
    BY <1>1, <2>1
  <2>3. pc[w] = "reserved" => paid[outbox.account] < outbox.calls
    BY <1>1, <2>1 DEF Accounts, SpendsOf
  <2>4. outbox' # Nobody => outbox'.calls = outbox.calls
    OBVIOUS
  <2>5. pc'[w] = "sent" => paid'[outbox.account] < CallsRecorded(log'[outbox.account])
    BY <1>1, <2>3
  <2>6. outbox' = Nobody => wal'.calls = outbox.calls
    BY <1>1
  <2>7. CallsRecorded(log'[key'[w]]) <= budget'[w]
    BY <2>2
  <2>8. pc'[w] = "reserved" => paid'[outbox.account] < outbox.calls
    BY <1>1, <2>3
  <2>9. InScope(w)' /\ VerifierOn' /\ outbox' = Nobody => budget'[w] = wal'.calls
    BY <2>2, <2>6
  <2>10. InScope(w)' /\ VerifierOn' /\ outbox' # Nobody => budget'[w] = outbox'.calls
    BY <2>2, <2>4
  <2> QED
    BY <2>2, <2>5, <2>7, <2>8, <2>9, <2>10 DEF SpendsOf, Calls
<1>6. OwnsOf(w)'
  <2>1. Account(w)' = Account(w)
    BY <1>1, <1>3 DEF Account, Budgeted
  <2>2. outbox' # Nobody => pc'[w] \in BesideOutbox
    BY <1>1 DEF BesideOutbox, Scope
  <2> QED
    BY <1>1, <2>1, <2>2 DEF OwnsOf
<1>7. FileOK'
  <2>1. wal'.owner # Nobody => InScope(wal.owner)'
    BY <1>1 DEF InScope, Published, Fate
  <2>2. Has(log'[outbox.account], "reextract_started")
    BY <1>1, AccountTypes, Remembered DEF Accounts, FileOK
  <2> QED
    BY <1>1, <2>1, <2>2 DEF FileOK, Calls, InScope, Published, Fate
<1>8. OutboxOK'
  <2>1. ~Ended(log'[outbox.account])
    <3>1. Executor(w) /\ OwnsOf(w)
      BY DEF Executor, Accounts
    <3> QED
      BY <1>1, <3>1, NoEndBesideOutbox
  <2> QED
    BY <1>1, <1>3, <2>1 DEF OutboxOK, Calls
<1>9. ASSUME NEW v \in Executors \ {w}, budget[v] # Nobody
      PROVE  CallsRecorded(log'[key[v]]) = Calls(key[v]) /\ wal'.account # key[v]
  BY <1>1, <1>2, <1>9
<1>10. ASSUME NEW row \in rows
       PROVE  /\ CallsRecorded(log'[row.account]) = Calls(row.account)
              /\ wal'.account # row.account
              /\ budget'[w] # Nobody => key'[w] # row.account
  BY <1>1, <1>2, <1>10
<1> QED
  BY <1>1, <1>4, <1>5, <1>6, <1>7, <1>8, <1>9, <1>10, UnderLock

LEMMA ReplayAccounts ==
  ASSUME Sound, Accounts, Appends, setting' = setting, NEW w \in Executors,
         RecoverFanout(w) \/ ReplayInScope(w)
  PROVE  Accounts'
<1>1. /\ outbox # Nobody /\ wal # Nobody /\ outbox.account \in Keys /\ outbox.calls \in Nat
      /\ wal.account = outbox.account /\ Calls(outbox.account) <= outbox.calls
      /\ pc[w] \in {"recover", "reserved", "settled", "unwind"}
  BY ReplayFacts
<1>2. Control
  BY DEF Sound
<1>3. CASE ReplayQueue /\ UNCHANGED pc
  <2>1. UNCHANGED <<wal, outbox>> /\ Put(outbox.account, BudgetEvent(outbox.calls))
    BY <1>3 DEF ReplayQueue, fanout
  <2>2. \A k \in Keys : k # outbox.account => CallsRecorded(log'[k]) = Calls(k)
    BY <1>1, <2>1, CallsMove DEF Calls
  <2>3. ASSUME NEW o, o = outbox.account
        PROVE  CallsRecorded(log'[o]) = outbox.calls /\ Calls(o) <= outbox.calls
    <3>1. Calls(o)' = IF outbox.calls <= Calls(o) THEN Calls(o) ELSE outbox.calls
      BY <1>1, <2>1, <2>3, CallsMove
    <3>2. Calls(o) \in Nat
      BY <1>1, <2>3, CallsTypes
    <3> QED
      BY <1>1, <2>3, <3>1, <3>2 DEF Calls
  <2>4. /\ CallsRecorded(log'[outbox.account]) = outbox.calls
        /\ Calls(outbox.account) <= CallsRecorded(log'[outbox.account])
        /\ CallsRecorded(log'[outbox.account]) <= outbox.calls
    BY <1>1, <2>3
  <2> QED
    BY <1>1, <1>3, <2>1, <2>2, <2>4, ReplayKeeps
<1>4. CASE ReplayVerifier /\ UNCHANGED pc
  <2>1. /\ UNCHANGED <<log, outbox, rows>>
        /\ wal' = [wal EXCEPT !.calls = outbox.calls]
    BY <1>4 DEF ReplayVerifier
  <2>2. wal' # Nobody /\ wal'.account = wal.account /\ wal'.owner = wal.owner
    <3>1. wal' \in [owner : Executors \cup {Nobody}, account : Keys \cup {Nobody}, calls : Nat]
      BY <1>1, <1>2, <2>1 DEF Control, Types
    <3> QED
      BY <1>1, <1>2, <2>1, <3>1, AttemptAssumption DEF Control, Types
  <2>3. Calls(outbox.account) <= CallsRecorded(log'[outbox.account])
    BY <1>1, <2>1, CallsTypes DEF Calls
  <2>4. /\ \A k \in Keys : k # outbox.account => CallsRecorded(log'[k]) = Calls(k)
        /\ CallsRecorded(log'[outbox.account]) <= outbox.calls
    BY <1>1, <2>1 DEF Calls
  <2> QED
    BY <1>1, <1>4, <2>1, <2>2, <2>3, <2>4, ReplayKeeps
<1>5. CASE ReplayEnd
  <2>1. UNCHANGED <<log, wal, rows>> /\ outbox' = Nobody /\ InQueue /\ wal.calls = outbox.calls
    BY <1>5 DEF ReplayEnd
  <2>2. CallsRecorded(log'[outbox.account]) = outbox.calls
    <3>1. WellFormed(log[outbox.account])
      BY <1>1 DEF Sound, Histories
    <3>2. outbox.calls <= Calls(outbox.account) /\ Calls(outbox.account) \in Nat
      BY <1>1, <2>1, <3>1, CallsInQueue, CallsTypes DEF InQueue, WellFormed, Calls
    <3> QED
      BY <1>1, <2>1, <3>2 DEF Calls
  <2>3. /\ pc'[w] = "sent" => pc[w] = "reserved"
        /\ pc'[w] \notin {"reserved", "settled"}
    BY <1>1, <1>2, <1>5, <2>1, AttemptAssumption
       DEF RecoverFanout, ReplayInScope, ReplayQueue, ReplayVerifier, ReplayEnd, fanout, Goto,
           Control, Types
  <2>4. /\ \A k \in Keys : CallsRecorded(log'[k]) = Calls(k)
        /\ Calls(outbox.account) <= CallsRecorded(log'[outbox.account])
        /\ CallsRecorded(log'[outbox.account]) <= outbox.calls
    BY <1>1, <2>1, <2>2 DEF Calls
  <2> QED
    BY <1>1, <2>1, <2>2, <2>3, <2>4, ReplayKeeps
<1> QED
  BY <1>3, <1>4, <1>5 DEF RecoverFanout, ReplayInScope

\* The scope of an executor, its file and its budget, when no outbox is there.
LEMMA ScopeFacts ==
  ASSUME Sound, Accounts, NEW w \in Executors, pc[w] \in {"refresh", "unwind"}
  PROVE  /\ Control /\ holder = w /\ key[w] \in Keys /\ InScope(w)
         /\ wal # Nobody /\ wal.owner = w /\ wal.account = Account(w)
         /\ wal.account # Nobody => wal.account = key[w] /\ Budgeted(w)
         /\ Budgeted(w) => /\ wal.account = key[w] /\ budget[w] \in Nat /\ budget[w] # Nobody
                           /\ outbox = Nobody => budget[w] = wal.calls /\ wal.calls = Calls(key[w])
                           /\ outbox # Nobody => budget[w] = outbox.calls
<1>1. /\ Control /\ holder = w /\ key[w] \in Keys /\ InScope(w)
  BY InHand DEF Sound, Control, LockedBy, Locked, InScope, Scope
<1>2. wal # Nobody /\ wal.owner = w /\ wal.account = Account(w)
  BY <1>1 DEF Accounts, OwnsOf
<1>3. ASSUME Budgeted(w)
      PROVE  /\ wal.account = key[w] /\ budget[w] \in Nat /\ budget[w] # Nobody
             /\ outbox = Nobody => budget[w] = wal.calls /\ wal.calls = Calls(key[w])
             /\ outbox # Nobody => budget[w] = outbox.calls
  <2>1. budget[w] # Nobody /\ VerifierOn /\ wal.account = key[w] /\ wal.account # Nobody
    BY <1>1, <1>2, <1>3, AccountTypes DEF Budgeted, Account
  <2>2. budget[w] \in Nat
    BY <1>1, <2>1, InHand, SettingTypes DEF Control, Types
  <2> QED
    BY <1>1, <1>2, <2>1, <2>2 DEF Accounts, SpendsOf, FileOK
<1> QED
  BY <1>1, <1>2, <1>3 DEF Account

\* A closing checkpoint of the queue's owner, or none.
LEMMA ClosingCalls ==
  ASSUME Sound, Accounts, NEW w \in Executors, pc[w] \in {"refresh", "unwind"},
         UNCHANGED log \/ (Budgeted(w) /\ Put(key[w], BudgetEvent(budget[w])))
  PROVE  /\ \A k \in Keys : k # key[w] => CallsRecorded(log'[k]) = Calls(k)
         /\ \/ CallsRecorded(log'[key[w]]) = Calls(key[w])
            \/ /\ Budgeted(w) /\ outbox # Nobody
               /\ Calls(key[w]) <= outbox.calls /\ CallsRecorded(log'[key[w]]) = outbox.calls
<1>1. /\ Control /\ key[w] \in Keys
      /\ Budgeted(w) => /\ budget[w] \in Nat /\ budget[w] # Nobody
                        /\ outbox = Nobody => budget[w] = Calls(key[w])
                        /\ outbox # Nobody => budget[w] = outbox.calls
  BY ScopeFacts
<1>2. CASE UNCHANGED log
  BY <1>1, <1>2 DEF Calls
<1>3. CASE Budgeted(w) /\ Put(key[w], BudgetEvent(budget[w]))
  <2>1. \A k \in Keys : k # key[w] => CallsRecorded(log'[k]) = Calls(k)
    BY <1>1, <1>3, CallsMove DEF Calls
  <2>2. Calls(key[w]) <= budget[w] /\ Calls(key[w]) \in Nat
    BY <1>1, <1>3, CallsTypes DEF Accounts, SpendsOf
  <2>3. ASSUME NEW k, k = key[w]
        PROVE  CallsRecorded(log'[k]) = budget[w]
    <3>1. Calls(k)' = IF budget[w] <= Calls(k) THEN Calls(k) ELSE budget[w]
      BY <1>1, <1>3, <2>3, CallsMove
    <3> QED
      BY <1>1, <1>3, <2>2, <2>3, <3>1 DEF Calls
  <2> QED
    BY <1>1, <1>3, <2>1, <2>2, <2>3
<1> QED
  BY <1>2, <1>3

\* The file becomes a row, in a publication or on the way out.
LEMMA EndAccounts ==
  ASSUME Sound, Accounts, Appends, setting' = setting, NEW w \in Executors, Executor(w),
         pc[w] \in {"refresh", "unwind"}, outbox = Nobody, EndScope, paid' = paid,
         UNCHANGED log \/ (Budgeted(w) /\ Put(key[w], BudgetEvent(budget[w]))),
         \/ pc'[w] = "idle" /\ budget'[w] = Nobody
         \/ pc'[w] = "finalize" /\ budget'[w] = budget[w] /\ key'[w] = key[w]
  PROVE  Accounts'
<1>1. /\ Control /\ StepOf(w) /\ holder = w /\ key[w] \in Keys /\ InScope(w)
      /\ wal # Nobody
      /\ wal.account # Nobody => wal.account = key[w] /\ Budgeted(w)
      /\ Budgeted(w) => wal.calls = Calls(key[w]) /\ budget[w] # Nobody
  BY ScopeFacts, ExecutorStep
<1>2. /\ outbox' = Nobody /\ wal' = Nobody /\ rows' = rows \cup Row(wal.account, wal.calls)
  BY DEF EndScope
<1>3. \A k \in Keys : CallsRecorded(log'[k]) = Calls(k)
  BY ClosingCalls
<1>4. \A k \in Keys : PaidOf(k)'
  BY <1>3 DEF Accounts, PaidOf, Calls, MaxCalls
<1>5. ~InScope(w)' /\ pc'[w] \in AfterScope \cup {"idle"}
  BY DEF InScope, Scope, Calling, AfterScope
<1>6. SpendsOf(w)'
  <2>1. SUFFICES ASSUME budget'[w] # Nobody
                 PROVE  SpendsOf(w)'
    BY DEF SpendsOf
  <2>2. /\ pc'[w] = "finalize" /\ pc'[w] \in AfterScope /\ budget'[w] = budget[w] /\ key'[w] = key[w]
        /\ CallsRecorded(log'[key[w]]) <= budget[w]
    BY <1>1, <1>3, <2>1 DEF Accounts, SpendsOf, AfterScope
  <2> QED
    BY <1>2, <1>5, <2>2 DEF SpendsOf, Calls
<1>7. OwnsOf(w)' /\ FileOK' /\ OutboxOK'
  BY <1>2, <1>5 DEF OwnsOf, FileOK, OutboxOK
<1>8. ASSUME NEW v \in Executors \ {w}, budget[v] # Nobody
      PROVE  CallsRecorded(log'[key[v]]) = Calls(key[v])
  BY <1>1, <1>3, <1>8, InHand
<1>9. ASSUME NEW row \in rows
      PROVE  CallsRecorded(log'[row.account]) = Calls(row.account)
  BY <1>3 DEF Accounts, RowOK
<1>10. budget'[w] # Nobody => pc'[w] \in AfterScope /\ budget[w] # Nobody /\ key'[w] = key[w]
  BY DEF AfterScope
<1>11. ASSUME NEW row \in rows' \ rows
       PROVE  RowOK(row)'
  <2>1. wal.account # Nobody /\ row = [account |-> wal.account, calls |-> wal.calls]
    BY <1>2, <1>11 DEF Row
  <2>2. /\ row = [account |-> key[w], calls |-> Calls(key[w])] /\ budget[w] # Nobody
        /\ Has(log[key[w]], "reextract_started")
    BY <1>1, <2>1 DEF Sound, BudgetStarted
  <2>3. \A v \in Executors \ {w} : budget[v] # Nobody => key[v] # key[w]
    BY <2>2, OtherKeys
  <2> QED
    BY <1>1, <1>2, <1>3, <1>10, <2>2, <2>3, RowsAdded
<1> QED
  BY <1>1, <1>2, <1>4, <1>6, <1>7, <1>8, <1>9, <1>10, <1>11, UnderLock

LEMMA UnwindFailsAccounts ==
  ASSUME Sound, Accounts, Appends, setting' = setting, NEW w \in Executors, UnwindFails(w)
  PROVE  Accounts'
<1>1. /\ Executor(w) /\ pc[w] = "unwind" /\ pc'[w] = "idle" /\ budget'[w] = Nobody
      /\ UNCHANGED <<outbox, rows, paid>>
      /\ UNCHANGED log \/ (Budgeted(w) /\ Put(key[w], BudgetEvent(budget[w])))
  BY DEF Executor, UnwindFails, Leave, Goto, Abandon, Sound, Control, Types
<1>2. /\ Control /\ StepOf(w) /\ holder = w /\ key[w] \in Keys /\ InScope(w)
      /\ wal # Nobody /\ wal.owner = w
      /\ wal.account # Nobody => wal.account = key[w] /\ Budgeted(w)
      /\ Budgeted(w) => wal.account = key[w] /\ budget[w] # Nobody
  BY <1>1, ScopeFacts, ExecutorStep
<1>3. /\ wal' # Nobody /\ wal'.owner = Nobody /\ wal'.account = wal.account /\ wal'.calls = wal.calls
  BY <1>2, AccountTypes DEF UnwindFails, Abandon
<1>4. /\ \A k \in Keys : k # key[w] => CallsRecorded(log'[k]) = Calls(k)
      /\ \/ CallsRecorded(log'[key[w]]) = Calls(key[w])
         \/ /\ Budgeted(w) /\ outbox # Nobody
            /\ Calls(key[w]) <= outbox.calls /\ CallsRecorded(log'[key[w]]) = outbox.calls
  BY <1>1, ClosingCalls
<1>5. outbox # Nobody => /\ outbox.account = wal.account /\ outbox.account \in Keys
                         /\ outbox.calls \in Nat /\ ~Ended(log[outbox.account])
                         /\ Calls(outbox.account) <= outbox.calls /\ outbox.calls <= MaxCalls
  BY <1>2, AccountTypes DEF Accounts, OutboxOK
<1>6. \A k \in Keys : PaidOf(k)'
  <2>1. \A k \in Keys : paid[k] \in Nat /\ Calls(k) \in Nat /\ PaidOf(k)
    BY CallsTypes DEF Accounts, Sound, Control, Types
  <2>2. ASSUME NEW k \in Keys
        PROVE  paid[k] <= CallsRecorded(log'[k]) /\ CallsRecorded(log'[k]) <= MaxCalls
    <3>1. CASE CallsRecorded(log'[k]) = Calls(k)
      BY <2>1, <3>1 DEF PaidOf
    <3>2. CASE CallsRecorded(log'[k]) # Calls(k)
      <4>1. k = key[w] /\ outbox # Nobody /\ Calls(k) <= outbox.calls
            /\ CallsRecorded(log'[k]) = outbox.calls
        BY <1>4, <3>2
      <4>2. paid[k] <= Calls(k) /\ paid[k] \in Nat /\ Calls(k) \in Nat
        BY <2>1 DEF PaidOf
      <4> QED
        BY <1>5, <4>1, <4>2
    <3> QED
      BY <3>1, <3>2
  <2> QED
    BY <1>1, <2>2 DEF PaidOf, Calls, MaxCalls
<1>7. SpendsOf(w)' /\ OwnsOf(w)'
  BY <1>1 DEF SpendsOf, OwnsOf, InScope, Scope, Calling, Locked
<1>8. FileOK'
  <2>1. wal.account # Nobody => Has(log'[wal.account], "reextract_started")
    BY <1>2, Remembered DEF Accounts, FileOK
  <2>2. wal.account # Nobody /\ outbox' = Nobody => wal'.calls = CallsRecorded(log'[wal.account])
    BY <1>1, <1>2, <1>3, <1>4 DEF Accounts, FileOK
  <2> QED
    BY <1>3, <2>1, <2>2 DEF FileOK, Calls
<1>9. OutboxOK'
  <2>1. SUFFICES ASSUME outbox # Nobody
                 PROVE  OutboxOK'
    BY <1>1 DEF OutboxOK
  <2>2. ~Ended(log'[outbox.account])
    BY <1>1, <1>2, <1>5, <2>1, NoEndBesideOutbox DEF Accounts
  <2>3. CallsRecorded(log'[outbox.account]) <= outbox.calls
    BY <1>2, <1>4, <1>5, <2>1, AccountTypes
  <2> QED
    BY <1>1, <1>3, <1>5, <2>1, <2>2, <2>3 DEF OutboxOK, Calls, MaxCalls
<1>10. ASSUME NEW v \in Executors \ {w}, budget[v] # Nobody
       PROVE  CallsRecorded(log'[key[v]]) = Calls(key[v]) /\ wal'.account # key[v]
  <2>1. key[v] \in Keys /\ wal.account # key[v]
    BY <1>2, <1>10, InHand, Alone DEF Accounts, SpendsOf
  <2> QED
    BY <1>2, <1>3, <1>4, <2>1
<1>11. ASSUME NEW row \in rows
       PROVE  CallsRecorded(log'[row.account]) = Calls(row.account) /\ wal'.account # row.account
  BY <1>2, <1>3, <1>4, <1>11 DEF Accounts, RowOK
<1> QED
  BY <1>1, <1>2, <1>6, <1>7, <1>8, <1>9, <1>10, <1>11, UnderLock

LEMMA SpendsStep ==
  ASSUME Sound, Accounts, Appends, setting' = setting, NEW w \in Executors, Spends(w)
  PROVE  Accounts'
<1>1. CASE RefreshBase(w)
  <2>1. /\ Executor(w) /\ pc[w] \in {"refresh", "unwind"} /\ outbox = Nobody /\ EndScope
        /\ paid' = paid
        /\ UNCHANGED log \/ (Budgeted(w) /\ Put(key[w], BudgetEvent(budget[w])))
        /\ pc'[w] = "finalize" /\ budget'[w] = budget[w] /\ key'[w] = key[w]
    BY <1>1 DEF Executor, RefreshBase, Goto, private, Sound, Control, Types
  <2> QED
    BY <2>1, EndAccounts
<1>2. CASE Unwind(w)
  <2>1. /\ Executor(w) /\ pc[w] \in {"refresh", "unwind"} /\ outbox = Nobody /\ EndScope
        /\ paid' = paid /\ UNCHANGED log /\ pc'[w] = "idle" /\ budget'[w] = Nobody
    BY <1>2 DEF Executor, Unwind, Leave, Goto, Sound, Control, Types
  <2> QED
    BY <2>1, EndAccounts
<1> QED
  BY <1>1, <1>2, ReplayAccounts, StartAccounts, ReserveAccounts, SendAccounts, EnterAccounts,
     EnterFailsAccounts, AttachAccounts, ReserveInScopeAccounts, SettleInScopeAccounts,
     UnwindFailsAccounts
     DEF Spends

LEMMA AccountsStep ==
  ASSUME Sound, Accounts, [AttemptNext]_attemptVars
  PROVE  Accounts'
<1>1. CASE AttemptNext
  <2>1. Control /\ Control' /\ Appends /\ setting' = setting
    BY <1>1, ControlStep, StepAppends, StepCases DEF Sound
  <2>2. ASSUME NEW w \in Executors, Executor(w) \/ Crash(w)
        PROVE  Accounts'
    BY <2>1, <2>2, SpendsStep, CalmExecutor, CalmStep
  <2>3. ASSUME Beside
        PROVE  Accounts'
    BY <2>1, <2>3, CalmBeside, CalmStep
  <2> QED
    BY <1>1, <2>2, <2>3, StepCases
<1>2. CASE UNCHANGED attemptVars
  <2>1. UNCHANGED <<setting, log, outbox, wal, rows, pc, key, budget, paid>>
    BY <1>2 DEF attemptVars, durable, fanout, private
  <2> QED
    BY <2>1
       DEF Accounts, PaidOf, SpendsOf, OwnsOf, OneSpender, FileOK, OutboxOK, RowOK, Calls, InScope,
           Published, Fate, Account, Budgeted, MaxCalls, VerifierOn
<1> QED
  BY <1>1, <1>2

LEMMA AccountsInit ==
  ASSUME AttemptInit
  PROVE  Accounts
<1>1. Control
  BY ControlInit
<1>2. ASSUME NEW k \in Keys
      PROVE  PaidOf(k)
  <2>1. Counts({}) = {}
    BY DEF Counts
  <2>2. Calls(k) = 0 /\ paid[k] = 0
    BY <2>1, CallsAre DEF AttemptInit, Calls, Largest
  <2> QED
    BY <1>1, <2>2, SettingTypes DEF PaidOf, Control, Types
<1> QED
  BY <1>2
     DEF AttemptInit, FanoutInit, Accounts, SpendsOf, OwnsOf, OneSpender, FileOK, OutboxOK, InScope,
         Scope, Calling, Locked

\* No account of the calls says less than what was paid for, or anything else than the
\* other one once both are closed: the attempt log, the budget in memory, the outbox, the
\* verifier's checkpoint file and its ledger, whoever dies or fails between the writes.
THEOREM AlwaysAccounted == AttemptSpec => [](Sound /\ Accounts)
<1>1. AttemptInit => Sound /\ Accounts
  BY SoundInit, AccountsInit
<1>2. Sound /\ Accounts /\ [AttemptNext]_attemptVars => (Sound /\ Accounts)'
  BY SoundStep, AccountsStep
<1> QED
  BY <1>1, <1>2, PTL DEF AttemptSpec

-----------------------------------------------------------------------------
(* What the runs check, from these invariants.                             *)

\* Every variable has its type and the extraction lock belongs to the executor in the
\* critical sections (execute_claim_queue_proposal, _finish_rebuild).
THEOREM TypesAndLock == AttemptSpec => []AttemptTypeOK
<1>1. ASSUME Sound, Accounts
      PROVE  AttemptTypeOK
  <2>1. FanoutTypeOK
    <3>1. rows \subseteq [account : Keys, calls : Nat]
      BY <1>1 DEF Accounts, RowOK
    <3>2. wal # Nobody => wal.account \in Keys \cup {Nobody} /\ wal.calls \in Nat
      BY <1>1, AccountTypes DEF Sound
    <3>3. outbox # Nobody => outbox \in [account : Keys, calls : Nat]
      BY <1>1 DEF Sound, Control, Types
    <3> QED
      BY <3>1, <3>2, <3>3 DEF FanoutTypeOK
  <2>2. \A k \in Keys : Kinds(log[k]) \subseteq EventKinds
    BY <1>1 DEF Sound, Histories, WellFormed, Kinds
  <2> QED
    BY <1>1, <2>1, <2>2 DEF AttemptTypeOK, Sound, Control, Types, LockedBy
<1> QED
  BY <1>1, AlwaysAccounted, PTL

\* An attempt never pays for more calls than its request was confirmed with, over every
\* crash, resumption and rebuild.
THEOREM NeverOverBudget == AttemptSpec => []PaidWithinBudget
<1>1. ASSUME Sound, Accounts
      PROVE  PaidWithinBudget
  <2>1. ASSUME NEW k \in Keys
        PROVE  paid[k] <= MaxCalls
    <3>1. /\ paid[k] \in Nat /\ Calls(k) \in Nat /\ MaxCalls \in Nat
          /\ paid[k] <= Calls(k) /\ Calls(k) <= MaxCalls
      BY <1>1, CallsTypes, SettingTypes DEF Sound, Control, Types, Accounts, PaidOf
    <3> QED
      BY <3>1
  <2> QED
    BY <2>1 DEF PaidWithinBudget
<1> QED
  BY <1>1, AlwaysAccounted, PTL

\* An outbox that is left behind can be replayed: its checkpoint file is there, its
\* attempt has not ended, and the queue takes the count.
THEOREM OutboxIsReplayable == AttemptSpec => []OutboxCanBeReplayed
<1>1. ASSUME Sound, Accounts, outbox # Nobody
      PROVE  /\ wal # Nobody /\ wal.account = outbox.account
             /\ Accepts(log[outbox.account], BudgetEvent(outbox.calls))
  <2>1. /\ wal # Nobody /\ wal.account = outbox.account /\ wal.account # Nobody
        /\ ~Ended(log[outbox.account]) /\ CallsRecorded(log[outbox.account]) <= outbox.calls
        /\ Has(log[outbox.account], "reextract_started")
    BY <1>1, AccountTypes DEF Sound, Accounts, OutboxOK, FileOK, Calls
  <2>2. Requires("budget_checkpoint") = "reextract_started"
    BY DEF Requires
  <2>3. outbox.calls \in Nat /\ CallsRecorded(log[outbox.account]) \in Nat
    BY <1>1, AccountTypes, CallsTypes DEF Sound, Calls
  <2> QED
    BY <2>1, <2>2, <2>3, BudgetEventIs, KindsAre DEF Accepts
<1>2. Sound /\ Accounts => OutboxCanBeReplayed
  BY <1>1 DEF OutboxCanBeReplayed
<1> QED
  BY <1>2, AlwaysAccounted, PTL

\* A row of the verifier ledger has the calls that the attempt log has.
THEOREM BothAccountsAgree == AttemptSpec => []AccountsAgree
<1>1. Sound /\ Accounts => AccountsAgree
  BY DEF Accounts, RowOK, AccountsAgree, Calls
<1> QED
  BY <1>1, AlwaysAccounted, PTL

-----------------------------------------------------------------------------
(* The usage of an attempt that has ended.                                 *)

LEMMA Pays ==
  ASSUME NEW w \in Executors, Executor(w) \/ Crash(w)
  PROVE  paid' = paid \/ Send(w)
BY DEF Executor, Begin, RecoverFanout, Recover, Recovered, Replay, Project, Leave, Resume,
       ResumeStale, Conclude, Start, Refuse, Reserve, Settle, Answered, Supplement, Revalidate,
       RevalidateConflict, Prepare, Patch, Replace, Unapplied, Publish, Derive, Fail, Rebuild,
       Republish, Acquire, Overtaken, EnterScope, EnterFails, AttachScope, ReserveInScope,
       SettleInScope, ReplayInScope, TransitionFails, RefreshBase, ScopeFails, Unwind, UnwindFails,
       Finalize, LoadNothing, Fold, Load, RecordBase, RecordFold, Succeed, Succeeded, Falter, Crash

\* A terminal event has the calls on record, whoever writes it.
LEMMA UsageIs ==
  ASSUME Control, NEW w \in Executors, Executor(w) \/ Crash(w), NEW k \in Keys,
         NEW e \in log'[k], e \notin log[k], e.kind \in Terminal
  PROVE  e.detail = Calls(k) /\ ~Send(w)
<1>1. Writes(w)
  BY Writers
<1>2. pc[w] # "idle" => key[w] \in Keys
  BY InHand
<1>3. ASSUME NEW o \in Keys, NEW f, Put(o, f)
      PROVE  k = o /\ e = f
  BY ZenonT(60), <1>3, LogOf
<1>4. ASSUME NEW f, Put(key[w], f), pc[w] # "idle"
      PROVE  k = key[w] /\ e = f
  BY <1>2, <1>3, <1>4
<1>5. log' # log
  OBVIOUS
<1> USE KindsAre, EventIs, BudgetEventIs
<1>6. CASE Recover(w)
  <2>1. PICK o \in Keys : Put(o, Recovers(o))
    BY <1>6 DEF Recover
  <2>2. k = o /\ e = Recovers(o)
    BY <1>3, <2>1
  <2>3. \/ Recovers(o).kind \in Checkpoints
        \/ Recovers(o).detail = CallsRecorded(log[o])
    BY DEF Recovers, Checkpoints
  <2> QED
    BY <1>6, <2>2, <2>3 DEF Calls, Recover, Send
<1>7. CASE RecoverFanout(w) \/ ReplayInScope(w)
  <2>1. ReplayQueue
    BY <1>5, <1>7 DEF RecoverFanout, ReplayInScope, ReplayVerifier, ReplayEnd
  <2>2. outbox.account \in Keys /\ Put(outbox.account, BudgetEvent(outbox.calls))
    BY <2>1 DEF ReplayQueue, Replayable, Control, Types
  <2>3. e = BudgetEvent(outbox.calls)
    BY <1>3, <2>2
  <2> QED
    BY <2>3
<1>8. CASE Reserve(w) \/ Settle(w) \/ RefreshBase(w) \/ UnwindFails(w)
  <2>1. pc[w] # "idle" /\ \E n : Put(key[w], BudgetEvent(n))
    BY <1>5, <1>8 DEF Reserve, Settle, Checkpoint, RefreshBase, UnwindFails
  <2> QED
    BY <1>4, <2>1
<1>9. CASE \/ Start(w) \/ Supplement(w) \/ Prepare(w) \/ Publish(w) \/ LoadNothing(w)
           \/ RecordBase(w) \/ RecordFold(w)
  <2>1. pc[w] # "idle" /\ \E f : Put(key[w], f) /\ f.kind \in Checkpoints \cup {"reextract_started"}
    <3>1. CASE Prepare(w)
      BY <3>1 DEF Prepare, Checkpoint, Checkpoints
    <3> QED
      BY <1>9, <3>1
         DEF Start, Supplement, Publish, LoadNothing, RecordBase, RecordFold, Checkpoint,
             Checkpoints
  <2> QED
    BY <1>4, <2>1
<1>10. CASE ResumeStale(w) \/ RevalidateConflict(w) \/ Unapplied(w) \/ Fail(w) \/ Succeed(w)
  <2>1. /\ pc[w] \notin {"idle", "sent"}
        /\ \E f : Put(key[w], f) /\ f.detail = CallsRecorded(log[key[w]])
    BY <1>10
       DEF ResumeStale, RevalidateConflict, Unapplied, Fail, Conclude, Succeed, Checkpoint, Fate
  <2> QED
    BY <1>4, <2>1 DEF Calls, Send
<1> QED
  BY <1>1, <1>6, <1>7, <1>8, <1>9, <1>10 DEF Writes

LEMMA UsageStep ==
  ASSUME Sound, Accounts, UsageCoversPaid, [AttemptNext]_attemptVars
  PROVE  UsageCoversPaid'
<1>1. CASE UNCHANGED attemptVars
  BY <1>1 DEF attemptVars, durable, UsageCoversPaid
<1>2. ASSUME NEW w \in Executors, Executor(w) \/ Crash(w)
      PROVE  UsageCoversPaid'
  <2>1. SUFFICES ASSUME NEW k \in Keys, NEW e \in log'[k], e.kind \in Terminal
                 PROVE  e.detail >= paid'[k]
    BY DEF UsageCoversPaid
  <2>2. Control /\ paid[k] \in Nat /\ Calls(k) \in Nat /\ paid[k] <= Calls(k)
    BY CallsTypes DEF Sound, Control, Types, Accounts, PaidOf
  <2>3. CASE e \notin log[k]
    BY <1>2, <2>1, <2>2, <2>3, UsageIs, Pays
  <2>4. CASE e \in log[k]
    <3>1. e.detail >= paid[k]
      BY <2>1, <2>4 DEF UsageCoversPaid
    <3>2. CASE Send(w)
      <4>1. key[w] \in Keys /\ ~Ended(log[key[w]]) /\ paid' = [paid EXCEPT ![key[w]] = @ + 1]
        BY <2>2, <3>2, InHand DEF Sound, Places, PlaceOf, Calling, Fate, Send
      <4>2. Ended(log[k])
        BY <2>1, <2>4 DEF Ended, Has
      <4> QED
        BY <2>2, <3>1, <4>1, <4>2 DEF Control, Types
    <3> QED
      BY <1>2, <3>1, <3>2, Pays
  <2> QED
    BY <2>3, <2>4
<1>3. ASSUME Beside
      PROVE  UsageCoversPaid'
  BY <1>3, BesideStep DEF StepBeside, UsageCoversPaid
<1> QED
  BY <1>1, <1>2, <1>3, StepCases

\* The usage that an attempt ends with covers every call that was sent, whether its
\* executor writes the end or a recovery does.
THEOREM UsageIsComplete == AttemptSpec => []UsageCoversPaid
<1>1. AttemptInit => Sound /\ Accounts /\ UsageCoversPaid
  BY SoundInit, AccountsInit DEF AttemptInit, UsageCoversPaid
<1>2. Sound /\ Accounts /\ UsageCoversPaid /\ [AttemptNext]_attemptVars
        => (Sound /\ Accounts /\ UsageCoversPaid)'
  BY SoundStep, AccountsStep, UsageStep
<1> QED
  BY <1>1, <1>2, PTL DEF AttemptSpec

-----------------------------------------------------------------------------
(* One attempt of a proposal at a time, and what the product holds of it.  *)

\* Only one attempt owns a proposal.
OneLive == \A k, o \in Keys : SameProposal(k, o) /\ Live(log[k]) /\ Live(log[o]) => k = o

\* An attempt becomes live when no other one of the proposal is.
LEMMA NewlyLive ==
  ASSUME Sound, Histories', Appends, NEW w \in Executors, Executor(w) \/ Crash(w), NEW k \in Keys,
         Live(log'[k]), ~Live(log[k])
  PROVE  k = key[w] /\ Start(w) /\ \A o \in Keys : SameProposal(k, o) => ~Live(log[o])
<1>1. log'[k] # {} /\ ~Ended(log'[k])
  BY Lifecycles
<1>2. ~Ended(log[k])
  BY <1>1, Remembered DEF Sound, Ended
<1>3. log[k] = {}
  BY <1>2, Lifecycles
<1>4. Has(log'[k], "reextract_started") /\ ~Has(log[k], "reextract_started")
  BY <1>1, <1>3, Causes DEF Histories, Has
<1>5. Start(w) /\ k = key[w]
  BY <1>4, Firsts DEF Sound
<1> QED
  BY <1>5 DEF Start, Admissible

LEMMA OneLiveStep ==
  ASSUME Sound, OneLive, [AttemptNext]_attemptVars
  PROVE  OneLive'
<1>1. CASE UNCHANGED attemptVars
  BY <1>1 DEF OneLive, SameProposal, attemptVars, durable
<1>2. CASE AttemptNext
  <2>1. Appends /\ Histories' /\ setting' = setting
    BY <1>2, StepAppends, HistoriesStep, StepCases DEF Sound
  <2>2. ASSUME NEW w \in Executors, Executor(w) \/ Crash(w), NEW k \in Keys, NEW o \in Keys,
               SameProposal(k, o), Live(log'[k]), Live(log'[o])
        PROVE  k = o
    <3>1. ~Live(log[k]) => k = key[w] /\ ~Live(log[o])
      BY <2>1, <2>2, NewlyLive
    <3>2. ~Live(log[o]) => o = key[w] /\ ~Live(log[k])
      BY <2>1, <2>2, NewlyLive DEF SameProposal
    <3> QED
      BY <2>2, <3>1, <3>2 DEF OneLive
  <2>3. ASSUME Beside
        PROVE  OneLive'
    BY <2>1, <2>3, BesideStep DEF StepBeside, OneLive, SameProposal
  <2> QED
    BY <1>2, <2>1, <2>2, <2>3, StepCases DEF OneLive, SameProposal
<1> QED
  BY <1>1, <1>2

LEMMA OrphanIs ==
  ASSUME NEW k \in Keys
  PROVE  Orphan(k) <=> log[k] # {} /\ ~Ended(log[k]) /\ ~Has(log[k], "requirements_published")
BY DEF Orphan, Lifecycle, Ended, Terminal

\* The functional product holds the results of attempts whose publication is on record, and
\* of the one that has announced these very contents.
HeldOf(k) ==
  k \in product.of /\ ~Has(log[k], "requirements_published") =>
    /\ ~Ended(log[k])
    /\ Has(log[k], "publication_prepared") /\ product = Detail(log[k], "publication_prepared").new

\* The cache restores the results of attempts whose publication is on record.
CachedOf(k) == \A p \in cached : k \in p.of => Has(log[k], "requirements_published")

UnheardAt(w) ==
  /\ pc[w] \in Unheard /\ ~Published(w) => key[w] \notin product.of
  /\ pc[w] = "replace" => /\ Has(Fate(w), "publication_prepared")
                          /\ Detail(Fate(w), "publication_prepared").new = seen[w]

\* After recovery an executor that has not published meets no orphan but its own attempt.
AfterRecovery == {"admit", "publish", "derive"} \cup Unheard

OwnOrphan(w) == pc[w] \in AfterRecovery => \A k \in Keys : Orphan(k) => k = key[w]

\* The atomic product is made of patches.
PatchedAt(w) == pc[w] \in {"supplement", "replace"} => key[w] \in patches

Publication ==
  /\ OneLive
  /\ Functional => /\ patches = {}
                   /\ \A k \in Keys : HeldOf(k) /\ CachedOf(k)
                   /\ \A w \in Executors : UnheardAt(w) /\ OwnOrphan(w)
  /\ ~Functional => product.of \subseteq patches /\ \A w \in Executors : PatchedAt(w)

\* Nobody ends an attempt that the functional product holds off the record.
LEMMA HeldGoesOn ==
  ASSUME Sound, Publication, Functional, NEW w \in Executors, Executor(w) \/ Crash(w),
         NEW k \in Keys, k \in product.of, ~Has(log[k], "requirements_published"),
         ~Has(log'[k], "requirements_published")
  PROVE  ~Ended(log'[k])
<1>1. SUFFICES ASSUME Ended(log'[k])
               PROVE  FALSE
  OBVIOUS
<1>2. /\ Control /\ PlaceOf(w) /\ ~Ended(log[k]) /\ k \notin patches
      /\ Has(log[k], "publication_prepared") /\ product = Detail(log[k], "publication_prepared").new
      /\ pc[w] \in Unheard /\ ~Published(w) => key[w] # k
  BY DEF Sound, Places, Publication, HeldOf, UnheardAt
<1>3. PICK kind \in Terminal : Has(log'[k], kind) /\ ~Has(log[k], kind)
  BY <1>1, <1>2 DEF Ended
<1>4. CASE Recover(w)
  <2>1. PICK o \in Keys : Put(o, Recovers(o))
    BY <1>4 DEF Recover
  <2>2. k = o /\ Recovers(k).kind \in Terminal
    <3>1. log'[k] = IF k = o THEN log[k] \cup {Recovers(o)} ELSE log[k]
      BY <1>2, <2>1, LogOf
    <3> QED
      BY <1>3, <3>1, HasMore
  <2>3. Recovers(k) = Event("requirements_published", product)
    BY <1>2 DEF Recovers, PreparedRoute
  <2> QED
    BY <2>2, <2>3, EventIs, KindsAre DEF Checkpoints, Terminal
<1>5. CASE k = key[w] /\ ResumeStale(w)
  BY <1>2, <1>5, Lifecycles DEF ResumeStale
<1>6. CASE k = key[w] /\ (RevalidateConflict(w) \/ Unapplied(w) \/ Fail(w))
  BY <1>2, <1>6 DEF RevalidateConflict, Unapplied, Fail, PlaceOf, Unpublished, Unheard
<1>7. CASE k = key[w] /\ Succeed(w)
  BY <1>2, <1>7 DEF Succeed, PlaceOf, Rebuilding, AfterScope, Published, Fate
<1> QED
  BY <1>2, <1>3, <1>4, <1>5, <1>6, <1>7, Firsts

\* What is in the functional product is on record, but for the executor's own result.
LEMMA OnRecordOrOwn ==
  ASSUME Publication, Functional, NEW w \in Executors, OwnOrphan(w),
         pc[w] \in {"replace", "derive"}, NEW k \in Keys, k \in product.of, k # key[w]
  PROVE  Has(log[k], "requirements_published")
<1>1. HeldOf(k) /\ ~Orphan(k)
  BY DEF Publication, OwnOrphan, AfterRecovery, Unheard, Calling
<1> QED
  BY <1>1, OrphanIs DEF HeldOf, Has

LEMMA HeldStep ==
  ASSUME Sound, Publication, Histories', Appends, setting' = setting, Functional,
         NEW w \in Executors, Executor(w) \/ Crash(w), NEW k \in Keys
  PROVE  HeldOf(k)'
<1>1. SUFFICES ASSUME k \in product'.of, ~Has(log'[k], "requirements_published")
               PROVE  /\ ~Ended(log'[k]) /\ Has(log'[k], "publication_prepared")
                      /\ product' = Detail(log'[k], "publication_prepared").new
  BY DEF HeldOf
<1>2. /\ Control /\ Histories /\ PlaceOf(w) /\ HeldOf(k) /\ UnheardAt(w) /\ OwnOrphan(w)
      /\ Carries(w) /\ ~Has(log[k], "requirements_published")
  BY <1>1, Remembered DEF Sound, Places, Publication, Control
<1>3. CASE k \in product.of /\ product' = product
  <2>1. Has(log[k], "publication_prepared") /\ product = Detail(log[k], "publication_prepared").new
    BY <1>2, <1>3 DEF HeldOf
  <2>2. Has(log'[k], "publication_prepared")
        /\ Detail(log'[k], "publication_prepared") = Detail(log[k], "publication_prepared")
    BY <1>2, <2>1, Remembered, StartKept DEF Single, Checkpoints
  <2>3. ~Ended(log'[k])
    BY <1>1, <1>2, <1>3, HeldGoesOn
  <2> QED
    BY <1>3, <2>1, <2>2, <2>3
<1>4. CASE Replace(w)
  <2>1. pc[w] = "replace" /\ product' = seen[w] /\ log' = log /\ key[w] \in Keys
    BY <1>2, <1>4, InHand DEF Replace
  <2>2. /\ ~Ended(log[key[w]]) /\ Has(log[key[w]], "publication_prepared")
        /\ Detail(log[key[w]], "publication_prepared").new = seen[w]
    BY <1>2, <2>1 DEF PlaceOf, UnheardAt, Unpublished, Fate
  <2>3. k = key[w]
    <3>1. SUFFICES ASSUME k # key[w]
                   PROVE  k \in product.of
      BY <1>2, <2>1, OnRecordOrOwn
    <3>2. product' \in Merged(w)
      BY <1>2, <2>1 DEF Carries
    <3> QED
      BY <1>1, <1>2, <3>1, <3>2 DEF Merged, Control, Types, Product
  <2> QED
    BY <2>1, <2>2, <2>3
<1>5. CASE k \notin product.of /\ ~Replace(w)
  BY <1>1, <1>5, Moves
<1> QED
  BY <1>3, <1>4, <1>5, Moves

\* Who puts products into the cache.
LEMMA CacheMoves ==
  ASSUME NEW w \in Executors, Executor(w) \/ Crash(w)
  PROVE  cached' \subseteq cached \/ (Derive(w) /\ cached' = cached \cup {product})
<1>1. CASE Prepare(w) \/ Derive(w)
  BY <1>1 DEF Prepare, Derive
<1>2. CASE cached' = cached
  BY <1>2
<1> QED
  BY <1>1, <1>2
     DEF Executor, Crash, Begin, RecoverFanout, Recover, Recovered, Leave, Replay, Project, Resume,
         ResumeStale, Conclude, Start, Refuse, Reserve, Send, Settle, Answered, Supplement,
         Revalidate, RevalidateConflict, Patch, Replace, Unapplied, Publish, Fail, Rebuild,
         Republish, Acquire, Overtaken, EnterScope, EnterFails, AttachScope, ReserveInScope,
         SettleInScope, ReplayInScope, TransitionFails, RefreshBase, ScopeFails, Unwind,
         UnwindFails, Finalize, LoadNothing, Fold, Load, RecordBase, RecordFold, Succeed,
         Succeeded, Falter, durable

LEMMA CachedStep ==
  ASSUME Sound, Publication, Appends, Functional, NEW w \in Executors, Executor(w) \/ Crash(w),
         NEW k \in Keys
  PROVE  CachedOf(k)'
<1>1. /\ Control /\ PlaceOf(w) /\ CachedOf(k) /\ OwnOrphan(w)
      /\ Has(log[k], "requirements_published") => Has(log'[k], "requirements_published")
  BY Remembered DEF Sound, Places, Publication
<1>2. CASE cached' \subseteq cached
  BY <1>1, <1>2 DEF CachedOf
<1>3. CASE Derive(w) /\ cached' = cached \cup {product}
  <2>1. pc[w] = "derive" /\ Has(log[key[w]], "requirements_published")
    BY <1>1, <1>3 DEF Derive, PlaceOf, Rebuilding, Published, Fate
  <2>2. k \in product.of => Has(log[k], "requirements_published")
    BY <1>1, <2>1, OnRecordOrOwn
  <2> QED
    BY <1>1, <1>3, <2>2 DEF CachedOf
<1> QED
  BY <1>2, <1>3, CacheMoves

LEMMA UnheardStep ==
  ASSUME Sound, Publication, Histories', Appends, setting' = setting, Functional,
         NEW w \in Executors, Executor(w) \/ Crash(w)
  PROVE  UnheardAt(w)'
<1>1. Control /\ PlaceOf(w) /\ UnheardAt(w)
  BY DEF Sound, Places, Publication
<1>2. ASSUME pc'[w] \in Unheard, ~Published(w)'
      PROVE  key'[w] \notin product'.of
  <2>1. /\ key'[w] = key[w] /\ product' = product
        /\ pc[w] \in Unheard \cup {"reserved", "patch"} \/ Start(w)
    BY <1>1, <1>2, Arriving
  <2>2. key[w] \in Keys
    BY <1>1, <2>1, InHand DEF Unheard, Start
  <2>3. ~Published(w)
    BY <1>1, <1>2, <2>1, <2>2, Remembered DEF Published, Fate
  <2>4. CASE Start(w)
    <3>1. log[key[w]] = {} /\ HeldOf(key[w])
      BY <2>2, <2>4 DEF Start, Admissible, Publication
    <3> QED
      BY <2>1, <3>1 DEF HeldOf, Has
  <2>5. CASE pc[w] \in Unheard \cup {"reserved", "patch"}
    BY <1>1, <2>1, <2>3, <2>5 DEF PlaceOf, Rebuilding, Scope, UnheardAt
  <2> QED
    BY <2>1, <2>4, <2>5
<1>3. ASSUME pc'[w] = "replace"
      PROVE  /\ Has(Fate(w)', "publication_prepared")
             /\ Detail(Fate(w)', "publication_prepared").new = seen'[w]
  <2>1. Prepare(w)
    BY <1>1, <1>3, Arriving
  <2>2. key[w] \in Keys /\ key' = key /\ seen = [v \in Executors |-> seen[v]]
    BY <1>1, <2>1, InHand DEF Prepare, Control, Types
  <2>3. PICK new : /\ Checkpoint(w, Event("publication_prepared", [old |-> product, new |-> new]),
                                 "replace")
                   /\ seen' = [seen EXCEPT ![w] = new]
    BY <2>1 DEF Prepare
  <2>4. PICK e : Put(key[w], e) /\ e.kind = "publication_prepared" /\ e.detail.new = new
    BY <2>3, EventIs DEF Checkpoint
  <2>5. e \in log'[key[w]] /\ Once(log'[key[w]])
    <3>1. log'[key[w]] = log[key[w]] \cup {e}
      BY <1>1, <2>2, <2>4, LogOf
    <3> QED
      BY <2>2, <3>1 DEF Histories, WellFormed
  <2>6. Detail(log'[key[w]], e.kind) = e.detail
    BY <2>4, <2>5, DetailIs DEF Single, Checkpoints
  <2>7. seen'[w] = new
    BY <2>2, <2>3
  <2> QED
    BY <2>2, <2>4, <2>5, <2>6, <2>7 DEF Fate, Has
<1> QED
  BY <1>2, <1>3 DEF UnheardAt

\* An orphan is one from before the step, or the attempt that starts.
LEMMA NewOrphan ==
  ASSUME Sound, Histories', Appends, NEW w \in Executors, Executor(w) \/ Crash(w), NEW k \in Keys,
         Orphan(k)'
  PROVE  Orphan(k) \/ (k = key[w] /\ Start(w))
<1>1. Live(log'[k]) /\ ~Has(log'[k], "requirements_published")
  BY Lifecycles DEF Orphan, Live
<1>2. ~Has(log[k], "requirements_published")
  BY <1>1, Remembered DEF Sound
<1>3. CASE ~Live(log[k])
  BY <1>1, <1>3, NewlyLive
<1>4. CASE Live(log[k])
  BY <1>2, <1>4, OrphanIs, Lifecycles
<1> QED
  BY <1>3, <1>4

\* The ways to these places.
LEMMA StayingAfter ==
  ASSUME Control, NEW w \in Executors, Executor(w) \/ Crash(w), pc'[w] \in AfterRecovery
  PROVE  /\ key'[w] = key[w]
         /\ \/ Start(w) \/ pc[w] \in AfterRecovery \cup {"reserved", "patch"}
            \/ \A k \in Keys : ~Orphan(k)
<1>1. CASE pc'[w] \in Unheard
  BY <1>1, Arriving DEF AfterRecovery
<1>2. CASE pc'[w] \in {"admit", "publish", "derive"}
  <2> USE DEF durable, authority, private, fanout
  <2>1. pc \in [Executors -> Locked \cup Unlocked]
    BY DEF Control, Types
  <2>2. CASE Recovered(w)
    BY <1>2, <2>1, <2>2 DEF Recovered, Leave, Goto
  <2>3. CASE Replace(w) \/ Publish(w)
    BY <1>2, <2>1, <2>3 DEF Replace, Publish, Checkpoint, Goto, AfterRecovery, Unheard
  <2>4. CASE Leave(w) \/ Crash(w)
    BY <1>2, <2>1, <2>4 DEF Leave, Crash, Goto
  <2>5. CASE \/ RecoverFanout(w) \/ Recover(w) \/ ReplayInScope(w)
    BY <1>2, <2>1, <2>5 DEF RecoverFanout, Recover, ReplayInScope, Goto
  <2>7. CASE \E place : Goto(w, place) /\ place \notin {"admit", "publish", "derive"}
    BY <1>2, <2>1, <2>7 DEF Goto
  <2>8. CASE \/ Replay(w) \/ ResumeStale(w) \/ Refuse(w) \/ RevalidateConflict(w) \/ Unapplied(w)
             \/ Fail(w) \/ EnterFails(w) \/ Unwind(w) \/ UnwindFails(w) \/ Succeeded(w) \/ Falter(w)
    BY <2>4, <2>8
       DEF Replay, Project, ResumeStale, Conclude, Refuse, RevalidateConflict, Unapplied, Fail,
           EnterFails, Unwind, UnwindFails, Succeeded, Falter
  <2>9. CASE \/ Resume(w) \/ Start(w) \/ Reserve(w) \/ Send(w) \/ Settle(w) \/ Answered(w)
             \/ Supplement(w) \/ Revalidate(w) \/ Patch(w) \/ Derive(w)
             \/ \E k \in Keys : Begin(w, k)
    BY <2>7, <2>9
       DEF Resume, Start, Reserve, Send, Settle, Answered, Supplement, Revalidate, Patch, Derive,
           Begin, Checkpoint
  <2>10. CASE Prepare(w)
    BY <2>7, <2>10 DEF Prepare, Checkpoint
  <2>11. CASE \/ Rebuild(w) \/ Republish(w) \/ Acquire(w) \/ Overtaken(w) \/ EnterScope(w)
              \/ AttachScope(w) \/ ReserveInScope(w) \/ SettleInScope(w) \/ TransitionFails(w)
              \/ RefreshBase(w) \/ ScopeFails(w) \/ Finalize(w) \/ LoadNothing(w) \/ Fold(w)
              \/ Load(w) \/ RecordBase(w) \/ RecordFold(w) \/ Succeed(w)
    BY <2>7, <2>11
       DEF Rebuild, Republish, Acquire, Overtaken, EnterScope, AttachScope, ReserveInScope,
           SettleInScope, TransitionFails, RefreshBase, ScopeFails, Finalize, LoadNothing, Fold,
           Load, RecordBase, RecordFold, Succeed, Checkpoint
  <2> QED
    BY <2>2, <2>3, <2>4, <2>5, <2>8, <2>9, <2>10, <2>11 DEF Executor
<1> QED
  BY <1>1, <1>2 DEF AfterRecovery

LEMMA OwnOrphanStep ==
  ASSUME Sound, Publication, Histories', Appends, Functional, NEW w \in Executors,
         Executor(w) \/ Crash(w)
  PROVE  OwnOrphan(w)'
<1>1. SUFFICES ASSUME pc'[w] \in AfterRecovery, NEW k \in Keys, Orphan(k)'
               PROVE  k = key'[w]
  BY DEF OwnOrphan
<1>2. /\ Control /\ PlaceOf(w) /\ OwnOrphan(w)
      /\ Orphan(k) \/ k = key[w]
  BY <1>1, NewOrphan DEF Sound, Places, Publication
<1>3. /\ key'[w] = key[w]
      /\ Start(w) \/ pc[w] \in AfterRecovery \/ \A o \in Keys : ~Orphan(o)
  BY <1>1, <1>2, StayingAfter DEF PlaceOf, Scope
<1>4. pc[w] \in AfterRecovery => (Orphan(k) => k = key[w])
  BY <1>2 DEF OwnOrphan
<1>5. Start(w) => pc[w] \in AfterRecovery
  BY DEF Start, AfterRecovery
<1> QED
  BY <1>2, <1>3, <1>4, <1>5

\* What goes on beside the executors under the functional product: an extraction of new inputs
\* has no result of an attempt, and a restored one has those of a cached product.
LEMMA BesideHolds ==
  ASSUME Publication, Functional, Beside, NEW k \in Keys
  PROVE  HeldOf(k)' /\ CachedOf(k)'
<1>1. log' = log /\ HeldOf(k) /\ CachedOf(k)
  BY BesideStep DEF StepBeside, Publication
<1>2. CASE FunctionalExtraction
  BY <1>1, <1>2 DEF FunctionalExtraction, NewEdition, HeldOf, CachedOf
<1>3. CASE Restore
  <2>1. PICK row \in cached :
          /\ product'.of = row.of
          /\ \A p \in cached' : p \in cached \/ p.of = row.of
    BY <1>3 DEF Restore, NewEdition
  <2>2. k \in row.of => Has(log'[k], "requirements_published")
    BY <1>1, <2>1 DEF CachedOf
  <2> QED
    BY <1>1, <2>1, <2>2 DEF HeldOf, CachedOf
<1>4. CASE UNCHANGED <<product, cached>>
  BY <1>1, <1>4 DEF HeldOf, CachedOf
<1> QED
  BY <1>2, <1>3, <1>4
     DEF Beside, FullExtraction, Refresh, Review, Decide, FoldNow, durable

\* Who is not acting keeps the place, under the lock, where nobody else touches the log, the
\* product or the patches.
LEMMA OthersHeard ==
  ASSUME Control, setting' = setting, NEW v \in Executors, pc'[v] = pc[v], key'[v] = key[v],
         seen'[v] = seen[v],
         pc[v] \in Locked => UNCHANGED <<log, product, patches>>, patches \subseteq patches'
  PROVE  /\ UnheardAt(v) => UnheardAt(v)'
         /\ OwnOrphan(v) => OwnOrphan(v)'
         /\ PatchedAt(v) => PatchedAt(v)'
<1>1. pc[v] \in AfterRecovery => pc[v] \in Locked
  BY DEF AfterRecovery, Unheard, Locked
<1>2. CASE pc[v] \in Locked
  BY <1>2 DEF UnheardAt, OwnOrphan, Orphan, PatchedAt, Published, Fate
<1>3. CASE pc[v] \notin Locked
  BY <1>1, <1>3 DEF UnheardAt, OwnOrphan, PatchedAt, AfterRecovery, Unheard, Locked
<1> QED
  BY <1>2, <1>3

LEMMA PublicationStep ==
  ASSUME Sound, Publication, [AttemptNext]_attemptVars
  PROVE  Publication'
<1>1. OneLive'
  BY OneLiveStep DEF Publication
<1>2. CASE UNCHANGED attemptVars
  <2>1. UNCHANGED <<setting, log, product, cached, patches, pc, key, seen>>
    BY <1>2 DEF attemptVars, durable, private
  <2> QED
    BY <1>1, <2>1
       DEF Publication, HeldOf, CachedOf, UnheardAt, OwnOrphan, Orphan, PatchedAt, Functional,
           Published, Fate
<1>3. CASE AttemptNext
  <2>1. /\ Control /\ Appends /\ Histories' /\ setting' = setting
        /\ Functional' = Functional
    BY <1>3, StepAppends, HistoriesStep, StepCases DEF Sound, Functional
  <2>2. ASSUME NEW w \in Executors, Executor(w) \/ Crash(w)
        PROVE  Publication'
    <3>1. StepOf(w)
      BY <2>1, <2>2, ExecutorStep, CrashStep
    <3>2. patches' = patches \/ (Patch(w) /\ patches' = patches \cup {key[w]} /\ ~Functional)
      BY <2>2, Moves DEF Patch, Sound, Places, PlaceOf
    <3>3. ASSUME NEW v \in Executors \ {w}
          PROVE  /\ UnheardAt(v) => UnheardAt(v)'
                 /\ OwnOrphan(v) => OwnOrphan(v)'
                 /\ PatchedAt(v) => PatchedAt(v)'
      <4>1. pc[v] \in Locked => UNCHANGED <<log, product, patches>>
        BY <2>1, <3>1 DEF Control, LockedBy, StepOf
      <4>2. seen'[v] = seen[v]
        BY <2>1, <2>2, SeenByOthers
      <4> QED
        BY <2>1, <3>1, <3>2, <4>1, <4>2, OthersHeard DEF StepOf
    <3>4. CASE Functional
      <4>1. patches' = {} /\ \A k \in Keys : HeldOf(k)' /\ CachedOf(k)'
        BY <2>1, <2>2, <3>2, <3>4, HeldStep, CachedStep DEF Publication
      <4>2. \A v \in Executors : UnheardAt(v)' /\ OwnOrphan(v)'
        BY <2>1, <2>2, <3>3, <3>4, UnheardStep, OwnOrphanStep DEF Publication
      <4> QED
        BY <1>1, <2>1, <3>4, <4>1, <4>2 DEF Publication
    <3>5. CASE ~Functional
      <4>1. PatchedAt(w) /\ product.of \subseteq patches
        BY <3>5 DEF Publication
      <4>2. PatchedAt(w)'
        <5>1. SUFFICES ASSUME pc'[w] \in {"supplement", "replace"}
                       PROVE  key'[w] \in patches'
          BY DEF PatchedAt
        <5>2. key'[w] = key[w] /\ (Prepare(w) \/ Supplement(w) \/ Patch(w))
          BY <2>1, <2>2, <3>5, <5>1, Arriving DEF Unheard
        <5>3. ~Prepare(w)
          BY <3>5 DEF Sound, Places, PlaceOf, Prepare
        <5> QED
          BY <3>2, <4>1, <5>2, <5>3 DEF PatchedAt, Supplement, Patch
      <4>3. product'.of \subseteq patches'
        <5>1. CASE Replace(w)
          BY <2>1, <3>2, <3>5, <4>1, <5>1, ReplaceGrows DEF Replace, PatchedAt
        <5>2. CASE product' = product
          BY <3>2, <4>1, <5>2
        <5> QED
          BY <2>2, <5>1, <5>2, Moves
      <4> QED
        BY <1>1, <2>1, <3>3, <3>5, <4>2, <4>3 DEF Publication
    <3> QED
      BY <3>4, <3>5
  <2>3. ASSUME Beside
        PROVE  Publication'
    <3>1. /\ UNCHANGED <<log, patches, pc, key, seen>>
          /\ holder # Nobody => UNCHANGED product
      BY <2>1, <2>3, BesideStep DEF StepBeside
    <3>2. ASSUME NEW v \in Executors
          PROVE  /\ UnheardAt(v) => UnheardAt(v)'
                 /\ OwnOrphan(v) => OwnOrphan(v)'
                 /\ PatchedAt(v) => PatchedAt(v)'
      <4>1. pc[v] \in Locked => UNCHANGED <<log, product, patches>>
        BY <2>1, <3>1, AttemptAssumption DEF Control, LockedBy
      <4> QED
        BY <2>1, <3>1, <4>1, OthersHeard
    <3>3. Functional => \A k \in Keys : HeldOf(k)' /\ CachedOf(k)'
      BY <2>3, BesideHolds
    <3>4. ~Functional => product' = product \/ product'.of \subseteq patches
      BY <2>1, <2>3, MovesBeside DEF Sound, Progress
    <3> QED
      BY <1>1, <2>1, <3>1, <3>2, <3>3, <3>4 DEF Publication
  <2> QED
    BY <1>3, <2>2, <2>3, StepCases
<1> QED
  BY <1>2, <1>3

LEMMA PublicationInit ==
  ASSUME AttemptInit
  PROVE  Publication
<1>1. /\ \A k \in Keys : ~Live(log[k])
      /\ product.of = {} /\ patches = {} /\ \A w \in Executors : pc[w] = "idle"
      /\ \A p \in cached : p.of = {}
  BY Lifecycles DEF AttemptInit, Original
<1> QED
  BY <1>1
     DEF Publication, OneLive, HeldOf, CachedOf, UnheardAt, OwnOrphan, AfterRecovery, PatchedAt,
         Unheard

\* The product, the cache and the log tell the same of every attempt.
THEOREM AlwaysPublished == AttemptSpec => [](Sound /\ Publication)
<1>1. AttemptInit => Sound /\ Publication
  BY SoundInit, PublicationInit
<1>2. Sound /\ Publication /\ [AttemptNext]_attemptVars => (Sound /\ Publication)'
  BY SoundStep, PublicationStep
<1> QED
  BY <1>1, <1>2, PTL DEF AttemptSpec

\* Neither the functional requirements file nor a product that the cache may restore holds the
\* result of an attempt that ended without its publication on record (Fail, Recover,
\* RevalidateConflict): for any number of proposals, of attempts of each, of extractions,
\* restored products and crashes.
THEOREM NothingUnpublishedShows == AttemptSpec => []UnpublishedStaysOut
<1>1. Publication => UnpublishedStaysOut
  BY DEF Publication, HeldOf, CachedOf, UnpublishedStaysOut
<1> QED
  BY <1>1, AlwaysPublished, PTL

LEMMA InterruptedByRecovery ==
  ASSUME Control, NEW w \in Executors, Executor(w) \/ Crash(w), NEW k \in Keys,
         Has(log'[k], "reextract_interrupted"), ~Has(log[k], "reextract_interrupted")
  PROVE  Orphan(k) /\ Recovers(k).kind = "reextract_interrupted"
<1>1. ASSUME NEW o \in Keys, NEW e, Put(o, e)
      PROVE  k = o /\ e.kind = "reextract_interrupted"
  <2>1. log'[k] = IF k = o THEN log[k] \cup {e} ELSE log[k]
    BY <1>1, LogOf
  <2> QED
    BY <2>1, HasMore
<1>2. CASE Recover(w)
  BY <1>1, <1>2 DEF Recover
<1>3. CASE /\ k = key[w]
           /\ ResumeStale(w) \/ RevalidateConflict(w) \/ Unapplied(w) \/ Fail(w) \/ Succeed(w)
  <2>1. \E e : Put(k, e) /\ e.kind # "reextract_interrupted"
    BY <1>3, EventIs
       DEF ResumeStale, RevalidateConflict, Unapplied, Fail, Conclude, Succeed, Checkpoint
  <2> QED
    BY <1>1, <2>1
<1> QED
  BY <1>2, <1>3, Firsts DEF Terminal

\* An attempt is called interrupted by recovery only, and only while the product holds
\* nothing of it (recover_interrupted_attempts).
THEOREM InterruptedOnlyUnpublished == AttemptSpec => InterruptedIsUnpublished
<1>1. ASSUME Sound, Publication, [AttemptNext]_attemptVars, NEW k \in Keys,
             Has(log'[k], "reextract_interrupted"), ~Has(log[k], "reextract_interrupted"),
             k \in product.of
      PROVE  FALSE
  <2>1. PICK w \in Executors : Executor(w) \/ Crash(w)
    <3>1. log' # log
      BY <1>1
    <3>2. ~(Beside)
      BY <3>1, BesideStep DEF StepBeside
    <3> QED
      BY <1>1, <3>1, <3>2, StepCases DEF attemptVars, durable
  <2>2. Orphan(k) /\ Recovers(k).kind = "reextract_interrupted"
    BY <1>1, <2>1, InterruptedByRecovery DEF Sound
  <2>3. ~Has(log[k], "requirements_published")
    BY <2>2 DEF Orphan
  <2>4. CASE Functional
    <3>1. /\ k \notin patches /\ Has(log[k], "publication_prepared")
          /\ product = Detail(log[k], "publication_prepared").new
      BY <1>1, <2>3, <2>4 DEF Publication, HeldOf
    <3> QED
      BY <2>2, <3>1, EventIs DEF Recovers, PreparedRoute
  <2>5. CASE ~Functional
    <3>1. k \in patches
      BY <1>1, <2>5 DEF Publication
    <3> QED
      BY <1>1, <2>2, <3>1, EventIs DEF Recovers
  <2> QED
    BY <2>4, <2>5
<1> DEFINE Unheld(k) == Has(log'[k], "reextract_interrupted") /\ ~Has(log[k], "reextract_interrupted")
                          => k \notin product.of
<1>2. Sound /\ Publication /\ [AttemptNext]_attemptVars => [\A k \in Keys : Unheld(k)]_attemptVars
  BY <1>1
<1> QED
  BY <1>2, AlwaysPublished, PTL DEF AttemptSpec, InterruptedIsUnpublished

-----------------------------------------------------------------------------
(* The contract of the proposals.                                          *)

PhaseOf(h) ==
  LET kinds == Kinds(h) IN
  IF kinds = {} THEN "absent"
  ELSE IF "reextract_succeeded" \in kinds THEN "succeeded"
  ELSE IF kinds \cap Terminal # {} THEN "abandoned"
  ELSE IF "requirements_published" \in kinds THEN "published" ELSE "paying"

LEMMA PhaseIs ==
  ASSUME NEW h
  PROVE  /\ PhaseOf(h) = IF h = {} THEN "absent"
                         ELSE IF Has(h, "reextract_succeeded") THEN "succeeded"
                         ELSE IF Ended(h) THEN "abandoned"
                         ELSE IF Has(h, "requirements_published") THEN "published" ELSE "paying"
         /\ PhaseOf(h) \in {"paying", "published"} <=> Live(h)
<1>1. /\ Kinds(h) = {} <=> h = {}
      /\ \A kind : kind \in Kinds(h) <=> Has(h, kind)
  BY DEF Kinds, Has
<1>2. Kinds(h) \cap Terminal # {} <=> Ended(h)
  BY <1>1 DEF Ended
<1>3. PhaseOf(h) = IF h = {} THEN "absent"
                   ELSE IF Has(h, "reextract_succeeded") THEN "succeeded"
                   ELSE IF Ended(h) THEN "abandoned"
                   ELSE IF Has(h, "requirements_published") THEN "published" ELSE "paying"
  BY <1>1, <1>2 DEF PhaseOf
<1>4. Has(h, "reextract_succeeded") => Ended(h)
  BY DEF Ended, Terminal
<1> QED
  BY <1>3, <1>4, Lifecycles

\* An accepted event is a step of the contract for its attempt, or none.
LEMMA PhaseMoves ==
  ASSUME NEW h, NEW e, WellFormed(h), Grows(h, e)
  PROVE  \/ PhaseOf(h \cup {e}) = PhaseOf(h)
         \/ PhaseOf(h) = "absent" /\ PhaseOf(h \cup {e}) = "paying"
         \/ PhaseOf(h) = "paying" /\ PhaseOf(h \cup {e}) = "published"
         \/ PhaseOf(h) = "published" /\ PhaseOf(h \cup {e}) = "succeeded"
         \/ PhaseOf(h) \in {"paying", "published"} /\ PhaseOf(h \cup {e}) = "abandoned"
<1>1. \A kind : Has(h \cup {e}, kind) <=> Has(h, kind) \/ e.kind = kind
  BY HasMore
<1>2. Ended(h \cup {e}) <=> Ended(h) \/ e.kind \in Terminal
  BY EndedMore
<1>3. h \cup {e} # {}
  OBVIOUS
<1>4. CASE e \in h
  <2>1. h \cup {e} = h
    BY <1>4
  <2> QED
    BY <2>1
<1>5. CASE e.kind = "reextract_started" /\ h = {}
  <2>1. ~Ended(h) /\ \A kind : ~Has(h, kind)
    BY <1>5 DEF Ended, Has
  <2> QED
    BY <1>1, <1>2, <1>3, <1>5, <2>1, PhaseIs, KindsAre
<1>6. CASE /\ e.kind \in EventKinds \ {"reextract_started"}
           /\ Has(h, Requires(e.kind))
           /\ e.kind # "budget_checkpoint" => ~Ended(h)
           /\ e.kind \in Checkpoints => ~Has(h, e.kind)
  <2>1. h # {}
    BY <1>6 DEF Has
  <2>2. CASE e.kind \in {"budget_checkpoint", "supplement_persisted", "publication_prepared",
                         "base_rebuild_published", "effective_folded"}
    BY <1>1, <1>2, <1>3, <2>1, <2>2, PhaseIs DEF Terminal
  <2>3. CASE e.kind = "requirements_published"
    <3>1. ~Ended(h) /\ ~Has(h, "requirements_published") /\ e.kind \notin Terminal
      BY <1>6, <2>3 DEF Checkpoints, Terminal
    <3>2. ~Has(h, "reextract_succeeded")
      BY <3>1 DEF Ended, Terminal
    <3> QED
      BY <1>1, <1>2, <1>3, <2>1, <2>3, <3>1, <3>2, PhaseIs
  <2>4. CASE e.kind \in Terminal
    <3>1. ~Ended(h) /\ ~Has(h, "reextract_succeeded")
      BY <1>6, <2>4 DEF Ended, Terminal
    <3>2. e.kind = "reextract_succeeded" => Has(h, "requirements_published")
      BY <1>6, Causes DEF Requires
    <3> QED
      BY <1>1, <1>2, <1>3, <2>1, <2>4, <3>1, <3>2, PhaseIs
  <2> QED
    BY <1>6, <2>2, <2>3, <2>4 DEF EventKinds, Checkpoints
<1> QED
  BY <1>4, <1>5, <1>6 DEF Grows

\* The saga implements the contract of every proposal, step by step: one attempt owns it at a
\* time, what is published is published once, only a published attempt succeeds, and how an
\* attempt has ended never changes.
THEOREM ContractIsKept == AttemptSpec => AttemptContractHolds
<1>1. AttemptInit => Contract!ContractInit
  <2>1. SUFFICES ASSUME AttemptInit
                 PROVE  \A k \in Keys : PhaseOf(log[k]) = "absent"
    BY DEF Contract!ContractInit, Phase, PhaseOf
  <2> QED
    BY <2>1, PhaseIs DEF AttemptInit
<1>2. ASSUME Sound, Publication, Publication', [AttemptNext]_attemptVars
      PROVE  [Contract!ContractNext /\ UNCHANGED setting.proposal]_
                <<setting.proposal, [k \in Keys |-> Phase(k)]>>
  <2> DEFINE old == [k \in Keys |-> PhaseOf(log[k])]
             new == [k \in Keys |-> PhaseOf(log'[k])]
  <2>0. setting' = setting
    BY <1>2, StepCases DEF attemptVars
  <2>1. SUFFICES \/ new = old
                 \/ \E o \in Keys : /\ new = [old EXCEPT ![o] = new[o]]
                                    /\ \/ /\ old[o] = "absent" /\ new[o] = "paying"
                                          /\ \A k \in Keys : SameProposal(k, o) =>
                                               old[k] \notin {"paying", "published"}
                                       \/ old[o] = "paying" /\ new[o] = "published"
                                       \/ old[o] = "published" /\ new[o] = "succeeded"
                                       \/ old[o] \in {"paying", "published"} /\ new[o] = "abandoned"
    BY <2>0 DEF Contract!ContractNext, Contract!Admit, Contract!Announce, Contract!Complete,
           Contract!Abandon, Contract!Owning, Phase, PhaseOf, SameProposal
  <2>2. CASE log' = log
    BY <2>2
  <2>3. CASE \E o \in Keys : \E e : Put(o, e) /\ Grows(log[o], e)
    <3>0. PICK o \in Keys : \E e : Put(o, e) /\ Grows(log[o], e)
      BY <2>3
    <3>1. PICK e : Put(o, e) /\ Grows(log[o], e)
      BY <3>0
    <3>2. \A k \in Keys : log'[k] = IF k = o THEN log[o] \cup {e} ELSE log[k]
      BY <1>2, <3>1, LogOf DEF Sound
    <3>3. new = [old EXCEPT ![o] = new[o]] /\ new[o] = PhaseOf(log[o] \cup {e}) /\ old[o] = PhaseOf(log[o])
      BY <3>2
    <3>4. WellFormed(log[o])
      BY <1>2 DEF Sound, Histories
    <3>5. ASSUME old[o] = "absent", new[o] = "paying", NEW k \in Keys, SameProposal(k, o),
                 old[k] \in {"paying", "published"}
          PROVE  FALSE
      <4>1. Live(log'[o]) /\ Live(log[k]) /\ k # o
        BY <3>5, PhaseIs
      <4>2. Live(log'[k])
        BY <3>2, <4>1
      <4> QED
        BY <1>2, <2>0, <3>5, <4>1, <4>2 DEF Publication, OneLive, SameProposal
    <3>6. new[o] = old[o] => new = old
      BY <3>3
    <3>7. \/ new[o] = old[o]
          \/ old[o] = "absent" /\ new[o] = "paying"
          \/ old[o] = "paying" /\ new[o] = "published"
          \/ old[o] = "published" /\ new[o] = "succeeded"
          \/ old[o] \in {"paying", "published"} /\ new[o] = "abandoned"
      BY <3>1, <3>3, <3>4, PhaseMoves
    <3> HIDE DEF old, new
    <3> QED
      BY <3>3, <3>5, <3>6, <3>7
  <2>4. log' = log \/ Appends
    BY <1>2, StepAppends DEF Sound, attemptVars, durable
  <2> QED
    BY <2>2, <2>3, <2>4 DEF Appends
<1> QED
  BY <1>1, <1>2, AlwaysPublished, PTL DEF AttemptSpec, AttemptContractHolds, Contract!ContractSpec

=============================================================================
