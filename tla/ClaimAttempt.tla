----------------------------- MODULE ClaimAttempt -----------------------------
(***************************************************************************)
(* execute_claim_queue_proposal of src/claim_queue_execution.py with the   *)
(* recovery of src/claim_reextract_attempts.py: the paid re-extraction of  *)
(* one uncertain claim, from the request to the folded claim ledger.       *)
(*                                                                         *)
(* A request key names an attempt.  Every durable write is a step of its   *)
(* own, so that a process may die between any two of them.  Two kinds of   *)
(* product are served by the same saga: the functional one, which is       *)
(* replaced as a file whose old and new hash are announced first, and the  *)
(* atomic one, whose patch is kept in a supplement log and whose rebuild   *)
(* pays a verifier from the same budget, through BudgetFanout.             *)
(***************************************************************************)
EXTENDS BudgetFanout

CONSTANTS Executors,          \* threads that serve requests, each in a process
          NoFold,
          Settings            \* what one execution is about, see setting

\* Nobody and NoFold are None where the code has an executor, a request, a count, a file's
\* contents or a snapshot.
ASSUME AttemptAssumption ==
  /\ Nobody \notin Executors /\ Nobody \notin Keys /\ Nobody \notin Nat
  /\ Nobody \notin [account : Keys, calls : Nat]
  /\ Nobody \notin [owner : Executors \cup {Nobody}, account : Keys \cup {Nobody}, calls : Nat]
  /\ NoFold \notin [product : [edition : Nat, of : SUBSET Keys], reviews : Nat, decisions : Nat]
  /\ Settings \subseteq [functional : BOOLEAN, verifier : BOOLEAN, calls : Nat,
                        proposal : [Keys -> SUBSET Keys], executors : SUBSET Executors,
                        editions : Nat, reviews : Nat, decisions : Nat, crashes : Nat]

VARIABLE setting  \* never changes: the product, the requests, and the bounds

\* The target store is functional_requirements.json.
Functional == setting.functional

\* The environment lets the atomic rebuild ask its semantic verifier.
VerifierOn == setting.verifier

\* maximum_calls of a request.
MaxCalls == setting.calls

\* proposal_id: the claim proposal of a request, as the set of the requests for it.
SameProposal(k, o) == setting.proposal[k] = setting.proposal[o]

\* Bounds: the executors that serve requests, full extractions, requirement reviews, expert
\* adjudications, process deaths.
Serving == setting.executors
MaxEditions == setting.editions
MaxReviews == setting.reviews
MaxDecisions == setting.decisions
MaxCrashes == setting.crashes

\* The contents of the product: the full extraction it comes from and the attempts
\* whose result it holds.  Equal contents have equal hashes.
Product == [edition : 0..MaxEditions, of : SUBSET Keys]
Base == [product : Product, reviews : 0..MaxReviews]
Snapshot == [product : Product, reviews : 0..MaxReviews, decisions : 0..MaxDecisions]

VARIABLES
  product,    \* the requirements file
  cached,     \* the products that the extraction cache restores (functional)
  extractions, \* bound: the full extractions so far, each of which may give a new edition
  patches,    \* the attempts with a patch in the supplement log (atomic)
  base,       \* the committed claim base
  effective,  \* the effective snapshot, or NoFold if it belongs to another base
  reviews,    \* the requirement reviews, which the base and the snapshot read
  decisions,  \* the expert adjudications, which the snapshot reads
  holder,     \* who holds the extraction operation lock
  pc, key,    \* per executor: the place, the request it serves,
  budget,     \*   the calls its budget has reserved, or Nobody without a budget,
  seen,       \*   the product it is to write, or the base and snapshot it finishes with
  paid,       \* history: the calls sent, by request key
  crashes     \* bound

durable == <<log, fanout, product, cached, extractions, patches, base, effective>>
authority == <<reviews, decisions>>
private == <<key, budget, seen>>
attemptVars == <<setting, durable, authority, holder, pc, private, paid, crashes>>

Original == [edition |-> 0, of |-> {}]
BaseNow == [product |-> product, reviews |-> reviews]
SnapshotNow == [product |-> product, reviews |-> reviews, decisions |-> decisions]

\* assess_effective_freshness
Fresh == effective = SnapshotNow

AttemptInit ==
  /\ setting \in Settings
  /\ log = [k \in Keys |-> {}] /\ FanoutInit
  /\ product = Original /\ extractions = 0 /\ patches = {}
  /\ cached = IF Functional THEN {Original} ELSE {}
  /\ reviews = 0 /\ decisions = 0
  /\ base = BaseNow /\ effective = SnapshotNow
  /\ holder = Nobody
  /\ pc = [w \in Executors |-> "idle"]
  /\ key = [w \in Executors |-> Nobody]
  /\ budget = [w \in Executors |-> Nobody]
  /\ seen = [w \in Executors |-> Nobody]
  /\ paid = [k \in Keys |-> 0]
  /\ crashes = 0

Goto(w, place) == pc' = [pc EXCEPT ![w] = place]

\* The executor returns or raises: the extraction lock and its own state are gone.
Leave(w) ==
  /\ Goto(w, "idle")
  /\ holder' = IF holder = w THEN Nobody ELSE holder
  /\ key' = [key EXCEPT ![w] = Nobody]
  /\ budget' = [budget EXCEPT ![w] = Nobody]
  /\ seen' = [seen EXCEPT ![w] = Nobody]

\* The terminal event, with the usage that is durable by now, and the end of the run.
Conclude(w, kind) ==
  LET k == key[w] IN
  /\ Accepts(log[k], Event(kind, CallsRecorded(log[k])))
  /\ Put(k, Event(kind, CallsRecorded(log[k])))
  /\ Leave(w)
  /\ UNCHANGED <<fanout, product, cached, extractions, patches, base, effective, authority, paid, crashes>>

\* An event that the saga appends on its way.
Checkpoint(w, e, next) ==
  /\ Accepts(log[key[w]], e)
  /\ Put(key[w], e)
  /\ Goto(w, next)

-----------------------------------------------------------------------------
(* Recovery.                                                               *)

\* Begin a request, or the maintenance at start-up, which only recovers.
Begin(w, k) ==
  /\ w \in Serving /\ pc[w] = "idle" /\ holder = Nobody
  /\ holder' = w /\ key' = [key EXCEPT ![w] = k]
  /\ Goto(w, "recover")
  /\ UNCHANGED <<durable, authority, budget, seen, paid, crashes>>

\* _route_publication_prepared: where the product stands against the announced hashes.
PreparedRoute(k) ==
  LET announced == Detail(log[k], "publication_prepared") IN
  IF product = announced.new THEN "published"
  ELSE IF product = announced.old THEN "unpublished" ELSE "conflict"

\* Mutant: an orphan was not published, whatever the product says.
RecoversBlindly(k) ==
  IF k \in patches /\ ~Has(log[k], "supplement_persisted")
    THEN Event("supplement_persisted", k)
    ELSE Event("reextract_interrupted", CallsRecorded(log[k]))

\* The next event that recover_interrupted_attempts derives for an orphan from the
\* supplement log, the product and the announced hashes.
Recovers(k) ==
  LET history == log[k] IN
  IF k \in patches /\ ~Has(history, "supplement_persisted")
    THEN Event("supplement_persisted", k)
  ELSE IF k \in patches /\ k \in product.of
    THEN Event("requirements_published", product)
  ELSE IF Has(history, "publication_prepared") /\ PreparedRoute(k) = "published"
    THEN Event("requirements_published", product)
  ELSE IF Has(history, "publication_prepared") /\ PreparedRoute(k) = "conflict"
    THEN Event("reextract_aborted_stale", CallsRecorded(history))
  ELSE Event("reextract_interrupted", CallsRecorded(history))

\* An attempt that recovery ends or completes; one with a publication it leaves alone.
Orphan(k) == Lifecycle(log[k]) = "executing" /\ ~Has(log[k], "requirements_published")

\* The budget outbox first: recover_claim_budget_checkpoint_outbox.
RecoverFanout(w) ==
  /\ pc[w] = "recover"
  /\ ReplayQueue \/ ReplayVerifier \/ ReplayEnd
  /\ UNCHANGED <<product, cached, extractions, patches, base, effective, authority, holder, pc, private, paid, crashes>>

Recover(w) ==
  /\ pc[w] = "recover" /\ outbox = Nobody
  /\ \E k \in Keys : Orphan(k) /\ Put(k, Recovers(k))
  /\ UNCHANGED <<fanout, product, cached, extractions, patches, base, effective, authority, holder, pc, private, paid, crashes>>

Recovered(w) ==
  /\ pc[w] = "recover" /\ outbox = Nobody /\ \A k \in Keys : ~Orphan(k)
  /\ \/ Goto(w, "admit") /\ UNCHANGED <<fanout, holder, private>>
     \/ Leave(w)
  /\ UNCHANGED <<durable, authority, paid, crashes>>

-----------------------------------------------------------------------------
(* Admission.                                                              *)

\* _ensure_terminal_attempt_projection: the queue is folded again, or that fails and
\* the request can be repeated.
Project(w) ==
  /\ Leave(w)
  /\ \/ UNCHANGED <<effective, fanout>>
     \/ effective' \in {effective, SnapshotNow} /\ RecoverClaims
  /\ UNCHANGED <<log, product, cached, extractions, patches, base, authority, paid, crashes>>

\* A request whose attempt has ended is answered from the log.
Replay(w) ==
  /\ pc[w] = "admit" /\ Ended(log[key[w]])
  /\ IF Lifecycle(log[key[w]]) = "succeeded"
       THEN Project(w)
       ELSE Leave(w) /\ UNCHANGED <<durable, authority, paid, crashes>>

\* Mutant: the lock is kept for the rebuild.
ResumeHolding(w) ==
  /\ pc[w] = "admit" /\ Lifecycle(log[key[w]]) = "rebuild_pending"
  /\ Detail(log[key[w]], "requirements_published") = product
  /\ Goto(w, "rebuild")
  /\ UNCHANGED <<durable, authority, holder, private, paid, crashes>>

\* Mutant: the rebuild gets a budget of its own.
ResumeWithBudget(w) ==
  /\ pc[w] = "admit" /\ Lifecycle(log[key[w]]) = "rebuild_pending"
  /\ Detail(log[key[w]], "requirements_published") = product
  /\ Goto(w, "rebuild") /\ holder' = Nobody
  /\ budget' = [budget EXCEPT ![w] = 0]
  /\ UNCHANGED <<durable, authority, key, seen, paid, crashes>>

\* Only the rebuild is left to do, if what was published is still the product.
Resume(w) ==
  /\ pc[w] = "admit" /\ Lifecycle(log[key[w]]) = "rebuild_pending"
  /\ Detail(log[key[w]], "requirements_published") = product
  /\ Goto(w, "rebuild") /\ holder' = Nobody
  /\ UNCHANGED <<durable, authority, private, paid, crashes>>

ResumeStale(w) ==
  /\ pc[w] = "admit" /\ Lifecycle(log[key[w]]) = "rebuild_pending"
  /\ Detail(log[key[w]], "requirements_published") # product
  /\ Conclude(w, "reextract_aborted_stale")

\* The request is for an attempt without a record, of a proposal that no other attempt
\* owns, in a current snapshot.
Admissible(k) ==
  /\ log[k] = {}
  /\ \A o \in Keys : SameProposal(k, o) => ~Live(log[o])
  /\ Fresh

\* Mutant: any attempt that is not executing lets a new one in.
StartBesidePending(w) ==
  /\ pc[w] = "admit" /\ log[key[w]] = {} /\ Fresh
  /\ \A o \in Keys : SameProposal(key[w], o) => Lifecycle(log[o]) # "executing"
  /\ RecoverClaims
  /\ Put(key[w], Event("reextract_started", SnapshotNow))
  /\ budget' = [budget EXCEPT ![w] = 0]
  /\ Goto(w, "pay")
  /\ UNCHANGED <<product, cached, extractions, patches, base, effective, authority, holder, key, seen, paid, crashes>>

\* The start event carries what the proposal was made from.
Start(w) ==
  /\ pc[w] = "admit" /\ Admissible(key[w])
  /\ RecoverClaims
  /\ Put(key[w], Event("reextract_started", SnapshotNow))
  /\ budget' = [budget EXCEPT ![w] = 0]
  /\ Goto(w, "pay")
  /\ UNCHANGED <<product, cached, extractions, patches, base, effective, authority, holder, key, seen, paid, crashes>>

\* Another attempt is live, the snapshot is not current, or this attempt is "already
\* executing or interrupted".
Refuse(w) ==
  /\ pc[w] = "admit"
  /\ \/ log[key[w]] = {} /\ ~Admissible(key[w])
     \/ Lifecycle(log[key[w]]) = "executing"
     \/ Blocked
  /\ Leave(w)
  /\ UNCHANGED fanout \/ RecoverClaims
  /\ UNCHANGED <<log, product, cached, extractions, patches, base, effective, authority, paid, crashes>>

-----------------------------------------------------------------------------
(* Paid calls.  A call is reserved in the log before it is sent.           *)

Fate(w) == log[key[w]]

Published(w) == Has(Fate(w), "requirements_published")

\* Mutant: the reservation stays in memory.
ReserveInMemory(w) ==
  /\ pc[w] = "pay" /\ budget[w] < MaxCalls
  /\ budget' = [budget EXCEPT ![w] = @ + 1]
  /\ Goto(w, "sent")
  /\ UNCHANGED <<durable, authority, holder, key, seen, paid, crashes>>

\* The extraction has the queue's checkpoint for itself.
Reserve(w) ==
  /\ pc[w] = "pay" /\ budget[w] < MaxCalls
  /\ Checkpoint(w, BudgetEvent(budget[w] + 1), "sent")
  /\ budget' = [budget EXCEPT ![w] = @ + 1]
  /\ UNCHANGED <<fanout, product, cached, extractions, patches, base, effective, authority, holder, key, seen, paid, crashes>>

Send(w) ==
  /\ pc[w] = "sent" /\ Goto(w, "settle")
  /\ paid' = [paid EXCEPT ![key[w]] = @ + 1]
  /\ UNCHANGED <<durable, authority, holder, private, crashes>>

\* The answer, or its failure, is settled; another call may follow.
Settle(w) ==
  /\ pc[w] = "settle" /\ ~Published(w)
  /\ Checkpoint(w, BudgetEvent(budget[w]), "pay")
  /\ UNCHANGED <<fanout, product, cached, extractions, patches, base, effective, authority, holder, private, paid, crashes>>

Answered(w) ==
  /\ pc[w] = "pay" /\ budget[w] > 0
  /\ Goto(w, IF Functional THEN "supplement" ELSE "revalidate")
  /\ UNCHANGED <<durable, authority, holder, private, paid, crashes>>

-----------------------------------------------------------------------------
(* Publication, under the extraction lock.                                 *)

\* The new functional product: the rows of the clause families that were extracted again
\* are replaced, other rows are kept; these families are the same for each request of a
\* proposal.
Merged(w) ==
  {[product EXCEPT !.of = kept \cup {key[w]}] :
     kept \in SUBSET {k \in product.of : ~SameProposal(k, key[w])}}

\* The new atomic product: all patches, applied to what the product is now.
Patched(w) == [product EXCEPT !.of = @ \cup patches \cup {key[w]}]

Supplement(w) ==
  /\ pc[w] = "supplement"
  /\ Checkpoint(w, Event("supplement_persisted", key[w]),
                IF Functional THEN "revalidate" ELSE "replace")
  /\ UNCHANGED <<fanout, product, cached, extractions, patches, base, effective, authority, holder, private, paid, crashes>>

\* The second compare of _validate_current_proposal.  A new adjudication may be one of
\* another claim.
Revalidate(w) ==
  /\ pc[w] = "revalidate" /\ Fresh
  /\ LET was == Detail(Fate(w), "reextract_started") IN
     effective.product = was.product /\ effective.reviews = was.reviews
  /\ RecoverClaims
  /\ Goto(w, IF Functional THEN "prepare" ELSE "patch")
  /\ UNCHANGED <<log, product, cached, extractions, patches, base, effective, authority, holder, private, paid, crashes>>

RevalidateConflict(w) ==
  /\ pc[w] = "revalidate" /\ Fresh
  /\ effective # Detail(Fate(w), "reextract_started")
  /\ Conclude(w, "reextract_aborted_stale")

\* publication_prepared: what the product is and what it is going to be.  The cache forgets
\* the product that is about to be replaced.
Prepare(w) ==
  /\ pc[w] = "prepare"
  /\ \E new \in Merged(w) :
       /\ Checkpoint(w, Event("publication_prepared", [old |-> product, new |-> new]), "replace")
       /\ seen' = [seen EXCEPT ![w] = new]
  /\ cached' = {p \in cached : p.edition # product.edition}
  /\ UNCHANGED <<fanout, product, extractions, patches, base, effective, authority, holder, key, budget, paid, crashes>>

\* _append_patch_once
Patch(w) ==
  /\ pc[w] = "patch" /\ Goto(w, "supplement")
  /\ patches' = patches \cup {key[w]}
  /\ UNCHANGED <<fanout, log, product, cached, extractions, base, effective, authority, holder, private, paid, crashes>>

Replace(w) ==
  /\ pc[w] = "replace" /\ Goto(w, "publish")
  /\ product' = IF Functional THEN seen[w] ELSE Patched(w)
  /\ seen' = [seen EXCEPT ![w] = Nobody]
  /\ UNCHANGED <<fanout, log, cached, extractions, patches, base, effective, authority, holder, key, budget, paid, crashes>>

\* The patches do not apply to the requirements as they are.
Unapplied(w) ==
  /\ pc[w] = "replace" /\ ~Functional
  /\ Conclude(w, "reextract_aborted_stale")

Publish(w) ==
  /\ pc[w] = "publish"
  /\ Checkpoint(w, Event("requirements_published", product), "derive")
  /\ UNCHANGED <<fanout, product, cached, extractions, patches, base, effective, authority, holder, private, paid, crashes>>

\* What is derived in the critical section, a row of the cache included; a failure is only
\* a warning.
Derive(w) ==
  /\ pc[w] = "derive" /\ Goto(w, "rebuild")
  /\ holder' = Nobody
  /\ cached' = cached \/ (Functional /\ cached' = cached \cup {product})
  /\ \/ UNCHANGED <<fanout, base, effective>>
     \/ Functional /\ base' = BaseNow /\ effective' \in {NoFold, SnapshotNow}
  /\ UNCHANGED <<fanout, log, product, extractions, patches, authority, private, paid, crashes>>

\* Mutant: what went wrong once the product was replaced is a failure too.
FailAnywhere(w) ==
  /\ pc[w] \in {"pay", "supplement", "revalidate", "prepare", "patch", "replace", "publish"}
  /\ Conclude(w, "reextract_failed")

\* An exception before the publication is on record.  With an announced product that
\* has been replaced it is not a failure.
Fail(w) ==
  /\ pc[w] \in {"pay", "supplement", "revalidate", "prepare", "patch", "replace", "publish"}
  /\ ~(Functional /\ pc[w] = "publish")
  /\ Conclude(w, "reextract_failed")

-----------------------------------------------------------------------------
(* _finish_rebuild, outside the extraction lock until it finalizes.        *)

\* require_published_attempt
IsPublished(w) ==
  /\ Published(w) /\ Detail(Fate(w), "requirements_published") = product
  /\ Ended(Fate(w)) => Has(Fate(w), "reextract_succeeded")

\* _current_published_base; a base that cannot be read counts as none.
Rebuild(w) ==
  /\ pc[w] = "rebuild" /\ IsPublished(w)
  /\ \/ base.product = product /\ RecoverClaims /\ Goto(w, "finalize")
     \/ /\ \/ base.product # product /\ RecoverClaims
           \/ Blocked /\ UNCHANGED fanout
        /\ Goto(w, IF Functional THEN "republish" ELSE "acquire")
  /\ UNCHANGED <<log, product, cached, extractions, patches, base, effective, authority, holder, private, paid, crashes>>

\* republish_functional_claim_shadow takes no lock.
Republish(w) ==
  /\ pc[w] = "republish" /\ Goto(w, "finalize")
  /\ base' = BaseNow /\ effective' \in {NoFold, SnapshotNow}
  /\ UNCHANGED <<fanout, log, product, cached, extractions, patches, authority, holder, private, paid, crashes>>

\* refresh_claim_shadow for this attempt: the committed base is the one it started from.
Acquire(w) ==
  /\ pc[w] = "acquire" /\ holder = Nobody
  /\ IsPublished(w) /\ base.product = Detail(Fate(w), "reextract_started").product
  /\ RecoverClaims
  /\ holder' = w /\ Goto(w, "enter")
  /\ UNCHANGED <<log, product, cached, extractions, patches, base, effective, authority, private, paid, crashes>>

\* The refresh failed, and somebody else has published the base meanwhile.
Overtaken(w) ==
  /\ pc[w] = "acquire" /\ IsPublished(w) /\ base.product = product
  /\ RecoverClaims /\ Goto(w, "finalize")
  /\ UNCHANGED <<log, product, cached, extractions, patches, base, effective, authority, holder, private, paid, crashes>>

-----------------------------------------------------------------------------
(* The verifier's scope, claim_verifier_attempt_scope: a rebuild with the  *)
(* budget of the request reports to both accounts; one that was resumed or *)
(* whose verifier is switched off has no budget and pays nothing.          *)

Budgeted(w) == budget[w] # Nobody /\ VerifierOn

Account(w) == IF Budgeted(w) THEN key[w] ELSE Nobody

CallsSoFar(w) == IF Budgeted(w) THEN budget[w] ELSE 0

EnterScope(w) ==
  /\ pc[w] = "enter"
  /\ BeginScope(w, Account(w), CallsSoFar(w))
  /\ Goto(w, IF Budgeted(w) THEN "attach" ELSE "refresh")
  /\ UNCHANGED <<log, product, cached, extractions, patches, base, effective, authority, holder, private, paid, crashes>>

\* The scope fails before it has a checkpoint file: the failed attempt is booked
\* directly, if it can be.
EnterFails(w) ==
  /\ pc[w] = "enter" /\ Leave(w)
  /\ rows' \in {rows, rows \cup Row(Account(w), CallsSoFar(w))}
  /\ UNCHANGED <<outbox, wal, log, product, cached, extractions, patches, base, effective, authority, paid, crashes>>

\* swap_checkpoint: the new owner is handed the accounting as it is.
AttachScope(w) ==
  /\ pc[w] = "attach" /\ Goto(w, "settled")
  /\ WriteOutbox(key[w], budget[w])
  /\ UNCHANGED <<log, product, cached, extractions, patches, base, effective, authority, holder, private, paid, crashes>>

\* A reservation whose outbox cannot be written is rolled back and leaves no trace.
ReserveInScope(w) ==
  /\ pc[w] = "refresh" /\ Budgeted(w) /\ budget[w] < MaxCalls
  /\ WriteOutbox(key[w], budget[w] + 1)
  /\ budget' = [budget EXCEPT ![w] = @ + 1]
  /\ Goto(w, "reserved")
  /\ UNCHANGED <<log, product, cached, extractions, patches, base, effective, authority, holder, key, seen, paid, crashes>>

\* The settlement of a call, or its checkpoint cannot be written and the verifier
\* counts a failed operation.
SettleInScope(w) ==
  /\ pc[w] = "settle" /\ Published(w)
  /\ \/ WriteOutbox(key[w], budget[w]) /\ Goto(w, "settled")
     \/ UNCHANGED fanout /\ Goto(w, "refresh")
  /\ UNCHANGED <<log, product, cached, extractions, patches, base, effective, authority, holder, private, paid, crashes>>

\* _recover_budget_checkpoint_outbox_unlocked in the callback, or while the scope
\* records its failure.
ReplayInScope(w) ==
  /\ \/ pc[w] \in {"reserved", "settled", "unwind"} /\ ReplayQueue /\ UNCHANGED pc
     \/ pc[w] \in {"reserved", "settled", "unwind"} /\ ReplayVerifier /\ UNCHANGED pc
     \/ pc[w] = "reserved" /\ ReplayEnd /\ Goto(w, "sent")
     \/ pc[w] = "settled"  /\ ReplayEnd /\ Goto(w, "refresh")
     \/ pc[w] = "unwind"   /\ ReplayEnd /\ UNCHANGED pc
  /\ UNCHANGED <<product, cached, extractions, patches, base, effective, authority, holder, private, paid, crashes>>

\* The callback raises with the outbox written (mark_budget_checkpoint_durable): the
\* call stays counted and is not sent.  The verifier counts a failed operation and goes on;
\* a failed hand-over ends the scope.
TransitionFails(w) ==
  /\ pc[w] \in {"reserved", "settled"}
  /\ Goto(w, "refresh") \/ Goto(w, "unwind")
  /\ UNCHANGED <<durable, authority, holder, private, paid, crashes>>

\* The publication discards the checkpoint file and books the attempt with the budget's
\* count; it is refused while an outbox is there.  On the way out the queue's owner is put
\* back and reports once more, if it can.
RefreshBase(w) ==
  /\ pc[w] = "refresh" /\ outbox = Nobody /\ Goto(w, "finalize")
  /\ base' = BaseNow /\ effective' \in {NoFold, SnapshotNow}
  /\ holder' = Nobody
  /\ EndScope
  /\ \/ UNCHANGED log
     \/ Budgeted(w) /\ Put(key[w], BudgetEvent(budget[w]))
  /\ UNCHANGED <<product, cached, extractions, patches, authority, private, paid, crashes>>

\* The verifier or the publication raises.
ScopeFails(w) ==
  /\ pc[w] \in {"attach", "refresh"} /\ Goto(w, "unwind")
  /\ UNCHANGED <<durable, authority, holder, private, paid, crashes>>

\* _record_failed_attempt_from_scope, once the outbox is replayed.
Unwind(w) ==
  /\ pc[w] = "unwind" /\ outbox = Nobody /\ Leave(w)
  /\ EndScope
  /\ UNCHANGED <<log, product, cached, extractions, patches, base, effective, authority, paid, crashes>>

\* The failure cannot be recorded.  The queue's owner is put back all the same.
UnwindFails(w) ==
  /\ pc[w] = "unwind" /\ Leave(w)
  /\ Abandon(w)
  /\ \/ UNCHANGED log
     \/ Budgeted(w) /\ Put(key[w], BudgetEvent(budget[w]))
  /\ UNCHANGED <<product, cached, extractions, patches, base, effective, authority, paid, crashes>>

-----------------------------------------------------------------------------
(* The end of _finish_rebuild, under the extraction lock.                  *)

Finalize(w) ==
  /\ pc[w] = "finalize" /\ holder = Nobody
  /\ holder' = w /\ Goto(w, "load")
  /\ UNCHANGED <<durable, authority, private, paid, crashes>>

\* Without a snapshot of the committed base the base is put on record and folded.
LoadNothing(w) ==
  /\ pc[w] = "load" /\ effective = NoFold
  /\ IsPublished(w) /\ base.product = product
  /\ RecoverClaims
  /\ Checkpoint(w, Event("base_rebuild_published", base), "fold")
  /\ UNCHANGED <<product, cached, extractions, patches, base, effective, authority, holder, private, paid, crashes>>

Fold(w) ==
  /\ pc[w] = "fold" /\ Goto(w, "load")
  /\ effective' = SnapshotNow /\ RecoverClaims
  /\ UNCHANGED <<log, product, cached, extractions, patches, base, authority, holder, private, paid, crashes>>

Load(w) ==
  /\ pc[w] = "load" /\ effective # NoFold /\ Fresh
  /\ RecoverClaims
  /\ Goto(w, "base")
  /\ seen' = [seen EXCEPT ![w] = [base |-> base, effective |-> effective]]
  /\ UNCHANGED <<log, product, cached, extractions, patches, base, effective, authority, holder, key, budget, paid, crashes>>

RecordBase(w) ==
  /\ pc[w] = "base"
  /\ Checkpoint(w, Event("base_rebuild_published", seen[w].base), "folded")
  /\ UNCHANGED <<fanout, product, cached, extractions, patches, base, effective, authority, holder, private, paid, crashes>>

RecordFold(w) ==
  /\ pc[w] = "folded"
  /\ Checkpoint(w, Event("effective_folded", seen[w].effective), "succeed")
  /\ UNCHANGED <<fanout, product, cached, extractions, patches, base, effective, authority, holder, private, paid, crashes>>

Succeed(w) ==
  /\ pc[w] = "succeed"
  /\ Checkpoint(w, Event("reextract_succeeded", CallsRecorded(Fate(w))), "project")
  /\ UNCHANGED <<fanout, product, cached, extractions, patches, base, effective, authority, holder, private, paid, crashes>>

Succeeded(w) == pc[w] = "project" /\ Project(w)

\* A refusal of the lock, of a read or of an append after the publication, or in
\* recovery: the executor raises and the attempt stays as it is.
Falter(w) ==
  /\ \/ pc[w] \in {"recover", "rebuild", "republish", "acquire", "finalize",
                   "load", "fold", "base", "folded", "succeed"}
     \/ pc[w] = "publish" /\ Functional
  /\ Leave(w)
  /\ UNCHANGED <<durable, authority, paid, crashes>>

-----------------------------------------------------------------------------
(* What goes on beside the executors.                                      *)

\* A process dies; the lease of a dead process is removed by whoever wants it next.
Crash(w) ==
  /\ pc[w] # "idle" /\ crashes < MaxCrashes
  /\ crashes' = crashes + 1
  /\ Leave(w)
  /\ Abandon(w)
  /\ UNCHANGED <<log, product, cached, extractions, patches, base, effective, authority, paid>>

\* A full extraction comes to a product of its own.
Extract == extractions < MaxEditions /\ extractions' = extractions + 1

NewEdition(of) == [edition |-> extractions + 1, of |-> of]

\* The full atomic extraction, under the lock: the patches are applied again as far as they
\* fit.
FullExtraction ==
  /\ holder = Nobody /\ ~Functional
  /\ Extract /\ \E of \in SUBSET patches : product' = NewEdition(of)
  /\ UNCHANGED <<fanout, log, cached, patches, base, effective, authority, holder, pc, private, paid, crashes>>

\* The functional extraction, under the lock, of inputs that are not in the cache; they are
\* put there if that can be done.
FunctionalExtraction ==
  /\ holder = Nobody /\ Functional
  /\ Extract /\ product' = NewEdition({})
  /\ cached' = cached \/ cached' = cached \cup {product'}
  /\ UNCHANGED <<fanout, log, patches, base, effective, authority, holder, pc, private, paid, crashes>>

\* The functional extraction of inputs that are in the cache: it restores a product that
\* has been removed, the merged results with it.  What is attached to the rows on the way
\* may give the file other bytes.
Restore ==
  /\ holder = Nobody /\ Functional
  /\ Extract
  /\ \E row \in cached :
       \/ product' = row /\ UNCHANGED cached
       \/ product' = NewEdition(row.of) /\ cached' = (cached \ {row}) \cup {product'}
  /\ UNCHANGED <<fanout, log, patches, base, effective, authority, holder, pc, private, paid, crashes>>

\* The claim base is published again from what is there, under the lock; its fold may
\* fail.
Refresh ==
  /\ holder = Nobody
  /\ RecoverClaims
  /\ base' = BaseNow /\ effective' \in {NoFold, SnapshotNow}
  /\ UNCHANGED <<log, product, cached, extractions, patches, authority, holder, pc, private, paid, crashes>>

\* A requirement is reviewed, under the lock.
Review ==
  /\ holder = Nobody /\ reviews < MaxReviews
  /\ reviews' = reviews + 1
  /\ UNCHANGED <<durable, decisions, holder, pc, private, paid, crashes>>

\* An expert adjudicates a claim: the claim event log has no part in the lock.
Decide ==
  /\ decisions < MaxDecisions /\ decisions' = decisions + 1
  /\ RecoverClaims
  /\ UNCHANGED <<log, product, cached, extractions, patches, base, effective, reviews, holder, pc, private, paid, crashes>>

\* fold_effective_ledger, which the review actions and the coordinator call.
FoldNow ==
  /\ effective' = SnapshotNow
  /\ RecoverClaims
  /\ UNCHANGED <<log, product, cached, extractions, patches, base, authority, holder, pc, private, paid, crashes>>

Executor(w) ==
  \/ \E k \in Keys : Begin(w, k)
  \/ RecoverFanout(w) \/ Recover(w) \/ Recovered(w) \/ Replay(w) \/ Resume(w) \/ ResumeStale(w) \/ Start(w) \/ Refuse(w)
  \/ Reserve(w) \/ Send(w) \/ Settle(w) \/ Answered(w)
  \/ Supplement(w) \/ Revalidate(w) \/ RevalidateConflict(w) \/ Prepare(w) \/ Patch(w)
  \/ Replace(w) \/ Unapplied(w) \/ Publish(w) \/ Derive(w) \/ Fail(w)
  \/ Rebuild(w) \/ Republish(w) \/ Acquire(w) \/ Overtaken(w)
  \/ EnterScope(w) \/ EnterFails(w) \/ AttachScope(w) \/ ReserveInScope(w) \/ SettleInScope(w)
  \/ ReplayInScope(w) \/ TransitionFails(w) \/ RefreshBase(w)
  \/ ScopeFails(w) \/ Unwind(w) \/ UnwindFails(w)
  \/ Finalize(w) \/ LoadNothing(w) \/ Fold(w) \/ Load(w)
  \/ RecordBase(w) \/ RecordFold(w) \/ Succeed(w) \/ Succeeded(w) \/ Falter(w)

AttemptStep ==
  \/ \E w \in Executors : Executor(w) \/ Crash(w)
  \/ FullExtraction \/ FunctionalExtraction \/ Restore
  \/ Refresh \/ Review \/ Decide \/ FoldNow

AttemptNext == AttemptStep /\ UNCHANGED setting

AttemptSpec == AttemptInit /\ [][AttemptNext]_attemptVars

-----------------------------------------------------------------------------
(* Properties.                                                             *)

\* The places of an executor inside the extraction lock, and outside it.
Locked == {"recover", "admit", "pay", "sent", "settle", "supplement", "revalidate", "prepare",
           "patch", "replace", "publish", "derive", "enter", "attach", "refresh", "reserved",
           "settled", "unwind", "load", "fold", "base", "folded", "succeed", "project"}
Unlocked == {"idle", "rebuild", "republish", "acquire", "finalize"}

\* Types; and only an executor inside the critical sections of
\* execute_claim_queue_proposal and _finish_rebuild holds the extraction lock.
AttemptTypeOK ==
  /\ \A k \in Keys : Kinds(log[k]) \subseteq EventKinds
  /\ FanoutTypeOK
  /\ product \in Product /\ cached \subseteq Product /\ extractions \in 0..MaxEditions
  /\ patches \subseteq Keys
  /\ base \in Base /\ effective \in Snapshot \cup {NoFold}
  /\ key \in [Executors -> Keys \cup {Nobody}]
  /\ budget \in [Executors -> 0..MaxCalls \cup {Nobody}]
  /\ \A w \in Executors : pc[w] \in Locked \cup Unlocked /\ (holder = w <=> pc[w] \in Locked)

\* Over every crash, resumption and rebuild of an attempt, the calls that were sent
\* never exceed the maximum that its request was confirmed with.
PaidWithinBudget == \A k \in Keys : paid[k] <= MaxCalls

\* The usage in the terminal event of an attempt, whoever wrote it and after whatever
\* crash, accounts for every call that was sent (execute_claim_queue_proposal,
\* recover_interrupted_attempts).
UsageCoversPaid ==
  \A k \in Keys : \A e \in log[k] : e.kind \in Terminal => e.detail >= paid[k]

\* Neither the functional product nor one that the cache may restore holds the result of an
\* attempt that ended without its publication on record: what a user is told has failed or
\* was interrupted is not in the file, and does not come back to it.
UnpublishedStaysOut ==
  Functional => \A k \in Keys :
    Ended(log[k]) /\ ~Has(log[k], "requirements_published")
      => \A p \in {product} \cup cached : k \notin p.of

\* Recovery calls an attempt interrupted only while the product holds nothing of it:
\* a result that is paid for and published is never offered to be paid for again.
InterruptedIsUnpublished ==
  [][\A k \in Keys :
       Has(log'[k], "reextract_interrupted") /\ ~Has(log[k], "reextract_interrupted")
         => k \notin product.of]_attemptVars

\* The phase of an attempt in the terms of AttemptContract.
Phase(k) ==
  LET kinds == Kinds(log[k]) IN
  IF kinds = {} THEN "absent"
  ELSE IF "reextract_succeeded" \in kinds THEN "succeeded"
  ELSE IF kinds \cap Terminal # {} THEN "abandoned"
  ELSE IF "requirements_published" \in kinds THEN "published" ELSE "paying"

Contract == INSTANCE AttemptContract
  WITH phase <- [k \in Keys |-> Phase(k)], proposal <- setting.proposal

\* The saga implements AttemptContract: one owner of a proposal, one publication, no
\* success without it, and one end.
AttemptContractHolds == Contract!ContractSpec

\* "A fully published target is projected as rebuild_pending so recovery can continue
\* without another paid call" (recover_interrupted_attempts): once recovery is through,
\* a published attempt that has not ended is one that a request can resume.
PublishedCanResume ==
  \A w \in Executors : pc[w] = "admit" => \A k \in Keys :
    Has(log[k], "requirements_published") /\ ~Ended(log[k])
      => Lifecycle(log[k]) = "rebuild_pending"
=============================================================================
