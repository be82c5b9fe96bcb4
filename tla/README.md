# Verification of the requirement atomizer's paid and shared-state core

The program reads a specification document, extracts requirements from it with
paid calls to a language model, and lets experts review the result in a desktop
application.  Most of its code is text processing, which is sequential and well
covered by its unit tests.  What is hard to test is the part that threads,
processes and crashes share: the transport that pays for model calls, the locks
around the extraction results, the event logs, and the publications that must
survive a death between two files.  This project is about that part.

Contents: [inventory](#the-system) · [plan](#plan) · [modules and the
code](#modules-and-the-code) · [runs](#what-the-runs-check) ·
[bounds](#bounds-and-why-they-are-enough) · [fairness](#fairness) ·
[proofs](#proofs) · [observations](#observations) · [not modelled](#not-modelled)

## The system

A run of the pipeline is a sequence of *stages* (`desktop_tasks.py`) in one
process; a stage starts a pool of threads that call the model.  The API server
(`api_server.py`) is another process over the same output directory: its request
threads review, adjudicate, re-extract and export, and at start it repairs what
a dead process left.  Everything they share is a file, except for what the
threads of one process share in memory.

### Components

| Component | State it keeps | Operations | What makes it correct |
|---|---|---|---|
| 429 gate (`_AdaptiveRateGate`, `llm_client.py`) | in memory: limit, requests in flight, successes since the last change, pause | `acquire`, `release`, `on_rate_limited`, `on_success` | no slot is lost or counted twice; after a 429 the excess only drains; the gate never closes for good |
| request budget (`LLMRequestBudget`, `llm_client.py`) | calls, failures, tokens, reservations by call; a checkpoint on disk | `reserve`, `commit`, `fail`, `from_settled_snapshot`, checkpoint hand-over | never more than the confirmed calls and tokens, over crashes and restarts; the disk always covers what left |
| document budget ledger (`llm_budget.py`) | per stage: calls, tokens, reserved tokens; exhausted stages; NEEDS WORK mark; pending reservation of each thread; its file | `intercept`, `settle`, `charge_failed`, `mark_degraded`, attach and detach | what is reserved is in flight, or was left behind by a call that an exception took out; stage limits hold; reached limits and refusals are on record |
| transport (`_post_json`, `llm_client.py`) | per call: attempts, 429s, which account is settled | the retry loop over the three above | a paid answer is never asked for again; requests of one call are bounded; whatever raises, the accounts cover what left |
| extraction operation lock (`omission_actions.py`) | lock file with the holder's PID; a process lock per process | `extraction_operation_lock` with take-over of an abandoned lease | one operation at a time, across processes and deaths; a process lock is given back on every way out but two that are known |
| attempt log (`claim_reextract_attempts.py`) | append-only events by request key | append with its history rules, derived lifecycle, recovery | an attempt ends once; recovery tells how far it got |
| paid re-extraction (`claim_queue_execution.py`, `functional_reextract.py`) | attempt log, supplement, product, extraction cache, claim base, effective snapshot | request, paid calls, publication, rebuild, finalisation, replay | one owner per proposal, calls within the confirmed maximum, what has failed is neither in the product nor in the extraction cache |
| effective fold coordinator (`review_state.py`) | owner of the fold slot, dirty tracks, waiters, pass numbers | `cover` | a decision returns only after a fold that began after it; no track starves; a burst shares folds |
| claim reviews and effective ledger (`claim_review_actions.py`, `claim_effective_contract.py`) | event log with a hash chain, effective generation | adjudicate, fold, freshness | a fold publishes only what it derived from the authority that still holds |
| requirement review authority (`review_state.py`, `ai_review_actions.py`, `table_review_state.py`) | rows of decisions, review queue, projection | decide against an expected revision, merge with generated rows, repair of projections | no decision is lost or overwritten by an older one |
| claim ledger publication (`claim_artifacts.py`) | base and effective generations, their journals, the verifier's checkpoint file and the budget outbox | publish, recover | a generation is whole or absent |
| claim events journal and structural operations (`claim_events_journal.py`, `claim_structural_*.py`) | append-only chain; overrides and their confirmation | append, replay | a torn tail is cut, never read |
| result package (`result_package.py`) | published directory, journal with snapshots, marker | stage, install, mark, recover | after any death the old or the new package, never a mixture |
| run manifest and stage chain (`desktop_tasks.py`) | manifest, stage fingerprints, manifest lock | run, reuse, invalidate, cancel | a stage is reused only if nothing before it changed |
| job runner and paid cache (`llm_job_runner.py`, `paid_cache_store.py`, `process_file_lock.py`) | cache file, torn-tail repair, file lock | lookup, call, record | a paid answer is not lost and not paid twice |
| orchestration loop (`orchestration_loop.py`, `agent_loop.py`, `decide_trace.py`) | round counter, append-only trace, age-based lock | observe, decide, act, stop | bounded rounds; one loop per document |
| API server (`api_server.py`) | locks per directory, start-up maintenance | request handlers | refuses what the lock refuses |
| full translation, analysis, composition | caches and results of batches of calls | sequential batches | covered by transport and cache |
| parsing, extraction guards, coverage, export, knowledge base, user interface | none that is shared | functions of a document | their own tests |

`PROJECT.json` lists these with their sources and status.

### How they interact

    stage threads ──_post_json──► DocumentLedger.intercept ─► LLMRequestBudget.reserve
                                  ─► gate.acquire ─► HTTP ─► commit ─► settle ─► on_success
                                  finally: fail ─► charge_failed ─► gate.release
    LLMRequestBudget ──checkpoint──► attempt log (budget_checkpoint)   [calls of a re-extraction]
    execute_claim_queue_proposal ──extraction_operation_lock──► product, supplement, attempt log
                                 ──without the lock──► base rebuild ──lock──► finalisation, fold
    expert decision ──durable row──► cover() ──one fold pass for many──► fold_effective_ledger
    full extraction, targeted extraction, requirement review ──► extraction_operation_lock

### What is hard here

* *Two accounts and a gate, three locks, one request.*  Each of the three can
  refuse or raise, at seven places of one loop, and the clean-up runs in a
  `finally` clause that can itself raise.
* *Crashes between durable writes.*  A re-extraction makes ten of them.
  Recovery decides from what it finds, and a wrong guess either pays twice or
  tells the user that a published result failed.
* *Locks that outlive their holder.*  Four different lock files with three
  different rules for when a lock is stale.
* *Work outside the lock.*  The rebuild of the claim base is slow, so that the
  extraction lock is given back for it; the world may change in between.
* *Shared folds.*  A decision waits for a fold that another thread runs.

The hazards, each at its line and with the properties that cover it, are in
`PROJECT.json`.

## Plan

Done, in this order, the most expensive mistakes first:

1. `RateGate`, `RateGateClients` — the gate and the discipline of its callers.
2. `RequestBudget` — the hard budget with crash and resumption.
3. `DocumentLedger`, `LedgerRuns` — the budget ledger of a document.
4. `PostJson` — composes 1 to 3 as the retry loop does; implements
   `RateGateClients`.
5. `OperationLease` — the extraction lock, system call by system call.
6. `AttemptLog`, `BudgetFanout`, `ClaimAttempt`, `AttemptContract` — the re-extraction
   saga and its two accounts; implements the contract.
7. `EffectiveFold` — the fold coordinator.
8. `PackagePublication`, `AtomicPackage` — the publication of the deliverables
   and its recovery; implements the abstract package.
9. `ClaimSnapshots` — base generations, effective snapshots, decisions and
   lock-free reads over the two journals.
10. Proofs for 1 to 9: every safety property that their runs check.

Next, in this order:

1. `PaidCache` with the job runner: `lookup` repairs without the lock what
   `record_many` replaces under it.
2. `WaitingLocks`: the locks that wait, with their rules for stale locks
   (`_file_lock` of `omission_actions.py`, `orchestration_loop.py`,
   `desktop_tasks.py`).
3. `StageChain`: reuse of stages by fingerprint, with cancellation and restart.
4. `OrchestrationLoop`: round limits, trace and lock.

## Modules and the code

A definition's source lines are in `PROJECT.json` under `map`.  A definition
whose comment begins with "Mutant:" is not part of a specification: it is the
definition beside it as a plausible mistake would have it, and the properties of
the runs are there to tell the two apart.

**`RateGate`** is the state of `_AdaptiveRateGate`: `limit`, `active`,
`successes`, and `paused` for `_pause_until`.  `Acquire` is the exit of the polling
loop, `Release`, `OnRateLimited` and `OnSuccess` are the methods, `PauseExpires` is
the clock.  **`RateGateClients`** adds the threads (`Workers`), and is at the same time the
abstract specification of how a caller has to use the gate.

**`RequestBudget`** has what `LLMRequestBudget` keeps in memory, the last
snapshot that its checkpoint made durable, and per thread the reservation
that it will settle.  `reserve()` is four actions: granted; refused; rolled
back because the checkpoint raised; and stranded, where it raised but the
snapshot was durable already.  `BudgetCrash` and `Restore` are a death and
`from_settled_snapshot`.  `issued` and `exposure` are history: what really left.

**`DocumentLedger`** holds the operations of `llm_budget.py`, each with its
threshold evaluation and its checkpoint, which may fail to reach the disk.
**`LedgerRuns`** is the life of a ledger: a run of the pipeline attaches it, threads
use it, the run ends or dies.  `Abandon` is a call that an exception takes past both
`settle` and `charge_failed`; the thread keeps its pending reservation until its next
`intercept`, which has no guard against it and forgets it, in the next run as well.
`stray` is history: what such calls had reserved.

**`PostJson`** is `_post_json`.  `pc` is the place of a thread in the loop; each
action is what happens between two points where another thread or an
exception can come in.  `ReserveRaises`, `CommitRaises`, `FailRaises` and
`HookRefuses` are the exceptions.  The three components are instantiated and their
actions conjoined, so that the composition uses exactly the definitions that are
checked alone.

**`OperationLease`** is `extraction_operation_lock`: `os.open` with `O_EXCL`, the
probe of an existing lease (`stat`, `read`, verdict, `unlink`), the write of the
PID, `close`, `unlink`, release of the process lock.  `platform` is what `unlink`
does to an open file.  `RequestRaises` is the resolution of the lock file's path, which is
made with the process lock acquired and before the `try` statement; `Fails` is every error
within it.  `kept` has the threads whose call has left with the process lock; the lock is
an `RLock`, which lets the same thread in again and everybody else of its process never.
History: `raced`, a thread removed another file than the one it took the age of, and
`overslept`, a lock file has aged before its writer, alive, put its PID into it.

**`AttemptLog`** has the rules by which an append to the attempt log is accepted
and the lifecycle that a history stands for.  **`ClaimAttempt`** is the saga over it,
with one step per durable write: admission, paid calls, publication, rebuild,
finalisation; recovery at the start of a request and at start-up; and, beside the
executors, full extractions, refreshes, reviews, adjudications and folds.
`Functional` chooses between the two kinds of product.  A request is for a proposal
(`SameProposal`), and admission looks only at attempts for that one, as the code does: attempts
for two proposals may overlap from the publication on, and one merges its rows with those
that the other has published (`Merged`, any part of which may be kept).  `FullExtraction` is the
atomic one, which applies the patches again; `FunctionalExtraction` and `Restore` are the
functional one, without and with a row in the extraction cache.  `Restore` stands for
the removal of the product and the extraction that puts the cached one back, with
the results that were merged into it; `cached` loses a product when it is about to be
replaced and gains one after a publication.  **`BudgetFanout`** has the
two accounts of what the verifier of the atomic rebuild pays: the attempt log and the
verifier's checkpoint file (`wal`), which becomes a row of the verifier ledger.  A
transition is an outbox, the two writes and the removal of the outbox, each a step; it is
replayed by the callback that wrote it, by the scope that records its own failure
(`"unwind"`), or by the recovery at the start of the next request.  `RecoverClaims` is what
every writer of the claims does first: it is refused while the outbox or a live checkpoint
file is there, and books an abandoned file.  A checkpoint is its number of calls, so that a
settlement repeats the one of its reservation; what the outbox accepts beyond that is
`OutboxAccepts` in `RequestBudget`.  **`AttemptContract`**
is what a proposal is promised, in four phases, for any number of proposals.

**`EffectiveFold`** is `_EffectiveFoldCoordinator.cover`.  A decision is a call.
Everything between two releases of the condition's lock is one step: registering, a
turn of the wait loop (`Return`, `TakeSlot`, `Sleep`), the deadline (`Expire`), and the
owner's passes (`StartPass`, `EndPass`, `Leave`).  `notify_all` turns `asleep` into
`awake`.  `view` and `folded` are history: which decisions a pass read and which
are in a completed pass.  A fold that raised counts as completed, as in the code.

**`PackagePublication`** is `result_package.py` from the lock of a mutator to the
marker it leaves.  Every durable write is a step: a copy into the transaction, the
journal, each installed file, the marker, the removal of each backup and of the
journal.  `Recover` is what every mutator does first; `Abort` and `Falter` are the
`except` clause and an error in recovery or clean-up; `Produce` and `Edit` are the
stages, which write at any time, and the user, who edits a spreadsheet in
place.  Contents stand for their digests.  **`AtomicPackage`** is what whoever opens the
package may rely on: the list and the files change together.

**`ClaimSnapshots`** has the files of one claim as the two publications of
`claim_artifacts.py` write them.  A publication and a recovery are a list of writes
(`todo`), taken one by one by `Write`; `baseJournal` and `foldJournal` hold what a recovery
needs.  A fold (`claim_review_actions.py`) reads the authority in two parts and four
times (`ReadProduct`, then the step that `round` asks for), since the product and
the reviews change under other locks (`Change`).  `Decide` is an adjudication with its
compare-and-set.  The steps of `Read` are the reads of
`load_committed_effective_snapshot_readonly`, which takes no lock.  Three
simplifications: there is one claim; the authority that a decision is compared
with is read in one step; and a snapshot that is published a second time is equal to
the first, where the code gives it another run id, so that more reads succeed in
the model than in the code.

The `MC…` modules have only constants and symmetry sets.

## What the runs check

| Run | Shows |
|---|---|
| `rate_gate` | `ActiveCountsHolders`: the number the gate compares with its limit is the number of holders.  `ExcessOnlyDrains`: no admission above the limit.  `GateNeverStalls`: whoever waits, somebody is let through. |
| `request_budget` | `AuthorisationHolds`: over crashes and resumptions, never more calls than confirmed, nor more tokens while providers stay within their ceiling.  `DurableCoversTheWire`: write-ahead.  `DurableNeverRegresses` and `CheckpointsAcceptable`: the checkpoint only moves forward, one call at a time, and is one that the outbox accepts. |
| `document_ledger` | `ReservedIsInFlight`: a stage has reserved what its calls in flight reserved and what abandoned calls left; nothing else leaks, and nothing is given back twice.  `StageLimitsHold`: its limits hold against every interleaving.  `DegradationIsOnRecord`: a run that refused calls or fell back to a stub says so in its file.  `CheckpointsAddUp`: what is on disk only grows. |
| `post_json` | `PaidOnce`: no request after a valid answer.  `RequestsBounded`: the two retry budgets add up.  `LedgerCoversRequests`: whatever raises, the ledger covers what left.  `ImplementsGateClients`: the loop is a refinement of `RateGateClients`, and `EveryCallReturns`, both until an exception in a `finally` clause has skipped the rest of it (`skipped`; see the observations). |
| `operation_lease` | `OneOperationOnWindows`: where an open file keeps its name, one operation at a time is inside, with deaths, take-overs and suspended writers.  `OneOperationUnlessRaced`: elsewhere a second one gets in only after a thread unlinked another file than the one it took the age of, or a writer slept through the grace period before it wrote its PID.  `ProcessLockReturned`: on both platforms, a process lock is owned exactly by the thread that is inside or by one whose call left before the `try` statement or in the middle of the `finally` clause. |
| `lease_race` | Expected violation of `OneOperationOfPromptWriters` on POSIX: the first of the two ways in, the race, is real with writers that are never suspended and without a death. |
| `attempt` | `AttemptContractHolds`: the saga implements the contract, for one proposal and for two.  `PaidWithinBudget`: extraction and verifier share one maximum, over death and resumption.  `UsageCoversPaid`: the terminal event accounts for every call.  `AccountsAgree`: a row of the verifier ledger has the calls that the attempt log has, whatever died or failed between the two writes.  `OutboxCanBeReplayed`: nothing takes away what the replay of an outbox needs. `UnpublishedStaysOut`: an attempt that ended without its publication on record is neither in the functional product nor in one that the cache may restore, whatever other attempts, extractions and deaths come between.  `InterruptedIsUnpublished`: recovery never offers to pay again for a result that shows. `AttemptTypeOK`: the lock is held exactly in the critical sections. |
| `attempt_stuck` | Expected violation of `PublishedCanResume`: a death between `effective_folded` and `reextract_succeeded` leaves an attempt that nothing continues. |
| `effective_fold` | `CoverIsFresh`: an answered decision is in a completed fold.  `SingleFlight`.  `NeverMorePassesThanDecisions`: folds are shared.  `OvertakenAtMostOnce`: while a track waits, the other gets the slot once.  `EveryCoverReturns`, without help of the deadline. |
| `package_publication` | `ListedIsShown`: with no publication under way or interrupted, the root shows what the marker lists, but for what the user edited.  `PublicationIsAtomic`: the package as recovery would leave it implements `AtomicPackage`, over process deaths and errors at every write. |
| `package_stuck` | Expected violation of `NextWriteRecovers`: a death in the clean-up of a rollback leaves a journal that no later mutator can recover. |
| `claim_snapshots` | `SnapshotIsWhole`: what is committed is one generation and one snapshot of it.  `ReadsAreSettled`: a read without the lock returns nothing half published.  `DecisionsAreInformed`: nobody decides without having seen every earlier decision.  `FoldCoversItsPast`: a fold that succeeds covers every event before it, for an authority that was live as a pair. |

`rate_gate`, `attempt`, `attempt_stuck`, `package_publication`, `package_stuck` and
`claim_snapshots` check for deadlock.  The others may stop: a budget is spent, a bounded
number of threads, calls or decisions is used up.

The expected violations are listed as findings in `PROJECT.json`, with the
sentence of the code that they contradict.

## Bounds and why they are enough

| Run | Bounds | Why |
|---|---|---|
| `rate_gate` | 4 threads, ceiling 4, recovery after 2 successes | the limit takes all values from 4 to 1; a 429 may come with more in flight than it leaves room for |
| `request_budget` | 3 threads, ceilings 2 and 3, reports 1 to 4, 4 calls, 8 tokens | both limits bite; a report lies below, at and above the ceiling; two callers and a third that is refused |
| `document_ledger` | 2 threads, 2 stages with different limits, ceiling 2, reports 1 and 3, overrun 1, one run | both limits of a stage are reached, with and without the other thread's reservation |
| `post_json` | 2 threads, one with a request budget; 2 attempts, the minimum of 1 for 429s (so that the fourth is raised); 3 calls of the function | all retry paths alternate; one thread's failure meets the other's success |
| `operation_lease` | 4 threads in 3 processes, 2 deaths | a dead holder, a prober, its successor and one more that comes late: the race needs three; two threads share a process |
| `attempt` | 2 request keys; in each behaviour one of eight settings (`MCSettings`): with 2 executors, a review or an adjudication beside the functional track, a full extraction and a death or a second paid call with the verifier and a death beside the atomic one, and two proposals with a death on either track; with 1 executor, a full extraction or a restore beside the functional track, with a death or with two proposals | one executor in every place of the saga while the other recovers, resumes, is refused or starts; the settings are alternatives, since what they add does not interact except through the product; a failure of the verifier's scope leaves an outbox that the other executor finds, so that a second death is not needed for it; beside an extraction one executor is enough for attempts that overlap, since a request may give up its rebuild and the next one, for another proposal, publish before it is repeated |
| `effective_fold` | 3 decisions on track A, 2 on B; 2 passes per owner (the code has 3) | the owner reaches its limit with a decision left over, both tracks wait, a third decision comes behind |
| `package_publication` | 2 processes, a single file and a directory with 2 contents each, 1 death, and (`MCBounds`) a second attempt or an edit of the file | a transaction with both kinds of entry, interrupted anywhere, found by the other process, which may be the newer attempt; a package is published again and again within one attempt, so that an edit meets a later publication without a second one |
| `claim_snapshots` | 2 processes, 2 tries of a fold, 1 read under way; in each behaviour one of four combinations (`MCBounds`) of a second generation, a change of the authority, two decisions and a death | each combination is one meeting of two kinds of operation; reads write nothing, so that two of them show no more than one |

History variables (`issued`, `exposure`, `posted`, `billed`, `paid`, `overtaken`, …) are
bounded by the same numbers.  Symmetry is used only in runs without liveness.

## Fairness

* `RateGateClients`: requests have a timeout, sleeps end, `finally` runs, the clock
  advances, and `acquire()` polls at least once a second.  Fairness of entering is
  for the waiting threads together, since the gate promises no order.
* `PostJson`: weak fairness of each thread's steps and of the clock.  Nobody has to
  make another call.
* `EffectiveFold`: weak fairness of each thread that has decided; folds end.
  Nobody has to decide and the deadline is not counted on: `EveryCoverReturns`
  would be easy with it.  A waiter that is `awake` and loses the slot goes back to
  sleep, so that weak fairness gives it nothing but its turn.

The other specifications have only safety properties and no fairness.

## Proofs

All for every value of the constants, under the named assumptions of the
modules (`…Assumption`), which every run evaluates for its values.

* **`LlmClient_proofs`**, of the two things that the threads of `llm_client.py` share.
  The gate: `ClientInv` is the type, and that `active` is the cardinality of the holders,
  which is what makes the `max(0, …)` of `Release` harmless: a leaving thread is counted, so
  that there is something to subtract.  From it `GateTypeCorrect` (the limit never reaches
  zero), `ActiveIsExact`, `ExcessDrains`.
  The budget: `BudgetInv`: what has left is booked, call by call and
  token by token, in memory and on disk (`CallsBooked`, `SpendingBooked`), and
  memory is never behind the disk (`MemoryAhead`).  `AuthorisationHolds` alone is
  not inductive: it does not say that what is reserved and not yet sent is
  booked too.  The sum of the reservations is written as the size of a set of
  token units, which makes it a fact about cardinalities and needs no
  induction.  `CheckpointsAcceptable` needs more (`Coherence`): there is room for every
  reservation to fail (`RoomToFail`), and the marks of memory agree (`MarksAgree`), since a
  resumption copies the disk back into memory.  Theorems `BudgetTypeCorrect`, `WriteAhead`,
  `HardBudget`, `PromisesFit`, `DurableForward`, `CheckpointsAccepted`.
* **`PostJson_proofs`** — four arguments.  `CallInv`: every request of a call but the last
  has used up an attempt or a 429, and only the last was answered (`OneMore`); this adds the
  two retry budgets up and excludes a second answer.  `PhaseMoves`: what a place in the loop
  is to the gate moves as `RateGateClients` says, which proves the refinement step by step.
  `CoverInv`: a call between the hook and its settlement has a reservation of its ceiling
  (`Underway`), and the ledger has besides what left also what is about to leave and what a
  settlement may still lower (`Covered`); the sums over stages and threads are
  sizes of sets of units, as above.  Last, each call to the request budget is an operation of
  `RequestBudget` with arguments that it admits, so that the theorems of
  `LlmClient_proofs`, instantiated (`Proved`), hold of the composition, and likewise for
  the gate until a finally clause has been cut short (`skipped`).  Theorems
  `NeverPaidTwice`, `CallsAreBounded`, `GateIsUsedAsAgreed`, `LedgerAlwaysCovers`,
  `BudgetIsUsedAsModelled`, `CallsStayAuthorised`, `SlotsAreCounted`.
* **`OperationLease_proofs`** — `HolderOwnsFile`: on Windows, whoever is between
  `open` and `close` still has its own file at the path.  `ProcessLockReturned`
  is inductive over the types: a process lock is owned exactly by the thread of its process
  that is inside or has left with it (`kept`).  `UnracedInv`, for every platform, until
  somebody unlinks another file than the one it took the age of, or a lock file ages before
  its living writer has named it: a file that has aged has the PID of its holder in it or is
  an orphan (`AgedIsNamed`), the age that a thread took is that of the file still there
  (`KnownIsAged`), and a thread that is about to remove a file it knows removes an orphan
  (`KnownIsOrphan`).  Theorems `LeaseTypeCorrect`, `OneOperationAtATime`,
  `ProcessLockAlwaysReturned`, `OneOperationButForRaces`.
* **`ClaimAttempt_proofs`** — invariants in four layers, each over the ones before it.
  `Control`: the types, where an executor has the lock, and that the product it is about to
  write is a merge of the one that is there (`Carries`).  `Histories`: the events of
  an attempt are each preceded by what they require, and recorded once (`WellFormed`);
  every append is one of the kinds that keep it so (`Grows`).  `Places`: what an executor has
  recorded when it is somewhere in the saga.  `Progress`, for the atomic product: it is newer
  than the one an attempt started from once that is published (`Newer`), which is what
  the rebuild and recovery look at; a functional product may come back from the cache.
  `Accounts`: the paid calls, the log, the checkpoint file, the outbox and the ledger's
  rows agree but for the one transition under way (`SpendsOf`, `OutboxOK`, `FileOK`,
  `RowOK`); most steps leave them alone (`Calm`) and each of the others (`Spends`) has its
  own lemma.  `Publication`: one attempt of a proposal is live (`OneLive`), whatever other
  proposals do; a result whose publication is not on record is in the product only while its
  attempt goes on and the product is the one it has announced (`HeldOf`); the cache
  has none of these (`CachedOf`), since what it gains is published; and once recovery is
  through, the only attempt without an owner that an executor meets is its own (`OwnOrphan`,
  with `UnheardAt` and `PatchedAt`), so that no merge carries the unpublished result of another
  one on.  `UnpublishedStaysOut` alone says nothing of attempts that have not ended.  The refinement of `AttemptContract` follows from the layers: the phase of
  a history moves only as an append moves it.  Theorems `TypesAndLock`, `NeverOverBudget`,
  `OutboxIsReplayable`, `BothAccountsAgree`, `UsageIsComplete`, `NothingUnpublishedShows`,
  `InterruptedOnlyUnpublished`, `ContractIsKept`: all that the run checks.
* **`EffectiveFold_proofs`** — `FoldInv`.  `CoverIsFresh` needs: pass numbers are
  allocated in order (`NumbersAllocated`); a pass has its owner in view, and whoever
  waits for its number or a lower one (`PassSeesItsWaiters`); the counter of completed
  passes never runs ahead of what was folded (`CompletedFolds`); and an owner that
  leaves is folded by its own pass (`OwnerIsFolded`).
  `PassesLeft` is needed for the type, whose bound on `passes` is the limit of the
  drain.  `PassInv`: there is a decision for each pass begun, and for each one that is
  still owed because a track is dirty (`PassesPaidFor`).  `TurnsInv`: a waiting decision that has been overtaken has the other
  track in the slot, or is preferred to it, or its own track is about to cover it; this one
  is for two tracks (`TwoTracks`), as the code has them.  Theorems `FoldTypeCorrect`, `OneFoldAtATime`,
  `ReturnsAreFresh`, `NoPassInVain`, `TracksAlternate`.
* **`LedgerRuns_proofs`** — two invariants.  `AccountsInv`: what a stage has reserved is
  the size of the set of tokens in flight and what is stray (`ReservedExact`), so that the
  `max(0, …)` of `Less` never swallows anything and a settled reservation covers its charge;
  `StageLimitsHold` needs exactly that.  `RecordInv`: every refusal has left its mark in
  memory (`MarksKept`), and what a run has written is no more than what it has in memory
  (`WrittenBelowMemory`).  One lemma for each operation says what it does to the
  accounts (`Books`, `Settles`, `Grows`), and both invariants follow from these.
  Theorems `ReservedIsAlwaysInFlight`, `StageLimitsAlwaysHold`,
  `DegradationIsAlwaysOnRecord`, `CheckpointsAlwaysAddUp`: all that the run checks.
* **`ClaimSnapshots_proofs`** — four invariants, each over the ones before it.
  `SnapshotInv`: a journal's backup is whole (`RebuildCanGoBack`, `FoldCanGoBack`), and
  every file is what the publication or the recovery under way is after, or is still
  among its writes (`LeadsTo`).  `SnapshotIsWhole` alone says nothing of the mixtures that
  a death leaves, nor why undoing them ends well.  `CoverInv`: what a fold has read was so
  at some moment since it began (`ReadingsWereLive`), so that a product that is the same
  before and after a reading of the reviews was live together with them; this rests on
  `MomentsGoOn`, that authority only moves forward.  `ReadInv`: the
  snapshot that a reader holds has been settled since it began, or is the candidate of a
  journal that is still there (`Provenance`), which the last look at the journals
  excludes.  `DecisionInv`: a decision that has not been folded was on the revision that
  is still shown (`UnfoldedIsOnShown`); that is why comparing revisions tells of decisions
  that no revision counts yet.  Theorems `CommittedSnapshotIsWhole`,
  `FoldAlwaysCoversItsPast`, `ReadsAreAlwaysSettled`, `DecisionsAreAlwaysInformed`: all
  that the run checks.

* **`PackagePublication_proofs`** — `PackageInv`.  What a recovery would leave is what the
  marker lists, but for edits (`Faithful`); without a journal that is `ListedIsShown`, which
  alone says nothing of the states in between.  `Staging` and `Installing`: an entry of the
  transaction has its new form staged and its old one in the backup, or has arrived, and
  everything else is as listed (`InTransaction`, `Arrived`, `Left`).  `Undoing`: what a
  rollback has restored is in the root, so that the clean-up may remove the backup before
  the journal (`Settled`).  A step that does not write the marker changes what a recovery
  would leave only where a user edits (`Harmless`), and the steps that write it are the
  commits and the ends of attempts of `AtomicPackage`.  The hypothesis `EditableFiles`, that
  users edit single files, is the one of the run; the observation on directories below says
  why it is needed.  Theorems `ListedAlwaysShown`, `PackageIsAtomic`.

Out of the prover's reach, and only model-checked: all liveness (`GateNeverStalls`,
`EveryCallReturns`, `EveryCoverReturns`), which needs ENABLED.  Every safety property of the
passing runs is a theorem.  The expected violations are counterexamples and nothing to
prove.

The assumptions say what the code guarantees of its parameters (limits are positive, sets
of threads are finite), that the sentinels (`NoCall`, `Nobody`, …) are none of the values
they stand beside, and, for `PostJson`, that a trusted usage is a natural number.
`LedgerCoversRequests` counts a report above its announced ceiling as the ceiling: what
a provider charges beyond it the ledger cannot have reserved.

## Observations

What modelling showed of the code, beyond the findings.  None of them is a
violated property of a passing run: the properties say where they stop.

* **A slot of the gate can be lost** (`llm_client.py:1204`).  `fail()` in the `finally`
  clause takes a checkpoint; if that raises, `charge_failed` and `gate.release` are
  skipped.  From then on (`skipped`) the loop no longer implements
  `RateGateClients`, and enough such failures close the gate.  The ledger's reservation
  is left behind as well.
* **A refused budget leaves a reservation in the ledger** (`llm_client.py:1113`).  The
  ledger's hook runs first; a refusal by the request budget raises before the
  `try` statement.  The next `intercept` of the thread clears its pending mark
  (`llm_budget.py:382`), with the comment that this restores a clean state, and leaves the tokens
  reserved for the rest of the run.  `ReservedIsInFlight` counts them (`stray`) and shows
  that there is no other leak; the limits are only reached earlier for it.
* **A paid answer may be charged as a failure** (`llm_client.py:1205`).  When the
  checkpoint of `commit()` raises, the ledger charges the ceiling for a call whose
  usage was known (`llm_budget.py:437` describes the failed attempt only).
* **The reason of a refusal may be overwritten** (`llm_client.py:497`).  A later
  refusal in `reserve()` replaces the reason that `commit()` recorded; the outbox
  rules of `claim_artifacts.py:6054-6056` are not met by such a snapshot once a provider
  has reported above its ceiling.
* **A second run starts the ledger afresh** (`desktop_tasks.py:150`), over the file of
  the first, where the docstring at `llm_budget.py:24-25` speaks of continuation.
* **Exhausted marks outlive reservations** (`llm_budget.py:499`).  A limit
  that is reached by tokens only reserved is marked for good.
* **A process may lock itself out, on Windows** (`omission_actions.py:280`): if a prober
  has the lease open, `unlink` raises `PermissionError` in the `finally` clause and
  `process_lock.release()` is skipped; **and everywhere** (`omission_actions.py:254`):
  `governed_artifact_path` raises for a malformed package marker or a directory that cannot
  be made (`result_package.py:357-396`), after the process lock is acquired and before the
  `try` statement.  From then on only the same thread gets in.
  `ProcessLockReturned` counts both (`kept`) and shows that there is no third way.
* **A suspended writer loses its lease on POSIX** (`omission_actions.py:274`).  Between
  `os.open` and `os.write` for longer than the grace period, it looks abandoned, and a
  second operation gets in beside it.  Nothing in the code excludes that, so that
  `OneOperationUnlessRaced` names it (`overslept`) next to the race.
* **A second base checkpoint is refused for good** (`claim_queue_execution.py:875`).  A
  rebuild that is repeated after a review has another base, and
  `base_rebuild_published` may be recorded once.
* **Success may be recorded with the base of a later product**
  (`claim_queue_execution.py:874`): between the check of the publication and the
  finalisation the lock is not held.  `docs/agent-claim-ledger-phase1.5-spec.md:301-302`
  promises more than `AttemptContract` states.
* **On the atomic track a failure after the replacement is recorded as failed**
  although the product holds the result.  `UnpublishedStaysOut` is about the
  functional track, where the code distinguishes the two.
* **An attempt may end as stale while its rows show**, once its publication is on record
  (`claim_queue_execution.py:1143-1165`).  Admission looks only at attempts of the same
  proposal (`claim_queue_execution.py:1169-1176`): while the rebuild of one attempt is pending,
  an attempt for another proposal publishes a product that keeps its rows
  (`functional_reextract.py:415-421`), or the product is restored with other bytes, and the
  repeated request of the first finds another hash and ends it with
  `reextract_aborted_stale`.  `UnpublishedStaysOut` is therefore about the attempts
  without a publication on record, and the contract lets a published attempt be abandoned.
* **The functional extraction takes no lock of its own** (`functional_extract.py:3820`).  The
  desktop application runs it under the extraction lock (`desktop_tasks.py:82-85`); the
  command line (`cli.py:294`) and `tools/shadow_run.py` do not.  `FunctionalExtraction` and
  `Restore` are the locked ones.

* **A directory deliverable that a user has changed may be lost**
  (`result_package.py:1001`).  A publication whose list does not change has a target marker
  equal to the base marker.  When the digest of a directory in the root differs, it is
  removed and installed anew; if that raises or dies in between, recovery takes
  the transaction for committed (`current_marker_sha == target_marker_sha256`), restores
  nothing and deletes the backup, and the package no longer loads.  The design
  (`docs/superpowers/specs/2026-08-02-result-package-layout-design.md:297`, `:354`) promises the
  rollback.  The run and the theorems let the user edit single files only.
* **A lock-free read may return a snapshot that was rolled back**
  (`claim_artifacts.py:5126`).  It compares the anchors before and after, but not the metas
  that it loaded in between: a publication that comes and is rolled back within the
  read leaves equal anchors.  `ReadsAreSettled` admits such a snapshot; a
  compare-and-set on it fails later, unless the same revision comes back.
* **The paid cache repairs its file without its lock** (`paid_cache_store.py:120`).
  `lookup()` rewrites a file with a torn tail from what it has read; a `record_many()` that
  replaces the file in between is overwritten, and with it a paid answer.
* **Not every attempt of the job runner is on record** (`llm_job_runner.py:13` says
  so): `LLMBudgetExceeded` leaves without a row, and an answer whose `record()` raises
  is lost after it was paid for.

## Not modelled

Beside the modules that the plan still has:

* Prompts, parsing of answers, guards on texts, coverage algorithms, table and
  document structure: functions of data without shared state.
* Rendering, export, the knowledge base, the user interface.
* The job runner and the paid cache, the run manifest, the orchestration loop, the
  requirement review authority beyond its changes and the journals of structural
  operations: the job runner and the loop are in the plan.
* In the fan-out: the calls
  that `prepare_fanout_event` does not report to the queue again after a rollback
  (`_highest_emitted_calls`), since calls of one attempt follow each other; a death inside
  the booking of a failed attempt, which corrects the row that it finds.
* Which decision a model or an expert makes: any decision.
* The contents of requirements: a product is the extraction it comes from and the
  attempts that it holds.
* The time: grace periods, deadlines and pauses may end at any moment.
* A functional extraction beside an executor that has the lock, which the command line
  allows; a product that stays removed for longer than it takes to restore it; a death of a
  functional extraction between its row in the cache and its product.
* For the extraction lock: an error of `read_text` other than that of a file that has
  vanished, and `os.close` that raises.
* Torn writes inside one append or one replacement of a file, which the code avoids
  by `os.replace` and `fsync`; a file is written or not.
