---------------------------- MODULE ClaimSnapshots ----------------------------
(***************************************************************************)
(* src/claim_artifacts.py and src/claim_review_actions.py: the generations *)
(* of the claim base and the effective snapshots over them.  Publications  *)
(* of either kind and decisions of experts run under claim_publication_lock*)
(* with a journal each; the authority that a fold reduces (the product and *)
(* the requirement reviews) changes beside them under other locks, and a   *)
(* GET reads the files without any.                                        *)
(*                                                                         *)
(* There is one claim, and contents stand for their digests: a snapshot    *)
(* published a second time is the same here, where its meta has a run id   *)
(* and a time, so that more reads succeed here than do.  The health        *)
(* counters of the fold are left out.                                      *)
(***************************************************************************)
EXTENDS Naturals, Sequences, SequencesExt, FiniteSets

CONSTANTS Processes,       \* handlers and tasks that read, decide, fold and publish
          Nobody, None,
          MaxAttempts,     \* max_attempts of a fold
          MaxReads,        \* bounds: reads under way at a time (they do not affect each other)
          Bounds           \*   and combinations of bounds on the other operations

ASSUME SnapshotAssumption ==
  /\ Nobody \notin Processes /\ MaxAttempts \in Nat \ {0}
  /\ None \notin {"recover", "undo", "begin", "write", "product", "review",
                 "fold", "decide"}
  /\ MaxReads \in Nat
  /\ Bounds \subseteq [runs : Nat, changes : Nat, decisions : Nat, crashes : Nat]

VARIABLES
  moments,      \* what the authority has been, the last of them now
  files,        \* the artifacts: base data, generation meta, effective ledger, queue,
                \*   effective meta, and the attempts on record as succeeded
  baseJournal,  \* .claim-publication journal and its backup
  foldJournal,  \* .claim-effective-publication journal and its backup
  events,       \* claim-review-events: projections and decisions
  lock,         \* who holds the publication lock, and its
  op,           \*   operation,
  step,         \*   place,
  round,        \*   reading of the authority: the first, the second, ...
  look,         \*   product that it has just read,
  got,          \*   authority that the fold works with,
  todo,         \*   writes that are left
  fold,         \* the fold that a process has under way
  read,         \* the read that a process has under way, with (history) the snapshots
                \*   that have been committed or rolled back since it began
  seen,         \* the snapshot that a process has read last
  bound,        \* the combination of bounds of this behaviour
  runs, crashes,   \* counters for the bounds
  shown,        \* history: the snapshot committed last
  generations   \* history: the base generations committed

disk == <<files, baseJournal, foldJournal, events>>
holder == <<lock, op, step, round, look, got, todo>>
clients == <<fold, read, seen>>
counters == <<bound, runs, crashes>>
history == <<shown, generations>>
snapshotVars == <<moments, disk, holder, clients, counters, history>>

Now == Last(moments)

\* In place of a journal, which has a candidate and a backup.
NoJournal == [none |-> TRUE]

\* A base generation is built for an authority.
Base(run, authority) ==
  [run |-> run, product |-> authority.product, review |-> authority.review]

\* The snapshot that a base generation brings along (v1: no events, equal to the base),
\* and the one that a fold makes.
Legacy(base) ==
  [base |-> base, product |-> base.product, review |-> base.review, events |-> 0,
   current |-> FALSE]

Candidate ==
  [base |-> files.meta, product |-> got.product, review |-> got.review,
   events |-> Len(events), current |-> TRUE]

\* After the first publication.
SnapshotInit ==
  /\ moments = <<[product |-> 0, review |-> 0]>>
  /\ LET base == Base(1, Now)
     IN  /\ files = [data |-> base, meta |-> base, ledger |-> Legacy(base), queue |-> None,
                     eff |-> Legacy(base), attempts |-> {base}]
         /\ shown = Legacy(base) /\ generations = {base}
  /\ baseJournal = NoJournal /\ foldJournal = NoJournal
  /\ events = <<>>
  /\ lock = Nobody /\ op = None /\ step = None /\ round = None /\ look = None
  /\ got = None /\ todo = <<>>
  /\ fold = [p \in Processes |-> None]
  /\ read = [p \in Processes |-> None]
  /\ seen = [p \in Processes |-> None]
  /\ bound \in Bounds /\ runs = 1 /\ crashes = 0

Leave ==
  /\ lock' = Nobody /\ op' = None /\ step' = None /\ round' = None /\ look' = None
  /\ got' = None /\ todo' = <<>>

Goto(place) == step' = place /\ UNCHANGED <<lock, op, round, look, got, todo>>

\* A review is decided, or a product is replaced.
Change ==
  /\ Len(moments) <= bound.changes
  /\ \/ moments' = Append(moments, [Now EXCEPT !.product = @ + 1])
     \/ moments' = Append(moments, [Now EXCEPT !.review = @ + 1])
  /\ UNCHANGED <<disk, holder, clients, counters, history>>

-----------------------------------------------------------------------------
(* claim_publication_lock, and the recovery that every operation begins    *)
(* with (_recover_claim_state_unlocked).                                   *)

Decisions == {i \in DOMAIN events : events[i].kind = "decision"}

Idle(p) == lock # p /\ fold[p] = None /\ read[p] = None

\* fold_effective_ledger is called; its attempts take the lock one by one.
BeginFold(p) ==
  /\ Idle(p)
  /\ fold' = [fold EXCEPT ![p] =
       [tries |-> 0, since |-> Len(moments), events |-> Len(events)]]
  /\ UNCHANGED <<moments, disk, holder, read, seen, counters, history>>

Enter(p, o) ==
  /\ lock = Nobody
  /\ \/ o = "fold" /\ fold[p] # None
     \/ o = "publish" /\ Idle(p) /\ runs < bound.runs
     \/ /\ o = "decide" /\ Idle(p) /\ seen[p] # None
        /\ Cardinality(Decisions) < bound.decisions
  /\ lock' = p /\ op' = o /\ step' = "recover"
  /\ UNCHANGED <<moments, disk, round, look, got, todo, clients, counters, history>>

\* Mutant: the rows of the interrupted attempt are left as they are.
UndoBaseOnly(j) ==
  <<<<"data", j.old.data>>, <<"ledger", j.old.ledger>>, <<"meta", j.old.meta>>,
    <<"eff", j.old.eff>>>>

\* _restore_claim_snapshot, the metas last, and the correction of the attempt's row.
UndoBase(j) ==
  <<<<"data", j.old.data>>, <<"ledger", j.old.ledger>>, <<"meta", j.old.meta>>,
    <<"eff", j.old.eff>>, <<"attempts", files.attempts \ {j.candidate}>>>>

\* _restore_effective_snapshot
UndoFold(j) ==
  <<<<"ledger", j.old.ledger>>, <<"queue", j.old.queue>>, <<"eff", j.old.eff>>>>

\* _recover_claim_state_unlocked: first the base, then the snapshot over it.
Recover ==
  /\ step = "recover"
  /\ \/ /\ baseJournal # NoJournal
        /\ step' = "undo" /\ todo' = UndoBase(baseJournal)
        /\ UNCHANGED <<lock, op, round, look, got>>
     \/ /\ baseJournal = NoJournal /\ foldJournal # NoJournal
        /\ step' = "undo" /\ todo' = UndoFold(foldJournal)
        /\ UNCHANGED <<lock, op, round, look, got>>
     \/ /\ baseJournal = NoJournal /\ foldJournal = NoJournal
        /\ IF op = "abort" THEN Leave ELSE Goto("begin")
  /\ UNCHANGED <<moments, disk, clients, counters, history>>

\* One file of a publication or of a recovery.
Write ==
  /\ step \in {"write", "undo"} /\ todo # <<>>
  /\ files' = [files EXCEPT ![Head(todo)[1]] = Head(todo)[2]]
  /\ todo' = Tail(todo)
  /\ UNCHANGED <<moments, baseJournal, foldJournal, events, lock, op, step, round, look, got,
                 clients, counters, history>>

\* History: a snapshot has been committed or rolled back while these reads run.
Settle(snapshot) ==
  [p \in Processes |-> IF read[p] = None THEN None
                       ELSE [read[p] EXCEPT !.settled = @ \cup {snapshot}]]

\* The journal of a publication that has been undone is removed.
Undone ==
  /\ step = "undo" /\ todo = <<>> /\ Goto("recover")
  /\ IF baseJournal # NoJournal
       THEN baseJournal' = NoJournal /\ UNCHANGED <<foldJournal, read>>
       ELSE /\ foldJournal' = NoJournal /\ UNCHANGED baseJournal
            /\ read' = Settle(foldJournal.candidate)
  /\ UNCHANGED <<moments, files, events, fold, seen, counters, history>>

-----------------------------------------------------------------------------
(* publish_shadow_generation.                                              *)

\* The candidate has been built for the product and the reviews of now.  The backup is
\* complete before the journal is there.
BeginBase ==
  /\ step = "begin" /\ op = "publish"
  /\ runs' = runs + 1
  /\ LET base == Base(runs', Now)
     IN  /\ baseJournal' = [candidate |-> base, old |-> files]
         /\ todo' = <<<<"data", base>>, <<"attempts", files.attempts \cup {base}>>,
                      <<"meta", base>>, <<"ledger", Legacy(base)>>, <<"eff", Legacy(base)>>>>
  /\ step' = "write"
  /\ UNCHANGED <<moments, files, foldJournal, events, lock, op, round, look, got, clients,
                 bound, crashes, history>>

FinishBase ==
  /\ step = "write" /\ todo = <<>> /\ op = "publish"
  /\ baseJournal' = NoJournal
  /\ shown' = files.eff /\ generations' = generations \cup {files.meta}
  /\ Leave
  /\ UNCHANGED <<moments, files, foldJournal, events, clients, counters>>

\* An exception in publish_shadow_generation is followed by the recovery.
AbortBase ==
  /\ step = "write" /\ op = "publish"
  /\ op' = "abort" /\ step' = "recover" /\ todo' = <<>>
  /\ UNCHANGED <<moments, disk, lock, round, look, got, clients, counters, history>>

-----------------------------------------------------------------------------
(* apply_claim_adjudication, up to the fold that follows.                  *)

\* The claim_effective_revision: the base row (a rebuild may leave it as it was), its
\* authority, and the decisions on the claim that have been folded.
Revision(s) ==
  [baseProduct |-> s.base.product, baseReview |-> s.base.review,
   product |-> s.product, review |-> s.review,
   decisions |-> Cardinality(Decisions \cap 1..s.events)]

\* Mutant: only the revision is compared, not what has been decided on it.
InformedByRevision(p) ==
  /\ files.eff.current /\ Revision(files.eff) = Revision(seen[p])
  /\ <<files.eff.product, files.eff.review>> = <<Now.product, Now.review>>

\* The snapshot is current, the revision is the one that the expert has seen, and no
\* event has been decided on it yet (_validate_projection_cas_drafts).
Informed(p) ==
  /\ files.eff.current /\ Revision(files.eff) = Revision(seen[p])
  /\ <<files.eff.product, files.eff.review>> = <<Now.product, Now.review>>
  /\ \A i \in Decisions : Revision(events[i].seen) # Revision(seen[p])

Decide ==
  /\ step = "begin" /\ op = "decide"
  /\ Informed(lock)
  /\ events' = Append(events, [kind |-> "decision", seen |-> seen[lock]])
  /\ fold' = [fold EXCEPT ![lock] =
       [tries |-> 0, since |-> Len(moments), events |-> Len(events) + 1]]
  /\ Leave
  /\ UNCHANGED <<moments, files, baseJournal, foldJournal, read, seen, counters, history>>

\* ClaimAdjudicationCasMismatch, or a base that is not current.
Refuse ==
  /\ step = "begin"
  /\ \/ op = "decide" /\ ~Informed(lock) /\ UNCHANGED fold
     \/ op = "publish" /\ UNCHANGED fold
     \/ op = "fold" /\ fold' = [fold EXCEPT ![lock] = None]
  /\ Leave
  /\ UNCHANGED <<moments, disk, read, seen, counters, history>>

-----------------------------------------------------------------------------
(* fold_effective_ledger, one attempt under the lock.                      *)

\* The authority is read in two parts, the product and then the reviews, and four times:
\* to be reduced, to be confirmed, before the publication and after it.
StartReading(which) == step' = "product" /\ round' = which /\ UNCHANGED <<lock, op, todo>>

BeginAttempt ==
  /\ step = "begin" /\ op = "fold"
  /\ StartReading("reduce")
  /\ UNCHANGED <<moments, disk, look, got, clients, counters, history>>

ReadProduct ==
  /\ step = "product"
  /\ step' = "review" /\ look' = Now.product
  /\ UNCHANGED <<moments, disk, lock, op, round, got, todo, clients, counters, history>>

HasRead(which) == step = "review" /\ round = which

Authority == [product |-> look, review |-> Now.review]

\* The read-only loads look at the product again.
ReadAgrees == look = Now.product /\ Authority = got

\* What the event log says of the targets of the base: their last projection, or else
\* what the base was built for.
Projected ==
  LET projections == {i \in DOMAIN events :
                        events[i].kind = "projection" /\ events[i].base = files.meta}
      last == IF projections = {} THEN files.meta ELSE events[Max(projections)]
  IN  [product |-> last.product, review |-> last.review]

\* reconcile_claim_review_events: a transition that is not in the log is projected.
Reconcile ==
  /\ HasRead("reduce")
  /\ got' = Authority
  /\ events' = IF Projected = Authority THEN events
               ELSE Append(events, [kind |-> "projection", base |-> files.meta,
                                    product |-> look, review |-> Now.review])
  /\ look' = None
  /\ StartReading("confirm")
  /\ UNCHANGED <<moments, files, baseJournal, foldJournal, clients, counters, history>>

\* The authority has changed: the next attempt, or the end of the fold.
Retry ==
  /\ HasRead("confirm") /\ Authority # got
  /\ fold' = [fold EXCEPT ![lock] =
       IF @.tries + 1 = MaxAttempts THEN None ELSE [@ EXCEPT !.tries = @ + 1]]
  /\ Leave
  /\ UNCHANGED <<moments, disk, read, seen, counters, history>>

\* Mutant: the number of events is not part of the comparison.
MatchesIgnoringEvents == [files.eff EXCEPT !.events = Len(events)] = Candidate

\* _effective_snapshot_matches_candidate
Matches == files.eff = Candidate

Confirmed ==
  /\ HasRead("confirm") /\ Authority = got
  /\ IF Matches
       THEN Leave /\ fold' = [fold EXCEPT ![lock] = None]
       ELSE StartReading("publish") /\ look' = None /\ UNCHANGED <<got, fold>>
  /\ UNCHANGED <<moments, disk, read, seen, counters, history>>

\* publish_effective_snapshot, once the authority is still the one that was reduced.
BeginSnapshot ==
  /\ HasRead("publish") /\ ReadAgrees
  /\ foldJournal' = [candidate |-> Candidate, old |-> files]
  /\ step' = "write"
  /\ todo' = <<<<"ledger", Candidate>>, <<"queue", Candidate>>, <<"eff", Candidate>>>>
  /\ look' = None
  /\ UNCHANGED <<moments, files, baseJournal, events, lock, op, round, got, clients, counters,
                 history>>

\* The snapshot is loaded again, which needs the authority again.
Reload ==
  /\ step = "write" /\ todo = <<>> /\ op = "fold"
  /\ StartReading("reload")
  /\ UNCHANGED <<moments, disk, look, got, clients, counters, history>>

\* The journal is unlinked, and with that the snapshot is committed.
FinishSnapshot ==
  /\ HasRead("reload") /\ ReadAgrees
  /\ foldJournal' = NoJournal
  /\ shown' = files.eff /\ read' = Settle(files.eff)
  /\ fold' = [fold EXCEPT ![lock] = None]
  /\ Leave
  /\ UNCHANGED <<moments, files, baseJournal, events, seen, counters, generations>>

\* The authority has changed before or after the publication, or a write raises: the
\* fold ends, and a journal stays for the next operation.
FoldRaises ==
  /\ op = "fold"
  /\ \/ HasRead("publish") /\ ~ReadAgrees
     \/ HasRead("reload") /\ ~ReadAgrees
     \/ step = "write"
  /\ fold' = [fold EXCEPT ![lock] = None]
  /\ Leave
  /\ UNCHANGED <<moments, disk, read, seen, counters, history>>

\* The recovery raises.
Falter ==
  /\ step = "undo"
  /\ fold' = [fold EXCEPT ![lock] = None]
  /\ Leave
  /\ UNCHANGED <<moments, disk, read, seen, counters, history>>

\* The process that has the lock dies.
Crash ==
  /\ lock # Nobody /\ crashes < bound.crashes
  /\ crashes' = crashes + 1
  /\ fold' = [fold EXCEPT ![lock] = None]
  /\ Leave
  /\ UNCHANGED <<moments, disk, read, seen, bound, runs, history>>

-----------------------------------------------------------------------------
(* load_committed_effective_snapshot_readonly: no lock, no recovery.       *)

Settled == baseJournal = NoJournal /\ foldJournal = NoJournal

BeginRead(p) ==
  /\ Idle(p) /\ Settled
  /\ Cardinality({q \in Processes : read[q] # None}) < MaxReads
  /\ read' = [read EXCEPT ![p] =
       [at |-> "anchors", anchors |-> None, meta |-> 0, eff |-> None, settled |-> {shown}]]
  /\ seen' = [seen EXCEPT ![p] = None]
  /\ UNCHANGED <<moments, disk, holder, fold, counters, history>>

At(p, place) == read[p] # None /\ read[p].at = place

ReadOn(p, next) ==
  /\ read' = [read EXCEPT ![p] = next]
  /\ UNCHANGED <<moments, disk, holder, fold, seen, counters, history>>

\* What is read next has the digest that was read before: otherwise the read raises.
Anchors(p) ==
  /\ At(p, "anchors")
  /\ ReadOn(p, [read[p] EXCEPT !.at = "meta", !.anchors = <<files.meta, files.eff>>])

ReadMeta(p) ==
  /\ At(p, "meta") /\ ReadOn(p, [read[p] EXCEPT !.at = "data", !.meta = files.meta])

ReadData(p) ==
  /\ At(p, "data")
  /\ ReadOn(p, IF files.data = read[p].meta THEN [read[p] EXCEPT !.at = "eff"] ELSE None)

\* require_v2, and the base that the snapshot names.
ReadEff(p) ==
  /\ At(p, "eff")
  /\ ReadOn(p, IF files.eff.current /\ files.eff.base = read[p].meta /\ files.meta = read[p].meta
                 THEN [read[p] EXCEPT !.at = "ledger", !.eff = files.eff] ELSE None)

ReadLedger(p) ==
  /\ At(p, "ledger")
  /\ ReadOn(p, IF files.ledger = read[p].eff THEN [read[p] EXCEPT !.at = "queue"] ELSE None)

\* The queue, and whether the snapshot's authority is current.
ReadQueue(p) ==
  /\ At(p, "queue")
  /\ ReadOn(p, IF /\ files.queue = read[p].eff
                   /\ read[p].eff.product = Now.product /\ read[p].eff.review = Now.review
                 THEN [read[p] EXCEPT !.at = "journals"] ELSE None)

\* Mutant: the journals are looked for before the files are read, and not after.
ReadJournalsOnce(p) == At(p, "journals") /\ ReadOn(p, [read[p] EXCEPT !.at = "again"])

ReadJournals(p) ==
  /\ At(p, "journals")
  /\ ReadOn(p, IF Settled THEN [read[p] EXCEPT !.at = "again"] ELSE None)

ReadAgain(p) ==
  /\ At(p, "again")
  /\ read' = [read EXCEPT ![p] = None]
  /\ seen' = [seen EXCEPT ![p] =
       IF read[p].anchors = <<files.meta, files.eff>> THEN read[p].eff ELSE None]
  /\ UNCHANGED <<moments, disk, holder, fold, counters, history>>

Read(p) ==
  \/ BeginRead(p) \/ Anchors(p) \/ ReadMeta(p) \/ ReadData(p) \/ ReadEff(p)
  \/ ReadLedger(p) \/ ReadQueue(p) \/ ReadJournals(p) \/ ReadAgain(p)

Locked ==
  \/ Recover \/ Write \/ Undone \/ BeginBase \/ FinishBase \/ AbortBase
  \/ Decide \/ Refuse
  \/ BeginAttempt \/ ReadProduct \/ Reconcile \/ Retry \/ Confirmed
  \/ BeginSnapshot \/ Reload \/ FinishSnapshot \/ FoldRaises \/ Falter

SnapshotNext ==
  \/ Change \/ Locked \/ Crash
  \/ \E p \in Processes :
       BeginFold(p) \/ Read(p) \/ \E o \in {"fold", "publish", "decide"} : Enter(p, o)

SnapshotSpec == SnapshotInit /\ [][SnapshotNext]_snapshotVars

-----------------------------------------------------------------------------
(* Properties.                                                             *)

\* With no publication under way or interrupted, the files are one generation and one
\* snapshot of it, and the attempts on record as succeeded are the generations committed
\* (_begin_claim_publication_unlocked, _recover_claim_state_unlocked).
SnapshotIsWhole ==
  Settled =>
    /\ files.data = files.meta /\ files.eff.base = files.meta
    /\ files.ledger = files.eff
    /\ files.eff.current => files.queue = files.eff
    /\ files.eff = shown
    /\ files.attempts = generations

\* A read without a lock returns a snapshot that was committed, or rolled back, at some
\* moment while it ran, never one that is still being published
\* (load_committed_effective_snapshot_readonly).
ReadsAreSettled ==
  [][\A p \in Processes :
       At(p, "again") /\ read'[p] = None /\ seen'[p] # None => seen'[p] \in read[p].settled
    ]_snapshotVars

\* Whoever decides on a claim has seen every earlier decision on it
\* (_validate_projection_cas_drafts).
DecisionsAreInformed ==
  \A i, j \in Decisions : i < j => events[j].seen.events >= i

\* A fold that succeeds leaves a snapshot of the base, of every event that was on record
\* when the fold began, and of an authority that has been live, product and reviews at
\* one moment, since then (fold_effective_ledger).
FoldCoversItsPast ==
  [][\A p \in Processes :
       lock = p /\ (FinishSnapshot \/ (Confirmed /\ lock' = Nobody)) =>
         /\ files.eff.current /\ files.eff.base = files.meta
         /\ files.eff.events >= fold[p].events
         /\ \E i \in fold[p].since..Len(moments) :
              moments[i] = [product |-> files.eff.product, review |-> files.eff.review]
    ]_snapshotVars
=============================================================================
