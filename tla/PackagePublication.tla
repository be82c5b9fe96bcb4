-------------------------- MODULE PackagePublication ---------------------------
(***************************************************************************)
(* src/result_package.py: the marker of a result package, the attempts it  *)
(* records, and the publication of the deliverables under a journal, with  *)
(* the recovery that the next mutator runs.  Contents stand for their own  *)
(* digests, and a marker for its text.                                     *)
(*                                                                         *)
(* Every mutator runs under _package_write_lock, an OS lock that a dead    *)
(* process gives back: what the holder works with is in the variables op   *)
(* to entries, and every durable write is a step.                          *)
(***************************************************************************)
EXTENDS Naturals

CONSTANTS Mutators,        \* processes: desktop tasks and commands
          Files, Folders,  \* deliverables: single files, directories
          Contents,        \* what producers write
          Editable,        \* the deliverables that users edit in place
          None, Edited, Nobody, NoMarker, NoJournal,
          Bounds           \* combinations of bounds on attempts, deaths and edits

Deliverables == Files \cup Folders
NoRun == 0

Markers == [listed : [Deliverables -> Contents \cup {None}], active : Nat, analysis : Nat]
Journals == [target : Markers, entries : SUBSET Deliverables, had : SUBSET Deliverables]

\* The places of a mutator.
Places == {"recover", "load", "stage", "install", "restore", "purge", "unlink"}

ASSUME PackageAssumption ==
  /\ Files \cap Folders = {} /\ Editable \subseteq Deliverables
  /\ None \notin Contents \cup {Edited} /\ Edited \notin Contents /\ Nobody \notin Mutators
  /\ None \notin Places /\ NoMarker \notin Markers /\ NoJournal \notin Journals
  /\ Bounds \subseteq [runs : Nat, crashes : Nat, edits : Nat]

VARIABLES
  pipeline,   \* .ratomizer/pipeline: what the stages produce, by deliverable
  shown,      \* the deliverable in the root
  marker,     \* result-package.json
  journal,    \* .result-package-publication.json
  staged,     \* new/ and backup/ of the transaction
  backup,
  lock,       \* who holds the package write lock, and its
  op,         \*   operation,
  run,        \*   the attempt that it was called for,
  step,       \*   place,
  then,       \*   place after the transaction is cleaned up,
  todo,       \*   deliverables left to stage, install or restore,
  target,     \*   target_package,
  entries,    \*   deliverables that differ from their staged form
  checked,    \* the processes that saw, without the lock, that no attempt is active
  bound,      \* the combination of bounds of this behaviour
  runs, crashes, edits  \* counters for them

disk == <<pipeline, shown, marker, journal, staged, backup>>
holder == <<lock, op, run, step, then, todo, target, entries>>
counters == <<bound, runs, crashes, edits>>
packageVars == <<disk, holder, checked, counters>>

Empty == [d \in Deliverables |-> None]

PackageInit ==
  /\ pipeline = Empty /\ shown = Empty
  /\ marker = NoMarker /\ journal = NoJournal
  /\ staged = Empty /\ backup = Empty
  /\ lock = Nobody /\ op = None /\ run = NoRun /\ step = None /\ then = None
  /\ todo = {} /\ target = NoMarker /\ entries = {}
  /\ checked = {}
  /\ bound \in Bounds /\ runs = 0 /\ crashes = 0 /\ edits = 0

\* The lock is given back, by a return, an exception or the end of the process.
Leave ==
  /\ lock' = Nobody /\ op' = None /\ run' = NoRun /\ step' = None /\ then' = None
  /\ todo' = {} /\ target' = NoMarker /\ entries' = {}

Goto(place) == step' = place /\ UNCHANGED <<lock, op, run>>

-----------------------------------------------------------------------------
(* A mutator, from the lock to the marker it has loaded.                   *)

Listed == IF marker = NoMarker THEN Empty ELSE marker.listed

\* load_result_package
Loadable ==
  /\ journal = NoJournal /\ marker # NoMarker
  /\ \A d \in Deliverables : Listed[d] # None => shown[d] # None

\* A command that publishes looks at the marker before it asks for the lock.
Precheck(p) ==
  /\ Loadable /\ marker.active = NoRun
  /\ checked' = checked \cup {p}
  /\ UNCHANGED <<disk, holder, counters>>

\* The operations that are called for an attempt by its run_id.
Ends == {"complete", "partial", "fail"}

Enter(p, o) ==
  /\ lock = Nobody
  /\ o = "publish" => p \in checked
  /\ o = "start" => runs < bound.runs
  /\ run' \in IF o \in Ends THEN 1..runs ELSE {NoRun}
  /\ lock' = p /\ op' = o /\ step' = "recover"
  /\ checked' = checked \ {p}
  /\ UNCHANGED <<disk, then, todo, target, entries, counters>>

\* Mutant: an interrupted publication is rolled forward to what is there.
RecoverForward ==
  /\ step = "recover"
  /\ IF journal = NoJournal
       THEN Goto("load") /\ UNCHANGED <<then, todo>>
       ELSE Goto("purge") /\ then' = "load" /\ UNCHANGED todo
  /\ UNCHANGED <<disk, target, entries, checked, counters>>

\* _recover_publication_unlocked.  The marker is written under the lock only, so that it
\* is the base or the target of the journal.
Recover ==
  /\ step = "recover"
  /\ \/ journal = NoJournal /\ Goto("load") /\ UNCHANGED <<then, todo>>
     \/ /\ journal # NoJournal /\ marker = journal.target
        /\ Goto("purge") /\ then' = "load" /\ UNCHANGED todo
     \/ /\ journal # NoJournal /\ marker # journal.target
        /\ Goto("restore") /\ then' = "load" /\ todo' = journal.entries
  /\ UNCHANGED <<disk, target, entries, checked, counters>>

\* A backup that is gone: ResultPackageCorrupt.
Restorable(d) == d \in journal.had => backup[d] # None

\* One entry, in _restore_publication_transaction.
Restore(d) ==
  /\ step = "restore" /\ d \in todo /\ Restorable(d)
  /\ d \in Folders => shown[d] = None
  /\ shown' = [shown EXCEPT ![d] = IF d \in journal.had THEN backup[d] ELSE None]
  /\ todo' = todo \ {d}
  /\ UNCHANGED <<pipeline, marker, journal, staged, backup, lock, op, run, step, then, target,
                 entries, checked, counters>>

Restored ==
  /\ step = "restore" /\ todo = {} /\ Goto("purge")
  /\ UNCHANGED <<disk, then, todo, target, entries, checked, counters>>

RestoreRaises ==
  /\ step = "restore" /\ \E d \in todo : ~Restorable(d)
  /\ Leave /\ UNCHANGED <<disk, checked, counters>>

\* A directory is out of the way before its replacement is put there.
Vacate(d) ==
  /\ \/ step = "install" /\ d \in todo
     \/ step = "restore" /\ d \in todo /\ Restorable(d)
  /\ d \in Folders /\ shown[d] # None
  /\ shown' = [shown EXCEPT ![d] = None]
  /\ UNCHANGED <<pipeline, marker, journal, staged, backup, holder, checked, counters>>

\* _cleanup_publication_transaction: rmtree of the transaction, file by file, and then
\* the journal.
Purge ==
  /\ step = "purge"
  /\ \/ \E d \in Deliverables :
          /\ backup[d] # None /\ backup' = [backup EXCEPT ![d] = None]
          /\ UNCHANGED <<staged, lock, op, run, step>>
     \/ backup = Empty /\ staged' = Empty /\ Goto("unlink") /\ UNCHANGED backup
  /\ UNCHANGED <<pipeline, shown, marker, journal, then, todo, target, entries, checked, counters>>

Unlink ==
  /\ step = "unlink"
  /\ journal' = NoJournal
  /\ IF then = "load"
       THEN Goto("load") /\ then' = None /\ UNCHANGED <<todo, target, entries>>
       ELSE Leave
  /\ UNCHANGED <<pipeline, shown, marker, staged, backup, checked, counters>>

-----------------------------------------------------------------------------
(* The operations, once the marker is loaded.                              *)

Ready(o) == step = "load" /\ op = o /\ Loadable

NoAnalysis == [listed |-> Empty, active |-> NoRun, analysis |-> NoRun]

\* initialize_result_package: a new attempt takes the place of an active one and keeps
\* what has been completed before.
Start ==
  /\ step = "load" /\ op = "start" /\ (marker = NoMarker \/ Loadable)
  /\ runs' = runs + 1
  /\ marker' = [(IF marker = NoMarker THEN NoAnalysis ELSE marker) EXCEPT !.active = runs + 1]
  /\ Leave
  /\ UNCHANGED <<pipeline, shown, journal, staged, backup, checked, bound, crashes, edits>>

\* record_analysis_failure, and record_analysis_partial on a completed package: the
\* marker alone is written.
End ==
  /\ Ready("fail") \/ (Ready("partial") /\ marker.analysis # NoRun)
  /\ marker.active = run
  /\ marker' = [marker EXCEPT !.active = NoRun]
  /\ Leave
  /\ UNCHANGED <<pipeline, shown, journal, staged, backup, checked, counters>>

\* Mutant: the check before the lock is all there is.
AimUnchecked ==
  /\ \/ /\ Ready("publish") /\ target' = marker
     \/ /\ Ready("complete") /\ marker.active = run
        /\ target' = [marker EXCEPT !.active = NoRun, !.analysis = run]
  /\ Goto("stage") /\ todo' = Deliverables
  /\ UNCHANGED <<disk, then, entries, checked, counters>>

\* The package that is going to be published, in a new transaction: after a review or an
\* export, at the end of an attempt with its evidence, or of a first one without.
Aim ==
  /\ \/ /\ Ready("publish") /\ marker.active = NoRun /\ target' = marker
     \/ /\ Ready("complete") /\ marker.active = run
        /\ target' = [marker EXCEPT !.active = NoRun, !.analysis = run]
     \/ /\ Ready("partial") /\ marker.active = run /\ marker.analysis = NoRun
        /\ target' = [marker EXCEPT !.active = NoRun]
  /\ Goto("stage") /\ todo' = Deliverables
  /\ UNCHANGED <<disk, then, entries, checked, counters>>

\* The operation raises before it has changed anything, or was only record_package_warning.
Refuse ==
  /\ step = "load"
  /\ \/ op # "start" /\ ~Loadable
     \/ op = "start" /\ marker # NoMarker /\ ~Loadable
     \/ Ready("publish") /\ marker.active # NoRun
     \/ op \in Ends /\ Loadable /\ marker.active # run
     \/ Ready("complete") \* without the evidence, or with gates that need work
     \/ Ready("warn")
  /\ Leave /\ UNCHANGED <<disk, checked, counters>>

-----------------------------------------------------------------------------
(* _publish_package_unlocked.                                              *)

\* The transaction is removed; one without a journal is not found again.
Discard == staged' = Empty /\ backup' = Empty

\* A product is copied; its digest is the copy's.  Where the root has something else,
\* that is copied to the backup.
Stage(d) ==
  /\ step = "stage" /\ d \in todo /\ todo' = todo \ {d}
  /\ IF pipeline[d] = None
       THEN UNCHANGED <<staged, backup, target, entries>>
       ELSE /\ staged' = [staged EXCEPT ![d] = pipeline[d]]
            /\ target' = [target EXCEPT !.listed[d] = pipeline[d]]
            /\ IF shown[d] = pipeline[d]
                 THEN UNCHANGED <<backup, entries>>
                 ELSE /\ backup' = [backup EXCEPT ![d] = shown[d]]
                      /\ entries' = entries \cup {d}
  /\ UNCHANGED <<pipeline, shown, marker, journal, lock, op, run, step, then, checked, counters>>

WriteJournal ==
  /\ step = "stage" /\ todo = {} /\ entries # {}
  /\ journal' = [target |-> target, entries |-> entries,
                 had |-> {d \in entries : backup[d] # None}]
  /\ Goto("install") /\ todo' = entries
  /\ UNCHANGED <<pipeline, shown, marker, staged, backup, then, target, entries, checked, counters>>

\* _install_staged_path
Install(d) ==
  /\ step = "install" /\ d \in todo
  /\ d \in Folders => shown[d] = None
  /\ shown' = [shown EXCEPT ![d] = staged[d]]
  /\ staged' = [staged EXCEPT ![d] = None]
  /\ todo' = todo \ {d}
  /\ UNCHANGED <<pipeline, marker, journal, backup, lock, op, run, step, then, target, entries,
                 checked, counters>>

\* The marker commits the publication, with a journal or, where no file differs, without.
WriteMarker ==
  /\ \/ /\ step = "install" /\ todo = {} /\ Goto("purge")
        /\ UNCHANGED <<staged, backup, then, todo, target, entries>>
     \/ step = "stage" /\ todo = {} /\ entries = {} /\ Leave /\ Discard
  /\ marker' = target
  /\ UNCHANGED <<pipeline, shown, journal, checked, counters>>

\* The except clause: restore, unless the marker is the target already, and clean up.
Abort ==
  /\ step \in {"stage", "install"}
  /\ \/ journal = NoJournal /\ Leave /\ Discard
     \/ /\ journal # NoJournal /\ marker # journal.target
        /\ Goto("restore") /\ todo' = journal.entries
        /\ UNCHANGED <<staged, backup, then, target, entries>>
     \/ /\ journal # NoJournal /\ marker = journal.target
        /\ Goto("purge") /\ UNCHANGED <<staged, backup, then, todo, target, entries>>
  /\ UNCHANGED <<pipeline, shown, marker, journal, checked, counters>>

\* An OSError in the recovery or in the cleanup: the journal stays.
Falter ==
  /\ step \in {"restore", "purge", "unlink"}
  /\ Leave /\ UNCHANGED <<disk, checked, counters>>

-----------------------------------------------------------------------------
(* What happens beside a mutator.                                          *)

\* The process that has the lock dies.
Crash ==
  /\ lock # Nobody /\ crashes < bound.crashes
  /\ crashes' = crashes + 1
  /\ Leave
  /\ IF journal = NoJournal THEN Discard ELSE UNCHANGED <<staged, backup>>
  /\ UNCHANGED <<pipeline, shown, marker, journal, checked, bound, runs, edits>>

\* A stage writes its product, at any time.
Produce(d) ==
  /\ \E c \in Contents : pipeline' = [pipeline EXCEPT ![d] = c]
  /\ UNCHANGED <<shown, marker, journal, staged, backup, holder, checked, counters>>

\* A user changes a deliverable in the root.
Edit(d) ==
  /\ d \in Editable /\ shown[d] # None /\ edits < bound.edits
  /\ edits' = edits + 1
  /\ shown' = [shown EXCEPT ![d] = Edited]
  /\ UNCHANGED <<pipeline, marker, journal, staged, backup, holder, checked, bound, runs, crashes>>

Operations == {"start", "complete", "partial", "fail", "publish", "warn"}

PackageNext ==
  \/ \E p \in Mutators : Precheck(p) \/ \E o \in Operations : Enter(p, o)
  \/ Recover \/ Restored \/ RestoreRaises \/ Purge \/ Unlink
  \/ Start \/ End \/ Aim \/ Refuse \/ WriteJournal \/ WriteMarker \/ Abort \/ Falter \/ Crash
  \/ \E d \in Deliverables :
       Restore(d) \/ Vacate(d) \/ Stage(d) \/ Install(d) \/ Produce(d) \/ Edit(d)

PackageSpec == PackageInit /\ [][PackageNext]_packageVars

-----------------------------------------------------------------------------
(* Properties.                                                             *)

\* Whenever no publication is under way or interrupted, the root shows what the marker
\* lists, and nothing that it does not list, except for what users have edited
\* (_publish_package_unlocked, _recover_publication_unlocked).
ListedIsShown ==
  journal = NoJournal =>
    \A d \in Deliverables :
      \/ shown[d] = Listed[d]
      \/ d \in Editable /\ shown[d] = Edited /\ Listed[d] # None

\* The deliverable that a recovery would leave.
Undone(d) == journal # NoJournal /\ marker # journal.target /\ d \in journal.entries

Recovered(d) ==
  IF ~Undone(d) THEN shown[d]
  ELSE IF d \notin journal.had THEN None
  ELSE IF backup[d] # None THEN backup[d] ELSE shown[d]

Promise == INSTANCE AtomicPackage WITH
  listed <- Listed,
  files <- [d \in Deliverables |-> Recovered(d)],
  running <- (marker # NoMarker /\ marker.active # NoRun)

\* The package implements AtomicPackage: what recovery makes of the disk changes with the
\* marker, all deliverables at once, and never while an attempt is active.
PublicationIsAtomic == Promise!AtomicPackageSpec

\* "The next write recovers the old deliverables" (design, chapter 16.1): a journal that
\* is not committed can be undone by whoever takes the lock next.
NextWriteRecovers ==
  lock = Nobody /\ journal # NoJournal /\ marker # journal.target
    => \A d \in journal.entries : Restorable(d)
=============================================================================
