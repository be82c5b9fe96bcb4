---------------------- MODULE PackagePublication_proofs ----------------------
(***************************************************************************)
(* Theorems about the publication of a result package, for all sets of     *)
(* deliverables and contents, any number of processes, attempts, deaths    *)
(* and edits, where users edit single files (EditableFiles); a directory   *)
(* that a user has changed may be lost, see README.md, Observations.       *)
(***************************************************************************)
EXTENDS PackagePublication, TLAPS

-----------------------------------------------------------------------------
(* The inductive invariant.                                                *)

EditableFiles == Editable \subseteq Files

Stored == [Deliverables -> Contents \cup {None, Edited}]

Types ==
  /\ pipeline \in [Deliverables -> Contents \cup {None}]
  /\ staged \in [Deliverables -> Contents \cup {None}]
  /\ shown \in Stored /\ backup \in Stored
  /\ marker \in Markers \cup {NoMarker} /\ target \in Markers \cup {NoMarker}
  /\ journal \in Journals \cup {NoJournal}
  /\ step \in Places \cup {None}
  /\ todo \subseteq Deliverables /\ entries \subseteq Deliverables
  /\ runs \in Nat /\ run \in Nat

\* Where there is a journal, and what it says of the publication under way.
Control ==
  /\ lock = Nobody => step = None
  /\ step \in {None, "recover", "load", "stage", "install"} => then = None
  /\ step \in {None, "recover", "load"} \/ then = "load" => entries = {}
  /\ step \in {"load", "stage"} => journal = NoJournal
  /\ step \in {"install", "restore", "purge", "unlink"} => journal # NoJournal
  /\ step \in {"stage", "install"} =>
       target # NoMarker /\ target.active = NoRun /\ marker # NoMarker
  /\ step = "install" =>
       /\ journal.target = target /\ journal.entries = entries /\ todo \subseteq entries
       /\ \A d \in journal.had : backup[d] # None
  /\ step = "restore" => marker # journal.target /\ todo \subseteq journal.entries
  /\ step = "unlink" => backup = Empty

\* A content that the marker accounts for.
Agrees(d, content) ==
  \/ content = Listed[d]
  \/ d \in Editable /\ content = Edited /\ Listed[d] # None

\* What a recovery would leave of the package is what the marker lists.
Faithful == \A d \in Deliverables : Agrees(d, Recovered(d))

\* The root has what the target lists.
Arrived(d) ==
  /\ target.listed[d] # None
  /\ shown[d] = target.listed[d] \/ (d \in Editable /\ shown[d] = Edited)

\* A deliverable that the publication leaves alone.
Left(d) == target.listed[d] = Listed[d] \/ Arrived(d)

\* The staged form is the one that the target lists, and the backup is what the root had.
InTransaction(d) ==
  /\ staged[d] = target.listed[d] /\ staged[d] # None
  /\ Agrees(d, backup[d]) /\ backup[d] # staged[d]
  /\ backup[d] = shown[d] \/ (d \in Editable /\ backup[d] # None /\ shown[d] = Edited)

Staging ==
  step = "stage" => \A d \in Deliverables :
    IF d \in entries THEN d \notin todo /\ InTransaction(d)
    ELSE Left(d) /\ (d \in todo => target.listed[d] = Listed[d])

\* Where the target is the marker itself, what differs was edited by a user.
Installing ==
  step = "install" => \A d \in Deliverables :
    /\ d \in todo => staged[d] = target.listed[d] /\ staged[d] # None
    /\ d \in entries \ todo => Arrived(d)
    /\ d \notin entries => Left(d)
    /\ d \in entries /\ marker = target => d \in Editable

\* The root has its old deliverable back, which the clean-up may have removed from the
\* backup already.
Settled(d) ==
  IF d \notin journal.had THEN shown[d] = None
  ELSE backup[d] \in {None, shown[d]} \/ (d \in Editable /\ shown[d] = Edited)

Undoing ==
  /\ step = "restore" => \A d \in journal.entries \ todo : Settled(d)
  /\ step \in {"purge", "unlink"} /\ marker # journal.target =>
       \A d \in journal.entries : Settled(d)

PackageInv == Types /\ Control /\ Faithful /\ Staging /\ Installing /\ Undoing

-----------------------------------------------------------------------------
(* Steps that leave what a recovery would make of the disk.                *)

\* While the marker stays, a step changes nothing for a recovery but what users edit.
Harmless ==
  /\ marker' = marker
  /\ \A d \in Deliverables :
       Recovered(d)' = Recovered(d) \/ (d \in Editable /\ Recovered(d)' # None)

LEMMA KeptPackage ==
  ASSUME Faithful, marker' = marker, \A d \in Deliverables : Recovered(d)' = Recovered(d)
  PROVE  Faithful' /\ Harmless
<1>1. Listed' = Listed
  BY DEF Listed
<1> QED
  BY <1>1 DEF Faithful, Agrees, Harmless

LEMMA SamePackage ==
  ASSUME Faithful, UNCHANGED <<shown, marker, journal, backup>>
  PROVE  Faithful' /\ Harmless
<1>1. \A d \in Deliverables : Recovered(d)' = Recovered(d)
  BY DEF Recovered, Undone
<1> QED
  BY <1>1, KeptPackage

\* Without a journal there is nothing to recover.
LEMMA NothingUndone ==
  ASSUME journal = NoJournal
  PROVE  \A d \in Deliverables : Recovered(d) = shown[d]
BY DEF Recovered, Undone

LEMMA InitInv == PackageInit => PackageInv
<1> SUFFICES ASSUME PackageInit PROVE PackageInv
  OBVIOUS
<1> USE DEF PackageInit
<1>1. Types
  BY DEF Types, Stored, Empty, NoRun
<1>2. Control
  BY PackageAssumption DEF Control, Places
<1>3. Faithful
  BY DEF Faithful, Agrees, Recovered, Undone, Listed
<1>4. Staging /\ Installing /\ Undoing
  BY PackageAssumption DEF Staging, Installing, Undoing, Places
<1> QED
  BY <1>1, <1>2, <1>3, <1>4 DEF PackageInv

\* The lock is given back, with the transaction where it has no journal.
LEMMA LeaveInv ==
  ASSUME PackageInv, Leave, UNCHANGED <<shown, marker, journal, runs>>,
         pipeline' \in [Deliverables -> Contents \cup {None}],
         \/ UNCHANGED <<staged, backup>>
         \/ journal = NoJournal /\ Discard
  PROVE  PackageInv' /\ Harmless
<1> USE DEF Leave
<1>1. Types'
  BY DEF PackageInv, Types, Stored, Discard, Empty, NoRun
<1>2. Control' /\ Staging' /\ Installing' /\ Undoing'
  BY PackageAssumption DEF Control, Staging, Installing, Undoing, Places
<1>3. \A d \in Deliverables : Recovered(d)' = Recovered(d)
  BY DEF Recovered, Undone
<1> QED
  BY <1>1, <1>2, <1>3, KeptPackage DEF PackageInv

LEMMA LeavesInv ==
  ASSUME PackageInv, RestoreRaises \/ Refuse \/ Falter \/ Crash
  PROVE  PackageInv' /\ Harmless
<1>1. /\ Leave /\ UNCHANGED <<shown, marker, journal, runs, pipeline>>
      /\ UNCHANGED <<staged, backup>> \/ (journal = NoJournal /\ Discard)
  BY DEF RestoreRaises, Refuse, Falter, Crash, disk, counters
<1> QED
  BY <1>1, LeaveInv DEF PackageInv, Types

LEMMA EnterInv ==
  ASSUME PackageInv, NEW p \in Mutators, NEW o \in Operations, Enter(p, o)
  PROVE  PackageInv' /\ Harmless
<1>1. /\ lock = Nobody /\ lock' = p /\ step' = "recover" /\ run' \in Nat
      /\ UNCHANGED <<pipeline, shown, marker, journal, staged, backup, then, todo, target,
                     entries, runs>>
  BY DEF Enter, disk, counters, PackageInv, Types, NoRun
<1>2. Types'
  BY <1>1 DEF PackageInv, Types, Places
<1>3. Control'
  BY <1>1, PackageAssumption DEF PackageInv, Control
<1>4. Staging' /\ Installing' /\ Undoing'
  BY <1>1 DEF Staging, Installing, Undoing
<1> QED
  BY <1>1, <1>2, <1>3, <1>4, SamePackage DEF PackageInv

LEMMA AsideInv ==
  ASSUME PackageInv,
         UNCHANGED <<shown, marker, journal, staged, backup, holder, runs>>,
         pipeline' \in [Deliverables -> Contents \cup {None}]
  PROVE  PackageInv' /\ Harmless
<1> USE DEF holder
<1>1. Types'
  BY DEF PackageInv, Types
<1>2. Control'
  BY DEF PackageInv, Control
<1>3. Listed' = Listed
  BY DEF Listed
<1>4. Staging' /\ Installing' /\ Undoing'
  BY <1>3 DEF PackageInv, Staging, Installing, Undoing, InTransaction, Left, Arrived, Agrees,
             Settled
<1> QED
  BY <1>1, <1>2, <1>4, SamePackage DEF PackageInv

LEMMA PrecheckInv ==
  ASSUME PackageInv, NEW p \in Mutators, Precheck(p)
  PROVE  PackageInv' /\ Harmless
BY AsideInv DEF Precheck, disk, counters, PackageInv, Types

LEMMA ProduceInv ==
  ASSUME PackageInv, NEW d \in Deliverables, Produce(d)
  PROVE  PackageInv' /\ Harmless
<1>1. pipeline' \in [Deliverables -> Contents \cup {None}]
  BY DEF Produce, PackageInv, Types
<1> QED
  BY <1>1, AsideInv DEF Produce, counters

-----------------------------------------------------------------------------
(* The recovery and the clean-up.                                          *)

\* A step of the control alone.
LEMMA GotoInv ==
  ASSUME PackageInv, UNCHANGED <<disk, lock, run, target, entries, runs>>,
         step' \in Places, todo' \subseteq Deliverables, Control', Undoing',
         step' \notin {"stage", "install"}
  PROVE  PackageInv' /\ Harmless
<1> USE DEF disk
<1>1. Types'
  BY DEF PackageInv, Types
<1>2. Staging' /\ Installing'
  BY DEF Staging, Installing
<1> QED
  BY <1>1, <1>2, SamePackage DEF PackageInv

LEMMA RecoverInv ==
  ASSUME PackageInv, Recover
  PROVE  PackageInv' /\ Harmless
<1>1. /\ UNCHANGED <<disk, lock, run, target, entries, runs>>
      /\ step = "recover" /\ step' \in Places /\ todo' \subseteq Deliverables
      /\ step' \notin {"stage", "install"}
  BY DEF Recover, counters, Goto, Places, PackageInv, Types, Journals
<1>2. Control'
  BY <1>1, PackageAssumption DEF Recover, Goto, PackageInv, Control, disk, Places
<1>3. Undoing'
  BY <1>1 DEF Recover, Goto, Undoing, disk
<1> QED
  BY <1>1, <1>2, <1>3, GotoInv

LEMMA RestoredInv ==
  ASSUME PackageInv, Restored
  PROVE  PackageInv' /\ Harmless
<1>1. /\ UNCHANGED <<disk, lock, run, then, target, entries, runs, todo>>
      /\ step = "restore" /\ step' = "purge" /\ todo = {}
  BY DEF Restored, counters, Goto
<1>2. Control'
  BY <1>1, PackageAssumption DEF PackageInv, Control, disk, Places
<1>3. Undoing'
  BY <1>1 DEF PackageInv, Undoing, disk, Settled
<1> QED
  BY <1>1, <1>2, <1>3, GotoInv DEF Places

\* What restore writes: the old deliverable is back where the journal can be undone.
LEMMA RestoreInv ==
  ASSUME PackageInv, NEW d \in Deliverables, Restore(d)
  PROVE  PackageInv' /\ Harmless
<1>1. /\ step = "restore" /\ d \in todo /\ todo' = todo \ {d}
      /\ d \in journal.had => backup[d] # None
      /\ shown' = [shown EXCEPT ![d] = IF d \in journal.had THEN backup[d] ELSE None]
      /\ UNCHANGED <<pipeline, marker, journal, staged, backup, lock, step, then, target,
                     entries, runs, run>>
  BY DEF Restore, Restorable, counters
<1>2. /\ shown'[d] = IF d \in journal.had THEN backup[d] ELSE None
      /\ \A e \in Deliverables \ {d} : shown'[e] = shown[e]
  BY <1>1 DEF PackageInv, Types, Stored
<1>3. Types'
  BY <1>1 DEF PackageInv, Types, Stored
<1>4. Control'
  BY <1>1 DEF PackageInv, Control
<1>5. Staging' /\ Installing'
  BY <1>1 DEF Staging, Installing
<1>6. journal \in Journals /\ marker # journal.target /\ todo \subseteq journal.entries
  BY <1>1 DEF PackageInv, Types, Control
<1>7. Undoing'
  BY <1>1, <1>2, <1>6 DEF PackageInv, Undoing, Settled, Journals
<1>8. \A e \in Deliverables : Recovered(e)' = Recovered(e)
  BY <1>1, <1>2, <1>6, PackageAssumption DEF Recovered, Undone, PackageInv, Control
<1> QED
  BY <1>1, <1>3, <1>4, <1>5, <1>7, <1>8, KeptPackage DEF PackageInv

\* A directory is out of the way only while its old form is in the backup.
LEMMA VacateInv ==
  ASSUME PackageInv, EditableFiles, NEW d \in Deliverables, Vacate(d)
  PROVE  PackageInv' /\ Harmless
<1>1. /\ step \in {"install", "restore"} /\ d \in todo /\ d \in Folders
      /\ step = "restore" => Restorable(d)
      /\ shown' = [shown EXCEPT ![d] = None]
      /\ UNCHANGED <<pipeline, marker, journal, staged, backup, lock, step, then, target,
                     entries, runs, run, todo>>
  BY DEF Vacate, counters, holder
<1>2. /\ shown'[d] = None
      /\ \A e \in Deliverables \ {d} : shown'[e] = shown[e]
  BY <1>1 DEF PackageInv, Types, Stored
<1>3. Types'
  BY <1>1 DEF PackageInv, Types, Stored
<1>4. Control'
  BY <1>1 DEF PackageInv, Control
<1>5. journal \in Journals /\ journal # NoJournal /\ d \in journal.entries /\ d \notin Editable
  BY <1>1, PackageAssumption DEF PackageInv, Types, Control, EditableFiles
<1>6. marker # journal.target /\ Restorable(d)
  <2>1. CASE step = "install"
    BY <1>1, <1>5, <2>1 DEF PackageInv, Control, Installing, Restorable
  <2>2. CASE step = "restore"
    BY <1>1, <2>2 DEF PackageInv, Control
  <2> QED
    BY <1>1, <2>1, <2>2
<1>7. \A e \in Deliverables : Recovered(e)' = Recovered(e)
  BY <1>1, <1>2, <1>5, <1>6 DEF Recovered, Undone, Restorable
<1>8. Staging' /\ Undoing'
  BY <1>1, <1>2 DEF PackageInv, Staging, Undoing, Settled, Types, Journals, Control
<1>9. Installing'
  <2>1. CASE step = "install"
    <3>1. Listed' = Listed
      BY <1>1 DEF Listed
    <3>2. \A e \in Deliverables : e \notin todo => Arrived(e)' = Arrived(e)
      BY <1>1, <1>2 DEF Arrived
    <3> QED
      BY <1>1, <2>1, <3>1, <3>2 DEF PackageInv, Installing, Left, Control
  <2> QED
    BY <1>1, <2>1 DEF Installing
<1> QED
  BY <1>1, <1>3, <1>4, <1>7, <1>8, <1>9, KeptPackage DEF PackageInv

\* The root has had its old form back since the restore, so that the backup can go.
LEMMA PurgeInv ==
  ASSUME PackageInv, Purge
  PROVE  PackageInv' /\ Harmless
<1>1. /\ step = "purge" /\ step' \in {"purge", "unlink"}
      /\ UNCHANGED <<pipeline, shown, marker, journal, then, todo, target, entries, runs, run,
                     lock>>
      /\ backup \in Stored /\ backup' \in Stored
      /\ \A d \in Deliverables : backup'[d] \in {backup[d], None}
      /\ staged' = staged \/ staged' = Empty
      /\ step' = "unlink" => backup' = Empty
  BY DEF Purge, Goto, counters, PackageInv, Types, Stored
<1>2. Types'
  BY <1>1 DEF PackageInv, Types, Empty, Places
<1>3. Control'
  BY <1>1, PackageAssumption DEF PackageInv, Control, Places
<1>4. Staging' /\ Installing'
  BY <1>1 DEF Staging, Installing
<1>5. journal \in Journals /\ journal # NoJournal
  BY <1>1 DEF PackageInv, Types, Control
<1>6. Undoing'
  BY <1>1, <1>5 DEF PackageInv, Undoing, Settled, Journals
<1>7. ASSUME NEW d \in Deliverables
      PROVE  \/ Recovered(d)' = Recovered(d)
             \/ /\ d \in Editable /\ Recovered(d) # None
                /\ Recovered(d)' = Edited /\ Edited # None
  <2>1. CASE Undone(d)
    <3>1. Settled(d) /\ Undone(d)'
      BY <1>1, <2>1 DEF PackageInv, Undoing, Undone
    <3> QED
      BY <1>1, <2>1, <3>1, PackageAssumption DEF Recovered, Settled
  <2>2. CASE ~Undone(d)
    BY <1>1, <2>2 DEF Recovered, Undone
  <2> QED
    BY <2>1, <2>2
<1>8. Faithful' /\ Harmless
  <2>1. Listed' = Listed
    BY <1>1 DEF Listed
  <2> QED
    BY <1>1, <1>7, <2>1 DEF PackageInv, Faithful, Agrees, Harmless
<1> QED
  BY <1>2, <1>3, <1>4, <1>6, <1>8 DEF PackageInv

LEMMA UnlinkInv ==
  ASSUME PackageInv, Unlink
  PROVE  PackageInv' /\ Harmless
<1>1. /\ step = "unlink" /\ journal' = NoJournal
      /\ UNCHANGED <<pipeline, shown, marker, staged, backup, runs>>
      /\ \/ /\ step' = "load" /\ then = "load" /\ then' = None
            /\ UNCHANGED <<todo, target, entries, run, lock>>
         \/ Leave
  BY DEF Unlink, Goto, counters
<1>2. Types'
  BY <1>1 DEF PackageInv, Types, Places, Leave, NoRun
<1>3. Control'
  BY <1>1, PackageAssumption DEF PackageInv, Control, Leave, Places
<1>4. Staging' /\ Installing' /\ Undoing'
  BY <1>1, PackageAssumption DEF Staging, Installing, Undoing, Leave, Places
<1>5. journal \in Journals /\ journal # NoJournal /\ backup = Empty
  BY <1>1 DEF PackageInv, Types, Control
<1>6. \A d \in Deliverables : Recovered(d)' = Recovered(d)
  BY <1>1, <1>5 DEF Recovered, Undone, PackageInv, Undoing, Settled, Empty
<1> QED
  BY <1>1, <1>2, <1>3, <1>4, <1>6, KeptPackage DEF PackageInv

-----------------------------------------------------------------------------
(* A user's edit.                                                          *)

\* It stays, or gives way to what a publication restores or installs.
LEMMA EditInv ==
  ASSUME PackageInv, NEW d \in Deliverables, Edit(d)
  PROVE  PackageInv' /\ Harmless
<1>1. /\ d \in Editable /\ shown[d] # None
      /\ shown' = [shown EXCEPT ![d] = Edited]
      /\ UNCHANGED <<pipeline, marker, journal, staged, backup, lock, step, then, target,
                     entries, runs, run, todo>>
  BY DEF Edit, holder
<1>2. /\ shown'[d] = Edited
      /\ \A e \in Deliverables \ {d} : shown'[e] = shown[e]
      /\ Edited # None
  BY <1>1, PackageAssumption DEF PackageInv, Types, Stored
<1>3. Types'
  BY <1>1 DEF PackageInv, Types, Stored
<1>4. Control'
  BY <1>1 DEF PackageInv, Control
<1>5. Listed' = Listed
  BY <1>1 DEF Listed
<1>6. \A e \in Deliverables :
        \/ Recovered(e)' = Recovered(e)
        \/ e \in Editable /\ Recovered(e) # None /\ Recovered(e)' = Edited
  BY <1>1, <1>2 DEF Recovered, Undone
<1>7. Faithful' /\ Harmless
  BY <1>1, <1>2, <1>5, <1>6 DEF PackageInv, Faithful, Agrees, Harmless
<1>8. Undoing'
  BY <1>1, <1>2 DEF PackageInv, Undoing, Settled
<1>9. \A e \in Deliverables :
        /\ Arrived(e) => Arrived(e)'
        /\ Left(e) => Left(e)'
        /\ InTransaction(e) => InTransaction(e)'
  BY <1>1, <1>2, <1>5 DEF Arrived, Left, InTransaction, Agrees
<1>10. Staging' /\ Installing'
  BY <1>1, <1>9, <1>5 DEF PackageInv, Staging, Installing
<1> QED
  BY <1>3, <1>4, <1>7, <1>8, <1>10 DEF PackageInv

-----------------------------------------------------------------------------
(* The publication, up to its marker.                                      *)

LEMMA AimInv ==
  ASSUME PackageInv, Aim
  PROVE  PackageInv' /\ Harmless
<1>1. /\ step = "load" /\ step' = "stage" /\ todo' = Deliverables
      /\ UNCHANGED <<pipeline, shown, marker, journal, staged, backup, then, entries, runs, run,
                     lock>>
      /\ marker \in Markers /\ run \in Nat
  BY DEF Aim, Ready, Loadable, Goto, counters, disk, PackageInv, Types
<1>2. target' \in Markers /\ target'.active = NoRun /\ target'.listed = Listed
  <2>1. \/ target' = marker /\ marker.active = NoRun
        \/ target' = [marker EXCEPT !.active = NoRun, !.analysis = run]
        \/ target' = [marker EXCEPT !.active = NoRun]
    BY DEF Aim
  <2>2. Listed = marker.listed
    BY <1>1, PackageAssumption DEF Listed
  <2>3. CASE target' = marker /\ marker.active = NoRun
    BY <1>1, <2>2, <2>3
  <2>4. CASE target' = [marker EXCEPT !.active = NoRun, !.analysis = run]
    BY <1>1, <2>2, <2>4 DEF Markers, NoRun
  <2>5. CASE target' = [marker EXCEPT !.active = NoRun]
    BY <1>1, <2>2, <2>5 DEF Markers, NoRun
  <2> QED
    BY <2>1, <2>3, <2>4, <2>5
<1>3. Types'
  BY <1>1, <1>2 DEF PackageInv, Types, Places
<1>4. Control'
  BY <1>1, <1>2, PackageAssumption DEF PackageInv, Control, Places
<1>5. Staging'
  BY <1>1, <1>2 DEF PackageInv, Control, Staging, Left, Listed
<1>6. Installing' /\ Undoing'
  BY <1>1 DEF Installing, Undoing
<1> QED
  BY <1>1, <1>3, <1>4, <1>5, <1>6, SamePackage DEF PackageInv

LEMMA StageInv ==
  ASSUME PackageInv, NEW d \in Deliverables, Stage(d)
  PROVE  PackageInv' /\ Harmless
<1>1. /\ step = "stage" /\ d \in todo /\ todo' = todo \ {d}
      /\ UNCHANGED <<pipeline, shown, marker, journal, lock, step, then, runs, run>>
      /\ journal = NoJournal
      /\ target \in Markers /\ target.active = NoRun
      /\ pipeline[d] \in Contents \cup {None}
  BY DEF Stage, counters, PackageInv, Types, Control
<1>2. CASE pipeline[d] = None
  <2>1. UNCHANGED <<staged, backup, target, entries>>
    BY <1>2 DEF Stage
  <2>2. Types' /\ Control'
    BY <1>1, <2>1 DEF PackageInv, Types, Control
  <2>3. Staging' /\ Installing' /\ Undoing'
    BY <1>1, <2>1 DEF PackageInv, Staging, Installing, Undoing, InTransaction, Left, Arrived,
                  Agrees, Listed
  <2> QED
    BY <1>1, <2>1, <2>2, <2>3, SamePackage DEF PackageInv
<1>3. CASE pipeline[d] # None
  <2>1. /\ staged' = [staged EXCEPT ![d] = pipeline[d]]
        /\ target' = [target EXCEPT !.listed[d] = pipeline[d]]
        /\ \/ shown[d] = pipeline[d] /\ UNCHANGED <<backup, entries>>
           \/ /\ shown[d] # pipeline[d]
              /\ backup' = [backup EXCEPT ![d] = shown[d]] /\ entries' = entries \cup {d}
    BY <1>3 DEF Stage
  <2>2. /\ target' \in Markers /\ target'.active = NoRun
        /\ target'.listed[d] = pipeline[d] /\ staged'[d] = pipeline[d]
        /\ \A e \in Deliverables \ {d} :
             target'.listed[e] = target.listed[e] /\ staged'[e] = staged[e]
    BY <1>1, <1>3, <2>1 DEF PackageInv, Types, Markers
  <2>3. /\ staged' \in [Deliverables -> Contents \cup {None}] /\ backup' \in Stored
        /\ entries' \subseteq Deliverables
        /\ \A e \in Deliverables \ {d} :
             backup'[e] = backup[e] /\ (e \in entries' <=> e \in entries)
        /\ shown[d] # pipeline[d] => backup'[d] = shown[d] /\ d \in entries'
    BY <1>1, <2>1 DEF PackageInv, Types, Stored
  <2>4. Types'
    BY <1>1, <2>2, <2>3 DEF PackageInv, Types
  <2>5. Control'
    BY <1>1, <2>2, PackageAssumption DEF PackageInv, Control, Places
  <2>6. d \notin entries /\ Listed' = Listed /\ Agrees(d, shown[d])
    BY <1>1, NothingUndone DEF PackageInv, Staging, Faithful, Listed
  <2>7. ASSUME NEW e \in Deliverables
        PROVE  IF e \in entries' THEN e \notin todo' /\ InTransaction(e)'
               ELSE Left(e)' /\ (e \in todo' => target'.listed[e] = Listed'[e])
    <3>1. CASE e = d /\ shown[d] = pipeline[d]
      BY <1>1, <1>3, <2>1, <2>2, <2>6, <3>1 DEF Left, Arrived
    <3>2. CASE e = d /\ shown[d] # pipeline[d]
      BY <1>1, <1>3, <2>2, <2>3, <2>6, <3>2 DEF InTransaction, Agrees
    <3>3. CASE e # d /\ e \in entries
      BY <1>1, <2>2, <2>3, <2>6, <3>3 DEF PackageInv, Staging, InTransaction, Agrees
    <3>4. CASE e # d /\ e \notin entries
      BY <1>1, <2>2, <2>3, <2>6, <3>4 DEF PackageInv, Staging, Left, Arrived
    <3> QED
      BY <3>1, <3>2, <3>3, <3>4
  <2>8. Staging'
    BY <2>7 DEF Staging
  <2>9. Installing' /\ Undoing'
    BY <1>1 DEF Installing, Undoing
  <2>10. \A e \in Deliverables : Recovered(e)' = Recovered(e)
    BY <1>1, NothingUndone DEF Recovered, Undone
  <2> QED
    BY <1>1, <2>4, <2>5, <2>8, <2>9, <2>10, KeptPackage DEF PackageInv
<1> QED
  BY <1>2, <1>3

\* From the journal on, a recovery would put the backups back.
LEMMA WriteJournalInv ==
  ASSUME PackageInv, WriteJournal
  PROVE  PackageInv' /\ Harmless
<1>1. /\ step = "stage" /\ step' = "install" /\ todo = {} /\ todo' = entries
      /\ journal' = [target |-> target, entries |-> entries,
                     had |-> {d \in entries : backup[d] # None}]
      /\ UNCHANGED <<pipeline, shown, marker, staged, backup, lock, then, target, entries, runs,
                     run>>
      /\ journal = NoJournal /\ target \in Markers /\ entries \subseteq Deliverables
  BY DEF WriteJournal, Goto, counters, PackageInv, Types, Control
<1>2. journal' \in Journals /\ journal' # NoJournal
  BY <1>1, PackageAssumption DEF Journals
<1>3. Types'
  BY <1>1, <1>2 DEF PackageInv, Types, Places
<1>4. Control'
  BY <1>1, <1>2, PackageAssumption DEF PackageInv, Control, Places
<1>5. Listed' = Listed /\ Undoing'
  BY <1>1 DEF Listed, Undoing
<1>6. \A d \in entries : InTransaction(d)
  BY <1>1 DEF PackageInv, Staging
<1>7. \A d \in Deliverables \ entries : Left(d)
  BY <1>1 DEF PackageInv, Staging
<1>8. \A d \in entries : marker = target => d \in Editable
  <2>1. marker = target => Listed = target.listed
    BY <1>1, PackageAssumption DEF Listed
  <2> QED
    BY <1>6, <2>1 DEF InTransaction, Agrees
<1>9. Installing'
  BY <1>1, <1>5, <1>6, <1>7, <1>8 DEF Installing, InTransaction, Left, Arrived
<1>10. ASSUME NEW d \in Deliverables
       PROVE  /\ Recovered(d)' \in {shown[d], backup[d]}
              /\ Recovered(d)' # shown[d] => d \in entries /\ Recovered(d)' = backup[d]
  BY <1>1, <1>2 DEF Recovered, Undone
<1>11. Faithful' /\ Harmless
  <2>1. \A d \in Deliverables : Recovered(d) = shown[d] /\ Agrees(d, shown[d])
    BY <1>1, NothingUndone DEF PackageInv, Faithful
  <2> QED
    BY <1>1, <1>5, <1>6, <1>10, <2>1 DEF Faithful, Agrees, Harmless, InTransaction
<1>12. Staging'
  BY <1>1 DEF Staging
<1> QED
  BY <1>3, <1>4, <1>5, <1>9, <1>11, <1>12 DEF PackageInv

LEMMA InstallInv ==
  ASSUME PackageInv, NEW d \in Deliverables, Install(d)
  PROVE  PackageInv' /\ Harmless
<1>1. /\ step = "install" /\ d \in todo /\ todo' = todo \ {d}
      /\ shown' = [shown EXCEPT ![d] = staged[d]] /\ staged' = [staged EXCEPT ![d] = None]
      /\ UNCHANGED <<pipeline, marker, journal, backup, lock, step, then, target, entries, runs,
                     run>>
  BY DEF Install, counters
<1>2. /\ shown'[d] = target.listed[d] /\ target.listed[d] # None
      /\ \A e \in Deliverables \ {d} : shown'[e] = shown[e] /\ staged'[e] = staged[e]
  BY <1>1 DEF PackageInv, Types, Stored, Installing
<1>3. Types'
  BY <1>1 DEF PackageInv, Types, Stored
<1>4. Control'
  BY <1>1 DEF PackageInv, Control
<1>5. Staging' /\ Undoing' /\ Listed' = Listed
  BY <1>1 DEF Staging, Undoing, Listed
<1>6. /\ journal \in Journals /\ journal # NoJournal
      /\ journal.target = target /\ d \in journal.entries /\ d \in entries
      /\ d \in journal.had => backup[d] # None
  BY <1>1 DEF PackageInv, Types, Control
<1>7. /\ Arrived(d)'
      /\ \A e \in Deliverables \ {d} : Arrived(e)' = Arrived(e) /\ Left(e)' = Left(e)
  BY <1>1, <1>2, <1>5 DEF Arrived, Left
<1>8. Installing'
  BY <1>1, <1>2, <1>6, <1>7 DEF PackageInv, Installing
<1>9. CASE marker # target
  <2>1. \A e \in Deliverables : Recovered(e)' = Recovered(e)
    BY <1>1, <1>2, <1>6, <1>9 DEF Recovered, Undone
  <2> QED
    BY <1>1, <1>3, <1>4, <1>5, <1>8, <2>1, KeptPackage DEF PackageInv
<1>10. CASE marker = target
  <2>1. d \in Editable /\ Listed = target.listed
    BY <1>1, <1>6, <1>10, PackageAssumption DEF PackageInv, Control, Installing, Listed
  <2>2. \A e \in Deliverables : Recovered(e) = shown[e] /\ Recovered(e)' = shown'[e]
    BY <1>1, <1>6, <1>10 DEF Recovered, Undone
  <2>3. Faithful' /\ Harmless
    BY <1>1, <1>2, <1>5, <2>1, <2>2 DEF PackageInv, Faithful, Agrees, Harmless
  <2> QED
    BY <1>3, <1>4, <1>5, <1>8, <2>3 DEF PackageInv
<1> QED
  BY <1>9, <1>10

LEMMA AbortInv ==
  ASSUME PackageInv, Abort
  PROVE  PackageInv' /\ Harmless
<1>1. /\ step \in {"stage", "install"}
      /\ UNCHANGED <<pipeline, shown, marker, journal, runs>>
  BY DEF Abort, counters
<1>2. CASE journal = NoJournal /\ Leave /\ Discard
  BY <1>1, <1>2, LeaveInv DEF PackageInv, Types
<1>3. CASE journal # NoJournal
  <2>1. /\ step' \in {"restore", "purge"}
        /\ UNCHANGED <<lock, run, staged, backup, then, target, entries>>
        /\ \/ step' = "restore" /\ marker # journal.target /\ todo' = journal.entries
           \/ step' = "purge" /\ marker = journal.target /\ UNCHANGED todo
    BY <1>3 DEF Abort, Goto
  <2>2. step = "install" /\ journal \in Journals
    BY <1>1, <1>3 DEF PackageInv, Control, Types
  <2>3. Control'
    BY <1>1, <2>1, <2>2, PackageAssumption DEF PackageInv, Control, Places
  <2>4. Undoing'
    BY <1>1, <2>1 DEF Undoing
  <2>5. step' \in Places /\ todo' \subseteq Deliverables
    BY <2>1, <2>2 DEF Places, Journals, PackageInv, Types
  <2> QED
    BY <1>1, <2>1, <2>3, <2>4, <2>5, GotoInv DEF disk
<1> QED
  BY <1>2, <1>3 DEF Abort

-----------------------------------------------------------------------------
(* The steps that write the marker.                                        *)

\* The beginning or the end of an attempt, while no publication is under way.
LEMMA AttemptInv ==
  ASSUME PackageInv, Start \/ End
  PROVE  /\ PackageInv' /\ Listed' = Listed
         /\ \A d \in Deliverables : Recovered(d)' = Recovered(d)
<1>1. /\ step = "load" /\ Leave /\ runs' \in Nat
      /\ UNCHANGED <<pipeline, shown, journal, staged, backup>>
      /\ journal = NoJournal
  BY DEF Start, End, Ready, counters, PackageInv, Types, Control
<1>2. marker' \in Markers /\ Listed' = Listed
  <2>1. CASE Start
    <3>1. CASE marker = NoMarker
      <4>1. NoAnalysis \in Markers
        BY DEF NoAnalysis, Markers, Empty, NoRun
      <4>2. marker' = [NoAnalysis EXCEPT !.active = runs + 1]
        BY <2>1, <3>1 DEF Start
      <4>3. marker' \in Markers /\ marker'.listed = Empty
        BY <4>1, <4>2 DEF PackageInv, Types, Markers, NoAnalysis
      <4> QED
        BY <3>1, <4>3, PackageAssumption DEF Listed
    <3>2. CASE marker # NoMarker
      <4>1. marker \in Markers /\ marker' = [marker EXCEPT !.active = runs + 1]
        BY <2>1, <3>2 DEF Start, PackageInv, Types
      <4>2. marker' \in Markers /\ marker'.listed = marker.listed
        BY <4>1 DEF PackageInv, Types, Markers
      <4> QED
        BY <3>2, <4>2, PackageAssumption DEF Listed
    <3> QED
      BY <3>1, <3>2
  <2>2. CASE End
    <3>1. marker \in Markers /\ marker' = [marker EXCEPT !.active = NoRun]
      BY <2>2 DEF End, Ready, Loadable, PackageInv, Types
    <3>2. marker' \in Markers /\ marker'.listed = marker.listed
      BY <3>1 DEF Markers, NoRun
    <3> QED
      BY <3>1, <3>2, PackageAssumption DEF Listed
  <2> QED
    BY <2>1, <2>2
<1>3. Types'
  BY <1>1, <1>2 DEF PackageInv, Types, Leave, NoRun
<1>4. Control' /\ Staging' /\ Installing' /\ Undoing'
  BY <1>1, PackageAssumption DEF Control, Staging, Installing, Undoing, Leave, Places
<1>5. \A d \in Deliverables : Recovered(d)' = Recovered(d)
  BY <1>1 DEF Recovered, Undone
<1>6. Faithful'
  BY <1>2, <1>5 DEF PackageInv, Faithful, Agrees
<1> QED
  BY <1>2, <1>3, <1>4, <1>5, <1>6 DEF PackageInv

\* With the marker the root is the new package: what is new in the list has arrived, and
\* the rest is as it was.
LEMMA WriteMarkerInv ==
  ASSUME PackageInv, WriteMarker
  PROVE  /\ PackageInv' /\ marker'.active = NoRun
         /\ \A d \in Deliverables :
              \/ Listed'[d] = Recovered(d)' /\ Listed'[d] # None
              \/ Listed'[d] = Listed[d] /\ Recovered(d)' = Recovered(d)
              \/ d \in Editable /\ Recovered(d)' # None
<1>1. /\ marker' = target /\ UNCHANGED <<pipeline, shown, journal, runs>>
      /\ todo = {}
      /\ \/ /\ step = "install" /\ step' = "purge"
            /\ UNCHANGED <<staged, backup, then, todo, target, entries, lock, run>>
         \/ step = "stage" /\ entries = {} /\ Leave /\ Discard
  BY DEF WriteMarker, Goto, counters
<1>2. target \in Markers /\ target.active = NoRun /\ Listed' = target.listed
  BY <1>1, PackageAssumption DEF PackageInv, Types, Control, Listed
<1>3. /\ step = "install" => journal \in Journals /\ journal.target = target
                              /\ journal.entries = entries
      /\ step = "stage" => journal = NoJournal
  BY DEF PackageInv, Types, Control
<1>4. Types'
  BY <1>1, <1>2 DEF PackageInv, Types, Leave, Discard, Empty, Stored, Places, NoRun
<1>5. Control'
  BY <1>1, <1>2, <1>3, PackageAssumption DEF PackageInv, Control, Leave, Places
<1>6. Staging' /\ Installing' /\ Undoing'
  BY <1>1, <1>3, PackageAssumption DEF Staging, Installing, Undoing, Leave, Places
<1>7. ASSUME NEW d \in Deliverables
      PROVE  /\ Recovered(d)' = shown[d]
             /\ Arrived(d) \/ (target.listed[d] = Listed[d] /\ Recovered(d) = shown[d])
  <2>1. Recovered(d)' = shown[d]
    BY <1>1, <1>3 DEF Recovered, Undone
  <2>2. d \in entries => Arrived(d)
    BY <1>1 DEF PackageInv, Installing
  <2>3. d \notin entries => Left(d) /\ Recovered(d) = shown[d]
    BY <1>1, <1>3 DEF PackageInv, Installing, Staging, Recovered, Undone
  <2> QED
    BY <2>1, <2>2, <2>3 DEF Left
<1>8. Faithful'
  BY <1>2, <1>7 DEF PackageInv, Faithful, Agrees, Arrived
<1>9. \A d \in Deliverables : Arrived(d) =>
        \/ Listed'[d] = shown[d] /\ Listed'[d] # None
        \/ d \in Editable /\ shown[d] # None
  BY <1>2, PackageAssumption DEF Arrived
<1> QED
  BY <1>1, <1>2, <1>4, <1>5, <1>6, <1>7, <1>8, <1>9 DEF PackageInv

-----------------------------------------------------------------------------
(* The theorems.                                                           *)

LEMMA StutterInv ==
  ASSUME PackageInv, UNCHANGED packageVars
  PROVE  PackageInv' /\ Harmless
BY AsideInv DEF packageVars, disk, counters, PackageInv, Types

\* A step is a commit, begins or ends an attempt, or is harmless.
LEMMA PackageStep ==
  ASSUME PackageInv, EditableFiles, [PackageNext]_packageVars
  PROVE  /\ PackageInv'
         /\ Start \/ End \/ WriteMarker \/ Harmless
<1>1. ASSUME NEW p \in Mutators,
             Precheck(p) \/ \E o \in Operations : Enter(p, o)
      PROVE  PackageInv' /\ Harmless
  BY <1>1, PrecheckInv, EnterInv
<1>2. ASSUME NEW d \in Deliverables,
             Restore(d) \/ Vacate(d) \/ Stage(d) \/ Install(d) \/ Produce(d) \/ Edit(d)
      PROVE  PackageInv' /\ Harmless
  BY <1>2, RestoreInv, VacateInv, StageInv, InstallInv, ProduceInv, EditInv
<1>3. CASE Recover \/ Restored \/ RestoreRaises \/ Purge \/ Unlink
  BY <1>3, RecoverInv, RestoredInv, LeavesInv, PurgeInv, UnlinkInv
<1>4. CASE Start \/ End \/ WriteMarker
  BY <1>4, AttemptInv, WriteMarkerInv
<1>5. CASE Aim \/ Refuse \/ WriteJournal \/ Abort \/ Falter \/ Crash
  BY <1>5, AimInv, LeavesInv, WriteJournalInv, AbortInv
<1> QED
  BY <1>1, <1>2, <1>3, <1>4, <1>5, StutterInv DEF PackageNext

\* The types, the places of the mutator, and what the publication or the rollback under
\* way has reached hold throughout (_package_write_lock and everything below it).
THEOREM PackageInvariance ==
  ASSUME EditableFiles PROVE PackageSpec => []PackageInv
<1>1. PackageInv /\ [PackageNext]_packageVars => PackageInv'
  BY PackageStep
<1> QED
  BY <1>1, InitInv, PTL DEF PackageSpec

\* However often a process dies, publications are interrupted and users edit: when there
\* is no journal the root shows what the marker lists (_publish_package_unlocked).
THEOREM ListedAlwaysShown ==
  ASSUME EditableFiles PROVE PackageSpec => []ListedIsShown
<1>1. PackageInv => ListedIsShown
  BY NothingUndone DEF PackageInv, Faithful, Agrees, ListedIsShown
<1> QED
  BY <1>1, PackageInvariance, PTL

\* A reader who recovers first sees one generation or the next, never a mixture, and no
\* publication during an attempt: the implementation of AtomicPackage.
THEOREM PackageIsAtomic ==
  ASSUME EditableFiles PROVE PackageSpec => PublicationIsAtomic
<1>1. PackageInit => Promise!PackageInit
  <2> SUFFICES ASSUME PackageInit PROVE Promise!PackageInit
    OBVIOUS
  <2>1. Listed = Empty /\ marker = NoMarker
    BY DEF PackageInit, Listed
  <2>2. \A d \in Deliverables : Recovered(d) = None
    BY NothingUndone DEF PackageInit, Empty
  <2> QED
    BY <2>1, <2>2 DEF Promise!PackageInit, Promise!NothingYet, Empty
<1>2. ASSUME PackageInv, [PackageNext]_packageVars
      PROVE  \/ Promise!Commit \/ Promise!Attempt \/ Promise!Disturb
  <2>1. CASE Start \/ End
    <3>1. Listed' = Listed /\ \A d \in Deliverables : Recovered(d)' = Recovered(d)
      BY <1>2, <2>1, AttemptInv
    <3> QED
      BY <3>1 DEF Promise!Attempt
  <2>2. CASE WriteMarker
    BY <1>2, <2>2, WriteMarkerInv DEF Promise!Commit, Promise!ChangedInPlace
  <2>3. CASE Harmless
    <3>1. Listed' = Listed
      BY <2>3 DEF Harmless, Listed
    <3> QED
      BY <2>3, <3>1 DEF Harmless, Promise!Disturb, Promise!ChangedInPlace
  <2> QED
    BY <1>2, <2>1, <2>2, <2>3, PackageStep
<1> QED
  BY <1>1, <1>2, PackageInvariance, PTL
     DEF PackageSpec, PublicationIsAtomic, Promise!AtomicPackageSpec
=============================================================================
