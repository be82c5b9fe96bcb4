----------------------------- MODULE AtomicPackage -----------------------------
(***************************************************************************)
(* What a result package promises whoever opens it: the list of its        *)
(* deliverables and the deliverables change together, in one step, and not *)
(* while an analysis attempt is under way.  What users edit is promised    *)
(* only to stay there.  PackagePublication implements this.                *)
(***************************************************************************)
CONSTANTS Deliverables, Editable, None

VARIABLES listed,   \* the digest the marker lists, by deliverable
          files,    \* the deliverable, by its digest
          running   \* an attempt is under way

NothingYet == [d \in Deliverables |-> None]

PackageInit == listed = NothingYet /\ files = NothingYet /\ running = FALSE

ChangedInPlace(d) == d \in Editable /\ files'[d] # None

\* A generation is published: what is new in the list is the file.
Commit ==
  /\ ~running'
  /\ \A d \in Deliverables :
       \/ listed'[d] = files'[d] /\ listed'[d] # None
       \/ listed'[d] = listed[d] /\ files'[d] = files[d]
       \/ ChangedInPlace(d)

\* An attempt begins or ends.
Attempt == running' \in BOOLEAN /\ UNCHANGED <<listed, files>>

Disturb ==
  /\ UNCHANGED <<listed, running>>
  /\ \A d \in Deliverables : files'[d] = files[d] \/ ChangedInPlace(d)

AtomicPackageSpec ==
  PackageInit /\ [][Commit \/ Attempt \/ Disturb]_<<listed, files, running>>
=============================================================================
