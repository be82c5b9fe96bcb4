------------------------- MODULE ClaimSnapshots_proofs -------------------------
(***************************************************************************)
(* That a claim base and its effective snapshot are whole whenever no      *)
(* journal is there, that a fold covers what was there when it began, that *)
(* a read without the lock returns nothing half published, and that nobody *)
(* decides blindly: for every number of processes, publications, changes,  *)
(* decisions and deaths.                                                   *)
(***************************************************************************)
EXTENDS ClaimSnapshots, SequenceTheorems, FiniteSetTheorems, TLAPS

Fields == {"data", "meta", "ledger", "queue", "eff", "attempts"}

IsArtifacts(f) == f = [x \in Fields |-> f[x]]

\* What SnapshotIsWhole says, of any state of the files.
Whole(f) ==
  /\ IsArtifacts(f)
  /\ f.data = f.meta /\ f.eff.base = f.meta
  /\ f.ledger = f.eff
  /\ f.eff.current => f.queue = f.eff
  /\ f.eff = shown
  /\ f.attempts = generations

\* What the two publications are after.
Rebuilt(j) ==
  [data |-> j.candidate, meta |-> j.candidate, ledger |-> Legacy(j.candidate),
   queue |-> j.old.queue, eff |-> Legacy(j.candidate),
   attempts |-> j.old.attempts \cup {j.candidate}]

Folded(j) ==
  [data |-> j.old.data, meta |-> j.old.meta, ledger |-> j.candidate,
   queue |-> j.candidate, eff |-> j.candidate, attempts |-> j.old.attempts]

Writes(goal) == {<<f, goal[f]>> : f \in Fields}

\* The writes that are left make the files what goal is.
LeadsTo(goal) ==
  /\ todo \in Seq(Writes(goal))
  /\ \A f \in Fields : \/ files[f] = goal[f]
                       \/ \E i \in 1..Len(todo) : todo[i] = <<f, goal[f]>>

\* A rebuild in progress has touched neither the queue nor any attempt but its own, and
\* its backup is whole.
RebuildCanGoBack ==
  baseJournal # NoJournal =>
    /\ Whole(baseJournal.old)
    /\ baseJournal.candidate \notin generations
    /\ baseJournal.candidate.run \in Nat /\ baseJournal.candidate.run <= runs
    /\ files.queue = baseJournal.old.queue
    /\ \/ files.attempts = baseJournal.old.attempts
       \/ files.attempts = baseJournal.old.attempts \cup {baseJournal.candidate}

\* A fold in progress has not touched the base, and its backup is whole.
FoldCanGoBack ==
  foldJournal # NoJournal =>
    /\ Whole(foldJournal.old)
    /\ foldJournal.candidate.base = foldJournal.old.meta
    /\ files.data = foldJournal.old.data /\ files.meta = foldJournal.old.meta
    /\ files.attempts = foldJournal.old.attempts

\* What holds of the disk, whoever has died.
DiskInv ==
  /\ IsArtifacts(files)
  /\ runs \in Nat
  /\ \A g \in generations : g.run \in Nat /\ g.run <= runs
  /\ baseJournal = NoJournal \/ foldJournal = NoJournal
  /\ Settled => Whole(files)
  /\ RebuildCanGoBack /\ FoldCanGoBack

\* What the holder of the lock relies on at its place.
HolderInv ==
  /\ step = "begin" => Settled
  /\ step = "undo" /\ baseJournal # NoJournal => LeadsTo(baseJournal.old)
  /\ step = "undo" /\ baseJournal = NoJournal =>
       foldJournal # NoJournal /\ LeadsTo(foldJournal.old)
  /\ step = "write" /\ op = "publish" => baseJournal # NoJournal /\ LeadsTo(Rebuilt(baseJournal))
  /\ step = "write" /\ op # "publish" =>
       op = "fold" /\ foldJournal # NoJournal /\ LeadsTo(Folded(foldJournal))
  /\ step \in {"product", "review"} => op = "fold"
  /\ step \in {"product", "review"} /\ round # "reload" => Settled
  /\ step \in {"product", "review"} /\ round = "reload" =>
       foldJournal # NoJournal /\ \A f \in Fields : files[f] = Folded(foldJournal)[f]

\* The inductive invariant.  SnapshotIsWhole alone is not: a death leaves the files in
\* any mixture, and what makes them whole again is that the journal's backup is.
SnapshotInv == DiskInv /\ HolderInv

-----------------------------------------------------------------------------
(* Lemmas.                                                                 *)

LEMMA SnapshotIsWholeWhenSettled ==
  ASSUME DiskInv PROVE SnapshotIsWhole
BY DEF DiskInv, SnapshotIsWhole, Whole, Settled

LEMMA SomeJournal ==
  ASSUME NEW c, NEW o
  PROVE  [candidate |-> c, old |-> o] # NoJournal
BY DEF NoJournal

\* Files that agree with what is whole are whole.
LEMMA SameFiles ==
  ASSUME NEW f, NEW g, Whole(g), IsArtifacts(f), \A x \in Fields : f[x] = g[x]
  PROVE  f = g
<1>1. f = [x \in Fields |-> f[x]] /\ g = [x \in Fields |-> g[x]]
  BY DEF Whole, IsArtifacts
<1> QED
  BY <1>1

\* One more write on the way to a goal.
LEMMA WriteLeadsOn ==
  ASSUME NEW goal, LeadsTo(goal), IsArtifacts(files), todo # <<>>,
         files' = [files EXCEPT ![Head(todo)[1]] = Head(todo)[2]], todo' = Tail(todo)
  PROVE  /\ todo' \in Seq(Writes(goal))
         /\ \A f \in Fields : \/ files'[f] = goal[f]
                              \/ \E i \in 1..Len(todo') : todo'[i] = <<f, goal[f]>>
         /\ IsArtifacts(files)'
         /\ \A f \in Fields : files'[f] = files[f] \/ (files'[f] = goal[f] /\ todo[1][1] = f)
<1> DEFINE first == Head(todo)
<1>1. todo \in Seq(Writes(goal)) /\ todo # <<>>
  BY DEF LeadsTo
<1>2. /\ first \in Writes(goal) /\ first = todo[1]
      /\ Tail(todo) \in Seq(Writes(goal)) /\ Len(todo') = Len(todo) - 1
      /\ \A i \in 1..Len(todo') : todo'[i] = todo[i + 1]
      /\ Len(todo) \in Nat
  BY <1>1, HeadTailProperties, LenProperties
<1>3. PICK x \in Fields : first = <<x, goal[x]>>
  BY <1>2 DEF Writes
<1>4. files' = [files EXCEPT ![x] = goal[x]]
  <2>1. Head(todo)[1] = x /\ Head(todo)[2] = goal[x]
    BY <1>3
  <2> QED
    BY <2>1
<1>5. /\ files'[x] = goal[x] /\ \A f \in Fields \ {x} : files'[f] = files[f]
      /\ IsArtifacts(files)'
  BY <1>4 DEF IsArtifacts
<1>6. ASSUME NEW f \in Fields, f # x, NEW i \in 1..Len(todo), todo[i] = <<f, goal[f]>>
      PROVE  \E k \in 1..Len(todo') : todo'[k] = <<f, goal[f]>>
  <2>1. i # 1
    BY <1>2, <1>3, <1>6
  <2>2. i - 1 \in 1..Len(todo') /\ (i - 1) + 1 = i
    BY <1>2, <2>1
  <2> QED
    BY <1>2, <1>6, <2>2
<1>7. \A f \in Fields : \/ files'[f] = goal[f]
                        \/ \E i \in 1..Len(todo') : todo'[i] = <<f, goal[f]>>
  BY <1>5, <1>6 DEF LeadsTo
<1>8. \A f \in Fields : files'[f] = files[f] \/ (files'[f] = goal[f] /\ todo[1][1] = f)
  BY <1>2, <1>3, <1>5
<1> QED
  BY <1>1, <1>2, <1>5, <1>7, <1>8

\* With nothing left to write, the goal is reached.
LEMMA GoalReached ==
  ASSUME NEW goal, LeadsTo(goal), todo = <<>>
  PROVE  \A f \in Fields : files[f] = goal[f]
BY DEF LeadsTo

\* A step that only moves the holder to where it relies on nothing.
LEMMA HolderLeaves ==
  ASSUME DiskInv, SnapshotAssumption,
         UNCHANGED <<files, baseJournal, foldJournal, runs, generations, shown>>,
         step' \in {None, "recover"}
  PROVE  SnapshotInv'
<1>1. DiskInv'
  BY DEF DiskInv, IsArtifacts, Settled, Whole, RebuildCanGoBack, FoldCanGoBack
<1>2. HolderInv'
  BY DEF SnapshotAssumption, HolderInv
<1> QED
  BY <1>1, <1>2 DEF SnapshotInv

\* A step of the holder to a place where it reads the authority.
LEMMA HolderReads ==
  ASSUME SnapshotInv, step \in {"begin", "product", "review"}, op = "fold",
         UNCHANGED <<files, baseJournal, foldJournal, runs, generations, shown, op>>,
         step' \in {"product", "review"},
         \/ step = "begin" /\ round' # "reload"
         \/ step # "begin" /\ round' = round
         \/ step # "begin" /\ round # "reload" /\ round' # "reload"
  PROVE  SnapshotInv'
<1>1. DiskInv'
  BY DEF SnapshotInv, DiskInv, IsArtifacts, Settled, Whole, RebuildCanGoBack, FoldCanGoBack
<1>2. HolderInv'
  <2>1. step' # "begin" /\ step' # "undo" /\ step' # "write" /\ op' = "fold"
    OBVIOUS
  <2>2. round' # "reload" => Settled'
    BY DEF SnapshotInv, HolderInv, Settled
  <2>3. round' = "reload" =>
          (foldJournal # NoJournal /\ \A f \in Fields : files[f] = Folded(foldJournal)[f])'
    BY DEF SnapshotInv, HolderInv, Folded
  <2> QED
    BY <2>1, <2>2, <2>3 DEF HolderInv
<1> QED
  BY <1>1, <1>2 DEF SnapshotInv

\* A step that changes neither the disk nor the holder.
LEMMA Elsewhere ==
  ASSUME SnapshotInv,
         UNCHANGED <<files, baseJournal, foldJournal, runs, generations, shown, step, op,
                     round, todo>>
  PROVE  SnapshotInv'
<1>1. DiskInv'
  BY DEF SnapshotInv, DiskInv, IsArtifacts, Settled, Whole, RebuildCanGoBack, FoldCanGoBack
<1>2. HolderInv'
  <2>1. (step = "begin" => Settled)'
    BY DEF SnapshotInv, HolderInv, Settled
  <2>2. (step = "undo" /\ baseJournal # NoJournal => LeadsTo(baseJournal.old))'
    BY DEF SnapshotInv, HolderInv, LeadsTo, Writes
  <2>3. (step = "undo" /\ baseJournal = NoJournal =>
           foldJournal # NoJournal /\ LeadsTo(foldJournal.old))'
    BY DEF SnapshotInv, HolderInv, LeadsTo, Writes
  <2>4. (step = "write" /\ op = "publish" =>
           baseJournal # NoJournal /\ LeadsTo(Rebuilt(baseJournal)))'
    BY DEF SnapshotInv, HolderInv, LeadsTo, Writes
  <2>5. (step = "write" /\ op # "publish" =>
           op = "fold" /\ foldJournal # NoJournal /\ LeadsTo(Folded(foldJournal)))'
    BY DEF SnapshotInv, HolderInv, LeadsTo, Writes
  <2>6. (step \in {"product", "review"} => op = "fold")'
    BY DEF SnapshotInv, HolderInv
  <2>7. (step \in {"product", "review"} /\ round # "reload" => Settled)'
    BY DEF SnapshotInv, HolderInv, Settled
  <2>8. (step \in {"product", "review"} /\ round = "reload" =>
           foldJournal # NoJournal /\ \A f \in Fields : files[f] = Folded(foldJournal)[f])'
    BY DEF SnapshotInv, HolderInv, Folded
  <2> QED
    BY <2>1, <2>2, <2>3, <2>4, <2>5, <2>6, <2>7, <2>8 DEF HolderInv
<1> QED
  BY <1>1, <1>2 DEF SnapshotInv

-----------------------------------------------------------------------------
(* The steps that write.                                                   *)

\* The backup of a journal leads back to itself.
LEMMA RecoverHolds ==
  ASSUME SnapshotInv, SnapshotAssumption, Recover PROVE SnapshotInv'
<1> USE DEF Recover
<1>0. DiskInv
  BY DEF SnapshotInv
<1>1. CASE baseJournal # NoJournal
  <2> DEFINE old == baseJournal.old
  <2>1. /\ step' = "undo" /\ todo' = UndoBase(baseJournal)
        /\ UNCHANGED <<files, baseJournal, foldJournal, runs, generations, shown>>
    BY <1>1 DEF disk, counters, history
  <2>2. files.attempts \ {baseJournal.candidate} = old.attempts /\ files.queue = old.queue
    BY <1>0, <1>1 DEF DiskInv, RebuildCanGoBack, Whole
  <2>3. todo' = <<<<"data", old.data>>, <<"ledger", old.ledger>>, <<"meta", old.meta>>,
                  <<"eff", old.eff>>, <<"attempts", old.attempts>>>>
    BY <2>1, <2>2 DEF UndoBase
  <2>4. LeadsTo(old)'
    <3>1. todo' \in Seq(Writes(old))
      BY <2>3 DEF Writes, Fields
    <3>2. Len(todo') = 5
      BY <2>3
    <3>3. /\ todo'[1] = <<"data", old["data"]>> /\ todo'[2] = <<"ledger", old["ledger"]>>
          /\ todo'[3] = <<"meta", old["meta"]>> /\ todo'[4] = <<"eff", old["eff"]>>
          /\ todo'[5] = <<"attempts", old["attempts"]>> /\ files'["queue"] = old["queue"]
      BY <2>1, <2>2, <2>3
    <3>4. \A f \in Fields : \/ files'[f] = old[f]
                            \/ \E i \in 1..Len(todo') : todo'[i] = <<f, old[f]>>
      BY <3>2, <3>3 DEF Fields
    <3> QED
      BY <2>1, <3>1, <3>4 DEF LeadsTo, Writes
  <2>5. DiskInv'
    BY <1>0, <2>1 DEF DiskInv, IsArtifacts, Settled, Whole, RebuildCanGoBack, FoldCanGoBack
  <2>6. HolderInv'
    BY <1>1, <2>1, <2>4 DEF HolderInv
  <2> QED
    BY <2>5, <2>6 DEF SnapshotInv
<1>2. CASE baseJournal = NoJournal /\ foldJournal # NoJournal
  <2> DEFINE old == foldJournal.old
  <2>1. /\ step' = "undo" /\ todo' = UndoFold(foldJournal)
        /\ UNCHANGED <<files, baseJournal, foldJournal, runs, generations, shown>>
    BY <1>2 DEF disk, counters, history
  <2>2. files.data = old.data /\ files.meta = old.meta /\ files.attempts = old.attempts
    BY <1>0, <1>2 DEF DiskInv, FoldCanGoBack
  <2>3. todo' = <<<<"ledger", old.ledger>>, <<"queue", old.queue>>, <<"eff", old.eff>>>>
    BY <2>1 DEF UndoFold
  <2>4. LeadsTo(old)'
    <3>1. todo' \in Seq(Writes(old))
      BY <2>3 DEF Writes, Fields
    <3>2. Len(todo') = 3
      BY <2>3
    <3>3. /\ todo'[1] = <<"ledger", old["ledger"]>> /\ todo'[2] = <<"queue", old["queue"]>>
          /\ todo'[3] = <<"eff", old["eff"]>> /\ files'["data"] = old["data"]
          /\ files'["meta"] = old["meta"] /\ files'["attempts"] = old["attempts"]
      BY <2>1, <2>2, <2>3
    <3>4. \A f \in Fields : \/ files'[f] = old[f]
                            \/ \E i \in 1..Len(todo') : todo'[i] = <<f, old[f]>>
      BY <3>2, <3>3 DEF Fields
    <3> QED
      BY <2>1, <3>1, <3>4 DEF LeadsTo, Writes
  <2>5. DiskInv'
    BY <1>0, <2>1 DEF DiskInv, IsArtifacts, Settled, Whole, RebuildCanGoBack, FoldCanGoBack
  <2>6. HolderInv'
    BY <1>2, <2>1, <2>4 DEF HolderInv
  <2> QED
    BY <2>5, <2>6 DEF SnapshotInv
<1>3. CASE baseJournal = NoJournal /\ foldJournal = NoJournal
  <2>1. UNCHANGED <<files, baseJournal, foldJournal, runs, generations, shown>>
    BY DEF disk, counters, history
  <2>2. CASE op = "abort"
    <3>1. step' = None
      BY <1>3, <2>2 DEF Leave
    <3> QED
      BY <1>0, <2>1, <3>1, HolderLeaves
  <2>3. CASE op # "abort"
    <3>1. step' = "begin"
      BY <1>3, <2>3 DEF Goto
    <3>2. DiskInv'
      BY <1>0, <2>1 DEF DiskInv, IsArtifacts, Settled, Whole, RebuildCanGoBack, FoldCanGoBack
    <3>3. HolderInv'
      BY <1>3, <2>1, <3>1 DEF HolderInv, Settled
    <3> QED
      BY <3>2, <3>3 DEF SnapshotInv
  <2> QED
    BY <2>2, <2>3
<1> QED
  BY <1>1, <1>2, <1>3

\* The writes of an undo and of a publication.
LEMMA WriteHolds ==
  ASSUME SnapshotInv, Write PROVE SnapshotInv'
<1>0. /\ DiskInv /\ HolderInv
      /\ UNCHANGED <<baseJournal, foldJournal, runs, generations, shown, op, step, round>>
      /\ step \in {"write", "undo"} /\ todo # <<>> /\ IsArtifacts(files)
      /\ files' = [files EXCEPT ![Head(todo)[1]] = Head(todo)[2]] /\ todo' = Tail(todo)
  BY DEF Write, SnapshotInv, DiskInv, counters, history
<1>1. CASE baseJournal # NoJournal
  <2> DEFINE cand == baseJournal.candidate
             old == baseJournal.old
             goal == IF step = "undo" THEN old ELSE Rebuilt(baseJournal)
  <2>1. foldJournal = NoJournal
    BY <1>0, <1>1 DEF DiskInv
  <2>2. LeadsTo(goal) /\ (step = "write" => op = "publish")
    BY <1>0, <1>1, <2>1 DEF HolderInv
  <2>3. goal.queue = old.queue /\ goal.attempts \in {old.attempts, old.attempts \cup {cand}}
    BY DEF Rebuilt
  <2> HIDE DEF goal
  <2>4. /\ todo' \in Seq(Writes(goal))
        /\ \A f \in Fields : \/ files'[f] = goal[f]
                             \/ \E i \in 1..Len(todo') : todo'[i] = <<f, goal[f]>>
        /\ IsArtifacts(files)'
        /\ \A f \in Fields : files'[f] = files[f] \/ files'[f] = goal[f]
    BY <1>0, <2>2, WriteLeadsOn
  <2>5. files'.queue = old.queue /\ files'.attempts \in {old.attempts, old.attempts \cup {cand}}
    <3>1. "queue" \in Fields /\ "attempts" \in Fields
      BY DEF Fields
    <3>2. files.queue = old.queue /\ files.attempts \in {old.attempts, old.attempts \cup {cand}}
      BY <1>0, <1>1 DEF DiskInv, RebuildCanGoBack
    <3> QED
      BY <2>3, <2>4, <3>1, <3>2
  <2>6. DiskInv'
    <3>1. RebuildCanGoBack'
      BY <1>0, <1>1, <2>5 DEF DiskInv, RebuildCanGoBack, Whole, IsArtifacts
    <3>2. (Settled => Whole(files))' /\ FoldCanGoBack'
      BY <1>0, <1>1, <2>1 DEF Settled, FoldCanGoBack
    <3> QED
      BY <1>0, <2>1, <2>4, <3>1, <3>2 DEF DiskInv
  <2>7. LeadsTo(goal)'
    <3>1. goal' = goal
      BY <1>0 DEF goal, Rebuilt
    <3> QED
      BY <2>4, <3>1 DEF LeadsTo, Writes
  <2>8. HolderInv'
    <3>1. CASE step = "undo"
      <4>1. goal' = baseJournal'.old
        BY <1>0, <3>1 DEF goal
      <4>2. LeadsTo(baseJournal.old)'
        BY <2>7, <4>1 DEF LeadsTo, Writes
      <4> QED
        BY <1>0, <1>1, <3>1, <4>2 DEF HolderInv
    <3>2. CASE step = "write"
      <4>1. goal' = Rebuilt(baseJournal)'
        BY <1>0, <3>2 DEF goal
      <4>2. LeadsTo(Rebuilt(baseJournal))'
        BY <2>7, <4>1 DEF LeadsTo, Writes
      <4> QED
        BY <1>0, <1>1, <2>2, <3>2, <4>2 DEF HolderInv
    <3> QED
      BY <1>0, <3>1, <3>2
  <2> QED
    BY <2>6, <2>8 DEF SnapshotInv
<1>2. CASE baseJournal = NoJournal
  <2> DEFINE old == foldJournal.old
             goal == IF step = "undo" THEN old ELSE Folded(foldJournal)
  <2>1. foldJournal # NoJournal /\ LeadsTo(goal) /\ (step = "write" => op = "fold")
    BY <1>0, <1>2 DEF HolderInv
  <2>3. goal.data = old.data /\ goal.meta = old.meta /\ goal.attempts = old.attempts
    BY DEF Folded
  <2> HIDE DEF goal
  <2>4. /\ todo' \in Seq(Writes(goal))
        /\ \A f \in Fields : \/ files'[f] = goal[f]
                             \/ \E i \in 1..Len(todo') : todo'[i] = <<f, goal[f]>>
        /\ IsArtifacts(files)'
        /\ \A f \in Fields : files'[f] = files[f] \/ files'[f] = goal[f]
    BY <1>0, <2>1, WriteLeadsOn
  <2>5. files'.data = old.data /\ files'.meta = old.meta /\ files'.attempts = old.attempts
    <3>1. "data" \in Fields /\ "meta" \in Fields /\ "attempts" \in Fields
      BY DEF Fields
    <3>2. files.data = old.data /\ files.meta = old.meta /\ files.attempts = old.attempts
      BY <1>0, <2>1 DEF DiskInv, FoldCanGoBack
    <3> QED
      BY <2>3, <2>4, <3>1, <3>2
  <2>6. DiskInv'
    <3>1. FoldCanGoBack'
      BY <1>0, <2>1, <2>5 DEF DiskInv, FoldCanGoBack, Whole, IsArtifacts
    <3>2. (Settled => Whole(files))' /\ RebuildCanGoBack'
      BY <1>0, <1>2, <2>1 DEF Settled, RebuildCanGoBack
    <3> QED
      BY <1>0, <1>2, <2>4, <3>1, <3>2 DEF DiskInv
  <2>7. LeadsTo(goal)'
    <3>1. goal' = goal
      BY <1>0 DEF goal, Folded
    <3> QED
      BY <2>4, <3>1 DEF LeadsTo, Writes
  <2>8. HolderInv'
    <3>1. CASE step = "undo"
      <4>1. goal' = foldJournal'.old
        BY <1>0, <3>1 DEF goal
      <4>2. LeadsTo(foldJournal.old)'
        BY <2>7, <4>1 DEF LeadsTo, Writes
      <4> QED
        BY <1>0, <1>2, <2>1, <3>1, <4>2 DEF HolderInv
    <3>2. CASE step = "write"
      <4>1. goal' = Folded(foldJournal)'
        BY <1>0, <3>2 DEF goal
      <4>2. LeadsTo(Folded(foldJournal))'
        BY <2>7, <4>1 DEF LeadsTo, Writes
      <4> QED
        BY <1>0, <2>1, <3>2, <4>2 DEF HolderInv
    <3> QED
      BY <1>0, <3>1, <3>2
  <2> QED
    BY <2>6, <2>8 DEF SnapshotInv
<1> QED
  BY <1>1, <1>2

\* A publication that has been undone has left the files as its backup is.
LEMMA UndoneHolds ==
  ASSUME SnapshotInv, Undone PROVE SnapshotInv'
<1> DEFINE old == IF baseJournal # NoJournal THEN baseJournal.old ELSE foldJournal.old
<1>0. /\ DiskInv /\ HolderInv /\ step = "undo" /\ todo = <<>> /\ step' = "recover"
      /\ UNCHANGED <<files, runs, generations, shown>>
  BY DEF Undone, SnapshotInv, Goto, counters, history
<1>1. baseJournal' = NoJournal /\ foldJournal' = NoJournal
  BY <1>0 DEF Undone, DiskInv
<1>2. LeadsTo(old) /\ Whole(old)
  BY <1>0 DEF HolderInv, DiskInv, RebuildCanGoBack, FoldCanGoBack
<1> HIDE DEF old
<1>3. files = old
  BY <1>0, <1>2, GoalReached, SameFiles DEF DiskInv
<1>4. Whole(files)'
  BY <1>0, <1>2, <1>3 DEF Whole, IsArtifacts
<1>5. DiskInv'
  BY <1>0, <1>1, <1>4 DEF DiskInv, RebuildCanGoBack, FoldCanGoBack, IsArtifacts
<1>6. HolderInv'
  BY <1>0 DEF HolderInv
<1> QED
  BY <1>5, <1>6 DEF SnapshotInv

\* A rebuild begins over files that are whole.
LEMMA BeginBaseHolds ==
  ASSUME SnapshotInv, BeginBase PROVE SnapshotInv'
<1> DEFINE base == Base(runs', Now)
           j == [candidate |-> base, old |-> files]
<1>1. /\ runs' = runs + 1 /\ step = "begin" /\ step' = "write" /\ op' = "publish"
      /\ baseJournal' = j
      /\ todo' = <<<<"data", base>>, <<"attempts", files.attempts \cup {base}>>,
                   <<"meta", base>>, <<"ledger", Legacy(base)>>, <<"eff", Legacy(base)>>>>
      /\ UNCHANGED <<files, foldJournal, generations, shown>>
  BY DEF BeginBase, history
<1>2. DiskInv /\ Settled /\ Whole(files) /\ foldJournal = NoJournal
  BY <1>1 DEF SnapshotInv, DiskInv, HolderInv, Settled
<1>3. base.run = runs + 1 /\ runs \in Nat
  BY <1>1, <1>2 DEF Base, DiskInv
<1>4. base \notin generations
  BY <1>2, <1>3 DEF DiskInv
<1> HIDE DEF base
<1>5. j # NoJournal /\ j.candidate = base /\ j.old = files
  BY SomeJournal
<1>6. RebuildCanGoBack'
  BY <1>1, <1>2, <1>3, <1>4, <1>5 DEF RebuildCanGoBack, Whole, IsArtifacts
<1>7. DiskInv'
  BY <1>1, <1>2, <1>3, <1>5, <1>6 DEF DiskInv, Settled, FoldCanGoBack, IsArtifacts
<1>8. LeadsTo(Rebuilt(baseJournal))'
  <2> DEFINE goal == Rebuilt(j)
  <2>1. /\ goal["data"] = base /\ goal["meta"] = base /\ goal["ledger"] = Legacy(base)
        /\ goal["queue"] = files["queue"] /\ goal["eff"] = Legacy(base)
        /\ goal["attempts"] = files["attempts"] \cup {base}
    BY <1>5 DEF Rebuilt
  <2> HIDE DEF goal
  <2>2. todo' \in Seq(Writes(goal))
    BY <1>1, <2>1 DEF Writes, Fields
  <2>3. Len(todo') = 5
    BY <1>1
  <2>4. /\ todo'[1] = <<"data", goal["data"]>> /\ todo'[2] = <<"attempts", goal["attempts"]>>
        /\ todo'[3] = <<"meta", goal["meta"]>> /\ todo'[4] = <<"ledger", goal["ledger"]>>
        /\ todo'[5] = <<"eff", goal["eff"]>> /\ files'["queue"] = goal["queue"]
    BY <1>1, <2>1
  <2>5. \A f \in Fields : \/ files'[f] = goal[f]
                          \/ \E i \in 1..Len(todo') : todo'[i] = <<f, goal[f]>>
    BY <2>3, <2>4 DEF Fields
  <2>6. Rebuilt(baseJournal)' = goal
    BY <1>1 DEF goal
  <2> QED
    BY <2>2, <2>5, <2>6 DEF LeadsTo, Writes
<1>9. HolderInv'
  BY <1>1, <1>5, <1>8 DEF HolderInv
<1> QED
  BY <1>7, <1>9 DEF SnapshotInv

\* A rebuild is committed with the files that it was after.
LEMMA FinishBaseHolds ==
  ASSUME SnapshotInv, SnapshotAssumption, FinishBase PROVE SnapshotInv'
<1> DEFINE cand == baseJournal.candidate
<1>1. /\ step = "write" /\ op = "publish" /\ todo = <<>> /\ baseJournal' = NoJournal
      /\ shown' = files.eff /\ generations' = generations \cup {files.meta}
      /\ step' = None /\ UNCHANGED <<files, foldJournal, runs>>
  BY DEF FinishBase, Leave, counters
<1>2. /\ DiskInv /\ baseJournal # NoJournal /\ foldJournal = NoJournal
      /\ Whole(baseJournal.old) /\ cand.run \in Nat /\ cand.run <= runs
  BY <1>1 DEF SnapshotInv, DiskInv, HolderInv, RebuildCanGoBack
<1>3. \A f \in Fields : files[f] = Rebuilt(baseJournal)[f]
  BY <1>1, GoalReached DEF SnapshotInv, HolderInv
<1>4. /\ files.data = cand /\ files.meta = cand /\ files.eff = Legacy(cand)
      /\ files.ledger = Legacy(cand) /\ files.attempts = baseJournal.old.attempts \cup {cand}
  BY <1>3 DEF Rebuilt, Fields
<1>5. Legacy(cand).base = cand /\ Legacy(cand).current = FALSE
  BY DEF Legacy
<1>6. Whole(files)'
  <2>1. files.attempts = generations \cup {files.meta}
    BY <1>2, <1>4 DEF Whole
  <2> QED
    BY <1>1, <1>2, <1>4, <1>5, <2>1 DEF Whole, DiskInv, IsArtifacts
<1>7. \A g \in generations' : g.run \in Nat /\ g.run <= runs
  BY <1>1, <1>2, <1>4 DEF DiskInv
<1>8. DiskInv'
  BY <1>1, <1>2, <1>6, <1>7 DEF DiskInv, RebuildCanGoBack, FoldCanGoBack, IsArtifacts
<1>9. HolderInv'
  BY <1>1 DEF SnapshotAssumption, HolderInv
<1> QED
  BY <1>8, <1>9 DEF SnapshotInv

\* A fold begins to publish over files that are whole.
LEMMA BeginSnapshotHolds ==
  ASSUME SnapshotInv, BeginSnapshot PROVE SnapshotInv'
<1> DEFINE j == [candidate |-> Candidate, old |-> files]
<1>1. /\ step = "review" /\ round = "publish" /\ step' = "write" /\ foldJournal' = j
      /\ todo' = <<<<"ledger", Candidate>>, <<"queue", Candidate>>, <<"eff", Candidate>>>>
      /\ UNCHANGED <<files, baseJournal, runs, op, generations, shown>>
  BY DEF BeginSnapshot, HasRead, counters, history
<1>2. DiskInv /\ op = "fold" /\ Whole(files) /\ baseJournal = NoJournal
  BY <1>1 DEF SnapshotInv, DiskInv, HolderInv, Settled
<1>3. Candidate.base = files.meta
  BY DEF Candidate
<1> DEFINE c == Candidate
<1> HIDE DEF c
<1>4. j # NoJournal /\ j.candidate = c /\ j.old = files /\ c.base = files.meta
  BY <1>3, SomeJournal DEF c
<1>5. FoldCanGoBack'
  BY <1>1, <1>2, <1>4 DEF FoldCanGoBack, Whole, IsArtifacts
<1>6. DiskInv'
  BY <1>1, <1>2, <1>4, <1>5 DEF DiskInv, Settled, RebuildCanGoBack, IsArtifacts
<1>7. LeadsTo(Folded(foldJournal))'
  <2> DEFINE goal == Folded(j)
  <2>1. /\ goal["data"] = files["data"] /\ goal["meta"] = files["meta"] /\ goal["ledger"] = c
        /\ goal["queue"] = c /\ goal["eff"] = c /\ goal["attempts"] = files["attempts"]
    BY <1>4 DEF Folded
  <2> HIDE DEF goal
  <2>2. todo' = <<<<"ledger", c>>, <<"queue", c>>, <<"eff", c>>>>
    BY <1>1 DEF c
  <2>3. todo' \in Seq(Writes(goal))
    BY <2>1, <2>2 DEF Writes, Fields
  <2>4. Len(todo') = 3
    BY <2>2
  <2>5. /\ todo'[1] = <<"ledger", goal["ledger"]>> /\ todo'[2] = <<"queue", goal["queue"]>>
        /\ todo'[3] = <<"eff", goal["eff"]>> /\ files'["data"] = goal["data"]
        /\ files'["meta"] = goal["meta"] /\ files'["attempts"] = goal["attempts"]
    BY <1>1, <2>1, <2>2
  <2>6. \A f \in Fields : \/ files'[f] = goal[f]
                          \/ \E i \in 1..Len(todo') : todo'[i] = <<f, goal[f]>>
    BY <2>4, <2>5 DEF Fields
  <2>7. Folded(foldJournal)' = goal
    BY <1>1 DEF goal
  <2> QED
    BY <2>3, <2>6, <2>7 DEF LeadsTo, Writes
<1>8. HolderInv'
  BY <1>1, <1>2, <1>4, <1>7 DEF HolderInv
<1> QED
  BY <1>6, <1>8 DEF SnapshotInv

\* What a fold has published is there when it is read again.
LEMMA ReloadHolds ==
  ASSUME SnapshotInv, Reload PROVE SnapshotInv'
<1>1. /\ step = "write" /\ op = "fold" /\ todo = <<>> /\ step' = "product"
      /\ round' = "reload"
      /\ UNCHANGED <<files, baseJournal, foldJournal, runs, op, generations, shown>>
  BY DEF Reload, StartReading, disk, counters, history
<1>2. foldJournal # NoJournal /\ LeadsTo(Folded(foldJournal))
  BY <1>1 DEF SnapshotInv, HolderInv
<1>3. \A f \in Fields : files[f] = Folded(foldJournal)[f]
  BY <1>1, <1>2, GoalReached
<1>4. DiskInv'
  BY <1>1 DEF SnapshotInv, DiskInv, IsArtifacts, Settled, Whole, RebuildCanGoBack, FoldCanGoBack
<1>5. (\A f \in Fields : files[f] = Folded(foldJournal)[f])'
  BY <1>1, <1>3 DEF Folded
<1>6. HolderInv'
  BY <1>1, <1>2, <1>5 DEF HolderInv
<1> QED
  BY <1>4, <1>6 DEF SnapshotInv

\* A fold is committed with the files that it was after.
LEMMA FinishSnapshotHolds ==
  ASSUME SnapshotInv, SnapshotAssumption, FinishSnapshot PROVE SnapshotInv'
<1> DEFINE cand == foldJournal.candidate
           old == foldJournal.old
<1>1. /\ step = "review" /\ round = "reload" /\ foldJournal' = NoJournal
      /\ shown' = files.eff /\ step' = None
      /\ UNCHANGED <<files, baseJournal, runs, generations>>
  BY DEF FinishSnapshot, HasRead, Leave, counters
<1>2. /\ DiskInv /\ foldJournal # NoJournal /\ baseJournal = NoJournal
      /\ \A f \in Fields : files[f] = Folded(foldJournal)[f]
  BY <1>1 DEF SnapshotInv, DiskInv, HolderInv
<1>3. Whole(old) /\ cand.base = old.meta
  BY <1>2 DEF DiskInv, FoldCanGoBack
<1>4. /\ files.data = old.data /\ files.meta = old.meta /\ files.attempts = old.attempts
      /\ files.ledger = cand /\ files.queue = cand /\ files.eff = cand
  BY <1>2 DEF Folded, Fields
<1>5. Whole(files)'
  BY <1>1, <1>2, <1>3, <1>4 DEF Whole, DiskInv, IsArtifacts
<1>6. DiskInv'
  BY <1>1, <1>2, <1>5 DEF DiskInv, RebuildCanGoBack, FoldCanGoBack, IsArtifacts
<1>7. HolderInv'
  BY <1>1 DEF SnapshotAssumption, HolderInv
<1> QED
  BY <1>6, <1>7 DEF SnapshotInv

-----------------------------------------------------------------------------
(* The theorem.                                                            *)

LEMMA InitialSnapshot ==
  ASSUME SnapshotInit, SnapshotAssumption PROVE SnapshotInv
<1> DEFINE base == Base(1, Now)
<1>1. /\ files = [data |-> base, meta |-> base, ledger |-> Legacy(base), queue |-> None,
                  eff |-> Legacy(base), attempts |-> {base}]
      /\ shown = Legacy(base) /\ generations = {base} /\ runs = 1 /\ step = None
      /\ baseJournal = NoJournal /\ foldJournal = NoJournal
  BY DEF SnapshotInit
<1>2. base.run = 1
  BY DEF Base
<1> HIDE DEF base
<1>3. Legacy(base).base = base /\ Legacy(base).current = FALSE
  BY DEF Legacy
<1>4. IsArtifacts(files)
  BY <1>1 DEF IsArtifacts, Fields
<1>5. DiskInv
  BY <1>1, <1>2, <1>3, <1>4 DEF DiskInv, Whole, RebuildCanGoBack, FoldCanGoBack
<1>6. HolderInv
  BY <1>1 DEF SnapshotAssumption, HolderInv
<1> QED
  BY <1>5, <1>6 DEF SnapshotInv

LEMMA SnapshotStep ==
  ASSUME SnapshotInv, SnapshotAssumption, [SnapshotNext]_snapshotVars
  PROVE  SnapshotInv'
<1> DEFINE core == <<files, baseJournal, foldJournal, runs, generations, shown>>
<1>0. DiskInv
  BY DEF SnapshotInv
<1>1. CASE UNCHANGED snapshotVars
  BY <1>1, Elsewhere DEF snapshotVars, disk, holder, counters, history
<1>2. CASE Change
  BY <1>2, Elsewhere DEF Change, disk, holder, counters, history
<1>3. CASE Crash
  <2>1. step' = None /\ UNCHANGED core
    BY <1>3 DEF Crash, Leave, disk, history
  <2> QED
    BY <1>0, <2>1, HolderLeaves
<1>4. CASE Locked
  <2>1. CASE Recover
    BY <2>1, RecoverHolds
  <2>2. CASE Write
    BY <2>2, WriteHolds
  <2>3. CASE Undone
    BY <2>3, UndoneHolds
  <2>4. CASE BeginBase
    BY <2>4, BeginBaseHolds
  <2>5. CASE FinishBase
    BY <2>5, FinishBaseHolds
  <2>6. CASE AbortBase
    <3>1. step' = "recover" /\ UNCHANGED core
      BY <2>6 DEF AbortBase, disk, counters, history
    <3> QED
      BY <1>0, <3>1, HolderLeaves
  <2>7. CASE Decide
    <3>1. step' = None /\ UNCHANGED core
      BY <2>7 DEF Decide, Leave, counters, history
    <3> QED
      BY <1>0, <3>1, HolderLeaves
  <2>8. CASE Refuse
    <3>1. step' = None /\ UNCHANGED core
      BY <2>8 DEF Refuse, Leave, disk, counters, history
    <3> QED
      BY <1>0, <3>1, HolderLeaves
  <2>9. CASE BeginAttempt
    <3>1. /\ step = "begin" /\ op = "fold" /\ step' = "product" /\ round' # "reload"
          /\ UNCHANGED core /\ UNCHANGED op
      BY <2>9 DEF BeginAttempt, StartReading, disk, counters, history
    <3> QED
      BY <3>1, HolderReads
  <2>10. CASE ReadProduct
    <3>1. /\ step = "product" /\ step' = "review" /\ round' = round
          /\ UNCHANGED core /\ UNCHANGED op
      BY <2>10 DEF ReadProduct, disk, counters, history
    <3>2. op = "fold"
      BY <3>1 DEF SnapshotInv, HolderInv
    <3> QED
      BY <3>1, <3>2, HolderReads
  <2>11. CASE Reconcile
    <3>1. /\ step = "review" /\ step' = "product" /\ round # "reload" /\ round' # "reload"
          /\ UNCHANGED core /\ UNCHANGED op
      BY <2>11 DEF Reconcile, HasRead, StartReading, counters, history
    <3>2. op = "fold"
      BY <3>1 DEF SnapshotInv, HolderInv
    <3> QED
      BY <3>1, <3>2, HolderReads
  <2>12. CASE Retry
    <3>1. step' = None /\ UNCHANGED core
      BY <2>12 DEF Retry, Leave, disk, counters, history
    <3> QED
      BY <1>0, <3>1, HolderLeaves
  <2>13. CASE Confirmed
    <3>1. UNCHANGED core /\ step = "review" /\ round # "reload" /\ op = "fold"
      BY <2>13 DEF Confirmed, HasRead, disk, counters, history, SnapshotInv, HolderInv
    <3>2. CASE step' = None
      BY <1>0, <3>1, <3>2, HolderLeaves
    <3>3. CASE step' = "product" /\ round' # "reload" /\ op' = op
      BY <3>1, <3>3, HolderReads
    <3> QED
      BY <2>13, <3>2, <3>3 DEF Confirmed, Leave, StartReading
  <2>14. CASE BeginSnapshot
    BY <2>14, BeginSnapshotHolds
  <2>15. CASE Reload
    BY <2>15, ReloadHolds
  <2>16. CASE FinishSnapshot
    BY <2>16, FinishSnapshotHolds
  <2>17. CASE FoldRaises
    <3>1. step' = None /\ UNCHANGED core
      BY <2>17 DEF FoldRaises, Leave, disk, counters, history
    <3> QED
      BY <1>0, <3>1, HolderLeaves
  <2>18. CASE Falter
    <3>1. step' = None /\ UNCHANGED core
      BY <2>18 DEF Falter, Leave, disk, counters, history
    <3> QED
      BY <1>0, <3>1, HolderLeaves
  <2> QED
    BY <1>4, <2>1, <2>2, <2>3, <2>4, <2>5, <2>6, <2>7, <2>8, <2>9, <2>10, <2>11, <2>12,
       <2>13, <2>14, <2>15, <2>16, <2>17, <2>18 DEF Locked
<1>5. ASSUME NEW p \in Processes, BeginFold(p) PROVE SnapshotInv'
  BY <1>5, Elsewhere DEF BeginFold, disk, holder, counters, history
<1>6. ASSUME NEW p \in Processes, Read(p) PROVE SnapshotInv'
  <2>1. UNCHANGED core /\ UNCHANGED <<step, op, round, todo>>
    BY <1>6 DEF Read, BeginRead, Anchors, ReadMeta, ReadData, ReadEff, ReadLedger, ReadQueue,
                ReadJournals, ReadAgain, ReadOn, disk, holder, counters, history
  <2> QED
    BY <2>1, Elsewhere
<1>7. ASSUME NEW p \in Processes, NEW o \in {"fold", "publish", "decide"}, Enter(p, o)
      PROVE  SnapshotInv'
  <2>1. step' = "recover" /\ UNCHANGED core
    BY <1>7 DEF Enter, disk, counters, history
  <2> QED
    BY <1>0, <2>1, HolderLeaves
<1> QED
  BY <1>1, <1>2, <1>3, <1>4, <1>5, <1>6, <1>7 DEF SnapshotNext

\* With no publication under way or interrupted, base, snapshot, queue and attempts are
\* those of one commit, whatever was undone before (_recover_claim_state_unlocked).
THEOREM CommittedSnapshotIsWhole == SnapshotSpec => []SnapshotIsWhole
<1>1. SnapshotInit => SnapshotInv
  BY SnapshotAssumption, InitialSnapshot
<1>2. SnapshotInv /\ [SnapshotNext]_snapshotVars => SnapshotInv'
  BY SnapshotAssumption, SnapshotStep
<1>3. SnapshotInv => SnapshotIsWhole
  BY SnapshotIsWholeWhenSettled DEF SnapshotInv
<1> QED
  BY <1>1, <1>2, <1>3, PTL DEF SnapshotSpec

-----------------------------------------------------------------------------
(* A fold covers what was there when it began.                             *)

\* A product is replaced by a later one.
MomentsGoOn ==
  /\ moments \in Seq([product : Nat, review : Nat]) /\ Len(moments) > 0
  /\ \A i, j \in 1..Len(moments) : i <= j => moments[i].product <= moments[j].product

EventsAreListed == events \in Seq({events[i] : i \in 1..Len(events)})

\* A fold knows where it began.
FoldsBegan ==
  /\ fold = [p \in Processes |-> fold[p]]
  /\ \A p \in Processes : fold[p] # None =>
       /\ fold[p].since \in 1..Len(moments)
       /\ fold[p].events \in Nat /\ fold[p].events <= Len(events)

FoldIsUnderWay == op = "fold" => lock \in Processes /\ fold[lock] # None

Since == fold[lock].since..Len(moments)

\* What has been read was so at some moment of the fold: the product that is about to be
\* reduced; the product, and later the reviews, of the authority that is about to be
\* confirmed; and both at one moment, when the product is what it was.
ReadingsWereLive ==
  op = "fold" =>
    /\ step = "review" /\ round = "reduce" => \E h \in Since : moments[h].product = look
    /\ step \in {"product", "review"} /\ round = "confirm" =>
         /\ got = [product |-> got.product, review |-> got.review]
         /\ \E h, k \in Since : /\ h <= k /\ moments[h].product = got.product
                                /\ moments[k].review = got.review
    /\ step = "review" /\ round = "confirm" /\ look = got.product =>
         \E k \in Since : moments[k] = got

\* The snapshot that is being published is of the authority that the fold works with,
\* and of the events that were there when it began.
CandidateCovers ==
  op = "fold" /\ (step = "write" \/ (step \in {"product", "review"} /\ round = "reload")) =>
    /\ foldJournal.candidate.product = got.product
    /\ foldJournal.candidate.review = got.review
    /\ foldJournal.candidate.current = TRUE
    /\ foldJournal.candidate.events \in Nat
    /\ foldJournal.candidate.events >= fold[lock].events

CoverInv ==
  /\ MomentsGoOn /\ EventsAreListed /\ FoldsBegan /\ FoldIsUnderWay
  /\ ReadingsWereLive /\ CandidateCovers

LEMMA NowIsLast ==
  ASSUME MomentsGoOn
  PROVE  /\ Now = moments[Len(moments)] /\ Len(moments) \in Nat \ {0}
         /\ Now \in [product : Nat, review : Nat]
         /\ \A i \in 1..Len(moments) : moments[i] \in [product : Nat, review : Nat]
<1> DEFINE Moment == [product : Nat, review : Nat]
<1>1. moments \in Seq(Moment) /\ Len(moments) > 0
  BY DEF MomentsGoOn
<1>2. Len(moments) \in Nat \ {0}
  <2>1. Len(moments) \in Nat
    BY <1>1, LenProperties
  <2> QED
    BY <1>1, <2>1
<1>3. \A i \in 1..Len(moments) : moments[i] \in Moment
  BY <1>1, ElementOfSeq
<1>4. Now = moments[Len(moments)]
  BY DEF Now, Last
<1> QED
  BY <1>2, <1>3, <1>4

\* An event that is written has those before it where they were.
LEMMA EventAppended ==
  ASSUME EventsAreListed, NEW e, events' = Append(events, e)
  PROVE  EventsAreListed' /\ Len(events) \in Nat /\ Len(events') = Len(events) + 1
<1> DEFINE S == {events[i] : i \in 1..Len(events)} \cup {e}
<1>1. events \in Seq(S) /\ e \in S /\ Len(events) \in Nat
  BY LenProperties DEF EventsAreListed
<1>2. Append(events, e) \in Seq(S) /\ Len(Append(events, e)) = Len(events) + 1
  BY <1>1, AppendProperties
<1>3. events' \in [1..Len(events') -> {events'[i] : i \in 1..Len(events')}]
  <2>1. events' \in [1..Len(events') -> S]
    BY <1>2, LenProperties
  <2> QED
    BY <2>1
<1>4. EventsAreListed'
  BY <1>1, <1>2, <1>3 DEF EventsAreListed
<1> QED
  BY <1>1, <1>2, <1>4

\* A fold that ends, or another one's.
LEMMA FoldEnds ==
  ASSUME FoldsBegan, fold' \in {fold, [fold EXCEPT ![lock] = None]}, moments' = moments,
         events' = events
  PROVE  FoldsBegan'
BY DEF FoldsBegan

LEMMA CoverLeaves ==
  ASSUME CoverInv, MomentsGoOn', EventsAreListed', FoldsBegan', op' # "fold"
  PROVE  CoverInv'
BY DEF CoverInv, FoldIsUnderWay, ReadingsWereLive, CandidateCovers

\* A step after which the holder is neither reading nor writing.
LEMMA CoverBetween ==
  ASSUME CoverInv, UNCHANGED <<moments, events, fold, op, lock>>,
         step' \in {"recover", "undo", "begin"}
  PROVE  CoverInv'
BY DEF CoverInv, MomentsGoOn, EventsAreListed, FoldsBegan, FoldIsUnderWay, ReadingsWereLive,
       CandidateCovers

\* A step that leaves what a fold knows.
LEMMA CoverElsewhere ==
  ASSUME CoverInv,
         UNCHANGED <<moments, events, fold, foldJournal, lock, op, step, round, look, got>>
  PROVE  CoverInv'
BY DEF CoverInv, MomentsGoOn, EventsAreListed, FoldsBegan, FoldIsUnderWay, ReadingsWereLive,
       CandidateCovers, Since

LEMMA ChangeCovered ==
  ASSUME CoverInv, Change PROVE CoverInv'
<1> DEFINE n == Len(moments)
           Moment == [product : Nat, review : Nat]
<1>1. PICK m \in Moment : moments' = Append(moments, m) /\ m.product >= Now.product
  <2>1. Now \in Moment
    BY NowIsLast DEF CoverInv
  <2>2. [Now EXCEPT !.product = @ + 1] \in Moment /\ [Now EXCEPT !.review = @ + 1] \in Moment
        /\ [Now EXCEPT !.product = @ + 1].product = Now.product + 1
        /\ [Now EXCEPT !.review = @ + 1].product = Now.product
    BY <2>1
  <2>3. Now.product \in Nat
    BY <2>1
  <2> QED
    BY <2>2, <2>3 DEF Change
<1>2. /\ moments \in Seq(Moment) /\ n \in Nat \ {0} /\ Now = moments[n]
      /\ \A i \in 1..n : moments[i] \in Moment
  BY NowIsLast DEF CoverInv, MomentsGoOn
<1>3. /\ moments' \in Seq(Moment) /\ Len(moments') = n + 1 /\ moments'[n + 1] = m
      /\ \A i \in 1..n : moments'[i] = moments[i]
  BY <1>1, <1>2, AppendProperties
<1>4. MomentsGoOn'
  <2>1. ASSUME NEW i \in 1..n PROVE moments[i].product <= m.product
    <3>1. moments[i].product <= moments[n].product
      BY <1>2 DEF CoverInv, MomentsGoOn
    <3>2. moments[i].product \in Nat /\ moments[n].product \in Nat /\ m.product \in Nat
      BY <1>2
    <3> QED
      BY <1>1, <1>2, <3>1, <3>2
  <2>2. ASSUME NEW i \in 1..n + 1, NEW j \in 1..n + 1, i <= j
        PROVE  moments'[i].product <= moments'[j].product
    <3>1. CASE j = n + 1 /\ i # n + 1
      <4>1. i \in 1..n
        <5>1. n \in Nat
          BY <1>2
        <5> QED
          BY <3>1, <5>1
      <4>2. moments'[i] = moments[i] /\ moments'[j] = m
        BY <1>3, <3>1, <4>1
      <4> QED
        BY <2>1, <4>1, <4>2
    <3>2. CASE j = n + 1 /\ i = n + 1
      <4>1. m.product \in Nat
        OBVIOUS
      <4> QED
        BY <1>3, <3>2, <4>1
    <3>3. CASE j # n + 1
      <4>1. i \in 1..n /\ j \in 1..n
        BY <1>2, <2>2, <3>3
      <4>2. moments[i].product <= moments[j].product
        BY <2>2, <4>1 DEF CoverInv, MomentsGoOn
      <4> QED
        BY <1>3, <4>1, <4>2
    <3> QED
      BY <3>1, <3>2, <3>3
  <2> QED
    BY <1>2, <1>3, <2>2 DEF MomentsGoOn
<1>5. UNCHANGED <<events, fold, foldJournal, lock, op, step, round, look, got>>
  BY DEF Change, disk, holder, clients
<1>6. EventsAreListed' /\ FoldIsUnderWay' /\ CandidateCovers'
  BY <1>5 DEF CoverInv, EventsAreListed, FoldIsUnderWay, CandidateCovers
<1>7. FoldsBegan'
  BY <1>2, <1>3, <1>5 DEF CoverInv, FoldsBegan
<1>8. ReadingsWereLive'
  <2>1. ASSUME op = "fold"
        PROVE  \A h \in Since : h \in Since' /\ moments'[h] = moments[h]
    <3>1. fold[lock].since \in 1..n
      BY <2>1 DEF CoverInv, FoldsBegan, FoldIsUnderWay
    <3>2. Since = fold[lock].since..n /\ Since' = fold[lock].since..(n + 1)
      BY <1>3, <1>5 DEF Since
    <3>3. n \in Nat
      BY <1>2
    <3>4. ASSUME NEW h \in Since PROVE h \in 1..n /\ h \in Since'
      BY <3>1, <3>2, <3>3, <3>4
    <3> QED
      BY <1>3, <3>4
  <2> QED
    BY <1>5, <2>1 DEF CoverInv, ReadingsWereLive
<1> QED
  BY <1>4, <1>6, <1>7, <1>8 DEF CoverInv

\* The product that is read is that of now; if it is the one of the authority that is
\* confirmed, it was that of the time in between.
LEMMA ReadProductCovered ==
  ASSUME CoverInv, ReadProduct PROVE CoverInv'
<1>1. /\ step = "product" /\ step' = "review" /\ look' = Now.product
      /\ UNCHANGED <<moments, events, fold, foldJournal, lock, op, round, got>>
  BY DEF ReadProduct, disk, clients
<1>2. MomentsGoOn' /\ EventsAreListed' /\ FoldsBegan' /\ FoldIsUnderWay' /\ CandidateCovers'
  BY <1>1 DEF CoverInv, MomentsGoOn, EventsAreListed, FoldsBegan, FoldIsUnderWay,
              CandidateCovers
<1>3. ReadingsWereLive'
  <2> SUFFICES ASSUME op = "fold" PROVE ReadingsWereLive'
    BY <1>1 DEF ReadingsWereLive
  <2> DEFINE n == Len(moments)
  <2>1. /\ n \in Nat \ {0} /\ Now = moments[n] /\ Now \in [product : Nat, review : Nat]
        /\ \A i \in 1..n : moments[i] \in [product : Nat, review : Nat]
    BY NowIsLast DEF CoverInv
  <2>2. fold[lock].since \in 1..n /\ n \in Since /\ Since' = Since /\ Since \subseteq 1..n
    BY <1>1, <2>1 DEF CoverInv, FoldsBegan, FoldIsUnderWay, Since
  <2>3. round = "reduce" => \E h \in Since' : moments'[h].product = look'
    BY <1>1, <2>1, <2>2
  <2>4. round = "confirm" =>
          /\ got' = [product |-> got'.product, review |-> got'.review]
          /\ \E h, k \in Since' : /\ h <= k /\ moments'[h].product = got'.product
                                  /\ moments'[k].review = got'.review
    BY <1>1, <2>2 DEF CoverInv, ReadingsWereLive
  <2>5. ASSUME round = "confirm", look' = got.product
        PROVE  \E k \in Since' : moments'[k] = got'
    <3>1. PICK h, k \in Since : /\ h <= k /\ moments[h].product = got.product
                                /\ moments[k].review = got.review
      BY <1>1, <2>5 DEF CoverInv, ReadingsWereLive
    <3>2. h \in 1..n /\ k \in 1..n /\ h <= k /\ k <= n
      BY <2>1, <2>2, <3>1
    <3>3. moments[h].product <= moments[k].product /\ moments[k].product <= moments[n].product
      BY <2>1, <3>2 DEF CoverInv, MomentsGoOn
    <3>4. moments[k].product = got.product
      <4>1. moments[h].product = moments[n].product
        BY <1>1, <2>1, <2>5, <3>1
      <4>2. moments[h].product \in Nat /\ moments[k].product \in Nat
        BY <2>1, <3>2
      <4> QED
        BY <3>1, <3>3, <4>1, <4>2
    <3>5. moments[k] = [product |-> moments[k].product, review |-> moments[k].review]
      BY <2>1, <3>2
    <3>6. got = [product |-> got.product, review |-> got.review]
      BY <1>1, <2>5 DEF CoverInv, ReadingsWereLive
    <3> QED
      BY <1>1, <2>2, <3>1, <3>4, <3>5, <3>6
  <2> QED
    BY <1>1, <2>3, <2>4, <2>5 DEF ReadingsWereLive
<1> QED
  BY <1>2, <1>3 DEF CoverInv

LEMMA ReconcileCovered ==
  ASSUME SnapshotInv, CoverInv, Reconcile PROVE CoverInv'
<1>1. /\ step = "review" /\ round = "reduce" /\ step' = "product" /\ round' = "confirm"
      /\ got' = Authority /\ op = "fold" /\ op' = "fold"
      /\ UNCHANGED <<moments, fold, lock>>
      /\ \/ events' = events
         \/ \E e : events' = Append(events, e)
  BY DEF Reconcile, HasRead, StartReading, clients, SnapshotInv, HolderInv
<1>2. EventsAreListed' /\ Len(events) \in Nat /\ Len(events') \in Nat
      /\ Len(events') >= Len(events)
  <2>1. CASE events' = events
    BY <2>1, LenProperties DEF CoverInv, EventsAreListed
  <2>2. CASE \E e : events' = Append(events, e)
    BY <2>2, EventAppended DEF CoverInv
  <2> QED
    BY <1>1, <2>1, <2>2
<1>3. MomentsGoOn' /\ FoldIsUnderWay' /\ CandidateCovers'
  BY <1>1 DEF CoverInv, MomentsGoOn, FoldIsUnderWay, CandidateCovers
<1>4. FoldsBegan'
  BY <1>1, <1>2 DEF CoverInv, FoldsBegan
<1>5. ReadingsWereLive'
  <2> DEFINE n == Len(moments)
  <2>1. /\ n \in Nat \ {0} /\ Now = moments[n]
    BY NowIsLast DEF CoverInv
  <2>2. fold[lock].since \in 1..n /\ n \in Since /\ Since' = Since /\ Since \subseteq 1..n
    BY <1>1, <2>1 DEF CoverInv, FoldsBegan, FoldIsUnderWay, Since
  <2>3. got'.product = look /\ got'.review = moments[n].review
        /\ got' = [product |-> got'.product, review |-> got'.review]
    BY <1>1, <2>1 DEF Authority
  <2>4. PICK h \in Since : moments[h].product = look
    BY <1>1 DEF CoverInv, ReadingsWereLive
  <2>5. h <= n
    BY <2>1, <2>2, <2>4
  <2> QED
    BY <1>1, <2>2, <2>3, <2>4, <2>5 DEF ReadingsWereLive
<1> QED
  BY <1>2, <1>3, <1>4, <1>5 DEF CoverInv

LEMMA BeginSnapshotCovered ==
  ASSUME CoverInv, BeginSnapshot PROVE CoverInv'
<1>1. /\ step' = "write" /\ foldJournal' = [candidate |-> Candidate, old |-> files]
      /\ UNCHANGED <<moments, events, fold, lock, op, round, got>>
  BY DEF BeginSnapshot, clients
<1>2. MomentsGoOn' /\ EventsAreListed' /\ FoldsBegan' /\ FoldIsUnderWay' /\ ReadingsWereLive'
  BY <1>1 DEF CoverInv, MomentsGoOn, EventsAreListed, FoldsBegan, FoldIsUnderWay,
              ReadingsWereLive
<1>3. /\ Candidate.product = got.product /\ Candidate.review = got.review
      /\ Candidate.current = TRUE /\ Candidate.events = Len(events)
  BY DEF Candidate
<1>4. Len(events) \in Nat
  BY LenProperties DEF CoverInv, EventsAreListed
<1>5. op = "fold" => fold[lock].events \in Nat /\ fold[lock].events <= Len(events)
  BY DEF CoverInv, FoldsBegan, FoldIsUnderWay
<1> HIDE DEF Candidate
<1>6. foldJournal'.candidate = Candidate
  BY <1>1
<1>7. CandidateCovers'
  BY <1>1, <1>3, <1>4, <1>5, <1>6 DEF CandidateCovers
<1> QED
  BY <1>2, <1>7 DEF CoverInv

LEMMA InitialCover ==
  ASSUME SnapshotInit, SnapshotAssumption PROVE CoverInv
<1>1. /\ moments = <<[product |-> 0, review |-> 0]>> /\ events = <<>> /\ op = None
      /\ fold = [p \in Processes |-> None]
  BY DEF SnapshotInit
<1>2. MomentsGoOn /\ EventsAreListed /\ FoldsBegan
  BY <1>1 DEF MomentsGoOn, EventsAreListed, FoldsBegan
<1>3. op # "fold"
  BY <1>1 DEF SnapshotAssumption
<1> QED
  BY <1>2, <1>3 DEF CoverInv, FoldIsUnderWay, ReadingsWereLive, CandidateCovers

LEMMA CoverStep ==
  ASSUME SnapshotInv, CoverInv, SnapshotAssumption, [SnapshotNext]_snapshotVars
  PROVE  CoverInv'
<1>0. /\ MomentsGoOn /\ EventsAreListed /\ FoldsBegan /\ FoldIsUnderWay /\ None # "fold"
      /\ Nobody \notin Processes
  BY DEF CoverInv, SnapshotAssumption
\* A step that ends what the holder does.
<1>1. ASSUME op' # "fold", UNCHANGED <<moments, events>>,
             fold' \in {fold, [fold EXCEPT ![lock] = None]}
      PROVE  CoverInv'
  <2>1. MomentsGoOn' /\ EventsAreListed' /\ FoldsBegan'
    BY <1>0, <1>1, FoldEnds DEF MomentsGoOn, EventsAreListed
  <2> QED
    BY <1>1, <2>1, CoverLeaves
<1>2. CASE UNCHANGED snapshotVars
  BY <1>2, CoverElsewhere DEF snapshotVars, disk, holder, clients
<1>3. CASE Change
  BY <1>3, ChangeCovered
<1>4. CASE Crash
  BY <1>0, <1>1, <1>4 DEF Crash, Leave, disk
<1>5. CASE Locked
  <2>1. CASE Recover
    <3>1. UNCHANGED <<moments, events, fold>>
      BY <2>1 DEF Recover, disk, clients
    <3>2. CASE op' = None
      BY <1>0, <1>1, <3>1, <3>2
    <3>3. CASE UNCHANGED <<op, lock>> /\ step' \in {"undo", "begin"}
      BY <3>1, <3>3, CoverBetween
    <3> QED
      BY <2>1, <3>2, <3>3 DEF Recover, Leave, Goto
  <2>2. CASE Write
    BY <2>2, CoverElsewhere DEF Write, clients
  <2>3. CASE Undone
    BY <2>3, CoverBetween DEF Undone, Goto
  <2>4. CASE BeginBase
    BY <1>0, <1>1, <2>4 DEF BeginBase, clients
  <2>5. CASE FinishBase
    BY <1>0, <1>1, <2>5 DEF FinishBase, Leave, clients
  <2>6. CASE AbortBase
    BY <1>0, <1>1, <2>6 DEF AbortBase, disk, clients
  <2>7. CASE Decide
    <3>1. /\ UNCHANGED moments /\ op' = None
          /\ \E e : events' = Append(events, e)
          /\ fold' = [fold EXCEPT ![lock] =
                        [tries |-> 0, since |-> Len(moments), events |-> Len(events) + 1]]
      BY <2>7 DEF Decide, Leave
    <3>2. EventsAreListed' /\ Len(events) \in Nat /\ Len(events') = Len(events) + 1
      BY <1>0, <3>1, EventAppended
    <3>3. Len(moments) \in Nat \ {0}
      BY <1>0, NowIsLast
    <3>4. FoldsBegan'
      BY <1>0, <3>1, <3>2, <3>3 DEF FoldsBegan
    <3>5. MomentsGoOn'
      BY <1>0, <3>1 DEF MomentsGoOn
    <3> QED
      BY <1>0, <3>1, <3>2, <3>4, <3>5, CoverLeaves
  <2>8. CASE Refuse
    BY <1>0, <1>1, <2>8 DEF Refuse, Leave, disk
  <2>9. CASE BeginAttempt
    <3>1. /\ step' = "product" /\ round' = "reduce"
          /\ UNCHANGED <<moments, events, fold, lock, op>>
      BY <2>9 DEF BeginAttempt, StartReading, disk, clients
    <3> QED
      BY <1>0, <3>1 DEF CoverInv, MomentsGoOn, EventsAreListed, FoldsBegan, FoldIsUnderWay,
                        ReadingsWereLive, CandidateCovers
  <2>10. CASE ReadProduct
    BY <2>10, ReadProductCovered
  <2>11. CASE Reconcile
    BY <2>11, ReconcileCovered
  <2>12. CASE Retry
    <3>1. /\ UNCHANGED <<moments, events>> /\ op' = None
          /\ fold' = [fold EXCEPT ![lock] =
                        IF @.tries + 1 = MaxAttempts THEN None ELSE [@ EXCEPT !.tries = @ + 1]]
      BY <2>12 DEF Retry, Leave, disk
    <3>2. FoldsBegan'
      <4>1. op = "fold" /\ lock \in Processes /\ fold[lock] # None
        BY <1>0, <2>12 DEF Retry, HasRead, SnapshotInv, HolderInv, FoldIsUnderWay
      <4>2. \A p \in Processes : p # lock => fold'[p] = fold[p]
        BY <1>0, <3>1 DEF FoldsBegan
      <4>3. CASE fold'[lock] = None
        BY <1>0, <3>1, <4>2, <4>3 DEF FoldsBegan
      <4>4. CASE fold'[lock] = [fold[lock] EXCEPT !.tries = @ + 1]
        <5>1. fold'[lock].since = fold[lock].since /\ fold'[lock].events = fold[lock].events
          BY <4>4
        <5> QED
          BY <1>0, <3>1, <4>1, <4>2, <5>1 DEF FoldsBegan
      <4> QED
        BY <1>0, <3>1, <4>1, <4>3, <4>4 DEF FoldsBegan
    <3>3. MomentsGoOn' /\ EventsAreListed'
      BY <1>0, <3>1 DEF MomentsGoOn, EventsAreListed
    <3> QED
      BY <1>0, <3>1, <3>2, <3>3, CoverLeaves
  <2>13. CASE Confirmed
    <3>1. UNCHANGED <<moments, events>>
      BY <2>13 DEF Confirmed, disk
    <3>2. CASE Leave /\ fold' = [fold EXCEPT ![lock] = None]
      BY <1>0, <1>1, <3>1, <3>2 DEF Leave
    <3>3. CASE StartReading("publish") /\ UNCHANGED fold
      <4>1. step' = "product" /\ round' = "publish" /\ UNCHANGED <<fold, lock, op>>
        BY <3>3 DEF StartReading
      <4> QED
        BY <1>0, <3>1, <4>1 DEF CoverInv, MomentsGoOn, EventsAreListed, FoldsBegan,
                                FoldIsUnderWay, ReadingsWereLive, CandidateCovers
    <3> QED
      BY <2>13, <3>2, <3>3 DEF Confirmed
  <2>14. CASE BeginSnapshot
    BY <2>14, BeginSnapshotCovered
  <2>15. CASE Reload
    <3>1. /\ step = "write" /\ step' = "product" /\ round' = "reload"
          /\ UNCHANGED <<moments, events, fold, foldJournal, lock, op, got>>
      BY <2>15 DEF Reload, StartReading, disk, clients
    <3> QED
      BY <1>0, <3>1 DEF CoverInv, MomentsGoOn, EventsAreListed, FoldsBegan, FoldIsUnderWay,
                        ReadingsWereLive, CandidateCovers
  <2>16. CASE FinishSnapshot
    BY <1>0, <1>1, <2>16 DEF FinishSnapshot, Leave
  <2>17. CASE FoldRaises
    BY <1>0, <1>1, <2>17 DEF FoldRaises, Leave, disk
  <2>18. CASE Falter
    BY <1>0, <1>1, <2>18 DEF Falter, Leave, disk
  <2> QED
    BY <1>5, <2>1, <2>2, <2>3, <2>4, <2>5, <2>6, <2>7, <2>8, <2>9, <2>10, <2>11, <2>12,
       <2>13, <2>14, <2>15, <2>16, <2>17, <2>18 DEF Locked
<1>6. ASSUME NEW p \in Processes, BeginFold(p) PROVE CoverInv'
  <2>1. /\ lock # p
        /\ UNCHANGED <<moments, events, foldJournal, lock, op, step, round, look, got>>
        /\ fold' = [fold EXCEPT ![p] =
                      [tries |-> 0, since |-> Len(moments), events |-> Len(events)]]
    BY <1>6 DEF BeginFold, Idle, disk, holder
  <2>2. Len(moments) \in Nat \ {0} /\ Len(events) \in Nat
    BY <1>0, NowIsLast, LenProperties DEF EventsAreListed
  <2>3. FoldsBegan'
    BY <1>0, <2>1, <2>2 DEF FoldsBegan
  <2>4. op = "fold" => fold'[lock] = fold[lock]
    BY <1>0, <2>1 DEF FoldsBegan, FoldIsUnderWay
  <2> QED
    BY <1>0, <2>1, <2>3, <2>4 DEF CoverInv, MomentsGoOn, EventsAreListed, FoldIsUnderWay,
                                  ReadingsWereLive, CandidateCovers, Since
<1>7. ASSUME NEW p \in Processes, Read(p) PROVE CoverInv'
  <2>1. UNCHANGED <<moments, events, fold, foldJournal, lock, op, step, round, look, got>>
    BY <1>7 DEF Read, BeginRead, Anchors, ReadMeta, ReadData, ReadEff, ReadLedger, ReadQueue,
                ReadJournals, ReadAgain, ReadOn, disk, holder
  <2> QED
    BY <2>1, CoverElsewhere
<1>8. ASSUME NEW p \in Processes, NEW o \in {"fold", "publish", "decide"}, Enter(p, o)
      PROVE  CoverInv'
  <2>1. /\ step' = "recover" /\ op' = o /\ lock' = p /\ (o = "fold" => fold[p] # None)
        /\ UNCHANGED <<moments, events, fold>>
    BY <1>8 DEF Enter, disk, clients
  <2> QED
    BY <1>0, <2>1 DEF CoverInv, MomentsGoOn, EventsAreListed, FoldsBegan, FoldIsUnderWay,
                      ReadingsWereLive, CandidateCovers
<1> QED
  BY <1>2, <1>3, <1>4, <1>5, <1>6, <1>7, <1>8 DEF SnapshotNext

\* What a fold that succeeds leaves, with nothing to publish or with its publication.
LEMMA SuccessCovers ==
  ASSUME SnapshotInv, CoverInv, SnapshotAssumption, NEW p \in Processes, lock = p,
         FinishSnapshot \/ (Confirmed /\ lock' = Nobody)
  PROVE  /\ files.eff.current /\ files.eff.base = files.meta
         /\ files.eff.events >= fold[p].events
         /\ \E i \in fold[p].since..Len(moments) :
              moments[i] = [product |-> files.eff.product, review |-> files.eff.review]
<1> DEFINE n == Len(moments)
<1>1. /\ n \in Nat \ {0} /\ Now = moments[n] /\ Now \in [product : Nat, review : Nat]
  BY NowIsLast DEF CoverInv
<1>2. step = "review" /\ op = "fold"
  BY DEF FinishSnapshot, Confirmed, HasRead, SnapshotInv, HolderInv
<1>3. /\ fold[p].since \in 1..n /\ n \in fold[p].since..n
      /\ fold[p].events \in Nat /\ fold[p].events <= Len(events)
  BY <1>1, <1>2 DEF CoverInv, FoldsBegan, FoldIsUnderWay
<1>4. CASE FinishSnapshot
  <2> DEFINE cand == foldJournal.candidate
  <2>1. round = "reload" /\ ReadAgrees
    BY <1>4 DEF FinishSnapshot, HasRead
  <2>2. foldJournal # NoJournal /\ \A f \in Fields : files[f] = Folded(foldJournal)[f]
    BY <1>2, <2>1 DEF SnapshotInv, HolderInv
  <2>3. files.eff = cand /\ cand.base = files.meta
    BY <2>2 DEF Folded, Fields, SnapshotInv, DiskInv, FoldCanGoBack
  <2>4. /\ cand.product = got.product /\ cand.review = got.review /\ cand.current = TRUE
        /\ cand.events >= fold[p].events
    BY <1>2, <2>1 DEF CoverInv, CandidateCovers
  <2>5. got.product = Now.product /\ got.review = Now.review
    BY <2>1 DEF ReadAgrees, Authority
  <2>6. Now = [product |-> Now.product, review |-> Now.review]
    BY <1>1
  <2>7. moments[n] = [product |-> files.eff.product, review |-> files.eff.review]
    BY <1>1, <2>3, <2>4, <2>5, <2>6
  <2> QED
    BY <1>3, <2>3, <2>4, <2>7
<1>5. CASE Confirmed /\ lock' = Nobody
  <2>1. round = "confirm" /\ Authority = got
    BY <1>5 DEF Confirmed, HasRead
  <2>2. Matches
    BY <1>5 DEF Confirmed, StartReading, SnapshotAssumption
  <2>3. /\ files.eff.base = files.meta /\ files.eff.product = got.product
        /\ files.eff.review = got.review /\ files.eff.events = Len(events)
        /\ files.eff.current = TRUE
    BY <2>2 DEF Matches, Candidate
  <2>4. look = got.product /\ got = [product |-> got.product, review |-> got.review]
    BY <2>1 DEF Authority
  <2>5. PICK k \in Since : moments[k] = got
    BY <1>2, <2>1, <2>4 DEF CoverInv, ReadingsWereLive
  <2>6. Since = fold[p].since..n
    BY DEF Since
  <2>7. Len(events) \in Nat
    BY LenProperties DEF CoverInv, EventsAreListed
  <2> QED
    BY <1>3, <2>3, <2>4, <2>5, <2>6, <2>7
<1> QED
  BY <1>4, <1>5

\* A fold that succeeds has the events that were there when it began, and an authority
\* that was live at one moment since (fold_effective_ledger).
THEOREM FoldAlwaysCoversItsPast == SnapshotSpec => FoldCoversItsPast
<1>1. SnapshotInit => SnapshotInv /\ CoverInv
  BY SnapshotAssumption, InitialSnapshot, InitialCover
<1>2. SnapshotInv /\ CoverInv /\ [SnapshotNext]_snapshotVars => (SnapshotInv /\ CoverInv)'
  BY SnapshotAssumption, SnapshotStep, CoverStep
<1>3. SnapshotInv /\ CoverInv =>
        \A p \in Processes :
          lock = p /\ (FinishSnapshot \/ (Confirmed /\ lock' = Nobody)) =>
            /\ files.eff.current /\ files.eff.base = files.meta
            /\ files.eff.events >= fold[p].events
            /\ \E i \in fold[p].since..Len(moments) :
                 moments[i] = [product |-> files.eff.product, review |-> files.eff.review]
  BY SnapshotAssumption, SuccessCovers
<1> QED
  BY <1>1, <1>2, <1>3, PTL DEF SnapshotSpec, FoldCoversItsPast

-----------------------------------------------------------------------------
(* A read without the lock returns what has been committed or rolled back. *)

IsReading(r) ==
  r = [at |-> r.at, anchors |-> r.anchors, meta |-> r.meta, eff |-> r.eff,
       settled |-> r.settled]

\* A snapshot that a reader may take is the one committed last, or one that a fold is
\* still publishing.
SnapshotIsKnown ==
  files.eff.current =>
    \/ files.eff = shown
    \/ foldJournal # NoJournal /\ files.eff = foldJournal.candidate

\* The reads that have a snapshot.
HasSnapshot(r) == r.at \in {"ledger", "queue", "journals", "again"}

Provenance(r) ==
  /\ IsReading(r)
  /\ shown.current => shown \in r.settled
  /\ HasSnapshot(r) =>
       \/ r.eff \in r.settled
       \/ /\ r.at # "again"
          /\ foldJournal # NoJournal /\ foldJournal.candidate = r.eff

ReadsAreTraced ==
  /\ read = [p \in Processes |-> read[p]]
  /\ \A p \in Processes : read[p] # None => Provenance(read[p])

\* The inductive invariant: a snapshot that is being published when it is read is among
\* the settled ones as soon as its journal is gone.
ReadInv == SnapshotIsKnown /\ ReadsAreTraced

LEMMA ReadsUntouched ==
  ASSUME ReadsAreTraced, UNCHANGED <<read, shown, foldJournal>>
  PROVE  ReadsAreTraced'
BY DEF ReadsAreTraced, Provenance, IsReading, HasSnapshot

LEMMA KnownUntouched ==
  ASSUME SnapshotIsKnown, UNCHANGED <<files, shown, foldJournal>>
  PROVE  SnapshotIsKnown'
BY DEF SnapshotIsKnown

\* When a snapshot is settled, reads that have it are of a settled one.
LEMMA SettleTraces ==
  ASSUME ReadsAreTraced, NEW x, read' = Settle(x), foldJournal' = NoJournal,
         shown' = shown \/ shown' = x,
         foldJournal # NoJournal => foldJournal.candidate = x
  PROVE  ReadsAreTraced'
<1>1. /\ read' = [p \in Processes |-> IF read[p] = None THEN None
                                      ELSE [read[p] EXCEPT !.settled = @ \cup {x}]]
      /\ read' = [p \in Processes |-> read'[p]]
  BY DEF Settle
<1>2. ASSUME NEW p \in Processes, read'[p] # None PROVE Provenance(read[p])'
  <2>1. read[p] # None /\ Provenance(read[p])
    BY <1>1, <1>2 DEF ReadsAreTraced
  <2>2. read'[p] = [read[p] EXCEPT !.settled = @ \cup {x}]
    BY <1>1, <2>1
  <2>3. /\ read'[p].settled = read[p].settled \cup {x} /\ read'[p].at = read[p].at
        /\ read'[p].eff = read[p].eff /\ IsReading(read[p])'
    BY <2>1, <2>2 DEF Provenance, IsReading
  <2> QED
    BY <2>1, <2>3 DEF Provenance, HasSnapshot
<1> QED
  BY <1>1, <1>2 DEF ReadsAreTraced

\* A step of a read.
LEMMA ReadTraces ==
  ASSUME ReadInv, NEW p \in Processes, NEW next, ReadOn(p, next),
         next # None => Provenance(next)
  PROVE  ReadInv'
<1>1. /\ read' = [read EXCEPT ![p] = next]
      /\ UNCHANGED <<files, shown, foldJournal>>
  BY DEF ReadOn, disk, history
<1>2. /\ read' = [q \in Processes |-> read'[q]] /\ read'[p] = next
      /\ \A q \in Processes : q # p => read'[q] = read[q]
  BY <1>1 DEF ReadInv, ReadsAreTraced
<1>3. ASSUME NEW q \in Processes, read'[q] # None PROVE Provenance(read[q])'
  <2>1. Provenance(read'[q])
    BY <1>2, <1>3 DEF ReadInv, ReadsAreTraced
  <2> QED
    BY <1>1, <2>1 DEF Provenance, IsReading, HasSnapshot
<1>4. SnapshotIsKnown'
  BY <1>1, KnownUntouched DEF ReadInv
<1> QED
  BY <1>2, <1>3, <1>4 DEF ReadInv, ReadsAreTraced

\* A read goes on: it keeps the snapshot that it has, or takes the one that is there.
GoesOn(r, next) ==
  /\ IsReading(next) /\ next.settled = r.settled
  /\ HasSnapshot(next) =>
       \/ /\ HasSnapshot(r) /\ r.at # "again" /\ next.eff = r.eff
          /\ next.at = "again" => Settled
       \/ files.eff.current /\ next.eff = files.eff /\ next.at # "again"

LEMMA ReadMoves ==
  ASSUME NEW p \in Processes, Read(p), read[p] # None => IsReading(read[p])
  PROVE  \/ BeginRead(p) \/ ReadAgain(p)
         \/ read[p] # None /\ \E next : ReadOn(p, next) /\ (next # None => GoesOn(read[p], next))
<1> DEFINE r == read[p]
<1>0. r # None => IsReading(r)
  OBVIOUS
<1>1. CASE Anchors(p)
  <2> DEFINE moved == [r EXCEPT !.at = "meta"]
             taken == [r EXCEPT !.at = "meta", !.anchors = <<files.meta, files.eff>>]
             next == taken
  <2>1. r # None /\ ReadOn(p, next)
    BY <1>1 DEF Anchors, At
  <2>2. moved = [at |-> "meta", anchors |-> r.anchors, meta |-> r.meta,
                 eff |-> r.eff, settled |-> r.settled]
    BY <1>0, <2>1 DEF IsReading
  <2>3. taken = [moved EXCEPT !.anchors = <<files.meta, files.eff>>]
    BY DEF moved
  <2> HIDE DEF moved
  <2>4. taken = [at |-> "meta", anchors |-> <<files.meta, files.eff>>, meta |-> r.meta,
                 eff |-> r.eff, settled |-> r.settled]
    BY <2>2, <2>3
  <2> HIDE DEF taken
  <2>5. GoesOn(r, next)
    BY <2>4 DEF GoesOn, IsReading, HasSnapshot
  <2> QED
    BY <2>1, <2>5
<1>2. CASE ReadMeta(p)
  <2> DEFINE moved == [r EXCEPT !.at = "data"]
             taken == [r EXCEPT !.at = "data", !.meta = files.meta]
             next == taken
  <2>1. r # None /\ ReadOn(p, next)
    BY <1>2 DEF ReadMeta, At
  <2>2. moved = [at |-> "data", anchors |-> r.anchors, meta |-> r.meta,
                 eff |-> r.eff, settled |-> r.settled]
    BY <1>0, <2>1 DEF IsReading
  <2>3. taken = [moved EXCEPT !.meta = files.meta]
    BY DEF moved
  <2> HIDE DEF moved
  <2>4. taken = [at |-> "data", anchors |-> r.anchors, meta |-> files.meta,
                 eff |-> r.eff, settled |-> r.settled]
    BY <2>2, <2>3
  <2> HIDE DEF taken
  <2>5. GoesOn(r, next)
    BY <2>4 DEF GoesOn, IsReading, HasSnapshot
  <2> QED
    BY <2>1, <2>5
<1>3. CASE ReadData(p)
  <2> DEFINE next == IF files.data = r.meta THEN [r EXCEPT !.at = "eff"] ELSE None
  <2>1. r # None /\ ReadOn(p, next)
    BY <1>3 DEF ReadData, At
  <2>2. next # None => GoesOn(r, next)
    BY <1>0, <2>1 DEF GoesOn, IsReading, HasSnapshot
  <2> QED
    BY <2>1, <2>2
<1>4. CASE ReadEff(p)
  <2> DEFINE moved == [r EXCEPT !.at = "ledger"]
             taken == [r EXCEPT !.at = "ledger", !.eff = files.eff]
             next == IF /\ files.eff.current /\ files.eff.base = r.meta
                        /\ files.meta = r.meta
                      THEN taken ELSE None
  <2>1. r # None /\ ReadOn(p, next)
    BY <1>4 DEF ReadEff, At
  <2>2. moved = [at |-> "ledger", anchors |-> r.anchors, meta |-> r.meta,
                 eff |-> r.eff, settled |-> r.settled]
    BY <1>0, <2>1 DEF IsReading
  <2>3. taken = [moved EXCEPT !.eff = files.eff]
    BY DEF moved
  <2> HIDE DEF moved
  <2>4. taken = [at |-> "ledger", anchors |-> r.anchors, meta |-> r.meta,
                 eff |-> files.eff, settled |-> r.settled]
    BY <2>2, <2>3
  <2> HIDE DEF taken
  <2>5. next # None => GoesOn(r, next)
    BY <2>4 DEF GoesOn, IsReading, HasSnapshot
  <2> QED
    BY <2>1, <2>5
<1>5. CASE ReadLedger(p)
  <2> DEFINE next == IF files.ledger = r.eff THEN [r EXCEPT !.at = "queue"] ELSE None
  <2>1. r # None /\ r.at = "ledger" /\ ReadOn(p, next)
    BY <1>5 DEF ReadLedger, At
  <2>2. next # None => GoesOn(r, next)
    BY <1>0, <2>1 DEF GoesOn, IsReading, HasSnapshot
  <2> QED
    BY <2>1, <2>2
<1>6. CASE ReadQueue(p)
  <2> DEFINE next == IF /\ files.queue = r.eff
                        /\ r.eff.product = Now.product /\ r.eff.review = Now.review
                      THEN [r EXCEPT !.at = "journals"] ELSE None
  <2>1. r # None /\ r.at = "queue" /\ ReadOn(p, next)
    BY <1>6 DEF ReadQueue, At
  <2>2. next # None => GoesOn(r, next)
    BY <1>0, <2>1 DEF GoesOn, IsReading, HasSnapshot
  <2> QED
    BY <2>1, <2>2
<1>7. CASE ReadJournals(p)
  <2> DEFINE next == IF Settled THEN [r EXCEPT !.at = "again"] ELSE None
  <2>1. r # None /\ r.at = "journals" /\ ReadOn(p, next)
    BY <1>7 DEF ReadJournals, At
  <2>2. next # None => GoesOn(r, next)
    BY <1>0, <2>1 DEF GoesOn, IsReading, HasSnapshot
  <2> QED
    BY <2>1, <2>2
<1> QED
  BY <1>1, <1>2, <1>3, <1>4, <1>5, <1>6, <1>7 DEF Read

LEMMA ReadHolds ==
  ASSUME ReadInv, NEW p \in Processes, Read(p) PROVE ReadInv'
<1> DEFINE r == read[p]
<1>0. r # None => Provenance(r) /\ IsReading(r)
  BY DEF ReadInv, ReadsAreTraced, Provenance
<1>1. CASE BeginRead(p)
  <2> DEFINE new == [at |-> "anchors", anchors |-> None, meta |-> 0, eff |-> None,
                     settled |-> {shown}]
  <2>1. read' = [read EXCEPT ![p] = new] /\ UNCHANGED <<files, shown, foldJournal>>
    BY <1>1 DEF BeginRead, disk, history
  <2>2. /\ read' = [q \in Processes |-> read'[q]] /\ read'[p] = new
        /\ \A q \in Processes : q # p => read'[q] = read[q]
    BY <2>1 DEF ReadInv, ReadsAreTraced
  <2>3. Provenance(new)
    BY DEF Provenance, IsReading, HasSnapshot
  <2> HIDE DEF new
  <2>4. ASSUME NEW q \in Processes, read'[q] # None PROVE Provenance(read[q])'
    <3>1. Provenance(read'[q])
      BY <2>2, <2>3, <2>4 DEF ReadInv, ReadsAreTraced
    <3> QED
      BY <2>1, <3>1 DEF Provenance, IsReading, HasSnapshot
  <2>5. SnapshotIsKnown'
    BY <2>1, KnownUntouched DEF ReadInv
  <2> QED
    BY <2>2, <2>4, <2>5 DEF ReadInv, ReadsAreTraced
<1>2. CASE ReadAgain(p)
  <2>1. read' = [read EXCEPT ![p] = None] /\ UNCHANGED <<files, shown, foldJournal>>
    BY <1>2 DEF ReadAgain, disk, history
  <2>2. /\ read' = [q \in Processes |-> read'[q]] /\ read'[p] = None
        /\ \A q \in Processes : q # p => read'[q] = read[q]
    BY <2>1 DEF ReadInv, ReadsAreTraced
  <2>3. ASSUME NEW q \in Processes, read'[q] # None PROVE Provenance(read[q])'
    <3>1. Provenance(read'[q])
      BY <2>2, <2>3 DEF ReadInv, ReadsAreTraced
    <3> QED
      BY <2>1, <3>1 DEF Provenance, IsReading, HasSnapshot
  <2>4. SnapshotIsKnown'
    BY <2>1, KnownUntouched DEF ReadInv
  <2> QED
    BY <2>2, <2>3, <2>4 DEF ReadInv, ReadsAreTraced
<1>3. CASE r # None /\ \E next : ReadOn(p, next) /\ (next # None => GoesOn(r, next))
  <2>1. PICK next : ReadOn(p, next) /\ (next # None => GoesOn(r, next))
    BY <1>3
  <2>2. next # None => Provenance(next)
    BY <1>0, <1>3, <2>1 DEF GoesOn, ReadInv, SnapshotIsKnown, Provenance, HasSnapshot, Settled
  <2> QED
    BY <2>1, <2>2, ReadTraces
<1> QED
  BY <1>0, <1>1, <1>2, <1>3, ReadMoves

\* What is written over a snapshot: the one committed last, which is the backup's; the one
\* that a rebuild brings along; or a fold's candidate.
LEMMA WrittenSnapshot ==
  ASSUME SnapshotInv, Write
  PROVE  \/ files'.eff \in {files.eff, shown, Legacy(baseJournal.candidate)}
         \/ foldJournal # NoJournal /\ files'.eff = foldJournal.candidate
<1>0. /\ DiskInv /\ HolderInv /\ IsArtifacts(files)
      /\ step \in {"write", "undo"} /\ todo # <<>>
      /\ files' = [files EXCEPT ![Head(todo)[1]] = Head(todo)[2]] /\ todo' = Tail(todo)
  BY DEF Write, SnapshotInv, DiskInv
<1>1. ASSUME NEW goal, LeadsTo(goal) PROVE files'.eff = files.eff \/ files'.eff = goal.eff
  <2>1. "eff" \in Fields
    BY DEF Fields
  <2>2. files'["eff"] = files["eff"] \/ files'["eff"] = goal["eff"]
    BY <1>0, <1>1, <2>1, WriteLeadsOn
  <2> QED
    BY <2>2
<1>2. CASE step = "undo" /\ baseJournal # NoJournal
  <2>1. LeadsTo(baseJournal.old) /\ baseJournal.old.eff = shown
    BY <1>0, <1>2 DEF HolderInv, DiskInv, RebuildCanGoBack, Whole
  <2> QED
    BY <1>1, <2>1
<1>3. CASE step = "undo" /\ baseJournal = NoJournal
  <2>1. LeadsTo(foldJournal.old) /\ foldJournal.old.eff = shown
    BY <1>0, <1>3 DEF HolderInv, DiskInv, FoldCanGoBack, Whole
  <2> QED
    BY <1>1, <2>1
<1>4. CASE step = "write" /\ op = "publish"
  <2>1. LeadsTo(Rebuilt(baseJournal))
    BY <1>0, <1>4 DEF HolderInv
  <2>2. Rebuilt(baseJournal).eff = Legacy(baseJournal.candidate)
    BY DEF Rebuilt
  <2> QED
    BY <1>1, <2>1, <2>2
<1>5. CASE step = "write" /\ op # "publish"
  <2>1. LeadsTo(Folded(foldJournal)) /\ foldJournal # NoJournal
    BY <1>0, <1>5 DEF HolderInv
  <2>2. Folded(foldJournal).eff = foldJournal.candidate
    BY DEF Folded
  <2> QED
    BY <1>1, <2>1, <2>2
<1> QED
  BY <1>0, <1>2, <1>3, <1>4, <1>5

LEMMA WriteKnown ==
  ASSUME SnapshotInv, SnapshotIsKnown, Write PROVE SnapshotIsKnown'
<1>1. UNCHANGED <<foldJournal, shown>>
  BY DEF Write, history
<1>2. Legacy(baseJournal.candidate).current = FALSE
  BY DEF Legacy
<1> QED
  BY <1>1, <1>2, WrittenSnapshot DEF SnapshotIsKnown

LEMMA ReadStep ==
  ASSUME SnapshotInv, ReadInv, [SnapshotNext]_snapshotVars PROVE ReadInv'
<1>0. SnapshotIsKnown /\ ReadsAreTraced /\ DiskInv
  BY DEF ReadInv, SnapshotInv
\* A step that publishes nothing.
<1>1. ASSUME UNCHANGED <<files, foldJournal, read, shown>> PROVE ReadInv'
  BY <1>0, <1>1, KnownUntouched, ReadsUntouched DEF ReadInv
<1>2. CASE UNCHANGED snapshotVars
  BY <1>1, <1>2 DEF snapshotVars, disk, clients, history
<1>3. CASE Change
  BY <1>1, <1>3 DEF Change, disk, clients, history
<1>4. CASE Crash
  BY <1>1, <1>4 DEF Crash, disk, history
<1>5. CASE Locked
  <2>1. CASE Write
    <3>1. ReadsAreTraced'
      BY <1>0, <2>1, ReadsUntouched DEF Write, clients, history
    <3> QED
      BY <1>0, <2>1, <3>1, WriteKnown DEF ReadInv
  <2>2. CASE Undone
    <3>1. UNCHANGED <<files, shown>> /\ step = "undo" /\ todo = <<>>
      BY <2>2 DEF Undone, history
    <3>2. CASE baseJournal # NoJournal
      BY <1>1, <2>2, <3>1, <3>2 DEF Undone
    <3>3. CASE baseJournal = NoJournal
      <4>1. /\ foldJournal # NoJournal /\ LeadsTo(foldJournal.old)
            /\ foldJournal.old.eff = shown
        BY <3>1, <3>3 DEF SnapshotInv, DiskInv, HolderInv, FoldCanGoBack, Whole
      <4>2. files.eff = shown
        BY <3>1, <4>1, GoalReached DEF Fields
      <4>3. foldJournal' = NoJournal /\ read' = Settle(foldJournal.candidate)
        BY <2>2, <3>3 DEF Undone
      <4>4. ReadsAreTraced'
        BY <1>0, <3>1, <4>3, SettleTraces
      <4>5. SnapshotIsKnown'
        BY <3>1, <4>2 DEF SnapshotIsKnown
      <4> QED
        BY <4>4, <4>5 DEF ReadInv
    <3> QED
      BY <3>2, <3>3
  <2>3. CASE FinishBase
    <3>1. /\ step = "write" /\ op = "publish" /\ todo = <<>> /\ shown' = files.eff
          /\ UNCHANGED <<files, foldJournal, read>>
      BY <2>3 DEF FinishBase, clients
    <3>2. files.eff = Legacy(baseJournal.candidate)
      BY <3>1, GoalReached DEF SnapshotInv, HolderInv, Rebuilt, Fields
    <3>3. files.eff.current = FALSE
      BY <3>2 DEF Legacy
    <3>4. SnapshotIsKnown'
      BY <3>1 DEF SnapshotIsKnown
    <3>5. ReadsAreTraced'
      BY <1>0, <3>1, <3>3 DEF ReadsAreTraced, Provenance, IsReading, HasSnapshot
    <3> QED
      BY <3>4, <3>5 DEF ReadInv
  <2>4. CASE BeginSnapshot
    <3>1. /\ step = "review" /\ round = "publish"
          /\ UNCHANGED <<files, read, shown>>
      BY <2>4 DEF BeginSnapshot, HasRead, clients, history
    <3>2. Settled /\ files.eff = shown
      BY <3>1 DEF SnapshotInv, HolderInv, DiskInv, Whole
    <3>3. SnapshotIsKnown'
      BY <3>1, <3>2 DEF SnapshotIsKnown
    <3>4. ReadsAreTraced'
      BY <1>0, <3>1, <3>2 DEF ReadsAreTraced, Provenance, IsReading, HasSnapshot, Settled
    <3> QED
      BY <3>3, <3>4 DEF ReadInv
  <2>5. CASE FinishSnapshot
    <3>1. /\ step = "review" /\ round = "reload" /\ foldJournal' = NoJournal
          /\ shown' = files.eff /\ read' = Settle(files.eff) /\ UNCHANGED files
      BY <2>5 DEF FinishSnapshot, HasRead
    <3>2. files.eff = foldJournal.candidate
      BY <3>1 DEF SnapshotInv, HolderInv, Folded, Fields
    <3>3. ReadsAreTraced'
      BY <1>0, <3>1, <3>2, SettleTraces
    <3>4. SnapshotIsKnown'
      BY <3>1 DEF SnapshotIsKnown
    <3> QED
      BY <3>3, <3>4 DEF ReadInv
  <2>6. CASE Recover \/ BeginBase \/ AbortBase \/ Decide \/ Refuse \/ BeginAttempt
    BY <1>1, <2>6 DEF Recover, BeginBase, AbortBase, Decide, Refuse, BeginAttempt, disk,
                      clients, history
  <2>7. CASE ReadProduct \/ Reconcile \/ Retry \/ Confirmed \/ Reload \/ FoldRaises \/ Falter
    BY <1>1, <2>7 DEF ReadProduct, Reconcile, Retry, Confirmed, Reload, FoldRaises, Falter,
                      disk, clients, history
  <2> QED
    BY <1>5, <2>1, <2>2, <2>3, <2>4, <2>5, <2>6, <2>7 DEF Locked
<1>6. ASSUME NEW p \in Processes, BeginFold(p) PROVE ReadInv'
  BY <1>1, <1>6 DEF BeginFold, disk, history
<1>7. ASSUME NEW p \in Processes, Read(p) PROVE ReadInv'
  BY <1>7, ReadHolds
<1>8. ASSUME NEW p \in Processes, NEW o \in {"fold", "publish", "decide"}, Enter(p, o)
      PROVE  ReadInv'
  BY <1>1, <1>8 DEF Enter, disk, clients, history
<1> QED
  BY <1>2, <1>3, <1>4, <1>5, <1>6, <1>7, <1>8 DEF SnapshotNext

LEMMA InitialReads ==
  ASSUME SnapshotInit PROVE ReadInv
<1>1. files.eff = shown /\ read = [p \in Processes |-> None]
  BY DEF SnapshotInit
<1> QED
  BY <1>1 DEF ReadInv, SnapshotIsKnown, ReadsAreTraced

\* Whoever reads has forgotten what it had seen.
ReadersStartAfresh ==
  /\ seen = [p \in Processes |-> seen[p]] /\ read = [p \in Processes |-> read[p]]
  /\ \A p \in Processes : read[p] # None => seen[p] = None

\* A step is the answer of a read, the begin of one, or nothing that anybody sees.
LEMMA WhatIsSeen ==
  ASSUME [SnapshotNext]_snapshotVars
  PROVE  \/ \E p \in Processes : ReadAgain(p)
         \/ \E p \in Processes : BeginRead(p)
         \/ \E p \in Processes : \E next : ReadOn(p, next) /\ read[p] # None
         \/ \E x : read' = Settle(x) /\ seen' = seen
         \/ UNCHANGED <<read, seen>>
<1>1. CASE UNCHANGED snapshotVars \/ Change \/ Crash
  BY <1>1 DEF snapshotVars, clients, Change, Crash
<1>2. CASE Locked
  <2>1. CASE Recover \/ Write \/ BeginBase \/ FinishBase \/ AbortBase \/ Decide \/ Refuse
    BY <2>1 DEF Recover, Write, BeginBase, FinishBase, AbortBase, Decide, Refuse, clients
  <2>2. CASE \/ BeginAttempt \/ ReadProduct \/ Reconcile \/ Retry \/ Confirmed
             \/ BeginSnapshot \/ Reload \/ FoldRaises \/ Falter
    BY <2>2 DEF BeginAttempt, ReadProduct, Reconcile, Retry, Confirmed, BeginSnapshot, Reload,
                FoldRaises, Falter, clients
  <2>3. CASE Undone \/ FinishSnapshot
    BY <2>3 DEF Undone, FinishSnapshot
  <2> QED
    BY <1>2, <2>1, <2>2, <2>3 DEF Locked
<1>3. ASSUME NEW p \in Processes,
             BeginFold(p) \/ \E o \in {"fold", "publish", "decide"} : Enter(p, o)
      PROVE  UNCHANGED <<read, seen>>
  BY <1>3 DEF BeginFold, Enter, clients
<1>4. ASSUME NEW p \in Processes, Read(p)
      PROVE  \/ ReadAgain(p) \/ BeginRead(p)
             \/ \E next : ReadOn(p, next) /\ read[p] # None
  BY <1>4 DEF Read, Anchors, ReadMeta, ReadData, ReadEff, ReadLedger, ReadQueue, ReadJournals,
              At
<1> QED
  BY <1>1, <1>2, <1>3, <1>4 DEF SnapshotNext

LEMMA AfreshStep ==
  ASSUME ReadersStartAfresh, [SnapshotNext]_snapshotVars PROVE ReadersStartAfresh'
<1>1. CASE \E p \in Processes : ReadAgain(p)
  BY <1>1 DEF ReadAgain, ReadersStartAfresh
<1>2. CASE \E p \in Processes : BeginRead(p)
  BY <1>2 DEF BeginRead, ReadersStartAfresh
<1>3. CASE \E p \in Processes : \E next : ReadOn(p, next) /\ read[p] # None
  BY <1>3 DEF ReadOn, ReadersStartAfresh
<1>4. CASE \E x : read' = Settle(x) /\ seen' = seen
  BY <1>4 DEF Settle, ReadersStartAfresh
<1>5. CASE UNCHANGED <<read, seen>>
  BY <1>5 DEF ReadersStartAfresh
<1> QED
  BY <1>1, <1>2, <1>3, <1>4, <1>5, WhatIsSeen

\* A read without the lock returns a snapshot that was committed or rolled back while it
\* ran (load_committed_effective_snapshot_readonly).
THEOREM ReadsAreAlwaysSettled == SnapshotSpec => ReadsAreSettled
<1> DEFINE Answer(p) == At(p, "again") /\ read'[p] = None /\ seen'[p] # None
           Answers == \A p \in Processes : Answer(p) => seen'[p] \in read[p].settled
           Inv == SnapshotInv /\ ReadInv /\ ReadersStartAfresh
<1>1. SnapshotInit => Inv
  <2>1. SnapshotInit => ReadersStartAfresh
    BY DEF SnapshotInit, ReadersStartAfresh
  <2> QED
    BY <2>1, SnapshotAssumption, InitialSnapshot, InitialReads
<1>2. Inv /\ [SnapshotNext]_snapshotVars => Inv'
  BY SnapshotAssumption, SnapshotStep, ReadStep, AfreshStep
<1>3. Inv /\ [SnapshotNext]_snapshotVars => Answers
  <2> SUFFICES ASSUME ReadInv, ReadersStartAfresh, [SnapshotNext]_snapshotVars,
                      NEW p \in Processes, Answer(p)
               PROVE  seen'[p] \in read[p].settled
    OBVIOUS
  <2>1. read[p] # None /\ read[p].eff \in read[p].settled
    BY DEF At, ReadInv, ReadsAreTraced, Provenance, HasSnapshot
  <2>2. seen[p] = None
    BY <2>1 DEF ReadersStartAfresh
  <2>3. CASE \E q \in Processes : ReadAgain(q)
    BY <2>1, <2>2, <2>3 DEF ReadAgain, ReadersStartAfresh
  <2>4. CASE \E q \in Processes : BeginRead(q)
    BY <2>2, <2>4 DEF BeginRead, ReadersStartAfresh
  <2> QED
    BY <2>2, <2>3, <2>4, WhatIsSeen DEF ReadOn
<1> HIDE DEF Inv
<1> QED
  BY <1>1, <1>2, <1>3, PTL DEF SnapshotSpec, ReadsAreSettled

-----------------------------------------------------------------------------
(* Whoever decides has seen what has been decided.                         *)

DecisionsOf(ev) == {i \in 1..Len(ev) : ev[i].kind = "decision"}

RevisionOf(ev, s) ==
  [baseProduct |-> s.base.product, baseReview |-> s.base.review,
   product |-> s.product, review |-> s.review,
   decisions |-> Cardinality(DecisionsOf(ev) \cap 1..s.events)]

InformedOf(ev) ==
  \A i, j \in DecisionsOf(ev) : i < j => ev[j].seen.events >= i

Before == 0..Len(events)

\* A snapshot is of events that are there.
SnapshotsAreNumbered ==
  /\ shown.events \in Before /\ files.eff.events \in Before
  /\ foldJournal # NoJournal => foldJournal.candidate.events = Len(events)

ReadersAreNumbered ==
  \A p \in Processes :
    /\ read[p] # None /\ HasSnapshot(read[p]) => read[p].eff.events \in Before
    /\ seen[p] # None => seen[p].events \in Before

DecisionsAreNumbered ==
  \A i \in DecisionsOf(events) : events[i].seen.events \in Before

\* An expert who decides keeps what it has seen.
ExpertHasSeen ==
  op = "decide" => lock \in Processes /\ seen[lock] # None /\ read[lock] = None

\* A decision that has not been folded was on the revision that is still shown.
UnfoldedIsOnShown ==
  shown.current =>
    \A i \in DecisionsOf(events) :
      i > shown.events => RevisionOf(events, events[i].seen) = RevisionOf(events, shown)

\* The inductive invariant.  DecisionsAreInformed alone is not: the check compares
\* revisions, and what makes a revision tell of the decisions that it does not count is
\* that such a decision is on that very revision.
DecisionInv ==
  /\ SnapshotsAreNumbered /\ ReadersAreNumbered /\ DecisionsAreNumbered
  /\ ExpertHasSeen /\ UnfoldedIsOnShown
  /\ InformedOf(events)

LEMMA DecisionsFromEvents ==
  ASSUME EventsAreListed
  PROVE  /\ Decisions = DecisionsOf(events)
         /\ \A s : Revision(s) = RevisionOf(events, s)
<1>1. DOMAIN events = 1..Len(events)
  BY LenProperties DEF EventsAreListed
<1>2. Decisions = DecisionsOf(events)
  BY <1>1 DEF Decisions, DecisionsOf
<1> QED
  BY <1>2 DEF Revision, RevisionOf

LEMMA DecisionsFinite ==
  ASSUME EventsAreListed
  PROVE  IsFiniteSet(DecisionsOf(events)) /\ DecisionsOf(events) \subseteq 1..Len(events)
<1>1. Len(events) \in Nat
  BY LenProperties DEF EventsAreListed
<1>2. IsFiniteSet(1..Len(events))
  BY <1>1, FS_Interval
<1>3. DecisionsOf(events) \subseteq 1..Len(events)
  BY DEF DecisionsOf
<1> QED
  BY <1>2, <1>3, FS_Subset

\* Another event leaves the revision of what was seen before.
LEMMA EventsGrow ==
  ASSUME EventsAreListed, NEW e, events' = Append(events, e)
  PROVE  /\ Len(events) \in Nat /\ Len(events') = Len(events) + 1
         /\ \A i \in 1..Len(events) : events'[i] = events[i]
         /\ events'[Len(events) + 1] = e
         /\ DecisionsOf(events') =
              DecisionsOf(events) \cup (IF e.kind = "decision" THEN {Len(events) + 1} ELSE {})
         /\ \A s : s.events \in Before => RevisionOf(events', s) = RevisionOf(events, s)
<1> DEFINE n == Len(events)
           S == {events[i] : i \in 1..n} \cup {e}
<1>1. events \in Seq(S) /\ e \in S /\ n \in Nat
  BY LenProperties DEF EventsAreListed
<1>2. /\ Len(events') = n + 1 /\ \A i \in 1..n : events'[i] = events[i]
      /\ events'[n + 1] = e
  BY <1>1, AppendProperties
<1>3. DecisionsOf(events') =
        DecisionsOf(events) \cup (IF e.kind = "decision" THEN {n + 1} ELSE {})
  <2>1. \A i : i \in 1..(n + 1) <=> i \in 1..n \/ i = n + 1
    BY <1>1
  <2> QED
    BY <1>2, <2>1 DEF DecisionsOf
<1>4. ASSUME NEW k \in Before
      PROVE  DecisionsOf(events') \cap 1..k = DecisionsOf(events) \cap 1..k
  <2>1. n + 1 \notin 1..k
    BY <1>1 DEF Before
  <2> QED
    BY <1>3, <2>1
<1>5. \A s : s.events \in Before => RevisionOf(events', s) = RevisionOf(events, s)
  BY <1>4 DEF RevisionOf
<1> QED
  BY <1>1, <1>2, <1>3, <1>5

\* Two revisions that are equal count the same decisions; if one of them counts all of
\* them, so does the other.
LEMMA SameCount ==
  ASSUME EventsAreListed, NEW s, NEW t, RevisionOf(events, s) = RevisionOf(events, t),
         s.events \in Before, t.events \in Before,
         \A i \in DecisionsOf(events) : i <= s.events
  PROVE  \A i \in DecisionsOf(events) : i <= t.events
<1> DEFINE D == DecisionsOf(events)
<1>1. IsFiniteSet(D) /\ D \subseteq 1..Len(events)
  BY DecisionsFinite
<1>2. Len(events) \in Nat
  BY LenProperties DEF EventsAreListed
<1>3. Cardinality(D \cap 1..s.events) = Cardinality(D \cap 1..t.events)
  BY DEF RevisionOf
<1>4. D \cap 1..s.events = D
  BY <1>1, <1>2 DEF Before
<1>5. D \cap 1..t.events = D
  <2>1. D \cap 1..t.events \subseteq D /\ Cardinality(D \cap 1..t.events) = Cardinality(D)
    BY <1>3, <1>4
  <2> HIDE DEF D
  <2> QED
    BY <1>1, <2>1, FS_Subset
<1> QED
  BY <1>1, <1>2, <1>5 DEF Before

\* A step that leaves what has been decided, shown and seen.
LEMMA DecisionsUntouched ==
  ASSUME DecisionInv, UNCHANGED <<files, foldJournal, events, shown, read, seen>>,
         \/ op' # "decide"
         \/ UNCHANGED <<op, lock>>
  PROVE  DecisionInv'
<1>1. SnapshotsAreNumbered' /\ ReadersAreNumbered' /\ DecisionsAreNumbered'
  BY DEF DecisionInv, SnapshotsAreNumbered, ReadersAreNumbered, DecisionsAreNumbered, Before,
         HasSnapshot
<1>2. ExpertHasSeen'
  BY DEF DecisionInv, ExpertHasSeen
<1>3. UnfoldedIsOnShown' /\ InformedOf(events)'
  BY DEF DecisionInv, UnfoldedIsOnShown
<1> QED
  BY <1>1, <1>2, <1>3 DEF DecisionInv

LEMMA DecideInforms ==
  ASSUME SnapshotInv, EventsAreListed, ReadersStartAfresh, DecisionInv, SnapshotAssumption,
         Decide
  PROVE  DecisionInv'
<1> DEFINE n == Len(events)
           s == seen[lock]
           e == [kind |-> "decision", seen |-> s]
<1>1. /\ events' = Append(events, e) /\ step = "begin" /\ op = "decide" /\ op' = None
      /\ Informed(lock) /\ UNCHANGED <<files, foldJournal, shown, read, seen>>
  BY DEF Decide, Leave, history
<1>2. e.kind = "decision" /\ e.seen = s
  OBVIOUS
<1>3. foldJournal = NoJournal /\ files.eff = shown
  BY <1>1 DEF SnapshotInv, HolderInv, DiskInv, Settled, Whole
<1>4. lock \in Processes /\ s # None /\ s.events \in Before /\ shown.events \in Before
  BY <1>1 DEF DecisionInv, ExpertHasSeen, ReadersAreNumbered, SnapshotsAreNumbered
<1> HIDE DEF s, e
<1>5. /\ n \in Nat /\ Len(events') = n + 1
      /\ \A i \in 1..n : events'[i] = events[i]
      /\ events'[n + 1] = e
      /\ DecisionsOf(events') = DecisionsOf(events) \cup {n + 1}
      /\ \A x : x.events \in Before => RevisionOf(events', x) = RevisionOf(events, x)
  BY <1>1, <1>2, EventsGrow
<1>6. Before \subseteq Before' /\ DecisionsOf(events) \subseteq 1..n
  BY <1>5 DEF Before, DecisionsOf
<1>7. /\ shown.current /\ RevisionOf(events, shown) = RevisionOf(events, s)
      /\ \A i \in DecisionsOf(events) :
           RevisionOf(events, events[i].seen) # RevisionOf(events, s)
  BY <1>1, <1>3, DecisionsFromEvents DEF Informed, s
<1>8. \A i \in DecisionsOf(events) : i <= shown.events
  <2>1. shown.events \in Int /\ \A i \in DecisionsOf(events) : i \in Int
    BY <1>4, <1>5, <1>6 DEF Before
  <2> QED
    BY <1>7, <2>1 DEF DecisionInv, UnfoldedIsOnShown
<1>9. \A i \in DecisionsOf(events) : i <= s.events
  BY <1>4, <1>7, <1>8, SameCount
<1>10. InformedOf(events')
  <2> SUFFICES ASSUME NEW i \in DecisionsOf(events'), NEW j \in DecisionsOf(events'), i < j
               PROVE  events'[j].seen.events >= i
    BY DEF InformedOf
  <2>1. CASE j = n + 1
    <3>1. i \in DecisionsOf(events)
      BY <1>5, <2>1
    <3>2. i \in Int /\ s.events \in Int
      BY <1>4, <1>5, <1>6, <3>1 DEF Before
    <3> QED
      BY <1>2, <1>5, <1>9, <2>1, <3>1, <3>2
  <2>2. CASE j # n + 1
    <3>1. j \in DecisionsOf(events) /\ j \in 1..n
      BY <1>5, <1>6, <2>2
    <3>2. i \in DecisionsOf(events)
      BY <1>5, <3>1
    <3> QED
      BY <1>5, <3>1, <3>2 DEF DecisionInv, InformedOf
  <2> QED
    BY <2>1, <2>2
<1>11. SnapshotsAreNumbered' /\ ReadersAreNumbered' /\ ExpertHasSeen'
  BY <1>1, <1>3, <1>6 DEF DecisionInv, SnapshotsAreNumbered, ReadersAreNumbered,
       ExpertHasSeen, HasSnapshot, SnapshotAssumption
<1>12. DecisionsAreNumbered'
  <2>1. \A i \in DecisionsOf(events) : events'[i].seen.events \in Before'
    BY <1>5, <1>6 DEF DecisionInv, DecisionsAreNumbered
  <2>2. events'[n + 1].seen.events \in Before'
    BY <1>2, <1>4, <1>5, <1>6
  <2> QED
    BY <1>5, <2>1, <2>2 DEF DecisionsAreNumbered
<1>13. UnfoldedIsOnShown'
  <2>1. ASSUME NEW i \in DecisionsOf(events), i > shown.events
        PROVE  RevisionOf(events', events'[i].seen) = RevisionOf(events', shown)
    <3>1. RevisionOf(events, events[i].seen) = RevisionOf(events, shown)
      BY <1>7, <2>1 DEF DecisionInv, UnfoldedIsOnShown
    <3>2. events[i].seen.events \in Before /\ events'[i] = events[i]
      BY <1>5, <1>6 DEF DecisionInv, DecisionsAreNumbered
    <3> QED
      BY <1>4, <1>5, <3>1, <3>2
  <2>2. RevisionOf(events', events'[n + 1].seen) = RevisionOf(events', shown)
    BY <1>2, <1>4, <1>5, <1>7
  <2> QED
    BY <1>1, <1>5, <2>1, <2>2 DEF UnfoldedIsOnShown
<1> QED
  BY <1>10, <1>11, <1>12, <1>13 DEF DecisionInv

\* A projection is no decision.
LEMMA ReconcileInforms ==
  ASSUME SnapshotInv, EventsAreListed, DecisionInv, Reconcile PROVE DecisionInv'
<1> DEFINE n == Len(events)
           e == [kind |-> "projection", base |-> files.meta, product |-> look,
                 review |-> Now.review]
<1>1. /\ events' = events \/ events' = Append(events, e)
      /\ step = "review" /\ round = "reduce" /\ op = "fold" /\ op' = "fold"
      /\ UNCHANGED <<files, foldJournal, shown, read, seen, lock>>
  BY DEF Reconcile, HasRead, StartReading, clients, history, SnapshotInv, HolderInv
<1>2. CASE events' = events
  BY <1>1, <1>2, DecisionsUntouched
<1>3. CASE events' = Append(events, e)
  <2>1. e.kind # "decision"
    OBVIOUS
  <2> HIDE DEF e
  <2>2. foldJournal = NoJournal
    BY <1>1 DEF SnapshotInv, HolderInv, Settled
  <2>3. /\ n \in Nat /\ Len(events') = n + 1
        /\ \A i \in 1..n : events'[i] = events[i]
        /\ DecisionsOf(events') = DecisionsOf(events)
        /\ \A x : x.events \in Before => RevisionOf(events', x) = RevisionOf(events, x)
    BY <1>3, <2>1, EventsGrow
  <2>4. /\ Before \subseteq Before'
        /\ \A i \in DecisionsOf(events) : events'[i] = events[i]
    BY <2>3 DEF Before, DecisionsOf
  <2>5. SnapshotsAreNumbered' /\ ReadersAreNumbered' /\ ExpertHasSeen'
    BY <1>1, <2>2, <2>4 DEF DecisionInv, SnapshotsAreNumbered, ReadersAreNumbered,
         ExpertHasSeen, HasSnapshot
  <2>6. DecisionsAreNumbered' /\ InformedOf(events')
    BY <2>3, <2>4 DEF DecisionInv, DecisionsAreNumbered, InformedOf
  <2>7. UnfoldedIsOnShown'
    <3>1. shown.events \in Before /\ \A i \in DecisionsOf(events) : events[i].seen.events \in Before
      BY DEF DecisionInv, SnapshotsAreNumbered, DecisionsAreNumbered
    <3> QED
      BY <1>1, <2>3, <2>4, <3>1 DEF DecisionInv, UnfoldedIsOnShown
  <2> QED
    BY <2>5, <2>6, <2>7 DEF DecisionInv
<1> QED
  BY <1>1, <1>2, <1>3

\* A reader takes a snapshot that is there, and an expert keeps what a reader has found.
LEMMA ReadInforms ==
  ASSUME ReadInv, ReadersStartAfresh, DecisionInv, NEW p \in Processes, Read(p)
  PROVE  DecisionInv'
<1>0. /\ read[p] # None => IsReading(read[p])
      /\ read = [q \in Processes |-> read[q]] /\ seen = [q \in Processes |-> seen[q]]
  BY DEF ReadInv, ReadsAreTraced, Provenance, ReadersStartAfresh
<1>1. UNCHANGED <<files, foldJournal, events, shown, op, lock>>
  BY DEF Read, BeginRead, Anchors, ReadMeta, ReadData, ReadEff, ReadLedger, ReadQueue,
         ReadJournals, ReadAgain, ReadOn, disk, holder, history
<1>2. /\ SnapshotsAreNumbered' /\ DecisionsAreNumbered' /\ UnfoldedIsOnShown'
      /\ InformedOf(events')
  BY <1>1 DEF DecisionInv, SnapshotsAreNumbered, DecisionsAreNumbered, UnfoldedIsOnShown,
              Before
<1>3. CASE BeginRead(p)
  <2> DEFINE new == [at |-> "anchors", anchors |-> None, meta |-> 0, eff |-> None,
                     settled |-> {shown}]
  <2>1. /\ read' = [read EXCEPT ![p] = new] /\ seen' = [seen EXCEPT ![p] = None]
        /\ lock # p
    BY <1>3 DEF BeginRead, Idle
  <2>2. ~HasSnapshot(new)
    BY DEF HasSnapshot
  <2> HIDE DEF new
  <2>3. ReadersAreNumbered'
    BY <1>0, <1>1, <2>1, <2>2 DEF DecisionInv, ReadersAreNumbered, Before, HasSnapshot
  <2>4. ExpertHasSeen'
    BY <1>0, <1>1, <2>1 DEF DecisionInv, ExpertHasSeen
  <2> QED
    BY <1>2, <2>3, <2>4 DEF DecisionInv
<1>4. CASE ReadAgain(p)
  <2>1. /\ read[p] # None /\ read[p].at = "again" /\ read' = [read EXCEPT ![p] = None]
        /\ seen' \in {[seen EXCEPT ![p] = read[p].eff], [seen EXCEPT ![p] = None]}
    BY <1>4 DEF ReadAgain, At
  <2>2. read[p].eff.events \in Before
    BY <2>1 DEF DecisionInv, ReadersAreNumbered, HasSnapshot
  <2>3. ReadersAreNumbered'
    BY <1>0, <1>1, <2>1, <2>2 DEF DecisionInv, ReadersAreNumbered, Before, HasSnapshot
  <2>4. ExpertHasSeen'
    BY <1>0, <1>1, <2>1 DEF DecisionInv, ExpertHasSeen
  <2> QED
    BY <1>2, <2>3, <2>4 DEF DecisionInv
<1>5. CASE read[p] # None /\ \E next : /\ ReadOn(p, next)
                                       /\ next # None => GoesOn(read[p], next)
  <2>1. PICK next : ReadOn(p, next) /\ (next # None => GoesOn(read[p], next))
    BY <1>5
  <2>2. read' = [read EXCEPT ![p] = next] /\ seen' = seen
    BY <2>1 DEF ReadOn
  <2>3. next # None /\ HasSnapshot(next) => next.eff.events \in Before
    BY <1>5, <2>1 DEF GoesOn, DecisionInv, ReadersAreNumbered, SnapshotsAreNumbered
  <2>4. ReadersAreNumbered'
    BY <1>0, <1>1, <2>2, <2>3 DEF DecisionInv, ReadersAreNumbered, Before, HasSnapshot
  <2>5. ExpertHasSeen'
    BY <1>0, <1>1, <1>5, <2>2 DEF DecisionInv, ExpertHasSeen
  <2> QED
    BY <1>2, <2>4, <2>5 DEF DecisionInv
<1> QED
  BY <1>0, <1>3, <1>4, <1>5, ReadMoves

\* A snapshot is settled: the readers keep what they have.
LEMMA SettleInforms ==
  ASSUME ReadInv, DecisionInv, NEW x, read' = Settle(x), UNCHANGED <<events, seen>>
  PROVE  ReadersAreNumbered' /\ \A p \in Processes : read[p] = None => read'[p] = None
<1> SUFFICES ASSUME NEW p \in Processes
             PROVE  /\ read'[p] # None /\ HasSnapshot(read'[p]) =>
                         read'[p].eff.events \in Before'
                    /\ seen'[p] # None => seen'[p].events \in Before'
                    /\ read[p] = None => read'[p] = None
  BY DEF ReadersAreNumbered, HasSnapshot
<1>1. read'[p] = IF read[p] = None THEN None
                 ELSE [read[p] EXCEPT !.settled = @ \cup {x}]
  BY DEF Settle
<1>2. CASE read[p] # None
  <2>1. IsReading(read[p])
    BY <1>2 DEF ReadInv, ReadsAreTraced, Provenance
  <2>2. read'[p].at = read[p].at /\ read'[p].eff = read[p].eff
    BY <1>1, <1>2, <2>1 DEF IsReading
  <2> QED
    BY <1>2, <2>2 DEF DecisionInv, ReadersAreNumbered, HasSnapshot, Before
<1>3. CASE read[p] = None
  BY <1>1, <1>3 DEF DecisionInv, ReadersAreNumbered, Before
<1> QED
  BY <1>2, <1>3

LEMMA DecisionStep ==
  ASSUME SnapshotInv, CoverInv, ReadInv, ReadersStartAfresh, DecisionInv, SnapshotAssumption,
         [SnapshotNext]_snapshotVars
  PROVE  DecisionInv'
<1>0. /\ DiskInv /\ EventsAreListed /\ None # "decide" /\ Len(events) \in Nat
      /\ Nobody \notin Processes
  BY LenProperties DEF SnapshotInv, CoverInv, EventsAreListed, SnapshotAssumption
\* A step that publishes nothing, and that no expert takes part in.
<1>1. ASSUME UNCHANGED <<files, foldJournal, events, shown, read, seen>>,
             op' # "decide" \/ UNCHANGED <<op, lock>>
      PROVE  DecisionInv'
  BY <1>1, DecisionsUntouched
\* A step of a publication.
<1>2. ASSUME UNCHANGED <<events, seen>>, op # "decide", op' # "decide",
             SnapshotsAreNumbered', ReadersAreNumbered', UnfoldedIsOnShown'
      PROVE  DecisionInv'
  BY <1>2 DEF DecisionInv, DecisionsAreNumbered, ExpertHasSeen, Before
<1>3. CASE UNCHANGED snapshotVars
  BY <1>1, <1>3 DEF snapshotVars, disk, holder, clients, history
<1>4. CASE Change
  BY <1>1, <1>4 DEF Change, disk, holder, clients, history
<1>5. CASE Crash
  BY <1>0, <1>1, <1>5 DEF Crash, Leave, disk, history
<1>6. CASE Locked
  <2>1. CASE AbortBase \/ Refuse \/ Retry \/ FoldRaises \/ Falter
    BY <1>0, <1>1, <2>1 DEF AbortBase, Refuse, Retry, FoldRaises, Falter, Leave, disk, clients,
                            history
  <2>2. CASE Recover \/ BeginBase
    <3>1. UNCHANGED <<files, foldJournal, events, shown, read, seen>>
      BY <2>2 DEF Recover, BeginBase, disk, clients, history
    <3>2. op' # "decide" \/ UNCHANGED <<op, lock>>
      BY <1>0, <2>2 DEF Recover, BeginBase, Leave, Goto
    <3> QED
      BY <1>1, <3>1, <3>2
  <2>3. CASE BeginAttempt \/ ReadProduct \/ Confirmed \/ Reload
    <3>1. UNCHANGED <<files, foldJournal, events, shown, read, seen>>
      BY <2>3 DEF BeginAttempt, ReadProduct, Confirmed, Reload, disk, clients, history
    <3>2. op' # "decide" \/ UNCHANGED <<op, lock>>
      BY <1>0, <2>3 DEF BeginAttempt, ReadProduct, Confirmed, Reload, Leave, StartReading
    <3> QED
      BY <1>1, <3>1, <3>2
  <2>4. CASE Write
    <3>1. UNCHANGED <<foldJournal, events, shown, read, seen, op, lock>>
      BY <2>4 DEF Write, clients, history
    <3>2. Legacy(baseJournal.candidate).events = 0
      BY DEF Legacy
    <3>3. files'.eff.events \in Before
      BY <1>0, <2>4, <3>2, WrittenSnapshot DEF DecisionInv, SnapshotsAreNumbered, Before
    <3>4. SnapshotsAreNumbered' /\ ReadersAreNumbered' /\ UnfoldedIsOnShown'
      BY <3>1, <3>3 DEF DecisionInv, SnapshotsAreNumbered, ReadersAreNumbered,
                        UnfoldedIsOnShown, Before, HasSnapshot
    <3>5. ExpertHasSeen' /\ DecisionsAreNumbered' /\ InformedOf(events')
      BY <3>1 DEF DecisionInv, ExpertHasSeen, DecisionsAreNumbered, Before
    <3> QED
      BY <3>4, <3>5 DEF DecisionInv
  <2>5. CASE Undone
    <3>1. UNCHANGED <<files, events, shown, seen, op, lock>>
      BY <2>5 DEF Undone, Goto, history
    <3>2. CASE baseJournal # NoJournal
      BY <1>1, <2>5, <3>1, <3>2 DEF Undone
    <3>3. CASE baseJournal = NoJournal
      <4>1. foldJournal' = NoJournal /\ read' = Settle(foldJournal.candidate)
        BY <2>5, <3>3 DEF Undone
      <4>2. ReadersAreNumbered' /\ \A p \in Processes : read[p] = None => read'[p] = None
        BY <3>1, <4>1, SettleInforms
      <4>3. SnapshotsAreNumbered' /\ UnfoldedIsOnShown' /\ ExpertHasSeen'
        BY <3>1, <4>1, <4>2 DEF DecisionInv, SnapshotsAreNumbered, UnfoldedIsOnShown,
                                ExpertHasSeen, Before
      <4>4. DecisionsAreNumbered' /\ InformedOf(events')
        BY <3>1 DEF DecisionInv, DecisionsAreNumbered, Before
      <4> QED
        BY <4>2, <4>3, <4>4 DEF DecisionInv
    <3> QED
      BY <3>2, <3>3
  <2>6. CASE FinishBase
    <3>1. /\ step = "write" /\ op = "publish" /\ todo = <<>> /\ shown' = files.eff
          /\ op' = None /\ UNCHANGED <<files, foldJournal, events, read, seen>>
      BY <2>6 DEF FinishBase, Leave, clients
    <3>2. files.eff = Legacy(baseJournal.candidate)
      BY <3>1, GoalReached DEF SnapshotInv, HolderInv, Rebuilt, Fields
    <3>3. files.eff.current = FALSE
      BY <3>2 DEF Legacy
    <3>4. SnapshotsAreNumbered' /\ ReadersAreNumbered'
      BY <3>1 DEF DecisionInv, SnapshotsAreNumbered, ReadersAreNumbered, Before, HasSnapshot
    <3>5. UnfoldedIsOnShown'
      BY <3>1, <3>3 DEF UnfoldedIsOnShown
    <3> QED
      BY <1>0, <1>2, <3>1, <3>4, <3>5
  <2>7. CASE BeginSnapshot
    <3>1. /\ foldJournal' = [candidate |-> Candidate, old |-> files] /\ step = "review"
          /\ UNCHANGED <<files, events, shown, read, seen, op>>
      BY <2>7 DEF BeginSnapshot, HasRead, clients, history
    <3>2. op = "fold"
      BY <3>1 DEF SnapshotInv, HolderInv
    <3>3. foldJournal'.candidate.events = Len(events)
      BY <3>1 DEF Candidate
    <3>4. SnapshotsAreNumbered' /\ ReadersAreNumbered' /\ UnfoldedIsOnShown'
      BY <3>1, <3>3 DEF DecisionInv, SnapshotsAreNumbered, ReadersAreNumbered,
                        UnfoldedIsOnShown, Before, HasSnapshot
    <3> QED
      BY <1>2, <3>1, <3>2, <3>4
  <2>8. CASE FinishSnapshot
    <3>1. /\ step = "review" /\ round = "reload" /\ foldJournal' = NoJournal
          /\ shown' = files.eff /\ read' = Settle(files.eff) /\ op' = None
          /\ UNCHANGED <<files, events, seen>>
      BY <2>8 DEF FinishSnapshot, HasRead, Leave
    <3>2. op = "fold" /\ foldJournal # NoJournal /\ files.eff = foldJournal.candidate
      BY <3>1 DEF SnapshotInv, HolderInv, Folded, Fields
    <3>3. files.eff.events = Len(events)
      BY <3>2 DEF DecisionInv, SnapshotsAreNumbered
    <3>4. ReadersAreNumbered'
      BY <3>1, SettleInforms
    <3>5. SnapshotsAreNumbered'
      BY <3>1 DEF DecisionInv, SnapshotsAreNumbered, Before
    <3>6. UnfoldedIsOnShown'
      <4>1. \A i \in DecisionsOf(events) : ~(i > Len(events))
        BY <1>0 DEF DecisionsOf
      <4> QED
        BY <3>1, <3>3, <4>1 DEF UnfoldedIsOnShown
    <3> QED
      BY <1>0, <1>2, <3>1, <3>2, <3>4, <3>5, <3>6
  <2>9. CASE Decide
    BY <1>0, <2>9, DecideInforms
  <2>10. CASE Reconcile
    BY <1>0, <2>10, ReconcileInforms
  <2> QED
    BY <1>6, <2>1, <2>2, <2>3, <2>4, <2>5, <2>6, <2>7, <2>8, <2>9, <2>10 DEF Locked
<1>7. ASSUME NEW p \in Processes, BeginFold(p) PROVE DecisionInv'
  BY <1>1, <1>7 DEF BeginFold, disk, holder, history
<1>8. ASSUME NEW p \in Processes, Read(p) PROVE DecisionInv'
  BY <1>8, ReadInforms
<1>9. ASSUME NEW p \in Processes, NEW o \in {"fold", "publish", "decide"}, Enter(p, o)
      PROVE  DecisionInv'
  <2>1. /\ UNCHANGED <<files, foldJournal, events, shown, read, seen>> /\ op' = o /\ lock' = p
        /\ o = "decide" => seen[p] # None /\ read[p] = None
    BY <1>9 DEF Enter, Idle, disk, clients, history
  <2>2. ExpertHasSeen'
    BY <2>1 DEF ExpertHasSeen
  <2>3. /\ SnapshotsAreNumbered' /\ ReadersAreNumbered' /\ DecisionsAreNumbered'
        /\ UnfoldedIsOnShown' /\ InformedOf(events')
    BY <2>1 DEF DecisionInv, SnapshotsAreNumbered, ReadersAreNumbered, DecisionsAreNumbered,
                UnfoldedIsOnShown, Before, HasSnapshot
  <2> QED
    BY <2>2, <2>3 DEF DecisionInv
<1> QED
  BY <1>3, <1>4, <1>5, <1>6, <1>7, <1>8, <1>9 DEF SnapshotNext

LEMMA InitialDecisions ==
  ASSUME SnapshotInit, SnapshotAssumption PROVE DecisionInv
<1>1. /\ events = <<>> /\ shown = Legacy(Base(1, Now)) /\ files.eff = shown /\ op = None
      /\ foldJournal = NoJournal /\ read = [p \in Processes |-> None]
      /\ seen = [p \in Processes |-> None]
  BY DEF SnapshotInit
<1>2. Len(events) = 0 /\ DecisionsOf(events) = {} /\ Before = {0}
  BY <1>1 DEF DecisionsOf, Before
<1>3. shown.events = 0
  BY <1>1 DEF Legacy
<1>4. SnapshotsAreNumbered /\ ReadersAreNumbered /\ ExpertHasSeen
  BY <1>1, <1>2, <1>3 DEF SnapshotsAreNumbered, ReadersAreNumbered, ExpertHasSeen,
                          SnapshotAssumption
<1> QED
  BY <1>2, <1>4 DEF DecisionInv, DecisionsAreNumbered, UnfoldedIsOnShown, InformedOf

\* No decision is made without having seen every earlier one
\* (_validate_projection_cas_drafts).
THEOREM DecisionsAreAlwaysInformed == SnapshotSpec => []DecisionsAreInformed
<1> DEFINE Inv == SnapshotInv /\ CoverInv /\ ReadInv /\ ReadersStartAfresh /\ DecisionInv
<1>1. SnapshotInit => Inv
  <2>1. SnapshotInit => ReadersStartAfresh
    BY DEF SnapshotInit, ReadersStartAfresh
  <2> QED
    BY <2>1, SnapshotAssumption, InitialSnapshot, InitialCover, InitialReads, InitialDecisions
<1>2. Inv /\ [SnapshotNext]_snapshotVars => Inv'
  BY SnapshotAssumption, SnapshotStep, CoverStep, ReadStep, AfreshStep, DecisionStep
<1>3. Inv => DecisionsAreInformed
  BY DecisionsFromEvents DEF CoverInv, DecisionInv, InformedOf, DecisionsAreInformed
<1> HIDE DEF Inv
<1> QED
  BY <1>1, <1>2, <1>3, PTL DEF SnapshotSpec
=============================================================================
