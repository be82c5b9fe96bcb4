------------------------- MODULE OperationLease_proofs -------------------------
(***************************************************************************)
(* Proofs about OperationLease, for every number of threads, processes and *)
(* crashes: its type; mutual exclusion where open files keep their names;  *)
(* which ways out give the process lock back; and that elsewhere only the  *)
(* removal of a wrong file or a suspended writer lets a second one in.     *)
(***************************************************************************)
EXTENDS OperationLease, TLAPS

LEMMA LeaseStepCases ==
  [LeaseNext]_leaseVars =>
    \/ \E t \in Threads : ThreadStep(t)
    \/ Grow
    \/ \E p \in Processes : Crash(p)
    \/ UNCHANGED leaseVars
  BY DEF LeaseNext

LEMMA PlatformStays ==
  [LeaseNext]_leaseVars => platform' = platform
  BY DEF LeaseNext, leaseVars

-----------------------------------------------------------------------------
(* Type correctness.                                                       *)

\* A new lock file is a lock file.
LEMMA MadeLease ==
  ASSUME NEW t \in Threads, MakeLease(t)
  PROVE  /\ lease' \in Lease /\ lease' # NoFile
         /\ lease'.by = t /\ ~lease'.orphan
<1>1. lease' \in Lease /\ lease'.by = t /\ ~lease'.orphan
  BY DEF MakeLease, Lease
<1> QED
  BY <1>1, LeaseAssumption

LEMMA TypeStep ==
  ASSUME LeaseTypeOK, [LeaseNext]_leaseVars
  PROVE  LeaseTypeOK'
<1> USE LeaseAssumption DEF LeaseTypeOK, Lease, Places
<1>0. platform' = platform
  BY PlatformStays
<1> USE <1>0
<1>1. ASSUME NEW t \in Threads, ThreadStep(t) PROVE LeaseTypeOK'
  <2>1. CASE Request(t) \/ RequestRaises(t)
    BY <2>1 DEF Request, RequestRaises, Acquire, Goto, history
  <2>2. CASE Create(t)
    BY <2>2, MadeLease DEF Create, MakeLease, Goto, history
  <2>3. CASE Exists(t)
    BY <2>3 DEF Exists, Goto, history
  <2>4. CASE Stat(t)
    BY <2>4 DEF Stat, Refused, LetGo, Goto, history
  <2>5. CASE Read(t)
    BY <2>5 DEF Read, Goto, history
  <2>6. CASE Judge(t)
    BY <2>6 DEF Judge, Refused, LetGo, Goto, history
  <2>7. CASE Remove(t)
    <3>1. CASE OpenFilesStay /\ HeldOpen
      <4>1. Refused(t)
        BY <2>7, <3>1 DEF Remove
      <4> QED
        BY <4>1 DEF Refused, LetGo, Goto, history
    <3>2. CASE ~(OpenFilesStay /\ HeldOpen)
      <4>1. /\ lease' = NoFile /\ knows' = {} /\ Goto(t, "again")
            /\ raced' = (raced \/ (lease # NoFile /\ t \notin knows))
            /\ UNCHANGED <<processLock, kept, crashes, overslept>>
        BY <2>7, <3>2 DEF Remove, RemoveName
      <4> QED
        BY <4>1 DEF Goto
    <3> QED
      BY <3>1, <3>2
  <2>8. CASE Again(t)
    <3>1. CASE lease = NoFile
      <4>1. MakeLease(t)
        BY <2>8, <3>1 DEF Again
      <4> QED
        BY <4>1, MadeLease DEF MakeLease, Goto, history
    <3>2. CASE lease # NoFile
      <4>1. Refused(t)
        BY <2>8, <3>2 DEF Again
      <4> QED
        BY <4>1 DEF Refused, LetGo, Goto, history
    <3> QED
      BY <3>1, <3>2
  <2>9. CASE Name(t)
    BY <2>9 DEF Name, Goto, history
  <2>10. CASE Close(t)
    BY <2>10 DEF Close, Goto, history
  <2>11. CASE Unlink(t)
    <3>1. CASE OpenFilesStay /\ HeldOpen
      BY <2>11, <3>1 DEF Unlink, Goto
    <3>2. CASE ~(OpenFilesStay /\ HeldOpen)
      <4>1. /\ lease' = NoFile /\ knows' = {} /\ Goto(t, "idle") /\ LetGo(t)
            /\ raced' = (raced \/ (lease # NoFile /\ ~(lease # NoFile /\ lease.by = t)))
            /\ UNCHANGED <<kept, crashes, overslept>>
        BY <2>11, <3>2 DEF Unlink, RemoveName
      <4> QED
        BY <4>1 DEF LetGo, Goto
    <3> QED
      BY <3>1, <3>2
  <2>12. CASE Fails(t)
    BY <2>12 DEF Fails, Refused, LetGo, Goto, history
  <2> QED
    BY <1>1, <2>1, <2>2, <2>3, <2>4, <2>5, <2>6, <2>7, <2>8, <2>9, <2>10, <2>11, <2>12
    DEF ThreadStep
<1>2. CASE Grow
  BY <1>2 DEF Grow, history
<1>3. ASSUME NEW p \in Processes, Crash(p) PROVE LeaseTypeOK'
  <2>1. lease' \in Lease \cup {NoFile}
    BY <1>3 DEF Crash
  <2>2. /\ processLock' \in [Processes -> Threads \cup {Nobody}]
        /\ \A q \in Processes : processLock'[q] # Nobody => ProcessOf[processLock'[q]] = q
    BY <1>3 DEF Crash
  <2>3. pc' \in [Threads -> Places]
    BY <1>3 DEF Crash
  <2>4. crashes' \in 0..MaxCrashes
    BY <1>3 DEF Crash
  <2>5. /\ kept' \subseteq Threads /\ knows' \subseteq Threads
        /\ raced' \in BOOLEAN /\ overslept' \in BOOLEAN
    BY <1>3 DEF Crash, history
  <2> QED
    BY <2>1, <2>2, <2>3, <2>4, <2>5
<1>4. CASE UNCHANGED leaseVars
  BY <1>4 DEF leaseVars, history
<1> QED
  BY <1>1, <1>2, <1>3, <1>4, LeaseStepCases

\* The lock file, the process locks and the threads' places stay well typed, and a
\* process lock is only ever held by a thread of that process.
THEOREM LeaseTypeCorrect == LeaseSpec => []LeaseTypeOK
<1>1. ASSUME LeaseInit PROVE LeaseTypeOK
  <2>1. crashes \in 0..MaxCrashes
    BY <1>1, LeaseAssumption DEF LeaseInit
  <2>2. processLock \in [Processes -> Threads \cup {Nobody}]
    BY <1>1 DEF LeaseInit
  <2>3. \A p \in Processes : processLock[p] = Nobody
    BY <1>1 DEF LeaseInit
  <2>4. pc \in [Threads -> Places]
    BY <1>1 DEF LeaseInit, Places
  <2> QED
    BY <1>1, <2>1, <2>2, <2>3, <2>4 DEF LeaseInit, LeaseTypeOK
<1>2. LeaseTypeOK /\ [LeaseNext]_leaseVars => LeaseTypeOK'
  BY TypeStep
<1> QED
  BY <1>1, <1>2, PTL DEF LeaseSpec

-----------------------------------------------------------------------------
(* Mutual exclusion where open files stay.                                 *)

\* Why it holds: whoever is between open and close still has its own file at the
\* path, since no other thread can take the name of an open file away.
HolderOwnsFile ==
  \A t \in Threads :
    pc[t] \in {"name", "held"} => lease # NoFile /\ lease.by = t /\ ~lease.orphan

LEMMA OwnershipStep ==
  ASSUME OpenFilesStay, LeaseTypeOK, HolderOwnsFile, [LeaseNext]_leaseVars
  PROVE  HolderOwnsFile'
<1> USE LeaseAssumption DEF LeaseTypeOK, HolderOwnsFile, Lease
<1>1. ASSUME NEW t \in Threads, ThreadStep(t) PROVE HolderOwnsFile'
  <2>1. CASE Request(t) \/ RequestRaises(t)
    BY <2>1 DEF Request, RequestRaises, Goto
  <2>2. CASE Create(t)
    <3>1. MakeLease(t)
      BY <2>2 DEF Create
    <3>2. \A u \in Threads : pc[u] \notin {"name", "held"}
      BY <3>1 DEF MakeLease
    <3> QED
      BY <3>1, <3>2, MadeLease DEF MakeLease, Goto
  <2>3. CASE Exists(t)
    BY <2>3 DEF Exists, Goto
  <2>4. CASE Stat(t)
    BY <2>4 DEF Stat, Refused, Goto
  <2>5. CASE Read(t)
    BY <2>5 DEF Read, Goto
  <2>6. CASE Judge(t)
    BY <2>6 DEF Judge, Refused, Goto
  <2>7. CASE Remove(t)
    <3>1. CASE HeldOpen
      BY <2>7, <3>1 DEF Remove, Refused, Goto
    <3>2. CASE ~HeldOpen
      <4>1. \A u \in Threads : pc[u] \notin {"name", "held"}
        BY <3>2 DEF HeldOpen
      <4> QED
        BY <2>7, <3>2, <4>1 DEF Remove, RemoveName, Goto
    <3> QED
      BY <3>1, <3>2
  <2>8. CASE Again(t)
    <3>1. CASE lease = NoFile
      <4>1. MakeLease(t)
        BY <2>8, <3>1 DEF Again
      <4>2. \A u \in Threads : pc[u] \notin {"name", "held"}
        BY <3>1
      <4> QED
        BY <4>1, <4>2, MadeLease DEF MakeLease, Goto
    <3>2. CASE lease # NoFile
      BY <2>8, <3>2 DEF Again, Refused, Goto
    <3> QED
      BY <3>1, <3>2
  <2>9. CASE Name(t)
    BY ZenonT(60), <2>9 DEF Name, Goto
  <2>10. CASE Close(t)
    BY <2>10 DEF Close, Goto
  <2>11. CASE Unlink(t)
    <3>1. CASE HeldOpen
      BY <2>11, <3>1 DEF Unlink, Goto
    <3>2. CASE ~HeldOpen
      <4>1. \A u \in Threads : pc[u] \notin {"name", "held"}
        BY <3>2 DEF HeldOpen
      <4> QED
        BY <2>11, <3>2, <4>1 DEF Unlink, RemoveName, Goto
    <3> QED
      BY <3>1, <3>2
  <2>12. CASE Fails(t)
    BY <2>12 DEF Fails, Refused, Goto
  <2> QED
    BY <1>1, <2>1, <2>2, <2>3, <2>4, <2>5, <2>6, <2>7, <2>8, <2>9, <2>10, <2>11, <2>12
    DEF ThreadStep
<1>2. CASE Grow
  BY <1>2 DEF Grow
<1>3. ASSUME NEW p \in Processes, Crash(p) PROVE HolderOwnsFile'
  BY <1>3 DEF Crash
<1>4. CASE UNCHANGED leaseVars
  BY <1>4 DEF leaseVars
<1> QED
  BY <1>1, <1>2, <1>3, <1>4, LeaseStepCases

\* On a platform that refuses to unlink an open file, at most one operation is inside,
\* for every number of threads and processes and every sequence of deaths, suspensions
\* and take-overs.
THEOREM OneOperationAtATime == LeaseSpec => []OneOperationOnWindows
<1> DEFINE Inv == OpenFilesStay => HolderOwnsFile
<1>1. LeaseInit => Inv
  BY DEF LeaseInit, HolderOwnsFile
<1>2. LeaseTypeOK /\ Inv /\ [LeaseNext]_leaseVars => Inv'
  <2> SUFFICES ASSUME LeaseTypeOK, Inv, [LeaseNext]_leaseVars, OpenFilesStay'
               PROVE  HolderOwnsFile'
    OBVIOUS
  <2>1. OpenFilesStay
    BY PlatformStays DEF OpenFilesStay
  <2> QED
    BY <2>1, OwnershipStep
<1>3. Inv => OneOperationOnWindows
  BY DEF HolderOwnsFile, OneOperation, OneOperationOnWindows
<1> QED
  BY <1>1, <1>2, <1>3, LeaseTypeCorrect, PTL DEF LeaseSpec

-----------------------------------------------------------------------------
(* The process lock.                                                       *)

LEMMA ProcessLockStep ==
  ASSUME LeaseTypeOK, ProcessLockReturned, [LeaseNext]_leaseVars
  PROVE  ProcessLockReturned'
<1> USE LeaseAssumption DEF LeaseTypeOK, ProcessLockReturned
<1>1. ASSUME NEW t \in Threads, ThreadStep(t) PROVE ProcessLockReturned'
  <2>1. CASE Request(t) \/ RequestRaises(t)
    BY <2>1 DEF Request, RequestRaises, Acquire, Goto
  <2>2. CASE Create(t)
    BY <2>2 DEF Create, MakeLease, Goto
  <2>3. CASE Exists(t)
    BY <2>3 DEF Exists, Goto
  <2>4. CASE Stat(t)
    BY <2>4 DEF Stat, Refused, LetGo, Goto
  <2>5. CASE Read(t)
    BY <2>5 DEF Read, Goto
  <2>6. CASE Judge(t)
    BY <2>6 DEF Judge, Refused, LetGo, Goto
  <2>7. CASE Remove(t)
    BY <2>7 DEF Remove, RemoveName, Refused, LetGo, Goto
  <2>8. CASE Again(t)
    <3>1. CASE lease = NoFile
      BY <2>8, <3>1 DEF Again, MakeLease, Goto
    <3>2. CASE lease # NoFile
      BY <2>8, <3>2 DEF Again, Refused, LetGo, Goto
    <3> QED
      BY <3>1, <3>2
  <2>9. CASE Name(t)
    BY <2>9 DEF Name, Goto
  <2>10. CASE Close(t)
    BY <2>10 DEF Close, Goto
  <2>11. CASE Unlink(t)
    BY <2>11 DEF Unlink, LetGo, Goto
  <2>12. CASE Fails(t)
    BY <2>12 DEF Fails, Refused, LetGo, Goto
  <2> QED
    BY <1>1, <2>1, <2>2, <2>3, <2>4, <2>5, <2>6, <2>7, <2>8, <2>9, <2>10, <2>11, <2>12
    DEF ThreadStep
<1>2. CASE Grow
  BY <1>2 DEF Grow
<1>3. ASSUME NEW p \in Processes, Crash(p) PROVE ProcessLockReturned'
  BY <1>3 DEF Crash
<1>4. CASE UNCHANGED leaseVars
  BY <1>4 DEF leaseVars
<1> QED
  BY <1>1, <1>2, <1>3, <1>4, LeaseStepCases

\* On every platform a thread owns its process's lock exactly while it is inside, or once it
\* has left before the try statement or in the middle of the finally clause.
THEOREM ProcessLockAlwaysReturned == LeaseSpec => []ProcessLockReturned
<1>1. LeaseInit => ProcessLockReturned
  BY LeaseAssumption DEF LeaseInit, ProcessLockReturned
<1>2. LeaseTypeOK /\ ProcessLockReturned /\ [LeaseNext]_leaseVars => ProcessLockReturned'
  BY ProcessLockStep
<1> QED
  BY <1>1, <1>2, LeaseTypeCorrect, PTL DEF LeaseSpec

-----------------------------------------------------------------------------
(* Mutual exclusion where open files can lose their name.                  *)

\* An aged file without a PID belongs to a dead process, until a writer oversleeps.
AgedIsNamed == lease # NoFile /\ lease.aged => lease.named \/ lease.orphan

NotNamedYet == \A t \in Threads : pc[t] = "name" => ~lease.named

\* The age that a thread took is the age of the file that is still there; and a thread
\* that knows the file and is about to remove it, removes that of a dead process.
KnownIsAged == knows # {} => lease # NoFile /\ lease.aged
KnownIsOrphan == \A t \in knows : pc[t] \in {"readDead", "remove"} => lease.orphan

\* As long as nobody has removed another file than the one it looked at, whoever is
\* inside still has its own file at the path.
UnracedInv ==
  HolderOwnsFile /\ AgedIsNamed /\ NotNamedYet /\ KnownIsAged /\ KnownIsOrphan

\* A thread that finds no file makes one; nobody else is inside then.
LEMMA MadeUnraced ==
  ASSUME LeaseTypeOK, UnracedInv, NEW t \in Threads, MakeLease(t)
  PROVE  UnracedInv'
<1> USE DEF LeaseTypeOK, UnracedInv
<1>1. /\ lease = NoFile /\ UNCHANGED knows
      /\ lease' = [by |-> t, named |-> FALSE, orphan |-> FALSE, aged |-> FALSE]
      /\ pc' = [pc EXCEPT ![t] = "name"]
  BY DEF MakeLease, Goto, history
<1>2. lease' # NoFile
  BY MadeLease
<1>3. \A u \in Threads : pc[u] \notin {"name", "held"}
  BY <1>1 DEF HolderOwnsFile
<1>4. knows' = {}
  BY <1>1 DEF KnownIsAged
<1>5. HolderOwnsFile'
  BY <1>1, <1>2, <1>3 DEF HolderOwnsFile
<1>6. AgedIsNamed' /\ NotNamedYet'
  BY <1>1, <1>3 DEF AgedIsNamed, NotNamedYet
<1> QED
  BY <1>4, <1>5, <1>6 DEF KnownIsAged, KnownIsOrphan

\* A thread moves on outside the critical section and leaves the file alone.
LEMMA MovedUnraced ==
  ASSUME LeaseTypeOK, UnracedInv, NEW t \in Threads, NEW place \in Places,
         Goto(t, place), UNCHANGED <<lease, knows>>,
         place = "held" => pc[t] = "held", place # "name",
         place \in {"readDead", "remove"} /\ t \in knows => lease.orphan
  PROVE  UnracedInv'
<1> USE DEF LeaseTypeOK, UnracedInv, Goto
<1>1. HolderOwnsFile' /\ AgedIsNamed' /\ NotNamedYet'
  BY DEF HolderOwnsFile, AgedIsNamed, NotNamedYet
<1>2. KnownIsAged' /\ KnownIsOrphan'
  BY DEF KnownIsAged, KnownIsOrphan
<1> QED
  BY <1>1, <1>2

\* The file at the path goes, and with it what anybody knew of it.
LEMMA RemovedUnraced ==
  ASSUME LeaseTypeOK, UnracedInv, NEW t \in Threads, NEW place \in {"again", "idle"},
         Goto(t, place), lease' = NoFile, knows' = {},
         \A u \in Threads \ {t} : pc[u] \notin {"name", "held"}
  PROVE  UnracedInv'
<1> USE DEF LeaseTypeOK, UnracedInv, Goto
<1>1. HolderOwnsFile' /\ AgedIsNamed' /\ NotNamedYet'
  BY DEF HolderOwnsFile, AgedIsNamed, NotNamedYet
<1>2. KnownIsAged' /\ KnownIsOrphan'
  BY DEF KnownIsAged, KnownIsOrphan
<1> QED
  BY <1>1, <1>2

LEMMA UnracedStep ==
  ASSUME LeaseTypeOK, UnracedInv, [LeaseNext]_leaseVars, ~raced', ~overslept'
  PROVE  UnracedInv'
<1> USE DEF LeaseTypeOK
<1>1. ASSUME NEW t \in Threads, ThreadStep(t) PROVE UnracedInv'
  <2>1. CASE Request(t) \/ RequestRaises(t)
    <3>1. CASE Request(t)
      BY <3>1, MovedUnraced DEF Request, Places, history
    <3>2. CASE RequestRaises(t)
      BY <3>2 DEF RequestRaises, history, UnracedInv, HolderOwnsFile, AgedIsNamed, NotNamedYet,
         KnownIsAged, KnownIsOrphan
    <3> QED
      BY <2>1, <3>1, <3>2
  <2>2. CASE Create(t) \/ (Again(t) /\ lease = NoFile)
    BY <2>2, MadeUnraced DEF Create, Again
  <2>3. CASE Exists(t)
    BY <2>3, MovedUnraced DEF Exists, Places, history
  <2>4. ASSUME Refused(t) PROVE UnracedInv'
    BY <2>4, MovedUnraced DEF Refused, Places, history
  <2>5. CASE Stat(t)
    <3>1. CASE lease = NoFile
      <4>1. Goto(t, "again") /\ UNCHANGED <<lease, knows>>
        BY <2>5, <3>1 DEF Stat, history
      <4> QED
        BY <4>1, MovedUnraced DEF Places
    <3>2. CASE lease # NoFile /\ lease.aged
      <4>1. Goto(t, "read") /\ knows' = knows \cup {t} /\ lease' = lease
        BY <2>5, <3>2 DEF Stat
      <4>2. HolderOwnsFile' /\ AgedIsNamed' /\ NotNamedYet'
        BY <4>1 DEF UnracedInv, HolderOwnsFile, AgedIsNamed, NotNamedYet, Goto
      <4>3. KnownIsAged' /\ KnownIsOrphan'
        BY <3>2, <4>1 DEF UnracedInv, KnownIsAged, KnownIsOrphan, Goto
      <4> QED
        BY <4>2, <4>3 DEF UnracedInv
    <3>3. CASE lease # NoFile /\ ~lease.aged
      BY <2>4, <2>5, <3>3 DEF Stat
    <3> QED
      BY <3>1, <3>2, <3>3
  <2>6. CASE Read(t)
    <3> DEFINE place == IF lease = NoFile THEN "remove"
                        ELSE IF Abandoned THEN "readDead" ELSE "readLive"
    <3>1. Goto(t, place) /\ UNCHANGED <<lease, knows>>
      BY <2>6 DEF Read, history
    <3>2. place \in {"readDead", "remove"} /\ t \in knows => lease.orphan
      BY DEF UnracedInv, KnownIsAged, AgedIsNamed, Abandoned
    <3>3. place \in Places \ {"name", "held"}
      BY DEF Places
    <3> HIDE DEF place
    <3> QED
      BY <3>1, <3>2, <3>3, MovedUnraced
  <2>7. CASE Judge(t)
    <3>1. CASE pc[t] = "readDead"
      <4>1. Goto(t, "remove") /\ UNCHANGED <<lease, knows>>
        BY <2>7, <3>1 DEF Judge, history
      <4>2. t \in knows => lease.orphan
        BY <3>1 DEF UnracedInv, KnownIsOrphan
      <4> QED
        BY <4>1, <4>2, MovedUnraced DEF Places
    <3> QED
      BY <2>4, <2>7, <3>1 DEF Judge
  <2>8. CASE Remove(t)
    <3>1. CASE OpenFilesStay /\ HeldOpen
      BY <2>4, <2>8, <3>1 DEF Remove
    <3>2. CASE ~(OpenFilesStay /\ HeldOpen)
      <4>1. /\ pc[t] = "remove" /\ Goto(t, "again") /\ lease' = NoFile /\ knows' = {}
            /\ raced' = (raced \/ (lease # NoFile /\ t \notin knows))
        BY <2>8, <3>2 DEF Remove, RemoveName
      <4>2. lease = NoFile \/ lease.orphan
        BY <4>1 DEF UnracedInv, KnownIsOrphan
      <4>3. \A u \in Threads \ {t} : pc[u] \notin {"name", "held"}
        BY <4>2 DEF UnracedInv, HolderOwnsFile
      <4> QED
        BY <4>1, <4>3, RemovedUnraced
    <3> QED
      BY <3>1, <3>2
  <2>9. CASE Again(t) /\ lease # NoFile
    BY <2>4, <2>9 DEF Again
  <2>10. CASE Name(t)
    <3>1. /\ pc[t] = "name" /\ pc' = [pc EXCEPT ![t] = "held"] /\ knows' = knows
          /\ lease # NoFile /\ lease.by = t /\ ~lease.named /\ ~lease.orphan
          /\ lease' = [lease EXCEPT !.named = TRUE, !.aged = FALSE]
      BY <2>10 DEF Name, Goto, history, UnracedInv, HolderOwnsFile, NotNamedYet
    <3>2. /\ lease \in Lease /\ lease' \in Lease /\ lease'.by = t
          /\ lease'.named /\ ~lease'.aged /\ ~lease'.orphan
      BY <3>1 DEF Lease
    <3>3. lease' # NoFile
      BY <3>2, LeaseAssumption
    <3>4. \A u \in Threads \ {t} : pc[u] \notin {"name", "held"}
      BY <3>1 DEF UnracedInv, HolderOwnsFile
    <3>5. knows = {}
      BY <3>1 DEF UnracedInv, KnownIsAged, AgedIsNamed
    <3>6. HolderOwnsFile'
      BY <3>1, <3>2, <3>3, <3>4 DEF HolderOwnsFile
    <3>7. AgedIsNamed' /\ NotNamedYet'
      BY <3>1, <3>2, <3>4 DEF AgedIsNamed, NotNamedYet
    <3> QED
      BY <3>1, <3>5, <3>6, <3>7 DEF UnracedInv, KnownIsAged, KnownIsOrphan
  <2>11. CASE Close(t)
    BY <2>11, MovedUnraced DEF Close, Places, history
  <2>12. CASE Unlink(t)
    <3>1. CASE OpenFilesStay /\ HeldOpen
      <4>1. Goto(t, "idle") /\ UNCHANGED <<lease, knows>>
        BY <2>12, <3>1 DEF Unlink, history
      <4> QED
        BY <4>1, MovedUnraced DEF Places
    <3>2. CASE ~(OpenFilesStay /\ HeldOpen)
      <4>1. /\ pc[t] = "unlink" /\ Goto(t, "idle") /\ lease' = NoFile /\ knows' = {}
            /\ raced' = (raced \/ (lease # NoFile /\ ~(lease # NoFile /\ lease.by = t)))
        BY <2>12, <3>2 DEF Unlink, RemoveName
      <4>2. \A u \in Threads \ {t} : pc[u] \notin {"name", "held"}
        BY <4>1 DEF UnracedInv, HolderOwnsFile
      <4> QED
        BY <4>1, <4>2, RemovedUnraced
    <3> QED
      BY <3>1, <3>2
  <2>13. CASE Fails(t)
    BY <2>4, <2>13 DEF Fails
  <2> QED
    BY <1>1, <2>1, <2>2, <2>3, <2>5, <2>6, <2>7, <2>8, <2>9, <2>10, <2>11, <2>12, <2>13
    DEF ThreadStep
<1>2. CASE Grow
  <2>1. /\ lease # NoFile /\ (lease.named \/ lease.orphan) /\ lease \in Lease
        /\ lease' = [lease EXCEPT !.aged = TRUE] /\ UNCHANGED <<pc, knows>>
    BY <1>2 DEF Grow
  <2>2. /\ lease' \in Lease /\ lease'.by = lease.by /\ lease'.named = lease.named
        /\ lease'.orphan = lease.orphan /\ lease'.aged
    BY <2>1 DEF Lease
  <2>3. lease' # NoFile
    BY <2>2, LeaseAssumption
  <2>4. HolderOwnsFile' /\ AgedIsNamed' /\ NotNamedYet'
    BY <2>1, <2>2, <2>3 DEF UnracedInv, HolderOwnsFile, AgedIsNamed, NotNamedYet
  <2>5. KnownIsAged' /\ KnownIsOrphan'
    BY <2>1, <2>2, <2>3 DEF UnracedInv, KnownIsAged, KnownIsOrphan
  <2> QED
    BY <2>4, <2>5 DEF UnracedInv
<1>3. ASSUME NEW p \in Processes, Crash(p) PROVE UnracedInv'
  <2>1. /\ pc' = [t \in Threads |-> IF ProcessOf[t] = p THEN "idle" ELSE pc[t]]
        /\ lease' = IF lease # NoFile /\ ProcessOf[lease.by] = p
                      THEN [lease EXCEPT !.orphan = TRUE] ELSE lease
        /\ knows' = knows
    BY <1>3 DEF Crash, history
  <2>2. CASE lease # NoFile /\ ProcessOf[lease.by] = p
    <3>1. lease \in Lease /\ lease' = [lease EXCEPT !.orphan = TRUE]
      BY <2>1, <2>2
    <3>2. /\ lease' \in Lease /\ lease'.by = lease.by /\ lease'.named = lease.named
          /\ lease'.orphan /\ lease'.aged = lease.aged
      BY <3>1 DEF Lease
    <3>3. lease' # NoFile
      BY <3>2, LeaseAssumption
    <3>4. \A t \in Threads : pc'[t] \notin {"name", "held"}
      BY <2>1, <2>2 DEF UnracedInv, HolderOwnsFile
    <3> QED
      BY <2>1, <2>2, <3>2, <3>3, <3>4
      DEF UnracedInv, HolderOwnsFile, AgedIsNamed, NotNamedYet, KnownIsAged, KnownIsOrphan
  <2>3. CASE ~(lease # NoFile /\ ProcessOf[lease.by] = p)
    <3>1. lease' = lease
      BY <2>1, <2>3
    <3>2. \A t \in Threads : pc'[t] # "idle" => pc'[t] = pc[t]
      BY <2>1
    <3>3. HolderOwnsFile' /\ AgedIsNamed' /\ NotNamedYet'
      BY <3>1, <3>2 DEF UnracedInv, HolderOwnsFile, AgedIsNamed, NotNamedYet
    <3>4. KnownIsAged' /\ KnownIsOrphan'
      BY <2>1, <3>1, <3>2 DEF UnracedInv, KnownIsAged, KnownIsOrphan
    <3> QED
      BY <3>3, <3>4 DEF UnracedInv
  <2> QED
    BY <2>2, <2>3
<1>4. CASE UNCHANGED leaseVars
  BY <1>4 DEF leaseVars, history, UnracedInv, HolderOwnsFile, AgedIsNamed, NotNamedYet,
     KnownIsAged, KnownIsOrphan
<1> QED
  BY <1>1, <1>2, <1>3, <1>4, LeaseStepCases

\* The history stays on record.
LEMMA HistoryStays ==
  ASSUME [LeaseNext]_leaseVars
  PROVE  (raced => raced') /\ (overslept => overslept')
<1>1. ASSUME NEW t \in Threads, ThreadStep(t) PROVE (raced => raced') /\ overslept' = overslept
  <2>1. overslept' = overslept
    BY <1>1 DEF ThreadStep, Request, RequestRaises, Create, MakeLease, Exists, Stat, Fails, Refused,
       Read, Judge, Remove, RemoveName, Again, Name, Close, Unlink, history
  <2>2. raced => raced'
    BY <1>1 DEF ThreadStep, Request, RequestRaises, Create, MakeLease, Exists, Stat, Fails, Refused,
       Read, Judge, Remove, RemoveName, Again, Name, Close, Unlink, history
  <2> QED
    BY <2>1, <2>2
<1>2. CASE Grow
  BY <1>2 DEF Grow
<1>3. CASE \E p \in Processes : Crash(p)
  BY <1>3 DEF Crash, history
<1>4. CASE UNCHANGED leaseVars
  BY <1>4 DEF leaseVars, history
<1> QED
  BY <1>1, <1>2, <1>3, <1>4, LeaseStepCases

\* On every platform, two operations meet only after a removal of another file than the one
\* that was looked at, or after a writer has slept through the grace period.
THEOREM OneOperationButForRaces == LeaseSpec => []OneOperationUnlessRaced
<1> DEFINE Inv == ~raced /\ ~overslept => UnracedInv
<1>1. LeaseInit => Inv
  BY DEF LeaseInit, UnracedInv, HolderOwnsFile, AgedIsNamed, NotNamedYet, KnownIsAged,
     KnownIsOrphan
<1>2. LeaseTypeOK /\ Inv /\ [LeaseNext]_leaseVars => Inv'
  <2> SUFFICES ASSUME LeaseTypeOK, Inv, [LeaseNext]_leaseVars, ~raced', ~overslept'
               PROVE  UnracedInv'
    OBVIOUS
  <2>1. ~raced /\ ~overslept
    BY HistoryStays
  <2> QED
    BY <2>1, UnracedStep
<1>3. Inv => OneOperationUnlessRaced
  BY DEF UnracedInv, HolderOwnsFile, OneOperation, OneOperationUnlessRaced
<1> QED
  BY <1>1, <1>2, <1>3, LeaseTypeCorrect, PTL DEF LeaseSpec
=============================================================================
