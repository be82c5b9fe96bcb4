---------------------------- MODULE OperationLease ----------------------------
(***************************************************************************)
(* extraction_operation_lock of src/omission_actions.py, the lock that     *)
(* serialises every operation which rewrites the extraction results: a     *)
(* process lock for the threads of one process and, between processes, a   *)
(* lock file that is created exclusively and names the holder's PID.  A    *)
(* lease whose holder is dead is removed and taken over.                   *)
(*                                                                         *)
(* Each system call on the path is a step.  What unlink does to a file     *)
(* that somebody holds open is the platform's choice: Windows refuses it,  *)
(* POSIX removes the name.                                                 *)
(***************************************************************************)
EXTENDS Integers, FiniteSets

CONSTANTS Threads,
          Processes,
          ProcessOf,           \* the process of each thread
          Nobody, NoFile,
          Platforms,           \* where the program runs: "windows", "posix"
          MaxCrashes           \* bound: process deaths

\* A lock file: the thread that created it and has it open, whether the PID is
\* written, whether the process with that PID has died, and whether the file is
\* older than the grace period.
Lease == [by : Threads, named : BOOLEAN, orphan : BOOLEAN, aged : BOOLEAN]

ASSUME LeaseAssumption ==
  /\ ProcessOf \in [Threads -> Processes]
  /\ Nobody \notin Threads /\ NoFile \notin Lease
  /\ Platforms \subseteq {"windows", "posix"} /\ MaxCrashes \in Nat

VARIABLES
  platform,     \* where the program runs; it stays there
  lease,        \* the lock file at lock_path, or NoFile
  processLock,  \* the thread that owns the RLock of each process
  kept,         \* the threads that own it without being inside: a call of theirs
                \* has left and did not release it
  pc,           \* where each thread is in extraction_operation_lock
  crashes,      \* bound
  knows,        \* history: the threads that took the age of the file now at the path
  raced,        \* history: a thread removed another file than the one it looked at
  overslept     \* history: a lock file has aged before its living writer named it

history == <<knows, raced, overslept>>
leaseVars == <<platform, lease, processLock, kept, pc, crashes, history>>

\* unlink of an open file raises PermissionError.
OpenFilesStay == platform = "windows"

LeaseInit ==
  /\ platform \in Platforms
  /\ lease = NoFile
  /\ processLock = [p \in Processes |-> Nobody] /\ kept = {}
  /\ pc = [t \in Threads |-> "idle"]
  /\ crashes = 0
  /\ knows = {} /\ raced = FALSE /\ overslept = FALSE

Goto(t, place) == pc' = [pc EXCEPT ![t] = place]

\* process_lock.release() of the finally clause.  An RLock counts: a thread that owns
\* it once more than this call accounts for goes on owning it.
LetGo(t) ==
  processLock' = [processLock EXCEPT ![ProcessOf[t]] = IF t \in kept THEN t ELSE Nobody]

\* OmissionConflictError "another full or targeted AI extraction is running", or
\* another exception within the try statement: the thread leaves through finally.
Refused(t) ==
  /\ Goto(t, "idle") /\ LetGo(t)
  /\ UNCHANGED <<lease, kept, crashes, history>>

-----------------------------------------------------------------------------
(* Taking the lock.                                                        *)

\* process_lock.acquire(blocking=False); a process lock that another thread owns is
\* refused at once.
Acquire(t) ==
  /\ pc[t] = "idle"
  /\ processLock[ProcessOf[t]] \in {Nobody, t}
  /\ processLock' = [processLock EXCEPT ![ProcessOf[t]] = t]

\* The lock is acquired and governed_artifact_path names the lock file.
Request(t) ==
  /\ Acquire(t)
  /\ Goto(t, "create")
  /\ UNCHANGED <<lease, kept, crashes, history>>

\* governed_artifact_path raises, because the package's marker is malformed or its
\* directory cannot be made: that is before the try statement.
RequestRaises(t) ==
  /\ Acquire(t)
  /\ kept' = kept \cup {t}
  /\ UNCHANGED <<lease, pc, crashes, history>>

\* os.open with O_CREAT | O_EXCL.
MakeLease(t) ==
  /\ lease = NoFile
  /\ lease' = [by |-> t, named |-> FALSE, orphan |-> FALSE, aged |-> FALSE]
  /\ Goto(t, "name")
  /\ UNCHANGED <<processLock, kept, crashes, history>>

Create(t) == pc[t] = "create" /\ MakeLease(t)

\* FileExistsError.
Exists(t) ==
  /\ pc[t] = "create" /\ lease # NoFile
  /\ Goto(t, "stat")
  /\ UNCHANGED <<lease, processLock, kept, crashes, history>>

\* The age of the file, or that it is gone.
Stat(t) ==
  /\ pc[t] = "stat"
  /\ \/ /\ lease = NoFile
        /\ Goto(t, "again")
        /\ UNCHANGED <<lease, processLock, kept, crashes, history>>
     \/ /\ lease # NoFile /\ lease.aged
        /\ Goto(t, "read") /\ knows' = knows \cup {t}
        /\ UNCHANGED <<lease, processLock, kept, crashes, raced, overslept>>
     \/ /\ lease # NoFile /\ ~lease.aged
        /\ Refused(t)

\* Any other OSError of os.open or stat.
Fails(t) == pc[t] \in {"create", "stat", "again"} /\ Refused(t)

\* Mutant: a readable PID is not probed; an aged lease is an abandoned one.
AbandonedByAge == lease # NoFile

\* What _remove_abandoned_operation_lock concludes from the content: no PID yet, or
\* the PID of a dead process, both mean that nobody holds the lease.
Abandoned == lease # NoFile /\ (~lease.named \/ lease.orphan)

\* read_text() opens the file; a file that vanished since stat() raises OSError, and
\* that too counts as abandoned.
Read(t) ==
  /\ pc[t] = "read"
  /\ Goto(t, IF lease = NoFile THEN "remove"
             ELSE IF Abandoned THEN "readDead" ELSE "readLive")
  /\ UNCHANGED <<lease, processLock, kept, crashes, history>>

\* The content is read and the file closed; _pid_is_alive has the last word.
Judge(t) ==
  \/ /\ pc[t] = "readDead"
     /\ Goto(t, "remove") /\ UNCHANGED <<lease, processLock, kept, crashes, history>>
  \/ pc[t] = "readLive" /\ Refused(t)

\* Somebody has the file at the path open: the thread that made it, or a reader.
HeldOpen ==
  /\ lease # NoFile
  /\ \/ ~lease.orphan /\ pc[lease.by] \in {"name", "held"}
     \/ \E t \in Threads : pc[t] \in {"readDead", "readLive"}

\* The name at the path is gone; rightly is whether the thread knew what it removes.
RemoveName(rightly) ==
  /\ lease' = NoFile
  /\ knows' = {}
  /\ raced' = (raced \/ (lease # NoFile /\ ~rightly))

\* path.unlink() of the lease that was judged abandoned, whatever lies at the path by
\* now.  On Windows an open file raises PermissionError, which leaves through finally.
Remove(t) ==
  /\ pc[t] = "remove"
  /\ IF OpenFilesStay /\ HeldOpen
       THEN Refused(t)
       ELSE /\ RemoveName(t \in knows)
            /\ Goto(t, "again")
            /\ UNCHANGED <<processLock, kept, crashes, overslept>>

\* Mutant: the second os.open does not ask for O_EXCL.
AgainShared(t) ==
  /\ pc[t] = "again"
  /\ lease' = [by |-> t, named |-> FALSE, orphan |-> FALSE, aged |-> FALSE]
  /\ Goto(t, "name")
  /\ UNCHANGED <<processLock, kept, crashes, history>>

\* The second attempt at os.open.
Again(t) ==
  /\ pc[t] = "again"
  /\ IF lease = NoFile THEN MakeLease(t) ELSE Refused(t)

\* os.write of the lease: into the file that t has open, even if it lost its name.
Name(t) ==
  /\ pc[t] = "name"
  /\ lease' = IF lease # NoFile /\ lease.by = t
                THEN [lease EXCEPT !.named = TRUE, !.aged = FALSE]
                ELSE lease
  /\ Goto(t, "held")
  /\ UNCHANGED <<processLock, kept, crashes, history>>

-----------------------------------------------------------------------------
(* Giving it back.                                                         *)

\* os.close(fd), when the operation has ended or os.write has raised.
Close(t) ==
  /\ pc[t] \in {"name", "held"}
  /\ Goto(t, "unlink")
  /\ UNCHANGED <<lease, processLock, kept, crashes, history>>

\* Mutant: a lease that is gone already raises and skips the release.
UnlinkKeepsProcessLock(t) ==
  /\ pc[t] = "unlink"
  /\ Goto(t, "idle")
  /\ RemoveName(lease # NoFile /\ lease.by = t)
  /\ IF lease = NoFile THEN UNCHANGED processLock ELSE LetGo(t)
  /\ UNCHANGED <<kept, crashes, overslept>>

\* lock_path.unlink(), then process_lock.release().  Where the file at the path is
\* open, PermissionError leaves the finally clause before the release.
Unlink(t) ==
  /\ pc[t] = "unlink"
  /\ Goto(t, "idle")
  /\ IF OpenFilesStay /\ HeldOpen
       THEN kept' = kept \cup {t} /\ UNCHANGED <<lease, processLock, knows, raced>>
       ELSE /\ RemoveName(lease # NoFile /\ lease.by = t)
            /\ LetGo(t) /\ UNCHANGED kept
  /\ UNCHANGED <<crashes, overslept>>

-----------------------------------------------------------------------------
(* Time and failure.                                                       *)

\* The grace period passes, for a thread suspended between os.open and os.write too.
Grow ==
  /\ lease # NoFile /\ ~lease.aged
  /\ lease' = [lease EXCEPT !.aged = TRUE]
  /\ overslept' = (overslept \/ ~(lease.named \/ lease.orphan))
  /\ UNCHANGED <<processLock, kept, pc, crashes, knows, raced>>

\* A process dies and is started again under another PID; its lock file stays.
Crash(p) ==
  /\ crashes < MaxCrashes /\ crashes' = crashes + 1
  /\ processLock' = [processLock EXCEPT ![p] = Nobody]
  /\ kept' = {t \in kept : ProcessOf[t] # p}
  /\ pc' = [t \in Threads |-> IF ProcessOf[t] = p THEN "idle" ELSE pc[t]]
  /\ lease' = IF lease # NoFile /\ ProcessOf[lease.by] = p
                THEN [lease EXCEPT !.orphan = TRUE]
                ELSE lease
  /\ UNCHANGED history

ThreadStep(t) ==
  \/ Request(t) \/ RequestRaises(t) \/ Fails(t) \/ Create(t) \/ Exists(t) \/ Stat(t) \/ Read(t) \/ Judge(t)
  \/ Remove(t) \/ Again(t) \/ Name(t) \/ Close(t) \/ Unlink(t)

LeaseNext ==
  /\ \/ \E t \in Threads : ThreadStep(t)
     \/ Grow
     \/ \E p \in Processes : Crash(p)
  /\ UNCHANGED platform

LeaseSpec == LeaseInit /\ [][LeaseNext]_leaseVars

-----------------------------------------------------------------------------
(* Correctness.                                                            *)

Places == {"idle", "create", "stat", "read", "readDead", "readLive",
           "remove", "again", "name", "held", "unlink"}

LeaseTypeOK ==
  /\ platform \in Platforms
  /\ lease \in Lease \cup {NoFile}
  /\ processLock \in [Processes -> Threads \cup {Nobody}]
  /\ pc \in [Threads -> Places]
  /\ \A p \in Processes : processLock[p] # Nobody => ProcessOf[processLock[p]] = p
  /\ crashes \in 0..MaxCrashes
  /\ kept \subseteq Threads /\ knows \subseteq Threads
  /\ raced \in BOOLEAN /\ overslept \in BOOLEAN

\* "Serialize full and targeted extraction across threads and processes": one thread
\* at a time is inside.
OneOperation == \A t, u \in Threads : pc[t] = "held" /\ pc[u] = "held" => t = u

\* On Windows, where an open file keeps its name, that is so whatever crashes,
\* suspensions and take-overs happen.
OneOperationOnWindows == OpenFilesStay => OneOperation

\* Where open files can lose their name, two things let a second operation in: a
\* writer that is suspended between os.open and os.write for the grace period, or a
\* thread that removes another file than the one whose age it took.
OneOperationUnlessRaced == ~raced /\ ~overslept => OneOperation

\* Serialised, at least as long as every writer writes its PID in time.
OneOperationOfPromptWriters == ~overslept => OneOperation

\* A process lock is owned exactly while its owner is inside, but for the threads that
\* left where no finally clause (RequestRaises) or not all of it (Unlink) runs: every
\* other way out gives it back, once, and no thread is inside without it.
ProcessLockReturned ==
  \A t \in Threads :
    processLock[ProcessOf[t]] = t <=> pc[t] # "idle" \/ t \in kept
=============================================================================
