----------------------------- MODULE BudgetFanout -----------------------------
(***************************************************************************)
(* The two durable accounts of the calls that a claim rebuild pays for     *)
(* (src/claim_artifacts.py): the queue's attempt log and the checkpoint    *)
(* file of the verifier, which becomes a row of the verifier ledger.  One  *)
(* budget transition reaches both through an outbox file: outbox, queue,   *)
(* verifier file, and the outbox is removed.  A death or an error may come *)
(* between any two of these writes; whoever recovers replays the rest.     *)
(***************************************************************************)
EXTENDS AttemptLog

CONSTANTS Keys,     \* the attempts
          Nobody

VARIABLES
  log,      \* the attempt log, by request key
  outbox,   \* the budget checkpoint outbox, or Nobody
  wal,      \* the verifier's checkpoint file, or Nobody
  rows      \* the verifier ledger: the calls that a finished scope accounts for

fanout == <<outbox, wal, rows>>

Put(k, e) == log' = [log EXCEPT ![k] = @ \cup {e}]

BudgetEvent(calls) == Event("budget_checkpoint", [calls |-> calls])

FanoutInit == outbox = Nobody /\ wal = Nobody /\ rows = {}

-----------------------------------------------------------------------------
(* The life of the checkpoint file.  Its owner is gone (Nobody) once the   *)
(* nonce is no longer registered or the process has died; a scope that has *)
(* no budget accounts for no attempt.                                      *)

BeginScope(owner, account, calls) ==
  /\ outbox = Nobody /\ wal = Nobody
  /\ wal' = [owner |-> owner, account |-> account, calls |-> calls]
  /\ UNCHANGED <<outbox, rows>>

Row(account, calls) ==
  IF account = Nobody THEN {} ELSE {[account |-> account, calls |-> calls]}

\* The file becomes a row, or is discarded for the row of the published generation.
EndScope ==
  /\ rows' = rows \cup Row(wal.account, wal.calls)
  /\ wal' = Nobody
  /\ UNCHANGED outbox

Abandon(owner) ==
  /\ wal' = IF wal # Nobody /\ wal.owner = owner THEN [wal EXCEPT !.owner = Nobody] ELSE wal
  /\ UNCHANGED <<outbox, rows>>

\* What every reader of the claims finds in the way.
Blocked == outbox # Nobody \/ (wal # Nobody /\ wal.owner # Nobody)

\* Mutant: a reader does not mind the outbox.
RecoverClaimsBlindly ==
  IF wal = Nobody THEN UNCHANGED fanout ELSE wal.owner = Nobody /\ EndScope

\* _recover_claim_state_unlocked: fails while the outbox or an active checkpoint is
\* there, and books an abandoned checkpoint as a failed attempt.
RecoverClaims ==
  /\ ~Blocked
  /\ IF wal = Nobody THEN UNCHANGED fanout ELSE EndScope

-----------------------------------------------------------------------------
(* One transition.                                                         *)

WriteOutbox(k, calls) ==
  /\ outbox = Nobody
  /\ outbox' = [account |-> k, calls |-> calls]
  /\ UNCHANGED <<wal, rows>>

InQueue == BudgetEvent(outbox.calls) \in log[outbox.account]

\* The verifier's file is read first: it must be there and belong to the same owner.
Replayable == outbox # Nobody /\ wal # Nobody /\ wal.account = outbox.account

ReplayQueue ==
  /\ Replayable /\ ~InQueue
  /\ Accepts(log[outbox.account], BudgetEvent(outbox.calls))
  /\ Put(outbox.account, BudgetEvent(outbox.calls))
  /\ UNCHANGED fanout

ReplayVerifier ==
  /\ Replayable /\ InQueue /\ wal.calls # outbox.calls
  /\ wal' = [wal EXCEPT !.calls = outbox.calls]
  /\ UNCHANGED <<log, outbox, rows>>

\* Mutant: the outbox is removed before the verifier's file is written.
ReplayEndsEarly ==
  /\ Replayable /\ InQueue
  /\ outbox' = Nobody
  /\ UNCHANGED <<log, wal, rows>>

ReplayEnd ==
  /\ Replayable /\ InQueue /\ wal.calls = outbox.calls
  /\ outbox' = Nobody
  /\ UNCHANGED <<log, wal, rows>>

-----------------------------------------------------------------------------
(* Properties.                                                             *)

FanoutTypeOK ==
  /\ outbox # Nobody => outbox \in [account : Keys, calls : Nat]
  /\ wal # Nobody => wal.account \in Keys \cup {Nobody} /\ wal.calls \in Nat
  /\ rows \subseteq [account : Keys, calls : Nat]

\* An outbox that is left behind can be replayed, whoever reads, folds, refreshes or
\* recovers in between: nobody removes the checkpoint file it belongs to or ends the
\* attempt it reports to.  Otherwise every write to the claims would be refused for
\* good ("budget checkpoint recovery requires claim maintenance").
OutboxCanBeReplayed ==
  outbox # Nobody =>
    /\ wal # Nobody /\ wal.account = outbox.account
    /\ InQueue \/ Accepts(log[outbox.account], BudgetEvent(outbox.calls))

\* Both accounts tell the same of an attempt once it is booked: after whatever deaths,
\* failed writes and replays, a row of the verifier ledger has the calls that the
\* attempt log has ("recovery retains extraction and verifier costs").
AccountsAgree == \A row \in rows : row.calls = CallsRecorded(log[row.account])
=============================================================================
