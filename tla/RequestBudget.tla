---------------------------- MODULE RequestBudget ----------------------------
(***************************************************************************)
(* LLMRequestBudget of src/llm_client.py: the hard budget that every paid  *)
(* HTTP attempt must reserve before it is sent, with the durable           *)
(* checkpoint that survives the process.                                   *)
(*                                                                         *)
(* reserve, commit and fail hold _checkpoint_lock across the memory update *)
(* AND the checkpoint callback, so each of them is one step here; its      *)
(* outcome is a choice, because the callback may raise.  Sending the       *)
(* request is a step of its own: other threads, and a crash, come between. *)
(***************************************************************************)
EXTENDS Workers

CONSTANTS Payloads,       \* request bodies
          TokenCeiling,   \* _token_ceiling: the most tokens a payload can cost
          Reports,        \* trusted usage totals a provider may report
          Untrusted,      \* a usage that _normalized_usage rejects
          NoCall,         \* no reservation held
          MaxCalls,       \* max_calls
          MaxTokens       \* max_tokens

ASSUME BudgetAssumption ==
  /\ MaxCalls \in Nat \ {0}
  /\ MaxTokens \in Nat \ {0}
  /\ TokenCeiling \in [Payloads -> Nat \ {0}]
  /\ Reports \subseteq Nat
  /\ Untrusted \notin Nat
  /\ NoCall \notin Payloads

VARIABLES
  alive,           \* the process that owns the budget object is running
  attempted,       \* _attempted_calls
  failed,          \* _failed_calls
  tokens,          \* _tokens
  reservation,     \* _reservations, by the thread that will settle the entry
  stranded,        \* tokens of _reservations entries that nobody can settle
  usageComplete,   \* _usage_complete
  denied,          \* _denied
  reason,          \* _termination_reason
  sent,            \* threads whose request is on the wire
  durable,         \* the last snapshot the checkpoint persisted
  issued,          \* history: HTTP requests ever sent, over all processes
  exposure,        \* history: most tokens those requests can have cost
  overreported     \* history: a provider reported more than the ceiling

memory == <<attempted, failed, tokens, stranded, usageComplete, denied, reason>>
history == <<issued, exposure, overreported>>
budgetVars == <<alive, memory, reservation, sent, durable, history>>

Reasons == {"", "call_budget_exhausted", "token_budget_exhausted",
            "reported_token_budget_exceeded"}

\* The threads that hold a reservation they will settle.
Holding == {t \in Threads : reservation[t] # NoCall}

\* The ceilings that r books for a set of threads, added up: each reservation is a
\* block of unit tokens, and the blocks of different threads are disjoint.  No
\* single reservation is larger than max_tokens.
TokenUnits(r, S) ==
  {u \in S \X (1..MaxTokens) : u[2] <= TokenCeiling[r[u[1]]]}

SumOfCeilings(r, S) == Cardinality(TokenUnits(r, S))

\* sum(self._reservations.values())
Reserved == stranded + SumOfCeilings(reservation, Holding)

\* _snapshot_unlocked; the remaining_* fields are functions of these.
Snapshot == [attempted |-> attempted, failed |-> failed, tokens |-> tokens,
             reserved |-> Reserved, usageComplete |-> usageComplete,
             denied |-> denied, reason |-> reason]

BudgetInit ==
  /\ alive = TRUE
  /\ attempted = 0 /\ failed = 0 /\ tokens = 0 /\ stranded = 0
  /\ usageComplete = TRUE /\ denied = FALSE /\ reason = ""
  /\ reservation = [t \in Threads |-> NoCall]
  /\ sent = {}
  /\ durable = Snapshot
  /\ issued = 0 /\ exposure = 0 /\ overreported = FALSE

-----------------------------------------------------------------------------
(* reserve                                                                 *)

Fits(p) == tokens + Reserved + TokenCeiling[p] <= MaxTokens

CallsLeft == attempted < MaxCalls

\* A granted reservation counts the call.
Book(p) ==
  /\ CallsLeft /\ Fits(p)
  /\ attempted' = attempted + 1
  /\ UNCHANGED <<alive, failed, tokens, usageComplete, denied, reason, sent, history>>

\* Mutant: the HTTP attempt proceeds before the reservation is persisted.
ReserveUnpersisted(t, p) ==
  /\ alive /\ reservation[t] = NoCall
  /\ Book(p)
  /\ reservation' = [reservation EXCEPT ![t] = p]
  /\ UNCHANGED <<stranded, durable>>

Reserve(t, p) ==
  /\ alive /\ reservation[t] = NoCall
  /\ Book(p)
  /\ reservation' = [reservation EXCEPT ![t] = p]
  /\ UNCHANGED stranded
  /\ durable' = Snapshot'

\* The checkpoint raises and nothing was persisted: the reservation is popped
\* and the call is not counted, so the step leaves no trace; reserve() raises.
ReserveRolledBack(t, p) ==
  /\ alive /\ reservation[t] = NoCall
  /\ CallsLeft /\ Fits(p)
  /\ UNCHANGED budgetVars

\* The checkpoint raises after the snapshot reached its outbox
\* (budget_checkpoint_is_durable): the entry is kept, although reserve() raises
\* and nobody holds the id that could settle it.
ReserveStranded(t, p) ==
  /\ alive /\ reservation[t] = NoCall
  /\ Book(p)
  /\ stranded' = stranded + TokenCeiling[p]
  /\ UNCHANGED reservation
  /\ durable' = Snapshot'

\* reserve() raises LLMBudgetExceeded; the refusal itself is not persisted.
ReserveRefused(t, p) ==
  /\ alive /\ reservation[t] = NoCall
  /\ ~(CallsLeft /\ Fits(p))
  /\ denied' = TRUE
  /\ reason' = IF CallsLeft THEN "token_budget_exhausted" ELSE "call_budget_exhausted"
  /\ UNCHANGED <<alive, attempted, failed, tokens, stranded, usageComplete,
                 reservation, sent, durable, history>>

-----------------------------------------------------------------------------
(* The wire: _post_json calls urlopen between reserve and commit/fail.     *)

Send(t) ==
  /\ alive /\ reservation[t] # NoCall /\ t \notin sent
  /\ sent' = sent \cup {t}
  /\ issued' = issued + 1
  /\ exposure' = exposure + TokenCeiling[reservation[t]]
  /\ UNCHANGED <<alive, memory, reservation, durable, overreported>>

-----------------------------------------------------------------------------
(* commit and fail.  Both pop the reservation whether or not the           *)
(* checkpoint that follows raises; a lost checkpoint leaves durable behind.*)

\* Mutant: the request stays booked as being on the wire.
PopStillSent(t) ==
  /\ alive /\ reservation[t] # NoCall
  /\ reservation' = [reservation EXCEPT ![t] = NoCall]
  /\ UNCHANGED <<alive, attempted, stranded, issued, sent>>

Pop(t) ==
  /\ alive /\ reservation[t] # NoCall
  /\ reservation' = [reservation EXCEPT ![t] = NoCall]
  /\ sent' = sent \ {t}
  /\ UNCHANGED <<alive, attempted, stranded, issued>>

Persist(persisted) == durable' = IF persisted THEN Snapshot' ELSE durable

\* What a valid response is charged: its trusted total, else the ceiling.
Charge(t, usage) ==
  IF usage = Untrusted THEN TokenCeiling[reservation[t]] ELSE usage

Commit(t, usage, persisted) ==
  /\ t \in sent
  /\ Pop(t)
  /\ tokens' = tokens + Charge(t, usage)
  /\ usageComplete' = (usageComplete /\ usage # Untrusted)
  /\ IF tokens' > MaxTokens
       THEN denied' = TRUE /\ reason' = "reported_token_budget_exceeded"
       ELSE UNCHANGED <<denied, reason>>
  /\ UNCHANGED failed
  /\ exposure' = exposure - TokenCeiling[reservation[t]] + Charge(t, usage)
  /\ overreported' = (overreported \/ Charge(t, usage) > TokenCeiling[reservation[t]])
  /\ Persist(persisted)

\* Mutant: a failed call does not make the usage incomplete.
FailComplete(t, persisted) ==
  /\ Pop(t)
  /\ tokens' = tokens + TokenCeiling[reservation[t]]
  /\ failed' = failed + 1
  /\ UNCHANGED <<usageComplete, denied, reason, exposure, overreported>>
  /\ Persist(persisted)

Fail(t, persisted) ==
  /\ Pop(t)
  /\ tokens' = tokens + TokenCeiling[reservation[t]]
  /\ failed' = failed + 1
  /\ usageComplete' = FALSE
  /\ UNCHANGED <<denied, reason, exposure, overreported>>
  /\ Persist(persisted)

\* set_checkpoint and swap_checkpoint: a new owner of the checkpoint is handed the
\* accounting as it is.  A callback that raises leaves everything as before.
Handover ==
  /\ alive
  /\ durable' = Snapshot
  /\ UNCHANGED <<alive, memory, reservation, sent, history>>

-----------------------------------------------------------------------------
(* The process dies and a new one resumes from the checkpoint.             *)

BudgetCrash ==
  /\ alive
  /\ alive' = FALSE
  /\ reservation' = [t \in Threads |-> NoCall]
  /\ sent' = {}
  /\ UNCHANGED <<memory, durable, history>>

\* Mutant: a checkpoint with an unsettled reservation is resumed as settled.
NoUnsettledUnchecked == TRUE

\* from_settled_snapshot refuses a reservation whose outcome is unknown.
NoUnsettled == durable.reserved = 0

\* Mutant: the resumed process starts the accounting afresh.
FreshSnapshot ==
  [durable EXCEPT !.attempted = 0, !.failed = 0, !.tokens = 0, !.reserved = 0]

RestoredSnapshot == durable

Restore ==
  /\ ~alive
  /\ NoUnsettled
  /\ alive' = TRUE
  /\ attempted' = RestoredSnapshot.attempted
  /\ failed' = RestoredSnapshot.failed
  /\ tokens' = RestoredSnapshot.tokens
  /\ stranded' = 0
  /\ usageComplete' = RestoredSnapshot.usageComplete
  /\ denied' = RestoredSnapshot.denied
  /\ reason' = RestoredSnapshot.reason
  /\ UNCHANGED <<reservation, sent, durable, history>>

BudgetNext ==
  \/ \E t \in Threads :
       \/ \E p \in Payloads :
            \/ Reserve(t, p)
            \/ ReserveRolledBack(t, p)
            \/ ReserveStranded(t, p)
            \/ ReserveRefused(t, p)
       \/ Send(t)
       \/ \E persisted \in BOOLEAN :
            \/ \E usage \in Reports \cup {Untrusted} : Commit(t, usage, persisted)
            \/ Fail(t, persisted)
  \/ Handover
  \/ BudgetCrash
  \/ Restore

BudgetSpec == BudgetInit /\ [][BudgetNext]_budgetVars

-----------------------------------------------------------------------------
(* Correctness.                                                            *)

SnapshotType == [attempted : Nat, failed : Nat, tokens : Nat, reserved : Nat,
                 usageComplete : BOOLEAN, denied : BOOLEAN, reason : Reasons]

BudgetTypeOK ==
  /\ alive \in BOOLEAN
  /\ attempted \in Nat /\ failed \in Nat /\ tokens \in Nat
  /\ reservation \in [Threads -> Payloads \cup {NoCall}]
  /\ stranded \in Nat
  /\ usageComplete \in BOOLEAN /\ denied \in BOOLEAN /\ reason \in Reasons
  /\ sent \subseteq Holding
  /\ durable \in SnapshotType
  /\ issued \in Nat /\ exposure \in Int /\ overreported \in BOOLEAN

\* The hard budget holds over the life of the authorisation, whatever
\* interleaving, lost checkpoint, crash and restart happens: no more requests
\* ever leave than max_calls and, while providers report no more than the
\* ceiling, those requests can never have cost more than max_tokens.
AuthorisationHolds ==
  /\ issued <= MaxCalls
  /\ ~overreported => exposure <= MaxTokens

\* Write-ahead: a crash at any moment finds on disk at least the calls that
\* left and at least the tokens they can have cost ("synchronously persist
\* budget mutations before an HTTP attempt proceeds").
DurableCoversTheWire ==
  /\ issued <= durable.attempted
  /\ ~overreported => exposure <= durable.tokens + durable.reserved

\* What is spent and what is promised to other threads fit together.
ReservationsFit ==
  alive /\ ~overreported => tokens + Reserved <= MaxTokens

\* The durable accounting never moves backwards and never skips a call, also
\* across restarts (the history rules of claim_structural_operations.py).
DurableNeverRegresses ==
  [][/\ durable'.attempted \in {durable.attempted, durable.attempted + 1}
     /\ durable'.failed >= durable.failed
     /\ durable'.tokens >= durable.tokens
     /\ durable.usageComplete \/ ~durable'.usageComplete
     /\ durable.denied => durable'.denied]_durable

\* The rules by which claim_artifacts.py accepts a snapshot into the budget
\* checkpoint outbox.
OutboxAccepts(s) ==
  /\ s.attempted <= MaxCalls
  /\ s.failed <= s.attempted
  /\ (s.reason # "") = s.denied
  /\ s.failed > 0 => ~s.usageComplete
  /\ s.tokens > MaxTokens => s.denied /\ s.reason = "reported_token_budget_exceeded"
  /\ s.reserved > 0 => s.tokens + s.reserved <= MaxTokens

\* Every snapshot the budget hands to its checkpoint is one the outbox accepts,
\* while providers stay within the ceiling; otherwise the accounting would fail on
\* a snapshot that the program made itself.
CheckpointsAcceptable == overreported \/ OutboxAccepts(durable)
=============================================================================
