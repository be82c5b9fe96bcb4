------------------------------ MODULE AttemptLog ------------------------------
(***************************************************************************)
(* The re-extraction attempt log of src/claim_reextract_attempts.py: what  *)
(* an append accepts and which lifecycle a history stands for.  A history  *)
(* is the set of its events: every rule of _validate_attempt_histories     *)
(* that depends on order is checked when an event is added, and a terminal *)
(* event is the last one.  An idempotency key is the kind and the detail.  *)
(***************************************************************************)
EXTENDS Integers, FiniteSets

Terminal == {"reextract_succeeded", "reextract_failed",
             "reextract_interrupted", "reextract_aborted_stale"}

\* The checkpoints that a history holds at most once.
Checkpoints == {"supplement_persisted", "publication_prepared", "requirements_published",
                "base_rebuild_published", "effective_folded"}

EventKinds == {"reextract_started", "budget_checkpoint"} \cup Checkpoints \cup Terminal

Event(kind, detail) == [kind |-> kind, detail |-> detail]

Kinds(history) == {e.kind : e \in history}

Has(history, kind) == \E e \in history : e.kind = kind

Detail(history, kind) == (CHOOSE e \in history : e.kind = kind).detail

Ended(history) == \E kind \in Terminal : Has(history, kind)

\* The calls of the latest budget checkpoint.
CallsRecorded(history) ==
  LET counts == {e.detail.calls : e \in {d \in history : d.kind = "budget_checkpoint"}}
  IN  IF counts = {} THEN 0 ELSE CHOOSE n \in counts : \A m \in counts : m <= n

\* What must be in the history before an event of a kind.
Requires(kind) ==
  CASE kind \in {"publication_prepared", "requirements_published"} -> "supplement_persisted"
    [] kind = "base_rebuild_published" -> "requirements_published"
    [] kind = "effective_folded"       -> "base_rebuild_published"
    [] kind = "reextract_succeeded"    -> "effective_folded"
    [] OTHER                           -> "reextract_started"

\* An append adds the event, or finds its idempotency key already there; otherwise it
\* raises and writes nothing.
Accepts(history, e) ==
  \/ e \in history
  \/ e.kind = "reextract_started" /\ history = {}
  \/ /\ e.kind # "reextract_started"
     /\ Has(history, Requires(e.kind))
     /\ ~Ended(history)
     /\ e.kind \in Checkpoints => ~Has(history, e.kind)
     /\ e.kind = "publication_prepared" => ~Has(history, "requirements_published")
     /\ e.kind = "budget_checkpoint" => e.detail.calls >= CallsRecorded(history)

\* derive_attempt_states
Lifecycle(history) ==
  CASE history = {} -> "absent"
    [] Has(history, "reextract_succeeded")     -> "succeeded"
    [] Has(history, "reextract_failed")        -> "failed"
    [] Has(history, "reextract_interrupted")   -> "interrupted"
    [] Has(history, "reextract_aborted_stale") -> "aborted_stale"
    [] /\ ~Ended(history) /\ history # {}
       /\ Has(history, "requirements_published")
       /\ ~Has(history, "effective_folded")    -> "rebuild_pending"
    [] OTHER -> "executing"

\* An attempt that owns its proposal.
Live(history) == Lifecycle(history) \in {"executing", "rebuild_pending"}
=============================================================================
