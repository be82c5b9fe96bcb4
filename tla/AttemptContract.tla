---------------------------- MODULE AttemptContract ----------------------------
(***************************************************************************)
(* What a claim proposal is promised about its paid attempts: one attempt  *)
(* owns the proposal at a time, an attempt is published at most once, only *)
(* a published attempt succeeds, and how an attempt has ended never        *)
(* changes.  ClaimAttempt implements this under Phase.                     *)
(***************************************************************************)
CONSTANT Keys
VARIABLES
  proposal,   \* of each attempt; never changes
  phase

Owning == {"paying", "published"}

ContractInit == phase = [k \in Keys |-> "absent"]

Admit(k) ==
  /\ phase[k] = "absent"
  /\ \A other \in Keys : proposal[other] = proposal[k] => phase[other] \notin Owning
  /\ phase' = [phase EXCEPT ![k] = "paying"]

Announce(k) ==
  /\ phase[k] = "paying"
  /\ phase' = [phase EXCEPT ![k] = "published"]

Complete(k) ==
  /\ phase[k] = "published"
  /\ phase' = [phase EXCEPT ![k] = "succeeded"]

Abandon(k) ==
  /\ phase[k] \in Owning
  /\ phase' = [phase EXCEPT ![k] = "abandoned"]

ContractNext == \E k \in Keys : Admit(k) \/ Announce(k) \/ Complete(k) \/ Abandon(k)

ContractSpec == ContractInit /\ [][ContractNext /\ UNCHANGED proposal]_<<proposal, phase>>
=============================================================================
