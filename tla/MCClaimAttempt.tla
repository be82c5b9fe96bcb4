---------------------------- MODULE MCClaimAttempt ----------------------------
(***************************************************************************)
(* Model values for ClaimAttempt.  Executors and requests are              *)
(* interchangeable.                                                        *)
(***************************************************************************)
EXTENDS ClaimAttempt, TLC

CONSTANTS w1, w2, k1, k2

MCExecutors == {w1, w2}
MCKeys == {k1, k2}

\* The requests are for one proposal, or each for its own.
OneProposal == [k \in MCKeys |-> MCKeys]
OwnProposals == [k \in MCKeys |-> {k}]

Plain == [functional |-> TRUE, verifier |-> FALSE, calls |-> 1, proposal |-> OneProposal,
          executors |-> MCExecutors, editions |-> 0, reviews |-> 0, decisions |-> 0, crashes |-> 0]
Deadly == [Plain EXCEPT !.crashes = 1]
Atomic == [Deadly EXCEPT !.functional = FALSE]

\* Beside two executors: a review or an adjudication of the functional product; an
\* extraction of the atomic one, or the verifier with a second call; requests for two
\* proposals, on either track.  Beside one executor: an extraction of the functional
\* product, with a death or with two proposals.
Alone(bounds) == {[bounds EXCEPT !.executors = {w}] : w \in MCExecutors}

MCSettings ==
  {[Plain EXCEPT !.reviews = 1], [Plain EXCEPT !.decisions = 1],
   [Atomic EXCEPT !.editions = 1], [Atomic EXCEPT !.calls = 2, !.verifier = TRUE],
   [Deadly EXCEPT !.proposal = OwnProposals], [Atomic EXCEPT !.proposal = OwnProposals]}
  \cup Alone([Deadly EXCEPT !.editions = 1])
  \cup Alone([Plain EXCEPT !.editions = 1, !.proposal = OwnProposals])
MCFunctional == {Deadly}
Interchangeable == Permutations(MCExecutors) \cup Permutations(MCKeys)
=============================================================================
