------------------------------- MODULE Contest -------------------------------
(***************************************************************************)
(* What ComputeInstantiator relies on when it starts a verification game:  *)
(* the game ends, with one winner, and the winner never changes.           *)
(***************************************************************************)

VARIABLE verdict

Start == verdict = "none" /\ verdict' = "open"

Decide == verdict = "open" /\ verdict' \in {"challenger", "claimer"}

ContestInit == verdict = "none"

ContestNext == Start \/ Decide

ContestSafety == ContestInit /\ [][ContestNext]_verdict

ContestSpec == ContestSafety /\ WF_verdict(Decide)
=============================================================================
