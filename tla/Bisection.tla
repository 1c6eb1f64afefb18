------------------------------ MODULE Bisection ------------------------------
(***************************************************************************)
(* What a partition promises an honest challenger, without agents,         *)
(* queries, deadlines or transactions. A claimer makes claims about the    *)
(* hash of a machine at more and more times and never takes one back. The  *)
(* search keeps an interval that starts at a right claim and ends at a     *)
(* wrong one, makes it strictly shorter, and stops at two consecutive      *)
(* times of which the first claim is right and the second wrong, unless    *)
(* the claimer gives up before.                                            *)
(***************************************************************************)
EXTENDS Integers

CONSTANTS Hash, MaxTime, Trace

VARIABLES claims,     \* a partial function from times to hashes
          lo, hi,     \* the interval searched
          status, divergence

bisectionVars == <<claims, lo, hi, status, divergence>>

Right(c, t) == c[t] = Trace[t]

BisectionInit ==
  /\ claims = [t \in {} |-> 0]
  /\ lo = 0 /\ hi = 0
  /\ status = "idle"
  /\ divergence = 0

\* A wrong claim about some time t starts a search.
Begin ==
  /\ status = "idle"
  /\ status' = "searching"
  /\ lo' = 0
  /\ hi' \in 1..MaxTime
  /\ claims' \in [{0, hi'} -> Hash]
  /\ Right(claims', 0) /\ ~ Right(claims', hi')
  /\ UNCHANGED divergence

\* The claimer makes new claims inside the interval.
Claim ==
  /\ status = "searching"
  /\ DOMAIN claims \subseteq DOMAIN claims'
  /\ DOMAIN claims' \subseteq DOMAIN claims \union (lo..hi)
  /\ \A t \in DOMAIN claims' : claims'[t] \in Hash
  /\ \A t \in DOMAIN claims : claims'[t] = claims[t]
  /\ UNCHANGED <<lo, hi, status, divergence>>

\* The search goes on in a shorter interval.
Narrow ==
  /\ status = "searching"
  /\ {lo', hi'} \subseteq DOMAIN claims
  /\ lo <= lo' /\ lo' < hi' /\ hi' <= hi
  /\ hi' - lo' < hi - lo
  /\ Right(claims, lo') /\ ~ Right(claims, hi')
  /\ UNCHANGED <<claims, status, divergence>>

Find ==
  /\ status = "searching"
  /\ lo <= divergence' /\ divergence' < hi
  /\ {divergence', divergence' + 1} \subseteq DOMAIN claims
  /\ Right(claims, divergence') /\ ~ Right(claims, divergence' + 1)
  /\ status' = "found"
  /\ UNCHANGED <<claims, lo, hi>>

Forfeit ==
  /\ status = "searching"
  /\ status' = "forfeited"
  /\ UNCHANGED <<claims, lo, hi, divergence>>

BisectionNext == Begin \/ Claim \/ Narrow \/ Find \/ Forfeit

BisectionSpec == BisectionInit /\ [][BisectionNext]_bisectionVars
=============================================================================
