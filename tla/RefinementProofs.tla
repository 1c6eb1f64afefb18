--------------------------- MODULE RefinementProofs ---------------------------
(***************************************************************************)
(* A partition played by an honest challenger carries out the search of    *)
(* module Bisection: every step of the chain and of the agents is a step   *)
(* of the search or leaves it as it is.                                    *)
(***************************************************************************)
EXTENDS PartitionGameProofs

USE PartitionAssumption, GameAssumption DEF Search!bisectionVars

LEMMA SearchInit == GameInit => Search!BisectionInit
  BY DEF GameInit, Init, Search!BisectionInit, Open

\* Opening a dispute begins a search.
LEMMA DisputeBegins ==
  ASSUME GInv, Challenger \in Honest,
         NEW claimerFinalHash \in Hash, NEW final \in FinalTimes, NEW size \in QuerySizes,
         NEW duration \in RoundDurations, Dispute(claimerFinalHash, final, size, duration)
  PROVE  Search!Begin
<1>1. /\ currentState' = "WaitingHashes"
      /\ queryArray'[0] = 0 /\ queryArray'[Last'] = final
      /\ timeSubmitted' = {0, final}
      /\ timeHash'[0] = Trace[0]
      /\ timeHash'[final] # Trace[final]
  BY DisputeOpens
<1>2. ~ instantiated /\ instantiated' /\ UNCHANGED divergenceTime
  BY DEF Dispute, Instantiate
<1>3. final \in 1..MaxTime /\ 0 \in Times /\ final \in Times
  BY DEF Dispute, Instantiate, Times
<1>4. timeHash' \in [Times -> Hash]
  BY DEF Dispute, Instantiate, GInv, IInv, TypeOK
<1>5. timeHash'[0] \in Hash /\ timeHash'[final] \in Hash
  BY <1>3, <1>4
<1>6. [t \in timeSubmitted' |-> timeHash'[t]] \in [{0, final} -> Hash]
  BY <1>1, <1>5
<1> QED BY <1>1, <1>2, <1>3, <1>6 DEF Search!Begin, Search!Right, Open

\* An answer makes claims.
LEMMA ReplyClaims ==
  ASSUME GInv, Challenger \in Honest, [Next]_vars,
         NEW hashes \in [0..Last -> Hash], ReplyQuery(Claimer, queryArray, hashes)
  PROVE  Search!Claim
<1>1. /\ Open /\ Open' /\ instantiated /\ instantiated'
      /\ UNCHANGED <<queryArray, divergenceTime>> /\ Last' = Last
  BY DEF ReplyQuery, settings, Open, Last
<1>2. /\ IInv /\ IInv' /\ Last \in Nat
      /\ timeHash' \in [Times -> Hash] /\ timeSubmitted' \subseteq Times
  BY <1>1, NextInv DEF GInv, IInv, TypeOK, SettingsInv, Last
<1>3. timeSubmitted \subseteq timeSubmitted'
      /\ \A t \in timeSubmitted : timeHash'[t] = timeHash[t]
  BY <1>2, SignedStep DEF vars, signed
<1>4. timeSubmitted' \subseteq timeSubmitted \union (queryArray[0]..queryArray[Last])
  <2>1. \A i \in 0..Last : queryArray[i] \in queryArray[0]..queryArray[Last]
    BY <1>1, <1>2 DEF IInv, QueryIsSigned, OrderedCut, Last
  <2>2. DOMAIN queryArray = 0..Last
    BY <1>2 DEF IInv, TypeOK, Last
  <2> QED BY <2>1, <2>2 DEF ReplyQuery, NewTimes
<1>5. \A t \in timeSubmitted' : timeHash'[t] \in Hash
  BY <1>2
<1> QED BY <1>1, <1>3, <1>4, <1>5 DEF Search!Claim

\* A new query of the challenger narrows the search.
LEMMA QueryNarrows ==
  ASSUME GInv, Challenger \in Honest,
         NEW piece \in 0..MaxQuerySize, NEW left \in Times, NEW right \in Times,
         MakeQuery(Challenger, piece, left, right), Agrees(left), ~ Agrees(right)
  PROVE  Search!Narrow
<1>1. /\ Open /\ Open' /\ instantiated /\ instantiated' /\ IInv
      /\ UNCHANGED <<timeSubmitted, timeHash, divergenceTime>> /\ Last' = Last
  BY DEF MakeQuery, settings, signed, Open, Last, GInv
<1>2. /\ queryArray[0] <= left /\ left = queryArray'[0]
      /\ right <= queryArray[Last] /\ right = queryArray'[Last]
      /\ right - left < queryArray[Last] - queryArray[0]
      /\ IInv'
  <2>1. piece \in Nat
    OBVIOUS
  <2> QED BY <1>1, <2>1, MakeQueryInv DEF IntervalLength
<1>3. left \in timeSubmitted /\ right \in timeSubmitted /\ left < right
  BY <1>1, <1>2 DEF IInv, QueryIsSigned
<1> QED BY <1>1, <1>2, <1>3 DEF Search!Narrow, Search!Right, Agrees

\* Of the timeouts only that of the claimer is left: the claimer gives up.
LEMMA TimeoutForfeits ==
  ASSUME GInv, Challenger \in Honest,
         NEW party \in {Challenger, Claimer}, ClaimVictoryByTime(party)
  PROVE  Search!Forfeit
<1>1. currentState = "WaitingHashes" /\ currentState' = "ChallengerWon"
  BY DEF ClaimVictoryByTime, GInv, PartiesInv, NotLate, ToMove, Open
<1> QED BY <1>1 DEF ClaimVictoryByTime, Search!Forfeit, settings, signed, Open, Last

\* presentDivergence finds a divergence inside the interval searched, or repeats the
\* one found.
LEMMA DivergenceFinds ==
  ASSUME GInv, Challenger \in Honest,
         NEW time \in Times, PresentDivergence(Challenger, time), Divergence(time),
         NEW tx \in sent, tx.call = "presentDivergence", tx.time = time
  PROVE  Search!Find \/ UNCHANGED Search!bisectionVars
<1>1. /\ instantiated /\ instantiated' /\ ~ Open' /\ currentState' = "DivergenceFound"
      /\ UNCHANGED <<queryArray, timeSubmitted, timeHash>> /\ Last' = Last
      /\ divergenceTime' = time
  BY DEF PresentDivergence, settings, signed, Open, Last
<1>2. CASE ~ Open
  BY <1>1, <1>2 DEF GInv, PendingIsCurrent
<1>3. CASE Open
  <2>1. currentState = "WaitingQuery" /\ tx \in Move(Challenger)
    BY <1>3 DEF GInv, PendingIsCurrent, Open
  <2>2. PICK i \in 0..(Last - 1) : tx = Pursue(i) /\ queryArray[i] < queryArray[i + 1]
    BY <1>3, <2>1, PursuitIsSound DEF GInv
  <2>3. queryArray[i] = time
    BY <2>2 DEF Pursue, QueryTx, DivergenceTx
  <2>4. /\ queryArray[0] \in Times /\ queryArray[i + 1] \in Times /\ queryArray[Last] \in Times
        /\ queryArray[0] <= time /\ queryArray[i + 1] <= queryArray[Last]
    BY <1>3, <2>3, PieceIsInside DEF GInv
  <2>5. queryArray[0] <= time /\ time < queryArray[Last]
    BY <2>2, <2>3, <2>4 DEF Times
  <2> QED BY <1>1, <1>3, <2>5 DEF Search!Find, Search!Right, Divergence, Agrees
<1> QED BY <1>2, <1>3

LEMMA SearchStep ==
  ASSUME GInv, [GameNext]_gameVars, Challenger \in Honest
  PROVE  [Search!BisectionNext]_(Search!bisectionVars)
<1>1. [Next]_vars
  BY GameStepIsStep
<1>2. CASE UNCHANGED vars
  BY <1>2 DEF vars, settings, signed, Open, Last
<1>3. CASE Wait
  BY <1>3 DEF Wait, Tick, settings, signed, Open, Last
<1>4. CASE Transaction
  <2>1. ASSUME NEW piece \in 0..MaxQuerySize, NEW left \in Times, NEW right \in Times,
               MakeQuery(Challenger, piece, left, right), Agrees(left), ~ Agrees(right)
        PROVE  Search!BisectionNext
    BY <2>1, QueryNarrows DEF Search!BisectionNext
  <2>2. ASSUME NEW party \in {Challenger, Claimer}, ClaimVictoryByTime(party)
        PROVE  Search!BisectionNext
    BY <2>2, TimeoutForfeits DEF Search!BisectionNext
  <2>3. ASSUME NEW time \in Times, PresentDivergence(Challenger, time), Divergence(time),
               NEW tx \in sent, tx.call = "presentDivergence", tx.time = time
        PROVE  [Search!BisectionNext]_(Search!bisectionVars)
    BY <2>3, DivergenceFinds DEF Search!BisectionNext
  <2>4. ASSUME NEW hashes \in [0..Last -> Hash], ReplyQuery(Claimer, queryArray, hashes)
        PROVE  Search!BisectionNext
    BY <1>1, <2>4, ReplyClaims DEF Search!BisectionNext
  <2> HIDE DEF Search!bisectionVars
  <2> QED BY <1>4, <2>1, <2>2, <2>3, <2>4 DEF Transaction
<1>5. CASE \E claimerFinalHash \in Hash, final \in FinalTimes, size \in QuerySizes,
              duration \in RoundDurations :
             Dispute(claimerFinalHash, final, size, duration)
  BY <1>5, DisputeBegins DEF Search!BisectionNext
<1> HIDE DEF Search!bisectionVars
<1> QED BY <1>2, <1>3, <1>4, <1>5, GameCases DEF React, gameVars

\* With an honest challenger, the contract and its agents implement the search: the
\* claims only grow, the interval only shrinks, and it ends at a right claim followed
\* by a wrong one or with the claimer giving up.
THEOREM PartitionImplementsBisection ==
  ASSUME Challenger \in Honest
  PROVE  GameSafety => RefinesBisection
<1>1. GInv /\ [GameNext]_gameVars => [Search!BisectionNext]_(Search!bisectionVars)
  BY SearchStep
<1> QED BY <1>1, SearchInit, GameInvariance, PTL
        DEF GameSafety, RefinesBisection, Search!BisectionSpec
=============================================================================
