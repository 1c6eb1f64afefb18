------------------------- MODULE PartitionGameProofs -------------------------
(***************************************************************************)
(* What one honest party is promised, for every partition, every machine   *)
(* (Trace) and every sequence of transactions of the other users, however  *)
(* late or often the transactions of the honest party are executed.        *)
(***************************************************************************)
EXTENDS PartitionGame, PartitionProofs

\* The instance is the one that Dispute opened.
PartiesInv ==
  /\ sent # {} => instantiated
  /\ instantiated => /\ challenger = Challenger /\ claimer = Claimer
                     /\ finalTime \in FinalTimes
                     /\ querySize \in QuerySizes
                     /\ roundDuration \in RoundDurations

\* What honest agents send. An honest claimer posts the hashes of its emulator.
SentInv ==
  \A tx \in sent :
    \/ /\ tx.call = "replyQuery"
       /\ Claimer \in Honest
       /\ tx.times \in [0..Last -> Times]
       /\ tx.hashes \in [0..Last -> Hash]
       /\ \A i \in 0..Last : tx.hashes[i] = Trace[tx.times[i]]
    \/ /\ tx.call = "makeQuery"
       /\ Challenger \in Honest
       /\ tx.piece \in 0..MaxQuerySize
       /\ {tx.left, tx.right} \subseteq Times
    \/ /\ tx.call = "presentDivergence"
       /\ Challenger \in Honest
       /\ tx.time \in Times
    \/ tx.call = "claimVictoryByTime" /\ tx.party \in Honest

\* The clock has not passed the deadline of an honest party.
NotLate == \A party \in Honest : ToMove(party) => ~ AfterDeadline

\* The inductive invariant.
GInv ==
  /\ IInv
  /\ PartiesInv
  /\ SentInv
  /\ DisputeIsSound
  /\ PendingIsSound
  /\ PendingIsCurrent
  /\ DivergenceIsReal
  /\ ClaimerSignsOnlyTrueHashes
  /\ NotLate
  /\ HonestPartyIsNeverTimedOut

USE PartitionAssumption, GameAssumption

\* What a transaction executed by the chain does, whoever has sent it and whenever:
\* honest parties only ever sign truths.
Transaction ==
  \/ \E hashes \in [0..Last -> Hash] :
       /\ ReplyQuery(Claimer, queryArray, hashes)
       /\ Claimer \in Honest => \A i \in 0..Last : hashes[i] = Trace[queryArray[i]]
  \/ \E piece \in 0..MaxQuerySize, left, right \in Times :
       /\ MakeQuery(Challenger, piece, left, right)
       /\ Challenger \in Honest =>
            /\ Agrees(left) /\ ~ Agrees(right)
            /\ \E tx \in sent : tx.call = "makeQuery" /\ tx.left = left /\ tx.right = right
  \/ \E party \in {Challenger, Claimer} : ClaimVictoryByTime(party)
  \/ \E time \in Times :
       /\ PresentDivergence(Challenger, time)
       /\ Challenger \in Honest =>
            /\ Divergence(time)
            /\ \E tx \in sent : tx.call = "presentDivergence" /\ tx.time = time

LEMMA GameInitIsGInv == GameInit => GInv
<1> SUFFICES ASSUME GameInit PROVE GInv
  OBVIOUS
<1>1. Init /\ sent = {} /\ ~ Open /\ ~ instantiated /\ currentState = "WaitingQuery" /\ timeSubmitted = {}
  BY DEF GameInit, Init, Open
<1>2. IInv
  BY <1>1, InitInv
<1> QED BY <1>1, <1>2
        DEF GInv, PartiesInv, SentInv, DisputeIsSound, PendingIsSound, PendingIsCurrent,
            DivergenceIsReal, ClaimerSignsOnlyTrueHashes, NotLate, ToMove, HonestPartyIsNeverTimedOut

\* Whatever the chain executes comes from an honest agent that has sent it, or from
\* a party that does not run the agent.
LEMMA ChainExecutesTransactions ==
  ASSUME IInv, PartiesInv, SentInv, PendingIsSound,
         (\E tx \in sent : Land(tx)) \/ (\E sender \in Users \ Honest : Adversary(sender))
  PROVE  Transaction /\ UNCHANGED sent
<1>1. /\ querySize \in Nat
      /\ queryArray \in [0..Last -> Times]
  BY DEF IInv, TypeOK, Last
<1>2. ASSUME NEW tx \in sent, Land(tx)
      PROVE  Transaction /\ UNCHANGED sent
  <2>1. instantiated /\ challenger = Challenger /\ claimer = Claimer
    BY DEF PartiesInv
  <2>2. UNCHANGED sent
    BY <1>2 DEF Land
  <2>3. CASE tx.call = "replyQuery"
    <3>1. /\ tx.times \in [0..Last -> Times]
          /\ tx.hashes \in [0..Last -> Hash]
          /\ \A i \in 0..Last : tx.hashes[i] = Trace[tx.times[i]]
      BY <2>3 DEF SentInv
    <3>2. ReplyQuery(Claimer, tx.times, tx.hashes)
      BY <1>2, <2>3 DEF Land
    <3>3. tx.times = queryArray
      BY <1>1, <3>1, <3>2 DEF ReplyQuery, Last
    <3> QED BY <2>2, <3>1, <3>2, <3>3 DEF Transaction
  <2>4. CASE tx.call = "makeQuery"
    <3>1. tx.piece \in 0..MaxQuerySize /\ tx.left \in Times /\ tx.right \in Times
      BY <2>4 DEF SentInv
    <3>2. Challenger \in Honest => Agrees(tx.left) /\ ~ Agrees(tx.right)
      BY <2>4 DEF PendingIsSound
    <3>3. MakeQuery(Challenger, tx.piece, tx.left, tx.right)
      BY <1>2, <2>4 DEF Land
    <3> QED BY <2>2, <2>4, <3>1, <3>2, <3>3 DEF Transaction
  <2>5. CASE tx.call = "presentDivergence"
    <3>1. tx.time \in Times
      BY <2>5 DEF SentInv
    <3>2. Challenger \in Honest => Divergence(tx.time)
      BY <2>5 DEF PendingIsSound
    <3>3. PresentDivergence(Challenger, tx.time)
      BY <1>2, <2>5 DEF Land
    <3> QED BY <2>2, <2>5, <3>1, <3>2, <3>3 DEF Transaction
  <2>6. CASE tx.call = "claimVictoryByTime"
    <3>1. tx.party \in {Challenger, Claimer}
      BY <2>6 DEF SentInv
    <3>2. ClaimVictoryByTime(tx.party)
      BY <1>2, <2>6 DEF Land
    <3> QED BY <2>2, <3>1, <3>2 DEF Transaction
  <2> QED BY <1>2, <2>3, <2>4, <2>5, <2>6 DEF Land
<1>3. ASSUME NEW sender \in Users \ Honest, Adversary(sender)
      PROVE  Transaction /\ UNCHANGED sent
  <2>1. UNCHANGED sent
    BY <1>3 DEF Adversary
  <2>2. ASSUME NEW hashes \in [0..(querySize - 1) -> Hash],
               ReplyQuery(sender, queryArray, hashes)
        PROVE  Transaction
    <3>1. sender = Claimer
      BY <2>2 DEF ReplyQuery, PartiesInv
    <3> QED BY <2>2, <3>1 DEF Transaction, Last
  <2>3. ASSUME NEW piece \in 0..MaxQuerySize, NEW left \in Times, NEW right \in Times,
               MakeQuery(sender, piece, left, right)
        PROVE  Transaction
    <3>1. sender = Challenger
      BY <2>3 DEF MakeQuery, PartiesInv
    <3> QED BY <2>3, <3>1 DEF Transaction
  <2>4. ASSUME ClaimVictoryByTime(sender) PROVE Transaction
    <3>1. sender \in {Challenger, Claimer}
      BY <2>4 DEF ClaimVictoryByTime, PartiesInv
    <3> QED BY <2>4, <3>1 DEF Transaction
  <2>5. ASSUME NEW time \in Times, PresentDivergence(sender, time)
        PROVE  Transaction
    <3>1. sender = Challenger
      BY <2>5 DEF PresentDivergence, PartiesInv
    <3> QED BY <2>5, <3>1 DEF Transaction
  <2> QED BY <1>3, <2>1, <2>2, <2>3, <2>4, <2>5 DEF Adversary
<1> QED BY <1>2, <1>3

\* Every step of the game is a step of the contract, or none of its business.
LEMMA TransactionIsNext ==
  ASSUME IInv, PartiesInv, Transaction
  PROVE  Next
<1>1. ASSUME NEW hashes \in [0..Last -> Hash], ReplyQuery(Claimer, queryArray, hashes)
      PROVE  Next
  <2>1. queryArray \in Queries
    <3>1. Open
      BY <1>1 DEF ReplyQuery, Open
    <3>2. /\ queryArray[0] \in Times
          /\ queryArray[Last] \in (queryArray[0] + 1)..MaxTime
      BY <3>1 DEF IInv, TypeOK, SettingsInv, QueryIsSigned, Open, Last, Times
    <3>3. queryArray = Slice(querySize, queryArray[0], queryArray[Last])
      BY <3>1 DEF IInv, QueryIsSliced
    <3> QED BY <3>2, <3>3 DEF Queries
  <2> QED BY <1>1, <2>1 DEF Next, Last
<1>2. ASSUME NEW piece \in 0..MaxQuerySize, NEW left \in Times, NEW right \in Times,
             MakeQuery(Challenger, piece, left, right)
      PROVE  Next
  BY <1>2 DEF Next
<1>3. ASSUME NEW party \in {Challenger, Claimer}, ClaimVictoryByTime(party)
      PROVE  Next
  BY <1>3 DEF Next
<1>4. ASSUME NEW time \in Times, PresentDivergence(Challenger, time)
      PROVE  Next
  BY <1>4 DEF Next
<1> QED BY <1>1, <1>2, <1>3, <1>4 DEF Transaction

LEMMA InitialHash == 0 \in Times /\ Trace[0] \in Hash
<1>1. 0 \in Times
  BY DEF Times
<1> QED BY <1>1

LEMMA DisputeIsNext ==
  ASSUME NEW claimerFinalHash \in Hash, NEW final \in FinalTimes, NEW size \in QuerySizes,
         NEW duration \in RoundDurations, Dispute(claimerFinalHash, final, size, duration)
  PROVE  Next
<1> QED BY InitialHash DEF Dispute, Next

\* The cases of a step of the game that the proofs below go through.
LEMMA GameCases ==
  ASSUME GInv, [GameNext]_gameVars
  PROVE  \/ \E claimerFinalHash \in Hash, final \in FinalTimes, size \in QuerySizes,
               duration \in RoundDurations :
              Dispute(claimerFinalHash, final, size, duration)
         \/ \E party \in Honest : React(party)
         \/ Transaction /\ UNCHANGED sent
         \/ Wait
         \/ UNCHANGED gameVars
  BY ChainExecutesTransactions DEF GInv, GameNext

LEMMA GameStepIsStep ==
  ASSUME GInv, [GameNext]_gameVars
  PROVE  [Next]_vars
<1>1. IInv /\ PartiesInv
  BY DEF GInv
<1>2. CASE \E claimerFinalHash \in Hash, final \in FinalTimes, size \in QuerySizes,
              duration \in RoundDurations :
             Dispute(claimerFinalHash, final, size, duration)
  BY <1>2, DisputeIsNext
<1>3. CASE \E party \in Honest : React(party)
  BY <1>3 DEF React
<1>4. CASE Transaction
  BY <1>1, <1>4, TransactionIsNext
<1>5. CASE Wait
  BY <1>5 DEF Wait, Next
<1>6. CASE UNCHANGED gameVars
  BY <1>6 DEF gameVars
<1> QED BY <1>2, <1>3, <1>4, <1>5, <1>6, GameCases

\* The parties and the size of the query are fixed once the instance exists.
LEMMA SettingsStep ==
  ASSUME IInv, [Next]_vars, instantiated
  PROVE  UNCHANGED settings
<1>1. ASSUME NEW c, NEW d, NEW h, NEW k, NEW f, NEW s, NEW r,
             Instantiate(c, d, h, k, f, s, r)
      PROVE  FALSE
  BY <1>1 DEF Instantiate
<1>2. CASE UNCHANGED vars
  BY <1>2 DEF vars
<1>3. CASE Next
  BY <1>1, <1>3 DEF Next, ReplyQuery, MakeQuery, ClaimVictoryByTime, PresentDivergence, Tick,
                    settings
<1> QED BY <1>2, <1>3

LEMMA PartiesStep ==
  ASSUME GInv, [GameNext]_gameVars
  PROVE  PartiesInv'
<1>1. IInv /\ PartiesInv /\ [Next]_vars
  BY GameStepIsStep DEF GInv
<1>2. CASE instantiated
  BY <1>1, <1>2, SettingsStep DEF PartiesInv, settings
<1>3. CASE ~ instantiated
  <2>1. CASE \E claimerFinalHash \in Hash, final \in FinalTimes, size \in QuerySizes,
                duration \in RoundDurations :
               Dispute(claimerFinalHash, final, size, duration)
    BY <1>1, <1>3, <2>1 DEF Dispute, Instantiate, PartiesInv
  <2>2. CASE UNCHANGED gameVars
    BY <1>1, <1>3, <2>2 DEF PartiesInv, gameVars, vars, settings
  <2> QED BY <1>3, <2>1, <2>2, GameCases
          DEF React, Transaction, Wait, ReplyQuery, MakeQuery, ClaimVictoryByTime,
              PresentDivergence, Tick
<1> QED BY <1>2, <1>3

-----------------------------------------------------------------------------
\* The loop of the challenger finds the first disagreement, when there is one.
LEMMA FirstIsFirst ==
  ASSUME NEW D, D \subseteq Nat, D # {}
  PROVE  FirstDisagreement(D) \in D /\ \A j \in D : FirstDisagreement(D) <= j
<1>1. PICK m \in D : \A j \in D : m <= j
  BY LeastElement
<1> QED BY <1>1 DEF FirstDisagreement

\* There is one: the right end of the last piece.
LEMMA LastPieceDisagrees ==
  ASSUME IInv, DisputeIsSound, Challenger \in Honest, Open
  PROVE  Last - 1 \in Disagreements
<1>1. Last - 1 \in 0..(Last - 1) /\ (Last - 1) + 1 = Last
  BY DEF IInv, TypeOK, SettingsInv, Open, Last
<1> QED BY <1>1 DEF DisputeIsSound, Disagreements, Agrees

\* The piece an honest challenger pursues starts with an agreement and ends with a
\* disagreement.
LEMMA PursuitIsSound ==
  ASSUME IInv, DisputeIsSound, Challenger \in Honest, Open, currentState = "WaitingQuery",
         NEW tx \in Move(Challenger)
  PROVE  \E i \in 0..(Last - 1) :
           /\ i = FirstDisagreement(Disagreements)
           /\ tx = Pursue(i)
           /\ {queryArray[i], queryArray[i + 1]} \subseteq timeSubmitted
           /\ Agrees(queryArray[i]) /\ ~ Agrees(queryArray[i + 1])
           /\ queryArray[i] \in Times /\ queryArray[i + 1] \in Times
           /\ queryArray[i] < queryArray[i + 1]
<1> DEFINE i == FirstDisagreement(Disagreements)
<1>1. i \in Disagreements /\ \A j \in Disagreements : i <= j
  <2>1. Disagreements \subseteq Nat /\ Disagreements # {}
    BY LastPieceDisagrees DEF Disagreements
  <2> QED BY <2>1, FirstIsFirst
<1>2. tx = Pursue(i)
  BY DEF Move
<1>3. i \in 0..(Last - 1) /\ ~ Agrees(queryArray[i + 1])
  BY <1>1 DEF Disagreements, Agrees
<1>4. /\ Last \in Nat
      /\ queryArray[i] \in Times /\ queryArray[i + 1] \in Times
      /\ queryArray[i] <= queryArray[i + 1]
  BY <1>3, PieceIsInside
<1>5. Agrees(queryArray[i])
  <2>1. CASE i = 0
    BY <2>1 DEF DisputeIsSound
  <2>2. CASE i # 0
    <3>1. i - 1 \in 0..(Last - 1) /\ (i - 1) + 1 = i /\ ~ (i <= i - 1)
      BY <1>3, <1>4, <2>2
    <3>2. i - 1 \notin Disagreements
      BY <1>1, <3>1
    <3> HIDE DEF i
    <3> QED BY <3>1, <3>2 DEF Disagreements, Agrees
  <2> QED BY <2>1, <2>2
<1>6. {queryArray[i], queryArray[i + 1]} \subseteq timeSubmitted
  <2>1. i \in 0..Last /\ i + 1 \in 0..Last
    BY <1>3, <1>4
  <2> QED BY <2>1 DEF IInv, QueryIsSigned
<1>7. queryArray[i] < queryArray[i + 1]
  <2>1. queryArray[i] # queryArray[i + 1]
    BY <1>3, <1>5
  <2> QED BY <1>4, <2>1 DEF Times
<1> HIDE DEF i
<1>8. i = FirstDisagreement(Disagreements)
  BY DEF i
<1> QED BY <1>2, <1>3, <1>4, <1>5, <1>6, <1>7, <1>8

\* What an agent sends is well-formed, and true.
LEMMA ReactionIsSound ==
  ASSUME GInv, NEW party \in Honest, instantiated, NEW tx \in Reaction(party)
  PROVE  /\ \/ /\ tx.call = "replyQuery"
               /\ Claimer \in Honest
               /\ tx.times \in [0..Last -> Times]
               /\ tx.hashes \in [0..Last -> Hash]
               /\ \A i \in 0..Last : tx.hashes[i] = Trace[tx.times[i]]
            \/ /\ tx.call = "makeQuery"
               /\ Challenger \in Honest
               /\ tx.piece \in 0..MaxQuerySize
               /\ {tx.left, tx.right} \subseteq Times
               /\ {tx.left, tx.right} \subseteq timeSubmitted
               /\ Agrees(tx.left) /\ ~ Agrees(tx.right)
            \/ /\ tx.call = "presentDivergence"
               /\ Challenger \in Honest
               /\ tx.time \in Times
               /\ Divergence(tx.time)
            \/ tx.call = "claimVictoryByTime" /\ tx.party \in Honest
<1>1. CASE ~ ToMove(party)
  BY <1>1 DEF Reaction, WinByDeadlineOrIdle, TimeoutTx
<1>2. CASE ToMove(party) /\ party = Claimer
  <2>1. tx = Answer
    BY <1>2 DEF Reaction, Move
  <2>2. queryArray \in [0..Last -> Times]
    BY DEF GInv, IInv, TypeOK, Last
  <2>3. /\ tx.call = "replyQuery"
        /\ tx.times = queryArray
        /\ tx.hashes = [i \in 0..Last |-> Trace[queryArray[i]]]
    BY <2>1 DEF Answer, ReplyTx
  <2> QED BY <1>2, <2>2, <2>3
<1>3. CASE ToMove(party) /\ party = Challenger
  <2>1. /\ tx \in Move(Challenger)
        /\ Open /\ currentState = "WaitingQuery"
        /\ Challenger \in Honest
    BY <1>3 DEF Reaction, ToMove
  <2>2. PICK i \in 0..(Last - 1) :
           /\ tx = Pursue(i)
           /\ {queryArray[i], queryArray[i + 1]} \subseteq timeSubmitted
           /\ Agrees(queryArray[i]) /\ ~ Agrees(queryArray[i + 1])
           /\ queryArray[i] \in Times /\ queryArray[i + 1] \in Times
           /\ queryArray[i] < queryArray[i + 1]
    BY <2>1, PursuitIsSound DEF GInv
  <2>3. CASE queryArray[i + 1] - queryArray[i] > 1
    <3>1. /\ tx.call = "makeQuery"
          /\ tx.piece = i
          /\ tx.left = queryArray[i]
          /\ tx.right = queryArray[i + 1]
      BY <2>2, <2>3 DEF Pursue, QueryTx
    <3>2. i \in 0..MaxQuerySize
      BY <2>1 DEF GInv, IInv, TypeOK, SettingsInv, Open, Last
    <3> QED BY <2>1, <2>2, <3>1, <3>2
  <2>4. CASE ~ (queryArray[i + 1] - queryArray[i] > 1)
    <3>1. tx.call = "presentDivergence" /\ tx.time = queryArray[i]
      BY <2>2, <2>4 DEF Pursue, DivergenceTx
    <3>2. queryArray[i + 1] = queryArray[i] + 1
      BY <2>2, <2>4 DEF Times
    <3> QED BY <2>1, <2>2, <3>1, <3>2 DEF Divergence
  <2> QED BY <2>3, <2>4
<1> QED BY <1>1, <1>2, <1>3 DEF ToMove

-----------------------------------------------------------------------------
LEMMA SentStep ==
  ASSUME GInv, [GameNext]_gameVars
  PROVE  SentInv' /\ PendingIsSound'
<1>1. IInv /\ PartiesInv /\ SentInv /\ PendingIsSound /\ [Next]_vars
  BY GameStepIsStep DEF GInv
<1>2. ASSUME NEW tx \in sent', tx \notin sent
      PROVE  \E party \in Honest : React(party) /\ tx \in Reaction(party)
  BY <1>2, GameCases DEF React, Dispute, Wait, gameVars
<1>3. CASE ~ instantiated
  <2>1. sent' = {}
    BY <1>1, <1>2, <1>3, GameCases DEF React, Dispute, Wait, gameVars, PartiesInv
  <2> QED BY <2>1 DEF SentInv, PendingIsSound
<1>4. CASE instantiated
  <2>1. Last' = Last
    BY <1>1, <1>4, SettingsStep DEF Last, settings
  <2>2. ASSUME NEW tx \in sent'
        PROVE  /\ \/ /\ tx.call = "replyQuery"
                     /\ Claimer \in Honest
                     /\ tx.times \in [0..Last -> Times]
                     /\ tx.hashes \in [0..Last -> Hash]
                     /\ \A i \in 0..Last : tx.hashes[i] = Trace[tx.times[i]]
                  \/ /\ tx.call = "makeQuery"
                     /\ Challenger \in Honest
                     /\ tx.piece \in 0..MaxQuerySize
                     /\ {tx.left, tx.right} \subseteq Times
                  \/ /\ tx.call = "presentDivergence"
                     /\ Challenger \in Honest
                     /\ tx.time \in Times
                  \/ tx.call = "claimVictoryByTime" /\ tx.party \in Honest
               /\ Challenger \in Honest =>
                    /\ tx.call = "makeQuery" => /\ {tx.left, tx.right} \subseteq timeSubmitted
                                                /\ Agrees(tx.left) /\ ~ Agrees(tx.right)
                    /\ tx.call = "presentDivergence" => Divergence(tx.time)
    <3>1. CASE tx \in sent
      BY <1>1, <3>1 DEF SentInv, PendingIsSound
    <3>2. CASE tx \notin sent
      <4>1. PICK party \in Honest : tx \in Reaction(party)
        BY <1>2, <3>2
      <4> QED BY <1>4, <4>1, ReactionIsSound
    <3> QED BY <3>1, <3>2
  <2>3. SentInv'
    BY <2>1, <2>2 DEF SentInv
  <2>4. PendingIsSound'
    <3> SUFFICES ASSUME Challenger \in Honest, NEW tx \in sent'
                 PROVE  /\ tx.call = "makeQuery" =>
                             /\ {tx.left, tx.right} \subseteq timeSubmitted'
                             /\ Agrees(tx.left)' /\ ~ Agrees(tx.right)'
                        /\ tx.call = "presentDivergence" => Divergence(tx.time)'
      BY DEF PendingIsSound
    <3>1. ASSUME tx.call = "makeQuery"
          PROVE  /\ {tx.left, tx.right} \subseteq timeSubmitted'
                 /\ Agrees(tx.left)' /\ ~ Agrees(tx.right)'
      <4>1. tx.left \in timeSubmitted /\ tx.right \in timeSubmitted
            /\ Agrees(tx.left) /\ ~ Agrees(tx.right)
        BY <2>2, <3>1
      <4>2. /\ tx.left \in timeSubmitted' /\ tx.right \in timeSubmitted'
            /\ timeHash'[tx.left] = timeHash[tx.left]
            /\ timeHash'[tx.right] = timeHash[tx.right]
        BY <1>1, <4>1, SignedStep DEF vars, signed
      <4> QED BY <4>1, <4>2 DEF Agrees
    <3>2. ASSUME tx.call = "presentDivergence"
          PROVE  Divergence(tx.time)'
      <4>1. Divergence(tx.time)
        BY <2>2, <3>2
      <4>2. /\ tx.time \in timeSubmitted' /\ tx.time + 1 \in timeSubmitted'
            /\ timeHash'[tx.time] = timeHash[tx.time]
            /\ timeHash'[tx.time + 1] = timeHash[tx.time + 1]
        BY <1>1, <4>1, SignedStep DEF vars, signed, Divergence
      <4> QED BY <4>1, <4>2 DEF Agrees, Divergence
    <3> QED BY <3>1, <3>2
  <2> QED BY <2>3, <2>4
<1> QED BY <1>3, <1>4

\* A dispute opens with the initial hash right and, with an honest challenger, the
\* final hash wrong; with an honest claimer both are right.
LEMMA DisputeOpens ==
  ASSUME GInv,
         NEW claimerFinalHash \in Hash, NEW final \in FinalTimes, NEW size \in QuerySizes,
         NEW duration \in RoundDurations, Dispute(claimerFinalHash, final, size, duration)
  PROVE  /\ currentState' = "WaitingHashes"
         /\ queryArray'[0] = 0 /\ queryArray'[Last'] = final
         /\ timeSubmitted' = {0, final}
         /\ timeHash'[0] = Trace[0]
         /\ Challenger \in Honest => timeHash'[final] # Trace[final]
         /\ Claimer \in Honest => timeHash'[final] = Trace[final]
<1>1. final \in Nat /\ final > 0 /\ size \in Nat /\ size > 2 /\ final \in Times /\ 0 \in Times
  BY DEF Dispute, Instantiate, Times
<1>2. queryArray' = Slice(size, 0, final) /\ querySize' = size
  BY DEF Dispute, Instantiate
<1>3. OrderedCut(queryArray', size, 0, final)
  BY <1>1, <1>2, SliceProgress
<1>4. timeHash' = [timeHash EXCEPT ![0] = Trace[0], ![final] = claimerFinalHash]
  BY DEF Dispute, Instantiate
<1>5. timeHash \in [Times -> Hash]
  BY DEF GInv, IInv, TypeOK
<1>6. timeHash'[0] = Trace[0] /\ timeHash'[final] = claimerFinalHash
  BY <1>1, <1>4, <1>5
<1>7. queryArray'[0] = 0 /\ queryArray'[Last'] = final
  BY <1>2, <1>3 DEF OrderedCut, Last
<1> QED BY <1>6, <1>7 DEF Dispute, Instantiate

LEMMA DisputeIsSoundStep ==
  ASSUME GInv, [GameNext]_gameVars
  PROVE  DisputeIsSound'
<1> SUFFICES ASSUME Challenger \in Honest, Open'
             PROVE  Agrees(queryArray[0])' /\ ~ Agrees(queryArray[Last])'
  BY DEF DisputeIsSound
<1>1. IInv /\ [Next]_vars /\ PartiesInv
  BY GameStepIsStep DEF GInv
<1>2. CASE \E claimerFinalHash \in Hash, final \in FinalTimes, size \in QuerySizes,
              duration \in RoundDurations :
             Dispute(claimerFinalHash, final, size, duration)
  BY <1>2, DisputeOpens DEF Agrees
<1>3. ASSUME Open, UNCHANGED <<queryArray, querySize>>
      PROVE  Agrees(queryArray[0])' /\ ~ Agrees(queryArray[Last])'
  <2>1. /\ queryArray[0] \in timeSubmitted /\ queryArray[Last] \in timeSubmitted
        /\ Agrees(queryArray[0]) /\ ~ Agrees(queryArray[Last])
    BY <1>1, <1>3 DEF IInv, QueryIsSigned, GInv, DisputeIsSound
  <2>2. /\ timeHash'[queryArray[0]] = timeHash[queryArray[0]]
        /\ timeHash'[queryArray[Last]] = timeHash[queryArray[Last]]
    BY <1>1, <2>1, SignedStep DEF vars, signed
  <2> QED BY <1>3, <2>1, <2>2 DEF Agrees, Last
<1>4. ASSUME NEW hashes \in [0..Last -> Hash], ReplyQuery(Claimer, queryArray, hashes)
      PROVE  Agrees(queryArray[0])' /\ ~ Agrees(queryArray[Last])'
  <2>1. Open /\ UNCHANGED <<queryArray, querySize>>
    BY <1>4 DEF ReplyQuery, Open, settings
  <2> QED BY <1>3, <2>1
<1>5. ASSUME NEW piece \in 0..MaxQuerySize, NEW left \in Times, NEW right \in Times,
             MakeQuery(Challenger, piece, left, right), Agrees(left), ~ Agrees(right)
      PROVE  Agrees(queryArray[0])' /\ ~ Agrees(queryArray[Last])'
  <2>1. piece \in Nat
    OBVIOUS
  <2>2. left = queryArray'[0] /\ right = queryArray'[Last]
    BY <1>1, <1>5, <2>1, MakeQueryInv
  <2>3. timeHash' = timeHash /\ Last' = Last
    BY <1>5 DEF MakeQuery, settings, signed, Last
  <2> QED BY <1>5, <2>2, <2>3 DEF Agrees
<1>6. ASSUME NEW party, ClaimVictoryByTime(party)
      PROVE  FALSE
  BY <1>6 DEF ClaimVictoryByTime, Open
<1>7. ASSUME NEW time, PresentDivergence(Challenger, time)
      PROVE  FALSE
  BY <1>7 DEF PresentDivergence, Open
<1>8. CASE Transaction
  BY <1>4, <1>5, <1>6, <1>7, <1>8 DEF Transaction
<1>9. CASE UNCHANGED vars
  BY <1>3, <1>9 DEF vars, settings, Open
<1>10. CASE Wait
  BY <1>3, <1>10 DEF Wait, Tick, settings, Open
<1> QED BY <1>2, <1>8, <1>9, <1>10, GameCases DEF React, gameVars

LEMMA DivergenceIsRealStep ==
  ASSUME GInv, [GameNext]_gameVars
  PROVE  DivergenceIsReal'
<1> SUFFICES ASSUME Challenger \in Honest, currentState' = "DivergenceFound"
             PROVE  Divergence(divergenceTime)'
  BY DEF DivergenceIsReal
<1>1. IInv /\ [Next]_vars /\ DivergenceIsReal
  BY GameStepIsStep DEF GInv
<1>2. ASSUME Divergence(divergenceTime'), UNCHANGED signed
      PROVE  Divergence(divergenceTime)'
  BY <1>2 DEF Divergence, Agrees, signed
<1>3. ASSUME NEW time \in Times, PresentDivergence(Challenger, time), Divergence(time)
      PROVE  Divergence(divergenceTime)'
  BY <1>2, <1>3 DEF PresentDivergence
<1>4. ASSUME UNCHANGED <<currentState, divergenceTime, signed>>
      PROVE  Divergence(divergenceTime)'
  BY <1>1, <1>2, <1>4 DEF DivergenceIsReal
<1>5. CASE Transaction
  BY <1>3, <1>5 DEF Transaction, ReplyQuery, MakeQuery, ClaimVictoryByTime
<1> QED BY <1>4, <1>5, GameCases DEF React, Dispute, Instantiate, Wait, Tick, gameVars, vars

LEMMA ClaimerSignsStep ==
  ASSUME GInv, [GameNext]_gameVars
  PROVE  ClaimerSignsOnlyTrueHashes'
<1> SUFFICES ASSUME Claimer \in Honest, NEW t \in timeSubmitted'
             PROVE  timeHash'[t] = Trace[t]
  BY DEF ClaimerSignsOnlyTrueHashes, Agrees
<1>1. IInv /\ ClaimerSignsOnlyTrueHashes
  BY DEF GInv
<1>2. CASE \E claimerFinalHash \in Hash, final \in FinalTimes, size \in QuerySizes,
              duration \in RoundDurations :
             Dispute(claimerFinalHash, final, size, duration)
  BY <1>2, DisputeOpens
<1>3. CASE UNCHANGED signed
  BY <1>1, <1>3 DEF ClaimerSignsOnlyTrueHashes, Agrees, signed
<1>4. ASSUME NEW hashes \in [0..Last -> Hash], ReplyQuery(Claimer, queryArray, hashes),
             \A i \in 0..Last : hashes[i] = Trace[queryArray[i]]
      PROVE  timeHash'[t] = Trace[t]
  <2>1. /\ Last \in Nat
        /\ DOMAIN queryArray = 0..Last
        /\ \A i \in 0..Last : queryArray[i] \in Times
    BY <1>1, <1>4 DEF IInv, TypeOK, SettingsInv, Last, ReplyQuery
  <2>2. CASE t \in NewTimes(queryArray)
    <3>1. \E i \in 0..Last : queryArray[i] = t
      BY <2>1, <2>2 DEF NewTimes
    <3>2. StoredAt(queryArray, t) \in 0..Last /\ queryArray[StoredAt(queryArray, t)] = t
      BY <2>1, <3>1, StoredIsPosted
    <3>3. t \in Times
      BY <2>1, <3>1
    <3> QED BY <1>4, <2>2, <3>2, <3>3 DEF ReplyQuery
  <2>3. CASE t \notin NewTimes(queryArray)
    <3>1. t \in timeSubmitted /\ t \in Times
      BY <1>1, <1>4, <2>3 DEF ReplyQuery, IInv, TypeOK
    <3>2. timeHash'[t] = timeHash[t]
      BY <1>4, <2>3, <3>1 DEF ReplyQuery
    <3> QED BY <1>1, <3>1, <3>2 DEF ClaimerSignsOnlyTrueHashes, Agrees
  <2> QED BY <2>2, <2>3
<1>5. CASE Transaction
  BY <1>3, <1>4, <1>5 DEF Transaction, MakeQuery, ClaimVictoryByTime, PresentDivergence
<1> QED BY <1>2, <1>3, <1>5, GameCases DEF React, Wait, Tick, gameVars, vars

-----------------------------------------------------------------------------
LEMMA WordIsNat ==
  ASSUME NEW x \in Int
  PROVE  Word(x) \in Nat
  BY DurationsAssumption DEF Word

\* A deadline that can be computed is a number of seconds, whatever wraps around.
LEMMA DurationIsNat ==
  ASSUME NEW round \in Nat, NEW size \in QuerySizes, NEW index \in Times, NEW cycles \in Nat,
         PartitionDivisor(size, index) # 0
  PROVE  RunDuration(round, size, index, cycles) \in Nat
<1> DEFINE divisor == PartitionDivisor(size, index)
           pieces == CurrentPartitionSize(size, index, cycles)
           runTime == Word(pieces * PicoSecondsToRunInsn) \div PicoSeconds
<1>1. divisor \in Nat /\ divisor # 0
  BY PowersAreNaturals, WordIsNat DEF PartitionDivisor
<1>2. cycles \div divisor \in Nat
  <2> HIDE DEF divisor
  <2> QED BY <1>1
<1>3. pieces \in Nat
  <2>1. (cycles \div divisor) * (size - 1) \in Int
    <3> HIDE DEF divisor
    <3>1. size - 1 \in Int
      OBVIOUS
    <3> QED BY <1>2, <3>1
  <2> QED BY <1>2, <2>1, WordIsNat DEF CurrentPartitionSize
<1>4. runTime \in Nat
  <2> HIDE DEF pieces
  <2>1. pieces * PicoSecondsToRunInsn \in Int
    BY <1>3, DurationsAssumption
  <2> DEFINE w == Word(pieces * PicoSecondsToRunInsn)
  <2>2. w \in Nat
    BY <2>1, WordIsNat
  <2> HIDE DEF w
  <2>3. w \div PicoSeconds \in Nat
    BY <2>2, DurationsAssumption
  <2> QED BY <2>3 DEF w
<1>5. RunDuration(round, size, index, cycles) = Word(TimeToStartMachine + runTime + round)
  BY DEF RunDuration
<1> HIDE DEF runTime
<1>6. TimeToStartMachine + runTime + round \in Int
  BY <1>4, DurationsAssumption
<1> QED BY <1>5, <1>6, WordIsNat

\* Where the sum does not overflow, a deadline has passed when the duration has.
LEMMA FittingDeadline ==
  ASSUME NEW duration \in Nat, DeadlineFits(duration), NEW elapsed \in Nat
  PROVE  Overdue(elapsed, duration) <=> elapsed > duration
<1>1. Word(TimeOfLastMove + duration) = TimeOfLastMove + duration
  BY DurationsAssumption DEF Word, DeadlineFits
<1> QED BY <1>1, DurationsAssumption DEF Overdue, Deadline

\* So it is in the disputes of the game.
LEMMA PartyHasItsDuration ==
  ASSUME NEW cycles \in FinalTimes, NEW size \in QuerySizes, NEW round \in RoundDurations,
         NEW index \in 0..cycles, PartitionDivisor(size, index) # 0, NEW elapsed \in Nat,
         Overdue(elapsed, RunDuration(round, size, index, cycles))
  PROVE  elapsed > RunDuration(round, size, index, cycles)
<1>1. index \in Times /\ cycles \in Nat /\ round \in Nat
  BY DEF Times
<1>2. RunDuration(round, size, index, cycles) \in Nat
  BY <1>1, DurationIsNat
<1>3. DeadlineFits(RunDuration(round, size, index, cycles))
  BY DisputesFit DEF DeadlinesFit
<1> QED BY <1>2, <1>3, FittingDeadline

\* The clock restarts with every move: nobody is late at that moment.
LEMMA NobodyLateAtOnce ==
  ASSUME GInv, [GameNext]_gameVars, sinceLastMove' = 0
  PROVE  NotLate'
<1> SUFFICES ASSUME NEW party \in Honest, ToMove(party)', AfterDeadline' PROVE FALSE
  BY DEF NotLate
<1>1. IInv' /\ PartiesInv'
  BY NextInv, GameStepIsStep, PartiesStep DEF GInv
<1>2. Open'
  BY DEF ToMove
<1>3. /\ roundDuration' \in RoundDurations /\ querySize' \in QuerySizes
      /\ partitionGameIndex' \in 0..finalTime' /\ finalTime' \in FinalTimes
  BY <1>1, <1>2 DEF IInv, TypeOK, RoundsAreBounded, PartiesInv, Open, Times
<1>4. PartitionDivisor(querySize', partitionGameIndex') # 0
  BY DEF AfterDeadline
<1>5. RunDuration(roundDuration', querySize', partitionGameIndex', finalTime') \in Nat
  BY <1>3, <1>4, DurationIsNat DEF Times
<1>6. Overdue(0, RunDuration(roundDuration', querySize', partitionGameIndex', finalTime'))
  BY <1>2 DEF AfterDeadline, StateDuration, Open
<1>7. 0 > RunDuration(roundDuration', querySize', partitionGameIndex', finalTime')
  BY <1>3, <1>4, <1>6, PartyHasItsDuration
<1> QED BY <1>5, <1>7

LEMMA NotLateStep ==
  ASSUME GInv, [GameNext]_gameVars
  PROVE  NotLate'
<1>1. CASE sinceLastMove' = 0
  BY <1>1, NobodyLateAtOnce
<1>2. CASE UNCHANGED vars
  BY <1>2 DEF vars, settings, GInv, NotLate, ToMove, Open, AfterDeadline, StateDuration
<1>3. CASE Wait
  <2> SUFFICES ASSUME NEW party \in Honest, ToMove(party)', AfterDeadline' PROVE FALSE
    BY DEF NotLate
  <2>1. /\ sinceLastMove' = sinceLastMove + 1
        /\ UNCHANGED <<settings, partitionGameIndex, currentState>>
    BY <1>3 DEF Wait, Tick
  <2>2. ToMove(party) /\ Open
    BY <2>1 DEF ToMove, Open, settings
  <2>3. sinceLastMove < StateDuration /\ StateDuration' = StateDuration
    BY <1>3, <2>1, <2>2 DEF Wait, StateDuration, settings
  <2>4. PartitionDivisor(querySize, partitionGameIndex) # 0
    BY <2>1 DEF AfterDeadline, settings
  <2>5. /\ roundDuration \in RoundDurations /\ querySize \in QuerySizes
        /\ partitionGameIndex \in 0..finalTime /\ finalTime \in FinalTimes
        /\ sinceLastMove \in Nat
    BY <2>2 DEF GInv, IInv, TypeOK, RoundsAreBounded, PartiesInv, Open, Times
  <2>6. StateDuration = RunDuration(roundDuration, querySize, partitionGameIndex, finalTime)
    BY <2>2 DEF StateDuration, Open
  <2>7. StateDuration \in Nat
    BY <2>4, <2>5, <2>6, DurationIsNat DEF Times
  <2>8. Overdue(sinceLastMove + 1, StateDuration)
    BY <2>1, <2>3 DEF AfterDeadline
  <2>9. sinceLastMove + 1 > StateDuration
    BY <2>4, <2>5, <2>6, <2>8, PartyHasItsDuration
  <2> QED BY <2>3, <2>5, <2>7, <2>9
<1>4. CASE ~ Open'
  BY <1>4 DEF NotLate, ToMove
<1>5. CASE Transaction
  BY <1>1, <1>4, <1>5
     DEF Transaction, ReplyQuery, MakeQuery, ClaimVictoryByTime, PresentDivergence, Open
<1> QED BY <1>1, <1>2, <1>3, <1>5, GameCases DEF React, Dispute, Instantiate, gameVars

LEMMA TimeoutStep ==
  ASSUME GInv, [GameNext]_gameVars
  PROVE  HonestPartyIsNeverTimedOut'
<1>1. PartiesInv /\ NotLate /\ HonestPartyIsNeverTimedOut
  BY DEF GInv
<1>2. CASE currentState' = currentState
  BY <1>1, <1>2 DEF HonestPartyIsNeverTimedOut
<1>3. ASSUME NEW party \in {Challenger, Claimer}, ClaimVictoryByTime(party)
      PROVE  HonestPartyIsNeverTimedOut'
  BY <1>1, <1>3
     DEF ClaimVictoryByTime, PartiesInv, NotLate, ToMove, Open, HonestPartyIsNeverTimedOut
<1>4. CASE currentState' \in {"WaitingQuery", "WaitingHashes", "DivergenceFound"}
  BY <1>4 DEF HonestPartyIsNeverTimedOut
<1>5. CASE Transaction
  BY <1>3, <1>4, <1>5 DEF Transaction, ReplyQuery, MakeQuery, PresentDivergence
<1> QED BY <1>2, <1>4, <1>5, GameCases
        DEF React, Dispute, Instantiate, Wait, Tick, gameVars, vars

-----------------------------------------------------------------------------
LEMMA PendingIsCurrentStep ==
  ASSUME GInv, [GameNext]_gameVars
  PROVE  PendingIsCurrent'
<1>1. /\ IInv /\ PartiesInv /\ SentInv /\ DisputeIsSound /\ PendingIsCurrent /\ NotLate
      /\ [Next]_vars /\ Challenger # Claimer
  BY GameStepIsStep DEF GInv
<1>2. CASE ~ instantiated
  <2>1. sent' = {}
    BY <1>1, <1>2, GameCases
       DEF React, Dispute, Wait, Tick, gameVars, PartiesInv, Transaction, ReplyQuery, MakeQuery,
           ClaimVictoryByTime, PresentDivergence
  <2> QED BY <2>1 DEF PendingIsCurrent
<1>3. CASE UNCHANGED vars
  <2> SUFFICES ASSUME Challenger \in Honest, NEW tx \in sent', tx \notin sent,
                      tx.call \in {"makeQuery", "presentDivergence"}
               PROVE  Open /\ currentState = "WaitingQuery" /\ tx \in Move(Challenger)
    BY <1>1, <1>3 DEF PendingIsCurrent, vars, settings, signed, Open, Last, Move, Disagreements,
                      Pursue, QueryTx, DivergenceTx, Answer, ReplyTx
  <2>1. PICK party \in Honest : tx \in Reaction(party)
    BY GameCases DEF React, Dispute, Wait, gameVars
  <2>2. ToMove(party)
    BY <2>1 DEF Reaction, WinByDeadlineOrIdle, TimeoutTx
  <2>3. party = Challenger
    BY <2>1, <2>2 DEF Reaction, ToMove, Move, Answer, ReplyTx
  <2> QED BY <1>1, <2>1, <2>2, <2>3 DEF Reaction, ToMove
<1>4. CASE Wait
  BY <1>1, <1>4
     DEF PendingIsCurrent, Wait, Tick, settings, signed, Open, Last, Move, Disagreements, Pursue,
         QueryTx, DivergenceTx
<1>5. ASSUME NEW hashes \in [0..Last -> Hash], ReplyQuery(Claimer, queryArray, hashes),
             UNCHANGED sent
      PROVE  PendingIsCurrent'
  <2> SUFFICES ASSUME Challenger \in Honest, NEW tx \in sent
               PROVE  /\ tx.call # "presentDivergence"
                      /\ tx.call = "makeQuery" =>
                           tx.left <= queryArray[0] /\ queryArray[Last] <= tx.right
    BY <1>5 DEF PendingIsCurrent, ReplyQuery, settings, Last
  <2> QED BY <1>1, <1>5 DEF PendingIsCurrent, ReplyQuery, Open
<1>6. ASSUME NEW piece \in 0..MaxQuerySize, NEW left \in Times, NEW right \in Times,
             MakeQuery(Challenger, piece, left, right), Challenger \in Honest,
             NEW sentTx \in sent, sentTx.call = "makeQuery",
             sentTx.left = left, sentTx.right = right,
             UNCHANGED sent
      PROVE  PendingIsCurrent'
  <2>1. /\ Open /\ currentState = "WaitingQuery"
        /\ queryArray[0] <= left /\ left = queryArray'[0]
        /\ right <= queryArray[Last] /\ right = queryArray'[Last']
        /\ right - left < queryArray[Last] - queryArray[0]
    <3>1. piece \in Nat
      OBVIOUS
    <3>2. Last' = Last /\ currentState = "WaitingQuery"
      BY <1>6 DEF MakeQuery, settings, Last
    <3> QED BY <1>1, <1>6, <3>1, <3>2, MakeQueryInv DEF IntervalLength
  <2>2. /\ left \in Nat /\ right \in Nat
        /\ queryArray[0] \in Nat /\ queryArray[Last] \in Nat
    BY <1>1, <2>1 DEF Times, IInv, TypeOK, SettingsInv, Last, Open
  <2>3. sentTx \in Move(Challenger)
    BY <1>1, <1>6, <2>1, <2>2 DEF PendingIsCurrent
  <2> SUFFICES ASSUME NEW tx \in sent
               PROVE  /\ tx.call # "presentDivergence"
                      /\ tx.call = "makeQuery" =>
                           tx.left <= queryArray'[0] /\ queryArray'[Last'] <= tx.right
    BY <1>6 DEF PendingIsCurrent
  <2>4. tx \in Move(Challenger) => tx = sentTx
    BY <1>1, <2>3 DEF Move
  <2>5. tx.call # "presentDivergence"
    BY <1>1, <1>6, <2>1, <2>4 DEF PendingIsCurrent
  <2>6. ASSUME tx.call = "makeQuery"
        PROVE  tx.left <= queryArray'[0] /\ queryArray'[Last'] <= tx.right
    <3>1. CASE tx \in Move(Challenger)
      BY <1>6, <2>1, <2>2, <2>4, <3>1
    <3>2. CASE tx \notin Move(Challenger)
      <4>1. tx.left <= queryArray[0] /\ queryArray[Last] <= tx.right
        BY <1>1, <1>6, <2>1, <2>6, <3>2 DEF PendingIsCurrent
      <4>2. tx.left \in Nat /\ tx.right \in Nat
        BY <1>1, <2>6 DEF SentInv, Times
      <4> QED BY <2>1, <2>2, <4>1, <4>2
    <3> QED BY <3>1, <3>2
  <2> QED BY <2>5, <2>6
<1>7. ASSUME NEW party \in {Challenger, Claimer}, ClaimVictoryByTime(party), UNCHANGED sent
      PROVE  PendingIsCurrent'
  <2> SUFFICES ASSUME Challenger \in Honest, NEW tx \in sent
               PROVE  tx.call # "presentDivergence"
    BY <1>7 DEF PendingIsCurrent, ClaimVictoryByTime, Open
  <2>1. currentState = "WaitingHashes"
    BY <1>1, <1>7 DEF ClaimVictoryByTime, PartiesInv, NotLate, ToMove, Open
  <2> QED BY <1>1, <2>1 DEF PendingIsCurrent
<1>8. ASSUME NEW time \in Times, PresentDivergence(Challenger, time), Challenger \in Honest,
             NEW sentTx \in sent, sentTx.call = "presentDivergence", sentTx.time = time,
             UNCHANGED sent
      PROVE  PendingIsCurrent'
  <2> SUFFICES ASSUME NEW tx \in sent, tx.call = "presentDivergence"
               PROVE  tx.time = time
    BY <1>8 DEF PendingIsCurrent, PresentDivergence, Open
  <2>1. CASE Open /\ currentState = "WaitingQuery"
    <3>1. tx \in Move(Challenger) /\ sentTx \in Move(Challenger)
      BY <1>1, <1>8, <2>1 DEF PendingIsCurrent
    <3>2. tx = sentTx
      BY <1>1, <3>1 DEF Move
    <3> QED BY <1>8, <3>2
  <2>2. CASE ~ (Open /\ currentState = "WaitingQuery")
    BY <1>1, <1>8, <2>2 DEF PendingIsCurrent
  <2> QED BY <2>1, <2>2
<1>9. CASE Transaction /\ UNCHANGED sent
  <2>1. CASE Challenger \notin Honest
    BY <2>1 DEF PendingIsCurrent
  <2>2. CASE Challenger \in Honest
    BY <1>5, <1>6, <1>7, <1>8, <1>9, <2>2 DEF Transaction
  <2> QED BY <2>1, <2>2
<1>10. CASE instantiated
  BY <1>3, <1>4, <1>9, <1>10, GameCases DEF React, Dispute, Instantiate, gameVars
<1> QED BY <1>2, <1>10

LEMMA GInvStep == GInv /\ [GameNext]_gameVars => GInv'
<1> SUFFICES ASSUME GInv, [GameNext]_gameVars PROVE GInv'
  OBVIOUS
<1>1. IInv'
  BY NextInv, GameStepIsStep DEF GInv
<1> QED BY <1>1, PartiesStep, SentStep, DisputeIsSoundStep, PendingIsCurrentStep,
           DivergenceIsRealStep, ClaimerSignsStep, NotLateStep, TimeoutStep DEF GInv

LEMMA GameInvariance == GameSafety => []GInv
  BY GameInitIsGInv, GInvStep, PTL DEF GameSafety

-----------------------------------------------------------------------------
\* Whatever a dishonest claimer posts, an honest challenger agrees with the left end
\* and disagrees with the right end of the interval under dispute.
THEOREM ChallengerKeepsDispute == GameSafety => []DisputeIsSound
<1>1. GInv => DisputeIsSound
  BY DEF GInv
<1> QED BY <1>1, GameInvariance, PTL

\* A makeQuery or presentDivergence of an honest challenger is right whenever it lands.
THEOREM PendingStaysSound == GameSafety => []PendingIsSound
<1>1. GInv => PendingIsSound
  BY DEF GInv
<1> QED BY <1>1, GameInvariance, PTL

\* A late or repeated transaction of an honest challenger is refused or is what it
\* would send now.
THEOREM PendingStaysCurrent == GameSafety => []PendingIsCurrent
<1>1. GInv => PendingIsCurrent
  BY DEF GInv
<1> QED BY <1>1, GameInvariance, PTL

\* The step that the verification game replays is one the claimer got wrong.
THEOREM DivergencesAreReal == GameSafety => []DivergenceIsReal
<1>1. GInv => DivergenceIsReal
  BY DEF GInv
<1> QED BY <1>1, GameInvariance, PTL

\* The agent of an honest challenger always finds a piece to pursue.
THEOREM ChallengerAlwaysMoves == GameSafety => []ChallengerIsNeverStuck
<1>1. GInv => ChallengerIsNeverStuck
  BY LastPieceDisagrees DEF GInv, ChallengerIsNeverStuck
<1> QED BY <1>1, GameInvariance, PTL

\* Only true hashes are stored under the name of an honest claimer.
THEOREM HonestClaimerSignsTruth == GameSafety => []ClaimerSignsOnlyTrueHashes
<1>1. GInv => ClaimerSignsOnlyTrueHashes
  BY DEF GInv
<1> QED BY <1>1, GameInvariance, PTL

\* An honest party whose transactions are executed within its deadlines never loses by
\* timeout, even when the computation of the deadline wraps around.
THEOREM HonestPartyNotTimedOut == GameSafety => []HonestPartyIsNeverTimedOut
<1>1. GInv => HonestPartyIsNeverTimedOut
  BY DEF GInv
<1> QED BY <1>1, GameInvariance, PTL

\* The agents only use the contract: what is proved of every user of a partition in
\* PartitionProofs holds in the game.
THEOREM GameImplementsPartition == GameSafety => Spec
<1>1. GameInit => Init
  BY DEF GameInit
<1>2. GInv /\ [GameNext]_gameVars => [Next]_vars
  BY GameStepIsStep
<1> QED BY <1>1, <1>2, GameInvariance, PTL DEF GameSafety, Spec

\* With an honest challenger an instance that is closed stays as it is, although the
\* contract accepts presentDivergence in every state.
THEOREM OutcomesAreFinal == GameSafety => OutcomeIsFinal
<1>1. GInv /\ [GameNext]_gameVars =>
        [instantiated /\ ~ Open /\ Challenger \in Honest =>
           UNCHANGED <<currentState, divergenceTime>>]_gameVars
  <2> SUFFICES ASSUME GInv, [GameNext]_gameVars,
                      instantiated, ~ Open, Challenger \in Honest
               PROVE  UNCHANGED <<currentState, divergenceTime>>
    OBVIOUS
  <2>1. ASSUME NEW time, PresentDivergence(Challenger, time),
               NEW tx \in sent, tx.call = "presentDivergence", tx.time = time
        PROVE  UNCHANGED <<currentState, divergenceTime>>
    BY <2>1 DEF GInv, PendingIsCurrent, PresentDivergence
  <2>2. CASE Transaction
    BY <2>1, <2>2 DEF Transaction, Open, ReplyQuery, MakeQuery, ClaimVictoryByTime
  <2> QED BY <2>2, GameCases DEF React, Dispute, Instantiate, Wait, Tick, gameVars, vars
<1> QED BY <1>1, GameInvariance, PTL DEF GameSafety, OutcomeIsFinal
=============================================================================
