---------------------------- MODULE PartitionGame ----------------------------
(***************************************************************************)
(* A partition instance with the agents that play it off chain. An honest  *)
(* party runs Partition::react of compute/src/partition.rs: it reads the   *)
(* instance, computes the hashes it needs with its own emulator and sends  *)
(* one transaction. Every other address sends whatever it likes.           *)
(*                                                                         *)
(* Between react and the chain a transaction may be delayed, and since the *)
(* dispatcher reacts again to a state it has already answered, it may      *)
(* arrive more than once: sent keeps every transaction an agent ever sent, *)
(* and the chain may execute any of them at any time, any number of times. *)
(***************************************************************************)
EXTENDS Partition

CONSTANTS Challenger, Claimer, \* the parties of the dispute
          Honest,              \* those of the two that run the agent
          Trace                \* Trace[t]: hash of the machine after t cycles

ASSUME GameAssumption ==
  /\ {Challenger, Claimer} \subseteq Users
  /\ Challenger # Claimer
  /\ Honest \subseteq {Challenger, Claimer}
  /\ Trace \in [Times -> Hash]

\* The disputes of this module are those whose deadlines do not overflow. With one that
\* does, claimVictoryByTime succeeds at once and no party can be prompt enough.
ASSUME DisputesFit ==
  \A final \in FinalTimes, size \in QuerySizes, duration \in RoundDurations :
    DeadlinesFit(duration, size, final)

VARIABLE sent  \* the transactions of honest agents

gameVars == <<vars, sent>>

-----------------------------------------------------------------------------
\* The transactions an agent builds.
ReplyTx(times, hashes)     == [call |-> "replyQuery", times |-> times, hashes |-> hashes]
QueryTx(piece, left, right) ==
  [call |-> "makeQuery", piece |-> piece, left |-> left, right |-> right]
DivergenceTx(time)         == [call |-> "presentDivergence", time |-> time]
TimeoutTx(party)           == [call |-> "claimVictoryByTime", party |-> party]

\* win_by_deadline_or_idle: the agent waits until its own clock is past the deadline.
WinByDeadlineOrIdle(party) ==
  IF Overdue(sinceLastMove, StateDuration) THEN {TimeoutTx(party)} ELSE {}

\* The pieces whose right end carries a hash that the challenger's emulator denies.
Disagreements == {i \in 0..(Last - 1) : timeHash[queryArray[i + 1]] # Trace[queryArray[i + 1]]}

\* The loop of the challenger stops at the first of them.
FirstDisagreement(pieces) == CHOOSE i \in pieces : \A j \in pieces : i <= j

\* Another partition, or the divergence when the piece is one cycle long.
Pursue(i) ==
  IF queryArray[i + 1] - queryArray[i] > 1
  THEN QueryTx(i, queryArray[i], queryArray[i + 1])
  ELSE DivergenceTx(queryArray[i])

\* The claimer answers with the hashes of its emulator.
Answer == ReplyTx(queryArray, [i \in 0..Last |-> Trace[queryArray[i]]])

\* The party whose move the instance waits for.
ToMove(party) ==
  \/ party = Claimer /\ Open /\ currentState = "WaitingHashes"
  \/ party = Challenger /\ Open /\ currentState = "WaitingQuery"

\* The move of the agent. A challenger without a disagreement has none: "bug found:
\* no disagreement in dispute".
Move(party) ==
  IF party = Claimer
  THEN {Answer}
  ELSE {Pursue(FirstDisagreement(D)) : D \in {Disagreements} \ {{}}}

\* Partition::react: the transaction it sends, if any.
Reaction(party) ==
  IF ~ Open THEN {}
  ELSE IF ToMove(party) THEN Move(party)
  ELSE WinByDeadlineOrIdle(party)

-----------------------------------------------------------------------------
\* VGInstantiator.instantiate opens the partition. Both parties know the initial
\* hash. An honest challenger disputes only a wrong final hash (compute.rs compares
\* it with its own), an honest claimer claimed the right one.
Dispute(claimerFinalHash, final, size, duration) ==
  /\ Challenger \in Honest => claimerFinalHash # Trace[final]
  /\ Claimer \in Honest => claimerFinalHash = Trace[final]
  /\ Instantiate(Challenger, Claimer, Trace[0], claimerFinalHash, final, size, duration)
  /\ UNCHANGED sent

\* An honest agent looks at the instance and sends a transaction.
React(party) ==
  /\ instantiated
  /\ sent' = sent \union Reaction(party)
  /\ UNCHANGED vars

\* The chain executes a transaction of an honest agent, first sent now or long ago.
Land(tx) ==
  /\ \/ /\ tx.call = "replyQuery"
        /\ ReplyQuery(Claimer, tx.times, tx.hashes)
     \/ /\ tx.call = "makeQuery"
        /\ MakeQuery(Challenger, tx.piece, tx.left, tx.right)
     \/ /\ tx.call = "presentDivergence"
        /\ PresentDivergence(Challenger, tx.time)
     \/ /\ tx.call = "claimVictoryByTime"
        /\ ClaimVictoryByTime(tx.party)
  /\ UNCHANGED sent

\* Anybody who does not run the agent sends anything.
Adversary(sender) ==
  /\ \/ \E postedHashes \in [0..(querySize - 1) -> Hash] :
          ReplyQuery(sender, queryArray, postedHashes)
     \/ \E queryPiece \in 0..MaxQuerySize, leftPoint, rightPoint \in Times :
          MakeQuery(sender, queryPiece, leftPoint, rightPoint)
     \/ ClaimVictoryByTime(sender)
     \/ \E time \in Times : PresentDivergence(sender, time)
  /\ UNCHANGED sent

\* Time passes. roundDuration is "the max time an agent has to react and submit one
\* simple transaction" and the deadline adds the time of the emulator to it: a
\* transaction of an honest agent is executed before its deadline has passed.
Wait ==
  /\ \A party \in Honest : ToMove(party) => sinceLastMove < StateDuration
  /\ Tick
  /\ UNCHANGED sent

GameInit == Init /\ sent = {}

GameNext ==
  \/ \E claimerFinalHash \in Hash, final \in FinalTimes, size \in QuerySizes,
        duration \in RoundDurations :
       Dispute(claimerFinalHash, final, size, duration)
  \/ \E party \in Honest : React(party)
  \/ \E tx \in sent : Land(tx)
  \/ \E sender \in Users \ Honest : Adversary(sender)
  \/ Wait

\* The clock runs, agents keep looking at the instance, and the chain executes what
\* they send. Nothing is assumed of anybody else.
Fairness ==
  /\ WF_gameVars(Wait)
  /\ \A party \in Honest : WF_gameVars(React(party))
  /\ WF_gameVars(\E tx \in sent : Land(tx))

GameSafety == GameInit /\ [][GameNext]_gameVars
GameSpec   == GameSafety /\ Fairness

-----------------------------------------------------------------------------
\* The signed hash agrees with the emulator.
Agrees(t) == timeHash[t] = Trace[t]

\* A divergence: a signed cycle where the claimer is right, before one where it is wrong.
Divergence(t) == {t, t + 1} \subseteq timeSubmitted /\ Agrees(t) /\ ~ Agrees(t + 1)

\* As long as the instance is open, an honest challenger agrees with the left end of
\* the interval under dispute and disagrees with the right end (makeQuery: "Should be
\* an aggreement point", "Should be a disagreement point"; the contract checks neither).
DisputeIsSound ==
  Challenger \in Honest /\ Open => Agrees(queryArray[0]) /\ ~ Agrees(queryArray[Last])

\* What an honest challenger has sent stays right however late it is executed.
PendingIsSound ==
  Challenger \in Honest =>
    \A tx \in sent :
      /\ tx.call = "makeQuery" => /\ {tx.left, tx.right} \subseteq timeSubmitted
                                  /\ Agrees(tx.left) /\ ~ Agrees(tx.right)
      /\ tx.call = "presentDivergence" => Divergence(tx.time)

\* And it is never executed out of its turn: a makeQuery still pending either is what
\* the agent would send now or asks for an interval the dispute has already been
\* narrowed to, which the contract refuses; a presentDivergence is what the agent would
\* send now or what the instance ended with.
PendingIsCurrent ==
  Challenger \in Honest =>
    \A tx \in sent :
      /\ tx.call = "makeQuery" /\ Open =>
           \/ tx.left <= queryArray[0] /\ queryArray[Last] <= tx.right
           \/ currentState = "WaitingQuery" /\ tx \in Move(Challenger)
      /\ tx.call = "presentDivergence" =>
           \/ Open /\ currentState = "WaitingQuery" /\ tx \in Move(Challenger)
           \/ currentState = "DivergenceFound" /\ divergenceTime = tx.time

\* The divergence an honest challenger ends with is one: this is what
\* startMachineRunChallenge takes as hashBeforeDivergence and hashAfterDivergence.
DivergenceIsReal ==
  Challenger \in Honest /\ currentState = "DivergenceFound" => Divergence(divergenceTime)

\* The challenger of partition.rs never reaches "no disagreement in dispute".
ChallengerIsNeverStuck ==
  Challenger \in Honest /\ Open /\ currentState = "WaitingQuery" => Disagreements # {}

\* Nothing that anybody sends puts a wrong hash in the name of an honest claimer.
ClaimerSignsOnlyTrueHashes == Claimer \in Honest => \A t \in timeSubmitted : Agrees(t)

\* A party that runs the agent, and whose transactions are executed in time, does not
\* lose by timeout.
HonestPartyIsNeverTimedOut ==
  /\ Challenger \in Honest => currentState # "ClaimerWon"
  /\ Claimer \in Honest => currentState # "ChallengerWon"

\* With an honest challenger the final states of the contract's diagram are final, late
\* and repeated presentDivergence transactions included.
OutcomeIsFinal ==
  [][instantiated /\ ~ Open /\ Challenger \in Honest =>
       UNCHANGED <<currentState, divergenceTime>>]_gameVars

\* The refinement mapping: the claims are the signed hashes, the interval searched is
\* that of the query, and ChallengerWon is the claimer giving up. An honest challenger
\* has no way to give up, so ClaimerWon has no counterpart.
Search ==
  INSTANCE Bisection WITH
    claims <- [t \in timeSubmitted |-> timeHash[t]],
    lo     <- IF instantiated THEN queryArray[0] ELSE 0,
    hi     <- IF instantiated THEN queryArray[Last] ELSE 0,
    status <- IF ~ instantiated THEN "idle"
              ELSE IF Open THEN "searching"
              ELSE IF currentState = "DivergenceFound" THEN "found"
              ELSE IF currentState = "ChallengerWon" THEN "forfeited"
              ELSE "lost",
    divergence <- divergenceTime

\* With an honest challenger the contract and the agents, for all that a dishonest
\* claimer or anybody else sends, carry out the search of module Bisection.
RefinesBisection == Search!BisectionSpec

\* One honest party is enough for the dispute to end.
DisputeEnds == instantiated ~> (instantiated /\ ~ Open)
=============================================================================
