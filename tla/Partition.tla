------------------------------ MODULE Partition ------------------------------
(***************************************************************************)
(* One instance of PartitionInstantiator: the on-chain bisection that      *)
(* narrows a dispute over a computation of finalTime cycles down to one    *)
(* cycle. The claimer posts hashes of the machine at the queried times,    *)
(* the challenger picks the piece to look into next.                       *)
(*                                                                         *)
(* A transaction is an action; one whose require fails changes nothing and *)
(* is not a step. Anybody may send any transaction with any arguments.     *)
(* sinceLastMove stands for block.timestamp - timeOfLastMove: the contract *)
(* only compares the one with a sum that starts with the other. Instances  *)
(* do not share state, so one is enough. The nonce that the library keeps  *)
(* per instance is left out: no transaction reads it.                      *)
(***************************************************************************)
EXTENDS Durations, Slicing

CONSTANTS Users,            \* addresses that may send transactions
          NoUser,           \* the zero address, held by storage never written
          Hash,             \* machine hashes
          ZeroHash,         \* the zero word, held by storage never written
          MaxTime,          \* bound: largest machine cycle of any instance
          FinalTimes,       \* finalTime arguments of instantiate
          QuerySizes,       \* querySize arguments of instantiate
          RoundDurations,   \* roundDuration arguments of instantiate
          MaxQuerySize,     \* MAX_QUERY_SIZE, 20 in the code
          MinRoundDuration, \* 50 in the code
          MaxElapsed        \* bound: where the clock of an instance stops

Times == 0..MaxTime

ASSUME PartitionAssumption ==
  /\ NoUser \notin Users
  /\ ZeroHash \in Hash
  /\ MaxTime \in Nat
  /\ FinalTimes \subseteq Times
  /\ QuerySizes \subseteq Nat
  /\ RoundDurations \subseteq Nat
  /\ MaxQuerySize \in Nat
  /\ MinRoundDuration \in Nat
  /\ MaxElapsed \in Nat

\* Arithmetic the provers do not know: partitionGameIndex never passes finalTime.
ASSUME PowersAreNaturals == \A size \in QuerySizes, index \in Times : size ^ index \in Nat

VARIABLES instantiated,       \* currentIndex has gone past this instance
          active,             \* the flag of the library that deactivate clears
          challenger, claimer, finalTime, querySize, roundDuration,
          timeSubmitted,      \* the times marked as submitted
          timeHash,           \* the hash stored for each time
          queryArray,
          sinceLastMove,      \* block.timestamp - timeOfLastMove
          partitionGameIndex,
          currentState,
          divergenceTime

settings == <<instantiated, challenger, claimer, finalTime, querySize, roundDuration>>
signed   == <<timeSubmitted, timeHash>>
vars     == <<settings, signed, active, queryArray, sinceLastMove,
              partitionGameIndex, currentState, divergenceTime>>

States == {"WaitingQuery", "WaitingHashes", "ChallengerWon", "ClaimerWon", "DivergenceFound"}

\* Storage before instantiate: every word is zero, and the first state of the
\* enumeration is WaitingQuery.
Init ==
  /\ instantiated = FALSE
  /\ active = FALSE
  /\ challenger = NoUser
  /\ claimer = NoUser
  /\ finalTime = 0
  /\ querySize = 0
  /\ roundDuration = 0
  /\ timeSubmitted = {}
  /\ timeHash = [t \in Times |-> ZeroHash]
  /\ queryArray = [i \in {} |-> 0]
  /\ sinceLastMove = 0
  /\ partitionGameIndex = 0
  /\ currentState = "WaitingQuery"
  /\ divergenceTime = 0

-----------------------------------------------------------------------------
\* Mutants of the operators below.
AnyTimes(posted) == {posted[i] : i \in DOMAIN posted}
AnyPiece(left, right) == right > left
OnlyLargePiece(left, right) == right - left > 2
AnyMoment == PartitionDivisor(querySize, partitionGameIndex) # 0

\* The times of an answer that have no hash yet: a previous answer is not rewritten.
NewTimes(posted) == {posted[i] : i \in DOMAIN posted} \ timeSubmitted

\* The loop of replyQuery stores the first hash posted for a time.
StoredAt(posted, t) ==
  CHOOSE i \in DOMAIN posted : posted[i] = t /\ \A j \in DOMAIN posted : posted[j] = t => i <= j

\* No unitary queries: makeQuery refuses an interval of one cycle.
CanSplit(left, right) == right - left > 1

\* getMaxStateDuration of the current state; final states have duration 0.
StateDuration ==
  IF currentState \in {"WaitingQuery", "WaitingHashes"}
  THEN RunDuration(roundDuration, querySize, partitionGameIndex, finalTime)
  ELSE 0

\* The deadline of claimVictoryByTime. Computing it divides by PartitionDivisor. A duration
\* that makes it overflow has passed at once.
AfterDeadline ==
  /\ PartitionDivisor(querySize, partitionGameIndex) # 0
  /\ Overdue(sinceLastMove, StateDuration)

-----------------------------------------------------------------------------
Instantiate(newChallenger, newClaimer, initialHash, claimerFinalHash, final, size, duration) ==
  /\ ~ instantiated
  /\ newChallenger # newClaimer
  /\ final > 0
  /\ size > 2
  /\ size < MaxQuerySize
  /\ duration > MinRoundDuration
  /\ instantiated' = TRUE
  /\ active' = TRUE
  /\ challenger' = newChallenger
  /\ claimer' = newClaimer
  /\ finalTime' = final
  /\ querySize' = size
  /\ roundDuration' = duration
  /\ timeSubmitted' = {0, final}
  /\ timeHash' = [timeHash EXCEPT ![0] = initialHash, ![final] = claimerFinalHash]
  /\ queryArray' = Slice(size, 0, final)
  /\ sinceLastMove' = 0
  /\ currentState' = "WaitingHashes"
  /\ UNCHANGED <<partitionGameIndex, divergenceTime>>

ReplyQuery(sender, postedTimes, postedHashes) ==
  /\ instantiated
  /\ sender = claimer
  /\ currentState = "WaitingHashes"
  /\ DOMAIN postedTimes = 0..(querySize - 1)
  /\ DOMAIN postedHashes = 0..(querySize - 1)
  /\ \A i \in 0..(querySize - 1) : postedTimes[i] = queryArray[i]
  /\ timeSubmitted' = timeSubmitted \union NewTimes(postedTimes)
  /\ timeHash' = [t \in Times |-> IF t \in NewTimes(postedTimes)
                                  THEN postedHashes[StoredAt(postedTimes, t)]
                                  ELSE timeHash[t]]
  /\ currentState' = "WaitingQuery"
  /\ sinceLastMove' = 0
  /\ partitionGameIndex' = partitionGameIndex + 1
  /\ UNCHANGED <<settings, active, queryArray, divergenceTime>>

MakeQuery(sender, queryPiece, leftPoint, rightPoint) ==
  /\ instantiated
  /\ sender = challenger
  /\ currentState = "WaitingQuery"
  /\ queryPiece < querySize - 1
  /\ leftPoint = queryArray[queryPiece]
  /\ rightPoint = queryArray[queryPiece + 1]
  /\ CanSplit(leftPoint, rightPoint)
  /\ queryArray' = Slice(querySize, leftPoint, rightPoint)
  /\ currentState' = "WaitingHashes"
  /\ sinceLastMove' = 0
  /\ UNCHANGED <<settings, signed, active, partitionGameIndex, divergenceTime>>

\* A mutant of ClaimVictoryByTime: no condition on currentState.
ClaimVictoryInAnyState(sender) ==
  /\ instantiated
  /\ AfterDeadline
  /\ \/ sender = challenger /\ currentState' = "ChallengerWon"
     \/ sender = claimer /\ currentState' = "ClaimerWon"
  /\ active' = FALSE
  /\ UNCHANGED <<settings, signed, queryArray, sinceLastMove, partitionGameIndex,
                 divergenceTime>>

ClaimVictoryByTime(sender) ==
  /\ instantiated
  /\ AfterDeadline
  /\ \/ /\ sender = challenger
        /\ currentState = "WaitingHashes"
        /\ currentState' = "ChallengerWon"
     \/ /\ sender = claimer
        /\ currentState = "WaitingQuery"
        /\ currentState' = "ClaimerWon"
  /\ active' = FALSE
  /\ UNCHANGED <<settings, signed, queryArray, sinceLastMove, partitionGameIndex,
                 divergenceTime>>

\* There is no condition on currentState.
PresentDivergence(sender, time) ==
  /\ instantiated
  /\ sender = challenger
  /\ time < finalTime
  /\ time \in timeSubmitted
  /\ time + 1 \in timeSubmitted
  /\ divergenceTime' = time
  /\ currentState' = "DivergenceFound"
  /\ active' = FALSE
  /\ UNCHANGED <<settings, signed, queryArray, sinceLastMove, partitionGameIndex>>

\* A block is mined one second later. The clock of an instance stops at MaxElapsed.
Tick ==
  /\ instantiated
  /\ sinceLastMove < MaxElapsed
  /\ sinceLastMove' = sinceLastMove + 1
  /\ UNCHANGED <<settings, signed, active, queryArray, partitionGameIndex, currentState,
                 divergenceTime>>

\* The arrays replyQuery is tried with: every query an instance can make, now or
\* at another time. Any other array is refused.
Queries == UNION {{Slice(querySize, l, r) : r \in (l + 1)..MaxTime} : l \in Times}

Next ==
  \/ \E newChallenger, newClaimer \in Users, initialHash, claimerFinalHash \in Hash,
        final \in FinalTimes, size \in QuerySizes, duration \in RoundDurations :
       Instantiate(newChallenger, newClaimer, initialHash, claimerFinalHash,
                   final, size, duration)
  \/ \E sender \in Users, postedTimes \in Queries,
        postedHashes \in [0..(querySize - 1) -> Hash] :
       ReplyQuery(sender, postedTimes, postedHashes)
  \/ \E sender \in Users, queryPiece \in 0..MaxQuerySize, leftPoint, rightPoint \in Times :
       MakeQuery(sender, queryPiece, leftPoint, rightPoint)
  \/ \E sender \in Users : ClaimVictoryByTime(sender)
  \/ \E sender \in Users, time \in Times : PresentDivergence(sender, time)
  \/ Tick

Spec == Init /\ [][Next]_vars

-----------------------------------------------------------------------------
TypeOK ==
  /\ instantiated \in BOOLEAN
  /\ active \in BOOLEAN
  /\ challenger \in Users \union {NoUser}
  /\ claimer \in Users \union {NoUser}
  /\ finalTime \in Times
  /\ querySize \in Nat
  /\ roundDuration \in Nat
  /\ timeSubmitted \subseteq Times
  /\ timeHash \in [Times -> Hash]
  /\ queryArray \in [0..(querySize - 1) -> Times]
  /\ sinceLastMove \in 0..MaxElapsed
  /\ partitionGameIndex \in Nat
  /\ currentState \in States
  /\ divergenceTime \in Times

Open == instantiated /\ currentState \in {"WaitingQuery", "WaitingHashes"}

Last == querySize - 1

\* The interval under dispute, from the first to the last point of the query.
IntervalLength == queryArray[Last] - queryArray[0]

\* Both end points of the interval under dispute carry a hash signed by the
\* claimer, the separators are in order, and once the query is answered every
\* separator carries a hash. makeQuery and presentDivergence compare only
\* times: that the hashes behind them exist rests on this.
QueryIsSigned ==
  Open =>
    /\ queryArray[0] \in timeSubmitted
    /\ queryArray[Last] \in timeSubmitted
    /\ queryArray[0] < queryArray[Last]
    /\ queryArray[Last] <= finalTime
    /\ OrderedCut(queryArray, querySize, queryArray[0], queryArray[Last])
    /\ currentState = "WaitingQuery" => \A i \in 0..Last : queryArray[i] \in timeSubmitted

\* Whatever piece of an answered query the challenger disagrees with, there is a
\* transaction for it: makeQuery when it is longer than one cycle, else
\* presentDivergence. Empty pieces (the padding of a short query) have equal ends.
EveryPieceCanBePursued ==
  Open /\ currentState = "WaitingQuery" =>
    \A i \in 0..(Last - 1) :
      \/ queryArray[i] = queryArray[i + 1]
      \/ CanSplit(queryArray[i], queryArray[i + 1])
      \/ /\ queryArray[i + 1] = queryArray[i] + 1
         /\ queryArray[i] < finalTime
         /\ {queryArray[i], queryArray[i + 1]} \subseteq timeSubmitted

\* Every answer costs at least one cycle of the interval under dispute, so the
\* contest ends: partitionGameIndex never passes finalTime.
RoundsAreBounded ==
  /\ partitionGameIndex <= finalTime
  /\ Open => partitionGameIndex + IntervalLength
                <= finalTime + (IF currentState = "WaitingQuery" THEN 1 ELSE 0)

\* A hash that the claimer has signed for a time is never rewritten or withdrawn,
\* by replyQuery or by anything else.
SignedHashesAreFinal ==
  [][\A t \in timeSubmitted : t \in timeSubmitted' /\ timeHash'[t] = timeHash[t]]_vars

\* A new query asks about a strictly shorter part of the interval of the query
\* before it (makeQuery: "by avoiding unitary queries one forces the contest to end").
QueriesNarrow ==
  [][Open /\ currentState = "WaitingQuery" /\ currentState' = "WaitingHashes" =>
       /\ queryArray[0] <= queryArray'[0]
       /\ queryArray'[Last] <= queryArray[Last]
       /\ queryArray'[Last] - queryArray'[0] < IntervalLength]_vars

\* A closed instance never reopens, and its hashes stay those it closed with; the
\* only move left is presentDivergence.
ClosedNeverReopens ==
  [][instantiated /\ ~ Open =>
       UNCHANGED <<signed, queryArray>> /\ currentState' \in {currentState, "DivergenceFound"}]_vars

\* The diagram in the contract's header, "the possible states and transitions", has no
\* arrow out of ClaimerWon: a claimer who has won by timeout has won for good.
TimeoutWinIsFinal ==
  [][instantiated /\ currentState = "ClaimerWon" => currentState' = "ClaimerWon"]_vars

\* The duration of a state is documented as its "worst case scenario": with _partitionSize
\* "how many instructions the will run to reach the necessary hash". It should leave the
\* challenger that checks an answer the time to start the machine, to run it through the
\* interval that was answered for, and to send its transaction.
DeadlineCoversRun ==
  Open /\ currentState = "WaitingQuery" =>
    StateDuration >= TimeToStartMachine
                       + (IntervalLength * PicoSecondsToRunInsn) \div PicoSeconds
                       + roundDuration
=============================================================================
