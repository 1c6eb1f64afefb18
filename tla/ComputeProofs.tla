---------------------------- MODULE ComputeProofs ----------------------------
(***************************************************************************)
(* What a compute instance promises, for every sequence of transactions of *)
(* the parties and anybody else: its result is final, it is that of the    *)
(* verification game once there is one, and an honest claimer is never     *)
(* denied it, as long as the deadlines do not overflow.                    *)
(***************************************************************************)
EXTENDS Compute, TLAPS

States == {"WaitingClaim", "WaitingConfirmation", "WaitingChallenge"} \union Finished

ComputeTypeOK ==
  /\ instantiated \in BOOLEAN
  /\ active \in BOOLEAN
  /\ challenger \in Users \union {NoUser} /\ claimer \in Users \union {NoUser}
  /\ roundDuration \in Nat /\ finalTime \in Nat
  /\ sinceLastMove \in Nat /\ sinceEntry \in Nat
  /\ claimedFinalHash \in Hash
  /\ currentState \in States
  /\ verdict \in {"none", "open", "challenger", "claimer"}
  /\ honest \in {{Challenger}, {Claimer}}

\* An instance that has not ended is between the two parties; one that does not exist
\* yet is in its initial state.
DisputeInv ==
  /\ instantiated /\ currentState \notin Finished =>
       challenger = Challenger /\ claimer = Claimer
  /\ ~ instantiated => currentState = "WaitingClaim"

\* The game is open or decided in WaitingChallenge, and decided when it has decided the
\* instance.
GameInv ==
  /\ GameDecides
  /\ currentState = "WaitingChallenge" => verdict # "none"

\* The claim is awaited from the beginning on, and an honest claimer sends it in time.
ClaimInTime ==
  InState("WaitingClaim") =>
    /\ sinceEntry = sinceLastMove
    /\ Claimer \in honest => sinceLastMove <= EntireRunDuration

\* While the instance is open, what an honest claimer has claimed is true and the game, if
\* there is one, is not lost.
TruthStands ==
  Claimer \in honest /\ currentState \notin Finished =>
    /\ currentState # "WaitingClaim" => claimedFinalHash = Truth
    /\ DeadlinesHold => verdict # "challenger"

\* The inductive invariant.
CInv == ComputeTypeOK /\ DisputeInv /\ GameInv /\ ClaimInTime /\ TruthStands

USE ComputeAssumption, DurationsAssumption DEF Finished, InState, Enter

\* A deadline is a number of seconds, whatever wraps around.
LEMMA RunIsNat ==
  ASSUME NEW final \in Nat, NEW round \in Nat
  PROVE  Word(TimeToStartMachine + Word(final * PicoSecondsToRunInsn) \div PicoSeconds + round)
           \in Nat
<1>1. \A x \in Int : Word(x) \in Nat
  BY DEF Word
<1>2. Word(final * PicoSecondsToRunInsn) \in Nat
  <2>1. final * PicoSecondsToRunInsn \in Int
    OBVIOUS
  <2> QED BY <1>1, <2>1
<1> DEFINE run == Word(final * PicoSecondsToRunInsn)
<1>3. run \div PicoSeconds \in Nat
  <2> HIDE DEF run
  <2>1. run \in Nat
    BY <1>2 DEF run
  <2> QED BY <2>1
<1> HIDE DEF run
<1>4. TimeToStartMachine + run \div PicoSeconds + round \in Int
  BY <1>3
<1> QED BY <1>1, <1>4 DEF run

LEMMA EntireRunIsNat == ComputeTypeOK => EntireRunDuration \in Nat
  BY RunIsNat DEF ComputeTypeOK, EntireRunDuration

\* Where the sum does not overflow, a deadline has passed when the duration has.
LEMMA FittingDeadline ==
  ASSUME NEW duration \in Nat, DeadlineFits(duration), NEW elapsed \in Nat
  PROVE  Overdue(elapsed, duration) <=> elapsed > duration
<1>1. Word(TimeOfLastMove + duration) = TimeOfLastMove + duration
  BY DEF Word, DeadlineFits
<1> QED BY <1>1 DEF Overdue, Deadline

\* Whether the deadlines hold is settled when the instance is created.
LEMMA DeadlinesStay ==
  ASSUME UNCHANGED <<roundDuration, finalTime>>
  PROVE  EntireRunDuration' = EntireRunDuration /\ DeadlinesHold' = DeadlinesHold
  BY DEF EntireRunDuration, DeadlinesHold

LEMMA ComputeInitInv == ComputeInit => CInv
<1> SUFFICES ASSUME ComputeInit PROVE CInv
  OBVIOUS
<1> QED BY DEF ComputeInit, Game!ContestInit, CInv, ComputeTypeOK, States, DisputeInv, GameInv,
               GameDecides, ClaimInTime, TruthStands

-----------------------------------------------------------------------------
\* The transactions, whoever sends them. A claim is true when an honest claimer sends it.
LEMMA InstantiateInv ==
  ASSUME CInv, NEW final \in FinalTimes, NEW duration \in RoundDurations,
         Instantiate(final, duration), UNCHANGED honest
  PROVE  CInv'
<1> USE DEF Instantiate
<1>1. ComputeTypeOK'
  BY DEF CInv, ComputeTypeOK, States
<1>2. sinceLastMove' <= EntireRunDuration'
  <2>1. EntireRunDuration' \in Nat
    BY <1>1, RunIsNat DEF ComputeTypeOK, EntireRunDuration
  <2> QED BY <2>1
<1> QED BY <1>1, <1>2
        DEF CInv, DisputeInv, GameInv, GameDecides, ClaimInTime, TruthStands

LEMMA SubmitClaimInv ==
  ASSUME CInv, NEW sender, NEW hash \in Hash, SubmitClaim(sender, hash), UNCHANGED honest,
         Claimer \in honest => hash = Truth
  PROVE  CInv'
  BY DEF SubmitClaim, settings, CInv, ComputeTypeOK, States, DisputeInv, GameInv, GameDecides,
         ClaimInTime, TruthStands

LEMMA ConfirmInv ==
  ASSUME CInv, NEW sender, Confirm(sender), UNCHANGED honest
  PROVE  CInv'
  BY DEF Confirm, ClearInstance, CInv, ComputeTypeOK, States, DisputeInv, GameInv, GameDecides,
         ClaimInTime, TruthStands

LEMMA ChallengeInv ==
  ASSUME CInv, NEW sender, Challenge(sender), UNCHANGED honest
  PROVE  CInv'
  BY DEF Challenge, Game!Start, settings, CInv, ComputeTypeOK, States, DisputeInv, GameInv,
         GameDecides, ClaimInTime, TruthStands

LEMMA WinByVGInv ==
  ASSUME CInv, WinByVG, UNCHANGED honest
  PROVE  CInv'
  BY DEF WinByVG, WinnerOf, ClearInstance, CInv, ComputeTypeOK, States, DisputeInv, GameInv,
         GameDecides, ClaimInTime, TruthStands

LEMMA ClaimVictoryByTimeInv ==
  ASSUME CInv, NEW sender, ClaimVictoryByTime(sender), UNCHANGED honest
  PROVE  CInv'
<1>2. /\ UNCHANGED <<instantiated, challenger, claimer, roundDuration, finalTime,
                      claimedFinalHash, sinceLastMove, verdict>>
      /\ active' = FALSE /\ sinceEntry' = 0
  BY DEF ClaimVictoryByTime, settings
<1>3. \/ InState("WaitingClaim") /\ currentState' = "ClaimerMissedDeadline"
      \/ InState("WaitingConfirmation") /\ currentState' = "ConsensusResult"
  BY DEF ClaimVictoryByTime
<1>4. ComputeTypeOK'
  BY <1>2, <1>3 DEF CInv, ComputeTypeOK, States
<1> QED BY <1>2, <1>3, <1>4
        DEF CInv, DisputeInv, GameInv, GameDecides, ClaimInTime, TruthStands

LEMMA GameEndsInv ==
  ASSUME CInv, GameEnds, UNCHANGED honest
  PROVE  CInv'
<1> USE DEF GameEnds, settings
<1>1. EntireRunDuration' = EntireRunDuration /\ DeadlinesHold' = DeadlinesHold
  BY DeadlinesStay
<1> QED BY <1>1 DEF Game!Decide, CInv, ComputeTypeOK, States, DisputeInv, GameInv, GameDecides,
                    ClaimInTime, TruthStands

LEMMA WaitInv ==
  ASSUME CInv, Wait, UNCHANGED honest
  PROVE  CInv'
<1> USE DEF Wait, settings
<1>1. /\ EntireRunDuration' = EntireRunDuration /\ DeadlinesHold' = DeadlinesHold
      /\ EntireRunDuration \in Nat
  BY EntireRunIsNat, DeadlinesStay DEF CInv
<1>2. ClaimInTime'
  BY <1>1 DEF Waiting, CInv, ComputeTypeOK, ClaimInTime
<1> QED BY <1>1, <1>2
        DEF CInv, ComputeTypeOK, States, DisputeInv, GameInv, GameDecides, TruthStands

\* A step is one of these transactions, the end of the game, or time that passes.
LEMMA ComputeCases ==
  ASSUME ComputeTypeOK, ComputeNext
  PROVE  /\ \/ \E final \in FinalTimes, duration \in RoundDurations : Instantiate(final, duration)
            \/ \E sender \in Users, hash \in Hash :
                 SubmitClaim(sender, hash) /\ (sender \in honest => hash = Truth)
            \/ \E sender \in Users : \/ Confirm(sender)
                                     \/ Challenge(sender)
                                     \/ WinByVG
                                     \/ ClaimVictoryByTime(sender)
            \/ GameEnds
            \/ Wait
         /\ UNCHANGED honest
<1>1. honest \subseteq Users /\ Truth \in Hash
  BY DEF ComputeTypeOK
<1>2. ASSUME NEW party \in honest, AgentMove(party)
      PROVE  \/ SubmitClaim(party, Truth)
             \/ Confirm(party) \/ Challenge(party) \/ WinByVG \/ ClaimVictoryByTime(party)
  BY <1>2 DEF AgentMove, OwnHash
<1> QED BY <1>1, <1>2 DEF ComputeNext, OtherMove

LEMMA CInvStep == CInv /\ [ComputeNext]_computeVars => CInv'
<1> SUFFICES ASSUME CInv, [ComputeNext]_computeVars PROVE CInv'
  OBVIOUS
<1>1. CASE UNCHANGED computeVars
  BY <1>1 DEF computeVars, settings, CInv, ComputeTypeOK, DisputeInv, GameInv, GameDecides,
              ClaimInTime, TruthStands, DeadlinesHold, EntireRunDuration
<1>2. CASE ComputeNext
  <2>1. ASSUME NEW sender \in Users, NEW hash \in Hash, SubmitClaim(sender, hash),
               sender \in honest => hash = Truth, UNCHANGED honest
        PROVE  CInv'
    <3>1. sender = Claimer
      BY <2>1 DEF SubmitClaim, CInv, DisputeInv
    <3> QED BY <2>1, <3>1, SubmitClaimInv
  <2> QED BY <1>2, <2>1, ComputeCases, InstantiateInv, ConfirmInv, ChallengeInv, WinByVGInv,
             ClaimVictoryByTimeInv, GameEndsInv, WaitInv DEF CInv
<1> QED BY <1>1, <1>2

LEMMA ComputeInvariance == ComputeSafety => []CInv
  BY ComputeInitInv, CInvStep, PTL DEF ComputeSafety

-----------------------------------------------------------------------------
\* The winner of the verification game is the winner of the instance, which has none
\* otherwise (winByVG in ComputeInstantiator.sol).
THEOREM GameDecidesInstance == ComputeSafety => []GameDecides
<1>1. CInv => GameDecides
  BY DEF CInv, GameInv
<1> QED BY <1>1, ComputeInvariance, PTL

\* The deadline of an honest claimer has not passed when it does not overflow.
LEMMA HonestClaimIsNotMissed ==
  ASSUME CInv, DeadlinesHold, Claimer \in honest, InState("WaitingClaim")
  PROVE  ~ AfterDeadline
<1>1. sinceLastMove \in Nat /\ EntireRunDuration \in Nat /\ sinceLastMove <= EntireRunDuration
  BY EntireRunIsNat DEF CInv, ComputeTypeOK, ClaimInTime
<1>2. DeadlineFits(EntireRunDuration)
  BY DEF DeadlinesHold
<1> QED BY <1>1, <1>2, FittingDeadline DEF AfterDeadline

\* Whatever the challenger does, an instance with an honest claimer ends with its claim,
\* which is true, agreed upon or won; when timeOfLastMove + duration does not overflow.
THEOREM HonestClaimerAlwaysPrevails == ComputeSafety => HonestClaimerPrevails
<1>1. CInv /\ [ComputeNext]_computeVars =>
        [/\ Claimer \in honest
         /\ DeadlinesHold
         /\ currentState \notin Finished
         /\ currentState' \in Finished
         => currentState' \in {"ConsensusResult", "ClaimerWon"} /\ claimedFinalHash' = Truth]_computeVars
  <2> SUFFICES ASSUME CInv, ComputeNext, Claimer \in honest, DeadlinesHold,
                      currentState \notin Finished, currentState' \in Finished
               PROVE  currentState' \in {"ConsensusResult", "ClaimerWon"} /\ claimedFinalHash' = Truth
    OBVIOUS
  <2>1. TruthStands /\ ComputeTypeOK
    BY DEF CInv
  <2>2. ASSUME NEW sender, Confirm(sender)
        PROVE  currentState' = "ConsensusResult" /\ claimedFinalHash' = Truth
    BY <2>1, <2>2 DEF Confirm, TruthStands
  <2>3. ASSUME WinByVG
        PROVE  currentState' = "ClaimerWon" /\ claimedFinalHash' = Truth
    BY <2>1, <2>3 DEF WinByVG, WinnerOf, TruthStands
  <2>4. ASSUME NEW sender, ClaimVictoryByTime(sender)
        PROVE  currentState' = "ConsensusResult" /\ claimedFinalHash' = Truth
    <3>1. ~ InState("WaitingClaim")
      BY <2>4, HonestClaimIsNotMissed DEF ClaimVictoryByTime
    <3> QED BY <2>1, <2>4, <3>1 DEF ClaimVictoryByTime, TruthStands
  <2> QED BY <2>1, <2>2, <2>3, <2>4, ComputeCases
          DEF Instantiate, SubmitClaim, Challenge, GameEnds, Wait
<1> QED BY <1>1, ComputeInvariance, PTL DEF ComputeSafety, HonestClaimerPrevails

\* What comes after the end of an instance is refused, so its result is the same forever.
THEOREM ResultsAreFinal == ComputeSafety => ResultIsFinal
<1>1. CInv /\ [ComputeNext]_computeVars =>
        [instantiated /\ currentState \in Finished =>
           UNCHANGED <<currentState, claimedFinalHash, active>>]_computeVars
  <2> SUFFICES ASSUME CInv, ComputeNext, instantiated, currentState \in Finished
               PROVE  UNCHANGED <<currentState, claimedFinalHash, active>>
    OBVIOUS
  <2> QED BY ComputeCases
          DEF CInv, Instantiate, SubmitClaim, Confirm, Challenge, WinByVG, ClaimVictoryByTime,
              GameEnds, Wait
<1> QED BY <1>1, ComputeInvariance, PTL DEF ComputeSafety, ResultIsFinal
=============================================================================
