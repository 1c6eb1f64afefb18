------------------------------- MODULE Compute -------------------------------
(***************************************************************************)
(* One instance of ComputeInstantiator: a claimer states the result of a   *)
(* computation, a challenger accepts it or starts a verification game,     *)
(* which is here the contest that VerificationGame implements. The agents  *)
(* are those of Compute::react (compute/src/compute.rs).                   *)
(*                                                                         *)
(* The transactions of an honest agent carry no data but the index and the *)
(* claim of its emulator, which is always Truth, so each is executed when  *)
(* its guard holds, first sent then or before.                             *)
(***************************************************************************)
EXTENDS Durations

CONSTANTS Users, NoUser,
          Challenger, Claimer, \* the parties
          Hash, ZeroHash,
          Truth,               \* the hash of the machine after finalTime cycles
          FinalTimes, RoundDurations, \* arguments of instantiate
          MinRoundDuration,    \* of PartitionInstantiator, 50 in the code
          QuerySize,           \* of the partition of a verification game, 10 in the code
          MaxElapsed           \* bound: where the clock of an instance stops

ASSUME ComputeAssumption ==
  /\ NoUser \notin Users
  /\ {Challenger, Claimer} \subseteq Users
  /\ Challenger # Claimer
  /\ {ZeroHash, Truth} \subseteq Hash
  /\ FinalTimes \subseteq Nat
  /\ RoundDurations \subseteq Nat
  /\ MinRoundDuration \in Nat
  /\ QuerySize \in Nat
  /\ MaxElapsed \in Nat

VARIABLES instantiated,     \* currentIndex has gone past this instance
          active,           \* the flag of the library that deactivate clears
          challenger, claimer, roundDuration, finalTime,
          claimedFinalHash,
          currentState,
          sinceLastMove,    \* block.timestamp - timeOfLastMove
          sinceEntry,       \* time spent in currentState; not kept by the contract
          verdict,          \* of the verification game
          honest            \* the parties that run the agent; never changes

Game == INSTANCE Contest

settings == <<challenger, claimer, roundDuration, finalTime>>
computeVars == <<instantiated, active, settings, claimedFinalHash, currentState,
                 sinceLastMove, sinceEntry, verdict, honest>>

ComputeInit ==
  /\ instantiated = FALSE
  /\ active = FALSE
  /\ challenger = NoUser
  /\ claimer = NoUser
  /\ roundDuration = 0
  /\ finalTime = 0
  /\ claimedFinalHash = ZeroHash
  /\ currentState = "WaitingClaim"
  /\ sinceLastMove = 0
  /\ sinceEntry = 0
  /\ Game!ContestInit
  /\ honest \in {{Challenger}, {Claimer}}

-----------------------------------------------------------------------------
\* Mutants of the operators below.
AnyState(state) == instantiated
LoserOf(result) == IF result = "challenger" THEN "ClaimerWon" ELSE "ChallengerWon"
DeadlinePassed == Overdue(sinceLastMove, roundDuration)

Finished == {"ConsensusResult", "ClaimerMissedDeadline", "ChallengerWon", "ClaimerWon"}

\* The requires on currentState.
InState(state) == instantiated /\ currentState = state

\* getMaxStateDuration in WaitingClaim and WaitingConfirmation: "time to run entire
\* machine + time to react". A final state has duration 0.
EntireRunDuration ==
  Word(TimeToStartMachine + Word(finalTime * PicoSecondsToRunInsn) \div PicoSeconds + roundDuration)

\* The deadline of claimVictoryByTime. In WaitingChallenge no sender is accepted.
AfterDeadline == Overdue(sinceLastMove, EntireRunDuration)

\* The requires of VGInstantiator.instantiate, and of PartitionInstantiator.instantiate that
\* it calls, on what this contract passes on without a check of its own.
PartitionAccepts == roundDuration > MinRoundDuration
GameAccepts      == finalTime > 0 /\ PartitionAccepts

\* winByVG: who has won.
WinnerOf(result) == IF result = "challenger" THEN "ChallengerWon" ELSE "ClaimerWon"

\* A state is entered.
Enter(state) == currentState' = state /\ sinceEntry' = 0

ClearInstance ==
  /\ challenger' = NoUser
  /\ claimer' = NoUser
  /\ roundDuration' = 0
  /\ finalTime' = 0
  /\ sinceLastMove' = 0
  /\ active' = FALSE

\* The contract takes any two different users; the dispute modelled is between these.
Instantiate(final, duration) ==
  /\ ~ instantiated
  /\ instantiated' = TRUE
  /\ active' = TRUE
  /\ challenger' = Challenger
  /\ claimer' = Claimer
  /\ roundDuration' = duration
  /\ finalTime' = final
  /\ sinceLastMove' = 0
  /\ Enter("WaitingClaim")
  /\ UNCHANGED <<claimedFinalHash, verdict>>

\* timeOfLastMove stays that of instantiate.
SubmitClaim(sender, hash) ==
  /\ InState("WaitingClaim")
  /\ sender = claimer
  /\ claimedFinalHash' = hash
  /\ Enter("WaitingConfirmation")
  /\ UNCHANGED <<instantiated, active, settings, sinceLastMove, verdict>>

Confirm(sender) ==
  /\ InState("WaitingConfirmation")
  /\ sender = challenger
  /\ Enter("ConsensusResult")
  /\ ClearInstance
  /\ UNCHANGED <<instantiated, claimedFinalHash, verdict>>

Challenge(sender) ==
  /\ InState("WaitingConfirmation")
  /\ sender = challenger
  /\ GameAccepts
  /\ Game!Start
  /\ Enter("WaitingChallenge")
  /\ UNCHANGED <<instantiated, active, settings, claimedFinalHash, sinceLastMove>>

WinByVG ==
  /\ InState("WaitingChallenge")
  /\ verdict \in {"challenger", "claimer"}
  /\ Enter(WinnerOf(verdict))
  /\ ClearInstance
  /\ UNCHANGED <<instantiated, claimedFinalHash, verdict>>

ClaimVictoryByTime(sender) ==
  /\ AfterDeadline
  /\ \/ sender = challenger /\ InState("WaitingClaim") /\ Enter("ClaimerMissedDeadline")
     \/ sender = claimer /\ InState("WaitingConfirmation") /\ Enter("ConsensusResult")
  /\ active' = FALSE
  /\ UNCHANGED <<instantiated, settings, claimedFinalHash, sinceLastMove, verdict>>

-----------------------------------------------------------------------------
\* getState: the values in the order the contract returns them. The machine and its
\* initial hash are not modelled; the agent acts on the deadline of two states only.
GetState ==
  <<challenger, claimer, Deadline(EntireRunDuration), NoUser, ZeroHash, finalTime, claimedFinalHash,
    currentState>>

\* ComputeCtx from ComputeCtxParsed.
ComputeCtx(parsed) ==
  [challenger |-> parsed[1], claimer |-> parsed[2], deadline |-> parsed[3],
   machine |-> parsed[4], initial_hash |-> parsed[5], final_time |-> parsed[6],
   claimed_final_hash |-> parsed[7], current_state |-> parsed[8]]

\* Mutants of the operators below.
ReportsLoss(ctx) ==
  IF verdict = "challenger" THEN {"winByVG"} ELSE {}

\* The machine run to finalTime by the party's own emulator: hashes[1] of the answer.
OwnHash(ctx) == Truth

\* win_by_deadline_or_idle.
WinByDeadlineOrIdle(ctx) ==
  IF TimeOfLastMove + sinceLastMove > ctx.deadline THEN {"claimVictoryByTime"} ELSE {}

\* The game is still active: control passes to VG::react, which VerificationGame models.
\* A party that has lost it is idle.
ClaimerInChallenge(ctx) == IF verdict = "claimer" THEN {"winByVG"} ELSE {}
ChallengerInChallenge(ctx) == IF verdict = "challenger" THEN {"winByVG"} ELSE {}

\* Compute::react of the claimer, in each state.
ClaimerReaction(ctx) ==
  CASE ctx.current_state = "WaitingConfirmation" -> WinByDeadlineOrIdle(ctx)
    [] ctx.current_state = "WaitingClaim"        -> {"submitClaim"}
    [] ctx.current_state = "WaitingChallenge"    -> ClaimerInChallenge(ctx)
    [] OTHER                                     -> {}

\* Compute::react of the challenger: it compares the claim with its own hash.
ChallengerReaction(ctx) ==
  CASE ctx.current_state = "WaitingConfirmation" ->
         IF OwnHash(ctx) = ctx.claimed_final_hash THEN {"confirm"} ELSE {"challenge"}
    [] ctx.current_state = "WaitingClaim"     -> WinByDeadlineOrIdle(ctx)
    [] ctx.current_state = "WaitingChallenge" -> ChallengerInChallenge(ctx)
    [] OTHER                                  -> {}

\* Compute::react: finished instances first, then the role of the user.
Reaction(ctx, user) ==
  CASE ctx.current_state \in Finished -> {}
    [] ctx.current_state \notin Finished /\ user = ctx.claimer -> ClaimerReaction(ctx)
    [] ctx.current_state \notin Finished /\ user # ctx.claimer /\ user = ctx.challenger ->
         ChallengerReaction(ctx)
    [] OTHER -> {}

\* An agent reacts and the chain executes its transaction.
AgentMove(party) ==
  /\ instantiated
  /\ \E tx \in Reaction(ComputeCtx(GetState), party) :
       \/ tx = "submitClaim" /\ SubmitClaim(party, OwnHash(ComputeCtx(GetState)))
       \/ tx = "confirm" /\ Confirm(party)
       \/ tx = "challenge" /\ Challenge(party)
       \/ tx = "winByVG" /\ WinByVG
       \/ tx = "claimVictoryByTime" /\ ClaimVictoryByTime(party)

\* Anybody else sends anything.
OtherMove(sender) ==
  \/ \E hash \in Hash : SubmitClaim(sender, hash)
  \/ Confirm(sender)
  \/ Challenge(sender)
  \/ WinByVG
  \/ ClaimVictoryByTime(sender)

\* No deadline overflows, of this instance or of the partition of its verification game.
\* instantiate does not check it.
DeadlinesHold ==
  DeadlineFits(EntireRunDuration) /\ DeadlinesFit(roundDuration, QuerySize, finalTime)

\* The verification game is decided. An honest claimer wins it, its claim being true, unless
\* a deadline overflows (VerificationGame!HonestClaimerDoesNotLose).
GameEnds ==
  /\ Game!Decide
  /\ Claimer \in honest /\ DeadlinesHold => verdict' = "claimer"
  /\ UNCHANGED <<instantiated, active, settings, claimedFinalHash, currentState,
                 sinceLastMove, sinceEntry>>

\* The instance waits for an honest party, and there is something that party can do.
Waiting ==
  \/ Claimer \in honest /\ InState("WaitingClaim")
  \/ /\ Challenger \in honest /\ InState("WaitingConfirmation")
     /\ claimedFinalHash # Truth => GameAccepts

\* Time passes. An honest party moves within the time a state is given, counted from
\* the moment the state is entered: it cannot start any earlier.
Wait ==
  /\ instantiated /\ active
  /\ Waiting => sinceEntry < EntireRunDuration
  /\ sinceLastMove < MaxElapsed
  /\ sinceLastMove' = sinceLastMove + 1
  /\ sinceEntry' = sinceEntry + 1
  /\ UNCHANGED <<instantiated, active, settings, claimedFinalHash, currentState, verdict>>

ComputeNext ==
  /\ \/ \E final \in FinalTimes, duration \in RoundDurations : Instantiate(final, duration)
     \/ \E party \in honest : AgentMove(party)
     \/ \E sender \in Users \ honest : OtherMove(sender)
     \/ GameEnds
     \/ Wait
  /\ UNCHANGED honest

\* Honest agents keep reacting, the clock runs and a verification game ends.
ComputeFairness ==
  /\ WF_computeVars((\E party \in honest : AgentMove(party)) /\ UNCHANGED honest)
  /\ WF_computeVars(GameEnds /\ UNCHANGED honest)
  /\ WF_computeVars(Wait /\ UNCHANGED honest)

ComputeSafety == ComputeInit /\ [][ComputeNext]_computeVars
ComputeSpec   == ComputeSafety /\ ComputeFairness

-----------------------------------------------------------------------------
\* With an honest claimer the instance ends with the right result standing: agreed upon
\* or won, never missed or lost. When a deadline overflows nothing is promised:
\* claimVictoryByTime succeeds against the claimer before a claim can come.
HonestClaimerPrevails ==
  [][/\ Claimer \in honest
     /\ DeadlinesHold
     /\ currentState \notin Finished
     /\ currentState' \in Finished
     => currentState' \in {"ConsensusResult", "ClaimerWon"} /\ claimedFinalHash' = Truth]_computeVars

\* The winner of the verification game is the winner here, and there is one in this
\* contract only if the game has ended: nothing overtakes a game once it has started.
GameDecides ==
  /\ currentState = "ChallengerWon" => verdict = "challenger"
  /\ currentState = "ClaimerWon" => verdict = "claimer"
  /\ verdict # "none" => currentState \in {"WaitingChallenge", "ChallengerWon", "ClaimerWon"}

\* A finished instance never changes: transactions of either party that come late,
\* claimVictoryByTime after confirm or the reverse, are refused.
ResultIsFinal ==
  [][instantiated /\ currentState \in Finished =>
       UNCHANGED <<currentState, claimedFinalHash, active>>]_computeVars

\* An honest challenger does not let a wrong claim become the agreed result ("the
\* challenger can either accept of challenge").
WrongClaimIsDisputed ==
  Challenger \in honest /\ currentState = "ConsensusResult" => claimedFinalHash = Truth

\* A challenger that does not accept a claim can start a verification game.
EveryClaimCanBeDisputed == InState("WaitingConfirmation") => GameAccepts

\* One honest party is enough for the instance to end, when its arguments are such that
\* a verification game can start or when it is the claimer who is honest. Only a party
\* that is not honest can keep it open, by winning the game and not reporting it; a
\* challenger wins it from an honest claimer only if a deadline overflows.
InstanceEnds ==
  instantiated /\ (GameAccepts \/ Claimer \in honest) ~>
    /\ instantiated
    /\ \/ currentState \in Finished
       \/ Claimer \notin honest /\ verdict = "claimer"
       \/ Challenger \notin honest /\ verdict = "challenger" /\ ~ DeadlinesHold
=============================================================================
