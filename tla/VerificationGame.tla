--------------------------- MODULE VerificationGame ---------------------------
(***************************************************************************)
(* One instance of VGInstantiator, with the partition and the memory       *)
(* manager it creates and the agents that play the three of them           *)
(* (VG::react of compute/src/vg.rs, MM::react of compute/src/mm.rs).       *)
(*                                                                         *)
(* The parties are those of the partition, which the same call creates.    *)
(* Transactions of VGInstantiator carry no data beyond the index, so an    *)
(* honest agent's is executed like anybody's: when its guard holds. Unlike *)
(* the transactions to the partition, the proofs of an honest challenger   *)
(* are executed once each, in the state they were made for: the dispatcher *)
(* is taken to send one at a time (ProofAgent!OneAtATime).                 *)
(***************************************************************************)
EXTENDS PartitionGame, Sequences

CONSTANTS VGAddress,          \* the contract itself, owner of the memory manager
          Positions, Values, Unknown, MaxHistory, \* as in MemoryManager
          StepLog,            \* the accesses of one step of the machine from a memory
          RoundMargin,        \* seconds added to the duration of a round; 4 in the code
          MaxChallengeElapsed \* bound: where the clock of the game stops

VARIABLES created, running, owner, provider, initialHash, newHash, history, phase,
          vgState,            \* currentState
          vgRoundDuration,    \* roundDuration
          vgDivergenceTime,   \* divergenceTime
          hashBeforeDivergence, hashAfterDivergence,
          sinceChallenge      \* block.timestamp - timeOfLastMove, once the replay has begun

MM == INSTANCE MemoryManager WITH Users <- Users \union {VGAddress}

mmVars    == <<created, running, owner, provider, initialHash, newHash, history, phase>>
evidence  == <<vgDivergenceTime, hashBeforeDivergence, hashAfterDivergence>>
vgOwnVars == <<vgState, vgRoundDuration, evidence, sinceChallenge>>
vgVars    == <<gameVars, mmVars, vgOwnVars>>

\* The emulator runs the machine the contract steps: from Trace[t] the accesses of one
\* step lead to Trace[t + 1].
ASSUME VGAssumption ==
  /\ VGAddress \notin Users \union {NoUser}
  /\ Unknown \notin MM!Memories
  /\ MaxHistory \in Nat
  /\ Hash = MM!Roots
  /\ StepLog \in [MM!Memories -> Seq(MM!ReadWrite) \ {<<>>}]
  /\ RoundMargin \in Nat
  /\ MaxChallengeElapsed \in Nat
  /\ \A t \in 0..(MaxTime - 1) :
       /\ Trace[t] \in MM!Memories
       /\ LET log == StepLog[Trace[t]] IN
          \E run \in [0..Len(log) -> MM!Memories] :
            /\ run[0] = Trace[t]
            /\ run[Len(log)] = Trace[t + 1]
            /\ \A i \in 1..Len(log) : MM!Access(run[i - 1], log[i], run[i])

VGInit ==
  /\ GameInit
  /\ MM!MMInit
  /\ vgState = "none"
  /\ vgRoundDuration = 0
  /\ vgDivergenceTime = 0
  /\ hashBeforeDivergence = ZeroHash
  /\ hashAfterDivergence = ZeroHash
  /\ sinceChallenge = 0

-----------------------------------------------------------------------------
\* Mutants of the operators below.
HashOfDivergence(time) == timeHash[time]
UncountedAccesses == newHash # hashAfterDivergence
LastAccessForgotten(log) == Len(history) >= Len(log) - 1
PartitionClock == Overdue(sinceLastMove, ReplayDuration(vgRoundDuration))

\* The requires on currentState.
InState(state) == vgState = state

\* partition.timeHash(divergenceTime + 1).
HashAfter(time) == timeHash[time + 1]

\* challengerWins and claimerWins, with clearInstance.
Finish(state) ==
  /\ vgState' = state
  /\ vgRoundDuration' = 0
  /\ vgDivergenceTime' = 0
  /\ hashBeforeDivergence' = ZeroHash
  /\ hashAfterDivergence' = ZeroHash
  /\ sinceChallenge' = 0

\* machine.step(positions, values, wasRead), external: it replays the accesses it needs
\* against the arrays and reverts when one does not match.
StepMatches ==
  /\ initialHash \in MM!Memories
  /\ LET log == StepLog[initialHash]
     IN  Len(log) <= Len(history) /\ SubSeq(history, 1, Len(log)) = log

\* The condition of settleVerificationGame: every access was needed, and the root after
\* them is not the one the claimer signed.
ProvesClaimerWrong ==
  /\ Len(history) = Len(StepLog[initialHash])
  /\ newHash # hashAfterDivergence

\* claimVictoryByTime in WaitMemoryProveValues.
AfterReplayDeadline == Overdue(sinceChallenge, ReplayDuration(vgRoundDuration))

\* VGInstantiator.instantiate, which creates the partition.
VGInstantiate(claimerFinalHash, final, size, duration) ==
  /\ InState("none")
  /\ Dispute(claimerFinalHash, final, size, duration)
  /\ vgState' = "WaitPartition"
  /\ vgRoundDuration' = Word(duration * Log2OverTwo(final) + RoundMargin)
  /\ UNCHANGED <<mmVars, evidence, sinceChallenge>>

WinByPartitionTimeout ==
  /\ InState("WaitPartition")
  /\ \/ currentState = "ChallengerWon" /\ Finish("FinishedChallengerWon")
     \/ currentState = "ClaimerWon" /\ Finish("FinishedClaimerWon")
  /\ UNCHANGED <<gameVars, mmVars>>

StartMachineRunChallenge ==
  /\ InState("WaitPartition")
  /\ currentState = "DivergenceFound"
  /\ vgDivergenceTime' = divergenceTime
  /\ hashBeforeDivergence' = timeHash[divergenceTime]
  /\ hashAfterDivergence' = HashAfter(divergenceTime)
  /\ MM!MMInstantiate(VGAddress, challenger, timeHash[divergenceTime])
  /\ sinceChallenge' = 0
  /\ vgState' = "WaitMemoryProveValues"
  /\ UNCHANGED <<gameVars, vgRoundDuration>>

\* challengerWins, when ProvesClaimerWrong, is not followed by a return: claimerWins is
\* called in every case and overwrites the state.
SettleVerificationGame(sender) ==
  /\ InState("WaitMemoryProveValues")
  /\ sender = challenger
  /\ phase = "WaitingReplay"
  /\ StepMatches
  /\ MM!FinishReplayPhase(VGAddress)
  /\ Finish("FinishedClaimerWon")
  /\ UNCHANGED gameVars

VGClaimVictoryByTime(sender) ==
  /\ InState("WaitMemoryProveValues")
  /\ sender = claimer
  /\ AfterReplayDeadline
  /\ Finish("FinishedClaimerWon")
  /\ UNCHANGED <<gameVars, mmVars>>

-----------------------------------------------------------------------------
\* MM::react: all proofs have been inserted.
AllProved(log) == Len(history) >= Len(log)

\* A mutant of HonestProof: writes are left out.
ProvesOnlyReads ==
  LET log == StepLog[Trace[vgDivergenceTime]] IN
  \/ AllProved(log) /\ MM!FinishProofPhase(Challenger)
  \/ /\ ~ AllProved(log)
     /\ LET access == log[Len(history) + 1] IN
        access.wasRead /\ MM!ProveRead(Challenger, access.position, access.value)

\* MM::react of an honest challenger: the access its emulator logged at the place the
\* history has reached, or the end of the proof phase. It is executed in the state it was
\* made for, as ProofAgent!ProvesInOrder has it of an agent that sends one at a time.
HonestProof ==
  LET log == StepLog[Trace[vgDivergenceTime]] IN
  \/ AllProved(log) /\ MM!FinishProofPhase(Challenger)
  \/ ~ AllProved(log) /\ MM!ProveAccess(Challenger, log[Len(history) + 1])

\* Anybody else proves whatever the memory manager accepts.
OtherProof(sender) ==
  \/ \E position \in Positions, value \in Values : MM!ProveRead(sender, position, value)
  \/ \E position \in Positions, oldValue, newValue \in Values :
       MM!ProveWrite(sender, position, oldValue, newValue)
  \/ MM!FinishProofPhase(sender)

\* getState: the values in the order the contract returns them. The machine, the hashes
\* of the claim and the indices of the instances are not kept here. The agent acts on the
\* deadline in WaitMemoryProveValues only.
VGGetState ==
  <<challenger, claimer, VGAddress, ZeroHash, ZeroHash, hashBeforeDivergence,
    hashAfterDivergence, vgState,
    <<finalTime, Deadline(ReplayDuration(vgRoundDuration)), 0, 0, vgDivergenceTime>>>>

\* VGCtx from VGCtxParsed.
VGCtx(parsed) ==
  [challenger |-> parsed[1], claimer |-> parsed[2], machine |-> parsed[3],
   initial_hash |-> parsed[4], claimer_final_hash |-> parsed[5],
   hash_before_divergence |-> parsed[6], hash_after_divergence |-> parsed[7],
   current_state |-> parsed[8], final_time |-> parsed[9][1], deadline |-> parsed[9][2],
   mm_instance |-> parsed[9][3], partition_instance |-> parsed[9][4],
   divergence_time |-> parsed[9][5]]

\* The partition, read as a sub-instance: the game goes on when it has ended, and control
\* passes to Partition::react as long as it has not, or has been lost.
PartitionReaction(won) ==
  CASE currentState = won               -> {"winByPartitionTimeout"}
    [] currentState = "DivergenceFound" -> {"startMachineRunChallenge"}
    [] OTHER                            -> {"Partition::react"}

ClaimerReaction(ctx) ==
  CASE ctx.current_state = "WaitPartition" -> PartitionReaction("ClaimerWon")
    [] ctx.current_state = "WaitMemoryProveValues" ->
         IF TimeOfLastMove + sinceChallenge > ctx.deadline THEN {"claimVictoryByTime"} ELSE {}
    [] OTHER -> {}

\* In the replay the challenger reads the memory manager as a sub-instance.
ChallengerReaction(ctx) ==
  CASE ctx.current_state = "WaitPartition" -> PartitionReaction("ChallengerWon")
    [] ctx.current_state = "WaitMemoryProveValues" ->
         CASE phase = "WaitingProofs" -> {"MM::react"}
           [] phase = "WaitingReplay" -> {"settleVerificationGame"}
           [] OTHER                   -> {}
    [] OTHER -> {}

\* VG::react: finished games first, then the role of the user.
VGReaction(ctx, user) ==
  CASE ctx.current_state \in {"FinishedClaimerWon", "FinishedChallengerWon"} -> {}
    [] user = ctx.claimer -> ClaimerReaction(ctx)
    [] user # ctx.claimer /\ user = ctx.challenger -> ChallengerReaction(ctx)
    [] OTHER -> {}

\* An honest party reacts. Its transactions to the partition may be executed later.
VGAgent(party) ==
  \E reaction \in VGReaction(VGCtx(VGGetState), party) :
    \/ reaction = "Partition::react" /\ React(party) /\ UNCHANGED <<mmVars, vgOwnVars>>
    \/ reaction = "MM::react" /\ HonestProof /\ UNCHANGED <<gameVars, vgOwnVars>>
    \/ reaction = "winByPartitionTimeout" /\ WinByPartitionTimeout
    \/ reaction = "startMachineRunChallenge" /\ StartMachineRunChallenge
    \/ reaction = "settleVerificationGame" /\ SettleVerificationGame(party)
    \/ reaction = "claimVictoryByTime" /\ VGClaimVictoryByTime(party)

\* Anybody else sends anything to the partition and to the memory manager.
VGAdversary(sender) ==
  \/ Adversary(sender) /\ UNCHANGED <<mmVars, vgOwnVars>>
  \/ OtherProof(sender) /\ UNCHANGED <<gameVars, vgOwnVars>>

\* The transactions of VGInstantiator, from anybody: those of an honest party may be
\* executed late or again.
VGTransaction(sender) ==
  \/ WinByPartitionTimeout
  \/ StartMachineRunChallenge
  \/ SettleVerificationGame(sender)
  \/ VGClaimVictoryByTime(sender)

LandInPartition == (\E tx \in sent : Land(tx)) /\ UNCHANGED <<mmVars, vgOwnVars>>

\* Time passes in the partition.
WaitPartition == InState("WaitPartition") /\ Wait /\ UNCHANGED <<mmVars, vgOwnVars>>

\* Time passes in the replay. Like those of Wait, the transactions of an honest
\* challenger are executed before its deadline has passed.
WaitReplay ==
  /\ InState("WaitMemoryProveValues")
  /\ Challenger \in Honest => sinceChallenge < ReplayDuration(vgRoundDuration)
  /\ sinceChallenge < MaxChallengeElapsed
  /\ sinceChallenge' = sinceChallenge + 1
  /\ UNCHANGED <<gameVars, mmVars, vgState, vgRoundDuration, evidence>>

VGNext ==
  \/ \E claimerFinalHash \in Hash, final \in FinalTimes, size \in QuerySizes,
        duration \in RoundDurations :
       VGInstantiate(claimerFinalHash, final, size, duration)
  \/ \E party \in Honest : VGAgent(party)
  \/ \E sender \in Users \ Honest : VGAdversary(sender)
  \/ \E sender \in Users : VGTransaction(sender)
  \/ LandInPartition
  \/ WaitPartition
  \/ WaitReplay

\* The clock runs, an honest party keeps reacting and the chain executes what it sends.
VGFairness ==
  /\ WF_vgVars(WaitPartition)
  /\ WF_vgVars(WaitReplay)
  /\ \A party \in Honest : WF_vgVars(VGAgent(party))
  /\ WF_vgVars(LandInPartition)

VGSafety == VGInit /\ [][VGNext]_vgVars
VGSpec   == VGSafety /\ VGFairness

-----------------------------------------------------------------------------
\* What the replay judges are two consecutive hashes that the claimer has signed, even
\* if presentDivergence is called again after the replay has begun, and the memory
\* manager starts from the first of them.
ReplayJudgesSignedHashes ==
  InState("WaitMemoryProveValues") =>
    /\ {vgDivergenceTime, vgDivergenceTime + 1} \subseteq timeSubmitted
    /\ hashBeforeDivergence = timeHash[vgDivergenceTime]
    /\ hashAfterDivergence = timeHash[vgDivergenceTime + 1]
    /\ initialHash = hashBeforeDivergence
    /\ provider = challenger /\ owner = VGAddress

\* When the step of the machine runs through, the condition of settleVerificationGame
\* is met for an honest challenger that sends its proofs one at a time.
HonestChallengerHasEvidence ==
  /\ Challenger \in Honest
  /\ InState("WaitMemoryProveValues")
  /\ phase = "WaitingReplay"
  => StepMatches /\ ProvesClaimerWrong

\* And it is never met against an honest claimer, whatever the challenger has proved.
NoEvidenceAgainstHonestClaimer ==
  /\ Claimer \in Honest
  /\ InState("WaitMemoryProveValues")
  /\ phase = "WaitingReplay"
  /\ StepMatches
  => ~ ProvesClaimerWrong

\* An honest claimer does not lose a verification game.
HonestClaimerDoesNotLose == Claimer \in Honest => vgState # "FinishedChallengerWon"

\* Nor should an honest challenger: the diagram in the contract's header leads from
\* settleVerificationGame to FinishedChallengerWon.
HonestChallengerDoesNotLose == Challenger \in Honest => vgState # "FinishedClaimerWon"

\* The game is a contest: one winner, for good, in the end.
Outcome ==
  INSTANCE Contest WITH
    verdict <- IF InState("none") THEN "none"
               ELSE IF InState("FinishedChallengerWon") THEN "challenger"
               ELSE IF InState("FinishedClaimerWon") THEN "claimer"
               ELSE "open"

RefinesContest == Outcome!ContestSpec
=============================================================================
