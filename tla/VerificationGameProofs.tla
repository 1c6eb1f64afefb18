------------------------ MODULE VerificationGameProofs ------------------------
(***************************************************************************)
(* What one honest party is promised in a verification game: whatever the  *)
(* other one proves or posts, the replay judges the machine, for every     *)
(* machine, every memory and every number of accesses of a step.           *)
(***************************************************************************)
EXTENDS VerificationGame, PartitionGameProofs, SequenceTheorems

USE PartitionAssumption, GameAssumption

\* The roots are the hashes of the machine.
LEMMA HashesAreRoots == Hash = MM!Roots /\ MM!Memories \subseteq Hash
  BY VGAssumption DEF MM!Roots

-----------------------------------------------------------------------------
\* Induction over numbers, stated for a set of them.
LEMMA NumberInduction ==
  ASSUME NEW S, 0 \in S, \A n \in Nat : n \in S => n + 1 \in S
  PROVE  Nat \subseteq S
<1> SUFFICES ASSUME Nat \ S # {} PROVE FALSE
  OBVIOUS
<1>1. PICK m \in Nat \ S : \A k \in Nat \ S : m <= k
  <2>1. Nat \ S \subseteq Nat
    OBVIOUS
  <2> QED BY <2>1, LeastElement
<1>2. m - 1 \in Nat /\ m - 1 < m /\ m = (m - 1) + 1
  BY <1>1
<1>3. m - 1 \in S
  BY <1>1, <1>2
<1> QED BY <1>1, <1>2, <1>3

\* Some run of the accesses of a log leads from one root to another.
Leads(log, from, to) ==
  \E run \in [0..Len(log) -> Hash] :
    /\ run[0] = from
    /\ run[Len(log)] = to
    /\ \A i \in 1..Len(log) : MM!Access(run[i - 1], log[i], run[i])

LEMMA LeadsNowhere ==
  ASSUME NEW from \in Hash
  PROVE  Leads(<<>>, from, from)
<1>1. Len(<<>>) = 0
  BY EmptySeq
<1>2. /\ [i \in 0..0 |-> from] \in [0..0 -> Hash]
      /\ [i \in 0..0 |-> from][0] = from
  OBVIOUS
<1>3. \A i \in 1..0 : FALSE
  OBVIOUS
<1> QED BY <1>1, <1>2, <1>3 DEF Leads

LEMMA LeadsOn ==
  ASSUME NEW log \in Seq(MM!ReadWrite), NEW from, NEW to, NEW rw \in MM!ReadWrite,
         NEW next \in Hash, Leads(log, from, to), MM!Access(to, rw, next)
  PROVE  Leads(Append(log, rw), from, next)
<1> PICK n \in Nat : n = Len(log)
  BY LenProperties
<1>1. /\ Len(Append(log, rw)) = n + 1
      /\ \A i \in 1..n : Append(log, rw)[i] = log[i]
      /\ Append(log, rw)[n + 1] = rw
  BY AppendProperties
<1>2. PICK run \in [0..n -> Hash] :
        /\ run[0] = from
        /\ run[n] = to
        /\ \A i \in 1..n : MM!Access(run[i - 1], log[i], run[i])
  BY DEF Leads
<1> DEFINE longer == [i \in 0..(n + 1) |-> IF i <= n THEN run[i] ELSE next]
<1>3. longer \in [0..(n + 1) -> Hash] /\ longer[0] = from /\ longer[n + 1] = next
  BY <1>2
<1>4. ASSUME NEW i \in 1..(n + 1)
      PROVE  MM!Access(longer[i - 1], Append(log, rw)[i], longer[i])
  <2>1. CASE i \in 1..n
    <3>1. longer[i - 1] = run[i - 1] /\ longer[i] = run[i] /\ Append(log, rw)[i] = log[i]
      BY <1>1, <2>1
    <3> QED BY <1>2, <2>1, <3>1
  <2>2. CASE i = n + 1
    <3>1. longer[i - 1] = to /\ longer[i] = next /\ Append(log, rw)[i] = rw
      BY <1>1, <1>2, <2>2
    <3> QED BY <3>1
  <2> QED BY <2>1, <2>2
<1> HIDE DEF longer
<1> QED BY <1>1, <1>3, <1>4 DEF Leads

\* A log that has a run from a root leads to one root only.
LEMMA LeadsToOne ==
  ASSUME NEW log \in Seq(MM!ReadWrite), NEW from, NEW to, NEW other,
         Leads(log, from, to), Leads(log, from, other)
  PROVE  to = other
<1> PICK n \in Nat : n = Len(log)
  BY LenProperties
<1>1. PICK r \in [0..n -> Hash] :
        /\ r[0] = from
        /\ r[n] = to
        /\ \A i \in 1..n : MM!Access(r[i - 1], log[i], r[i])
  BY DEF Leads
<1>2. PICK s \in [0..n -> Hash] :
        /\ s[0] = from
        /\ s[n] = other
        /\ \A i \in 1..n : MM!Access(s[i - 1], log[i], s[i])
  BY DEF Leads
<1> DEFINE Same == {k \in Nat : k <= n => r[k] = s[k]}
<1>3. 0 \in Same
  BY <1>1, <1>2
<1>4. ASSUME NEW k \in Nat, k \in Same
      PROVE  k + 1 \in Same
  <2> SUFFICES ASSUME k + 1 <= n PROVE r[k + 1] = s[k + 1]
    OBVIOUS
  <2>1. k + 1 \in 1..n /\ (k + 1) - 1 = k /\ r[k] = s[k]
    BY <1>4
  <2>2. MM!Access(r[k], log[k + 1], r[k + 1]) /\ MM!Access(s[k], log[k + 1], s[k + 1])
    BY <1>1, <1>2, <2>1
  <2> QED BY <2>1, <2>2 DEF MM!Access
<1>5. n \in Same
  <2> HIDE DEF Same
  <2> QED BY <1>3, <1>4, NumberInduction
<1> QED BY <1>1, <1>2, <1>5

\* The step of the machine that the contract replays, from a memory it knows.
LEMMA MachineSteps ==
  ASSUME NEW t \in 0..(MaxTime - 1)
  PROVE  /\ Trace[t] \in MM!Memories
         /\ StepLog[Trace[t]] \in Seq(MM!ReadWrite)
         /\ Leads(StepLog[Trace[t]], Trace[t], Trace[t + 1])
<1>1. Trace[t] \in MM!Memories
  BY VGAssumption
<1>2. StepLog[Trace[t]] \in Seq(MM!ReadWrite)
  BY <1>1, VGAssumption
<1> DEFINE log == StepLog[Trace[t]]
<1>3. PICK run \in [0..Len(log) -> MM!Memories] :
        /\ run[0] = Trace[t]
        /\ run[Len(log)] = Trace[t + 1]
        /\ \A i \in 1..Len(log) : MM!Access(run[i - 1], log[i], run[i])
  BY VGAssumption
<1>4. run \in [0..Len(log) -> Hash]
  BY HashesAreRoots
<1> QED BY <1>1, <1>2, <1>3, <1>4 DEF Leads

-----------------------------------------------------------------------------
\* A partition ends with presentDivergence at two hashes the claimer has signed.
DivergenceIsSigned ==
  currentState = "DivergenceFound" =>
    instantiated /\ {divergenceTime, divergenceTime + 1} \subseteq timeSubmitted

\* While the game waits for the replay, the history leads from the root the memory
\* manager was created with to newHash.
ReplayInv ==
  InState("WaitMemoryProveValues") =>
    /\ instantiated
    /\ ReplayJudgesSignedHashes
    /\ newHash \in Hash
    /\ Leads(history, initialHash, newHash)

\* The first accesses of a log.
Begins(log, accesses) ==
  Len(accesses) <= Len(log) /\ \A i \in 1..Len(accesses) : accesses[i] = log[i]

\* An honest challenger proves the step after the last hash it agrees with.
HonestReplayInv ==
  Challenger \in Honest /\ InState("WaitMemoryProveValues") =>
    /\ Divergence(vgDivergenceTime)
    /\ Begins(StepLog[Trace[vgDivergenceTime]], history)
    /\ phase = "WaitingReplay" => Len(history) = Len(StepLog[Trace[vgDivergenceTime]])

\* The inductive invariant.
VGInv ==
  /\ GInv
  /\ DivergenceIsSigned
  /\ history \in Seq(MM!ReadWrite)
  /\ ~ created => history = <<>>
  /\ created => vgDivergenceTime \in 0..(MaxTime - 1)
  /\ ReplayInv
  /\ HonestReplayInv
  /\ HonestClaimerDoesNotLose

\* What a proof accepted by the memory manager does, whoever sends it.
ProofAccepted ==
  \/ \E rw \in MM!ReadWrite :
       /\ created /\ phase = "WaitingProofs"
       /\ history' = Append(history, rw)
       /\ newHash' \in MM!Memories
       /\ MM!Access(newHash, rw, newHash')
       /\ Challenger \in Honest /\ InState("WaitMemoryProveValues") =>
            /\ Len(history) < Len(StepLog[Trace[vgDivergenceTime]])
            /\ rw = StepLog[Trace[vgDivergenceTime]][Len(history) + 1]
       /\ UNCHANGED <<created, running, owner, provider, initialHash, phase>>
  \/ /\ created /\ phase = "WaitingProofs"
     /\ phase' = "WaitingReplay"
     /\ Challenger \in Honest /\ InState("WaitMemoryProveValues") =>
          Len(history) >= Len(StepLog[Trace[vgDivergenceTime]])
     /\ UNCHANGED <<created, running, owner, provider, initialHash, newHash, history>>

LEMMA VGInitInv == VGInit => VGInv
<1> SUFFICES ASSUME VGInit PROVE VGInv
  OBVIOUS
<1>1. GInv
  BY GameInitIsGInv DEF VGInit
<1>2. /\ currentState = "WaitingQuery" /\ ~ created /\ vgState = "none"
      /\ history = <<>> /\ history \in Seq(MM!ReadWrite)
  BY EmptySeq DEF VGInit, GameInit, Init, MM!MMInit
<1> QED BY <1>1, <1>2
        DEF VGInv, DivergenceIsSigned, ReplayInv, HonestReplayInv, HonestClaimerDoesNotLose, InState

\* The cases of a step that the proofs below go through. Every one of them is a step of
\* the partition's game or leaves it alone.
LEMMA VGCases ==
  ASSUME [VGNext]_vgVars
  PROVE  \/ /\ \/ InState("none") /\ vgState' = "WaitPartition"
               \/ UNCHANGED <<vgState, vgRoundDuration, sinceChallenge>>
            /\ GameNext /\ UNCHANGED <<mmVars, evidence>>
         \/ /\ HonestProof \/ \E sender \in Users \ Honest : OtherProof(sender)
            /\ UNCHANGED <<gameVars, vgOwnVars>>
         \/ StartMachineRunChallenge
         \/ WinByPartitionTimeout
         \/ \E sender \in Users : SettleVerificationGame(sender)
         \/ \E sender \in Users : VGClaimVictoryByTime(sender)
         \/ UNCHANGED <<gameVars, mmVars, vgState, evidence>>
<1>1. ASSUME NEW claimerFinalHash \in Hash, NEW final \in FinalTimes, NEW size \in QuerySizes,
             NEW duration \in RoundDurations,
             VGInstantiate(claimerFinalHash, final, size, duration)
      PROVE  InState("none") /\ vgState' = "WaitPartition" /\ GameNext /\ UNCHANGED <<mmVars, evidence>>
  BY <1>1 DEF VGInstantiate, GameNext
<1>2. ASSUME NEW party \in Honest, React(party)
      PROVE  GameNext
  BY <1>2 DEF GameNext
<1>3. ASSUME NEW sender \in Users \ Honest, Adversary(sender)
      PROVE  GameNext
  BY <1>3 DEF GameNext
<1>4. ASSUME \E tx \in sent : Land(tx)
      PROVE  GameNext
  BY <1>4 DEF GameNext
<1>5. Wait => GameNext
  BY DEF GameNext
<1>6. CASE UNCHANGED vgVars
  BY <1>6 DEF vgVars, vgOwnVars
<1>7. CASE \E party \in Honest : VGAgent(party)
  <2>1. PICK party \in Honest : VGAgent(party)
    BY <1>7
  <2>2. party \in Users
    OBVIOUS
  <2>3. \/ React(party) /\ UNCHANGED <<mmVars, vgOwnVars>>
        \/ HonestProof /\ UNCHANGED <<gameVars, vgOwnVars>>
        \/ WinByPartitionTimeout
        \/ StartMachineRunChallenge
        \/ SettleVerificationGame(party)
        \/ VGClaimVictoryByTime(party)
    BY <2>1 DEF VGAgent
  <2> QED BY <1>2, <2>2, <2>3 DEF vgOwnVars
<1>8. CASE \E sender \in Users \ Honest : VGAdversary(sender)
  BY <1>3, <1>8 DEF VGAdversary, vgOwnVars
<1>9. CASE \E sender \in Users : VGTransaction(sender)
  BY <1>9 DEF VGTransaction
<1>10. CASE LandInPartition \/ WaitPartition
  BY <1>4, <1>5, <1>10 DEF LandInPartition, WaitPartition, vgOwnVars
<1>11. CASE WaitReplay
  BY <1>11 DEF WaitReplay
<1> QED BY <1>1, <1>6, <1>7, <1>8, <1>9, <1>10, <1>11 DEF VGNext

\* What a step of the partition's game leaves of what the claimer has signed.
LEMMA GameStep ==
  ASSUME VGInv, [GameNext]_gameVars
  PROVE  /\ GInv' /\ DivergenceIsSigned'
         /\ \A t \in timeSubmitted : t \in timeSubmitted' /\ timeHash'[t] = timeHash[t]
         /\ instantiated => UNCHANGED settings
<1>1. GInv /\ IInv /\ [Next]_vars /\ GInv'
  BY GameStepIsStep, GInvStep DEF VGInv, GInv
<1>2. \A t \in timeSubmitted : t \in timeSubmitted' /\ timeHash'[t] = timeHash[t]
  <2>1. CASE UNCHANGED vars
    BY <2>1 DEF vars, signed
  <2>2. CASE ~ UNCHANGED vars
    BY <1>1, <2>2, SignedStep
  <2> QED BY <2>1, <2>2
<1>3. instantiated => UNCHANGED settings
  BY <1>1, SettingsStep
<1>4. DivergenceIsSigned'
  <2>1. CASE UNCHANGED <<currentState, divergenceTime>>
    BY <1>2, <1>3, <2>1 DEF VGInv, DivergenceIsSigned, settings
  <2>2. ASSUME NEW sender, NEW time, PresentDivergence(sender, time)
        PROVE  DivergenceIsSigned'
    BY <2>2 DEF PresentDivergence, DivergenceIsSigned, settings, signed
  <2>3. CASE currentState' # "DivergenceFound"
    BY <2>3 DEF DivergenceIsSigned
  <2>4. CASE Next
    BY <2>1, <2>2, <2>3, <2>4
       DEF Next, Instantiate, ReplyQuery, MakeQuery, ClaimVictoryByTime, Tick
  <2> QED BY <1>1, <2>1, <2>4 DEF vars
<1> QED BY <1>1, <1>2, <1>3, <1>4

\* Nothing that happens in the partition meanwhile disturbs the replay.
LEMMA ReplayIsKept ==
  ASSUME VGInv, [GameNext]_gameVars, UNCHANGED <<mmVars, vgState, evidence>>
  PROVE  ReplayInv' /\ HonestReplayInv'
<1> SUFFICES ASSUME InState("WaitMemoryProveValues")
             PROVE  ReplayInv' /\ HonestReplayInv'
  BY DEF ReplayInv, HonestReplayInv, InState
<1>1. instantiated /\ ReplayJudgesSignedHashes
  BY DEF VGInv, ReplayInv
<1>2. /\ {vgDivergenceTime, vgDivergenceTime + 1} \subseteq timeSubmitted
      /\ hashBeforeDivergence = timeHash[vgDivergenceTime]
      /\ hashAfterDivergence = timeHash[vgDivergenceTime + 1]
      /\ initialHash = hashBeforeDivergence
      /\ provider = challenger /\ owner = VGAddress
  BY <1>1 DEF ReplayJudgesSignedHashes
<1>3. instantiated' /\ challenger' = challenger
  BY <1>1, GameStep DEF settings
<1>4. /\ {vgDivergenceTime, vgDivergenceTime + 1} \subseteq timeSubmitted'
      /\ timeHash'[vgDivergenceTime] = timeHash[vgDivergenceTime]
      /\ timeHash'[vgDivergenceTime + 1] = timeHash[vgDivergenceTime + 1]
  BY <1>2, GameStep
<1>5. UNCHANGED <<owner, provider, initialHash, newHash, history, phase,
                  vgDivergenceTime, hashBeforeDivergence, hashAfterDivergence>>
  BY DEF mmVars, evidence
<1>6. ReplayJudgesSignedHashes'
  BY <1>2, <1>3, <1>4, <1>5 DEF ReplayJudgesSignedHashes
<1>7. ReplayInv'
  BY <1>3, <1>5, <1>6 DEF VGInv, ReplayInv
<1>8. HonestReplayInv'
  <2> SUFFICES ASSUME Challenger \in Honest
               PROVE  /\ Divergence(vgDivergenceTime)'
                      /\ Begins(StepLog[Trace[vgDivergenceTime]], history)'
                      /\ (phase = "WaitingReplay" =>
                             Len(history) = Len(StepLog[Trace[vgDivergenceTime]]))'
    BY DEF HonestReplayInv
  <2>1. /\ Divergence(vgDivergenceTime)
        /\ Begins(StepLog[Trace[vgDivergenceTime]], history)
        /\ phase = "WaitingReplay" => Len(history) = Len(StepLog[Trace[vgDivergenceTime]])
    BY DEF VGInv, HonestReplayInv
  <2>2. Divergence(vgDivergenceTime)'
    BY <1>4, <1>5, <2>1 DEF Divergence, Agrees
  <2> QED BY <1>5, <2>1, <2>2
<1> QED BY <1>7, <1>8

\* startMachineRunChallenge opens the replay at the divergence the partition ended with.
LEMMA ReplayStarts ==
  ASSUME VGInv, StartMachineRunChallenge
  PROVE  /\ ReplayInv' /\ HonestReplayInv'
         /\ created' /\ vgDivergenceTime' \in 0..(MaxTime - 1)
         /\ challenger \in Users /\ timeHash[divergenceTime] \in MM!Roots
<1>1. /\ GInv /\ IInv /\ instantiated /\ ~ created /\ history = <<>>
      /\ {divergenceTime, divergenceTime + 1} \subseteq timeSubmitted
  BY DEF VGInv, GInv, DivergenceIsSigned, StartMachineRunChallenge, MM!MMInstantiate
<1>2. divergenceTime \in Times /\ divergenceTime + 1 \in Times
  BY <1>1 DEF IInv, TypeOK
<1>3. divergenceTime \in 0..(MaxTime - 1)
  BY <1>2 DEF Times
<1>4. timeHash[divergenceTime] \in Hash
  BY <1>1, <1>2 DEF IInv, TypeOK
<1>5. challenger = Challenger /\ challenger \in Users
  BY <1>1 DEF GInv, PartiesInv
<1>6. /\ vgState' = "WaitMemoryProveValues"
      /\ vgDivergenceTime' = divergenceTime
      /\ hashBeforeDivergence' = timeHash[divergenceTime]
      /\ hashAfterDivergence' = timeHash[divergenceTime + 1]
      /\ initialHash' = timeHash[divergenceTime] /\ newHash' = timeHash[divergenceTime]
      /\ owner' = VGAddress /\ provider' = challenger
      /\ history' = <<>> /\ phase' = "WaitingProofs" /\ created'
      /\ UNCHANGED <<instantiated, challenger, timeSubmitted, timeHash>>
  BY <1>1 DEF StartMachineRunChallenge, MM!MMInstantiate, HashAfter, gameVars, vars, settings, signed
<1>7. ReplayJudgesSignedHashes'
  BY <1>1, <1>6 DEF ReplayJudgesSignedHashes
<1>8. ReplayInv'
  BY <1>1, <1>4, <1>6, <1>7, LeadsNowhere DEF ReplayInv
<1>9. HonestReplayInv'
  <2> SUFFICES ASSUME Challenger \in Honest
               PROVE  /\ Divergence(vgDivergenceTime)'
                      /\ Begins(StepLog[Trace[vgDivergenceTime]], history)'
    BY <1>6 DEF HonestReplayInv
  <2>1. Divergence(divergenceTime)
    BY <1>1 DEF GInv, DivergenceIsReal, StartMachineRunChallenge
  <2>2. Divergence(vgDivergenceTime)'
    BY <1>6, <2>1 DEF Divergence, Agrees
  <2>3. Len(StepLog[Trace[divergenceTime]]) \in Nat
    BY <1>3, MachineSteps, LenProperties
  <2>4. Len(<<>>) = 0
    BY EmptySeq
  <2>5. Begins(StepLog[Trace[vgDivergenceTime]], history)'
    BY <1>6, <2>3, <2>4 DEF Begins
  <2> QED BY <2>2, <2>5
<1> QED BY <1>3, <1>4, <1>5, <1>6, <1>8, <1>9, HashesAreRoots

\* The memory manager takes an access of the memory it has reached or the end of the
\* proofs; from an honest challenger, the next access of its log or the end of it.
LEMMA ReadAccepted ==
  ASSUME NEW sender, NEW position \in Positions, NEW value \in Values,
         MM!ProveRead(sender, position, value),
         NEW rw, rw = [wasRead |-> TRUE, position |-> position, value |-> value]
  PROVE  /\ rw \in MM!ReadWrite
         /\ created /\ phase = "WaitingProofs" /\ sender = provider
         /\ history' = Append(history, rw)
         /\ newHash' \in MM!Memories
         /\ MM!Access(newHash, rw, newHash')
         /\ UNCHANGED <<created, running, owner, provider, initialHash, phase>>
  BY DEF MM!ProveRead, MM!InPhase, MM!Proves, MM!Access, MM!ReadWrite

LEMMA WriteAccepted ==
  ASSUME NEW sender, NEW position \in Positions, NEW oldValue, NEW value \in Values,
         MM!ProveWrite(sender, position, oldValue, value),
         NEW rw, rw = [wasRead |-> FALSE, position |-> position, value |-> value]
  PROVE  /\ rw \in MM!ReadWrite
         /\ created /\ phase = "WaitingProofs" /\ sender = provider
         /\ history' = Append(history, rw)
         /\ newHash' \in MM!Memories
         /\ MM!Access(newHash, rw, newHash')
         /\ UNCHANGED <<created, running, owner, provider, initialHash, phase>>
  BY DEF MM!ProveWrite, MM!InPhase, MM!Proves, MM!Access, MM!ReadWrite, MM!Rewritten, MM!Memories

LEMMA HonestProofAccepted ==
  ASSUME VGInv, HonestProof
  PROVE  ProofAccepted /\ MM!MMNext
<1> DEFINE log == StepLog[Trace[vgDivergenceTime]]
<1>1. ASSUME AllProved(log), MM!FinishProofPhase(Challenger)
      PROVE  ProofAccepted /\ MM!MMNext
  <2>1. ProofAccepted
    BY <1>1 DEF MM!FinishProofPhase, MM!InPhase, AllProved, ProofAccepted
  <2>2. Challenger \in Users \union {VGAddress}
    OBVIOUS
  <2> QED BY <1>1, <2>1, <2>2 DEF MM!MMNext
<1>2. ASSUME created, phase = "WaitingProofs", ~ AllProved(log)
      PROVE  /\ log[Len(history) + 1] \in MM!ReadWrite
             /\ Challenger \in Honest /\ InState("WaitMemoryProveValues") =>
                  Len(history) < Len(log)
  <2>1. log \in Seq(MM!ReadWrite)
    BY <1>2, MachineSteps DEF VGInv
  <2>2. Len(log) \in Nat /\ Len(history) \in Nat
    BY <2>1, LenProperties DEF VGInv
  <2>3. Len(history) < Len(log) /\ Len(history) + 1 \in 1..Len(log)
    BY <1>2, <2>2 DEF AllProved
  <2> HIDE DEF log
  <2> QED BY <2>1, <2>3, ElementOfSeq
<1> DEFINE access == log[Len(history) + 1]
<1>3. ASSUME access.wasRead, ~ AllProved(log),
             MM!ProveRead(Challenger, access.position, access.value)
      PROVE  ProofAccepted /\ MM!MMNext
  <2>1. created /\ phase = "WaitingProofs"
    BY <1>3 DEF MM!ProveRead, MM!InPhase
  <2>2. /\ access \in MM!ReadWrite
        /\ Challenger \in Honest /\ InState("WaitMemoryProveValues") => Len(history) < Len(log)
    BY <1>2, <1>3, <2>1
  <2>3. access.position \in Positions /\ access.value \in Values
        /\ access = [wasRead |-> TRUE, position |-> access.position, value |-> access.value]
    BY <1>3, <2>2 DEF MM!ReadWrite
  <2> HIDE DEF access
  <2> PICK rw, position, value : rw = access /\ position = access.position /\ value = access.value
    OBVIOUS
  <2>4. MM!ProveRead(Challenger, position, value)
    BY <1>3 DEF MM!ProveRead
  <2>5. /\ history' = Append(history, rw)
        /\ newHash' \in MM!Memories
        /\ MM!Access(newHash, rw, newHash')
        /\ UNCHANGED <<created, running, owner, provider, initialHash, phase>>
    BY <2>3, <2>4, ReadAccepted
  <2>6. ProofAccepted
    BY <2>1, <2>2, <2>5 DEF ProofAccepted, access
  <2>7. Challenger \in Users \union {VGAddress} /\ position \in Positions /\ value \in Values
    BY <2>3
  <2> QED BY <2>4, <2>6, <2>7 DEF MM!MMNext
<1>4. ASSUME ~ access.wasRead, ~ AllProved(log), NEW oldValue \in Values,
             MM!ProveWrite(Challenger, access.position, oldValue, access.value)
      PROVE  ProofAccepted /\ MM!MMNext
  <2>1. created /\ phase = "WaitingProofs"
    BY <1>4 DEF MM!ProveWrite, MM!InPhase
  <2>2. /\ access \in MM!ReadWrite
        /\ Challenger \in Honest /\ InState("WaitMemoryProveValues") => Len(history) < Len(log)
    BY <1>2, <1>4, <2>1
  <2>3. access.position \in Positions /\ access.value \in Values
        /\ access = [wasRead |-> FALSE, position |-> access.position, value |-> access.value]
    BY <1>4, <2>2 DEF MM!ReadWrite
  <2> HIDE DEF access
  <2> PICK rw, position, value : rw = access /\ position = access.position /\ value = access.value
    OBVIOUS
  <2>4. MM!ProveWrite(Challenger, position, oldValue, value)
    BY <1>4 DEF MM!ProveWrite
  <2>5. /\ history' = Append(history, rw)
        /\ newHash' \in MM!Memories
        /\ MM!Access(newHash, rw, newHash')
        /\ UNCHANGED <<created, running, owner, provider, initialHash, phase>>
    BY <2>3, <2>4, WriteAccepted
  <2>6. ProofAccepted
    BY <2>1, <2>2, <2>5 DEF ProofAccepted, access
  <2>7. Challenger \in Users \union {VGAddress} /\ position \in Positions /\ value \in Values
    BY <2>3
  <2> QED BY <2>4, <2>6, <2>7 DEF MM!MMNext
<1> QED BY <1>1, <1>3, <1>4 DEF HonestProof, MM!ProveAccess

LEMMA OtherProofAccepted ==
  ASSUME VGInv, NEW sender \in Users \ Honest, OtherProof(sender)
  PROVE  ProofAccepted /\ MM!MMNext
<1>1. sender = provider => ~ (Challenger \in Honest /\ InState("WaitMemoryProveValues"))
  BY DEF VGInv, ReplayInv, ReplayJudgesSignedHashes, GInv, PartiesInv
<1>2. sender \in Users \union {VGAddress}
  OBVIOUS
<1>3. ASSUME NEW position \in Positions, NEW value \in Values,
             MM!ProveRead(sender, position, value)
      PROVE  ProofAccepted /\ MM!MMNext
  <2> PICK rw : rw = [wasRead |-> TRUE, position |-> position, value |-> value]
    OBVIOUS
  <2>1. ProofAccepted
    BY <1>1, <1>3, ReadAccepted DEF ProofAccepted
  <2> QED BY <1>2, <1>3, <2>1 DEF MM!MMNext
<1>4. ASSUME NEW position \in Positions, NEW oldValue \in Values, NEW value \in Values,
             MM!ProveWrite(sender, position, oldValue, value)
      PROVE  ProofAccepted /\ MM!MMNext
  <2> PICK rw : rw = [wasRead |-> FALSE, position |-> position, value |-> value]
    OBVIOUS
  <2>1. ProofAccepted
    BY <1>1, <1>4, WriteAccepted DEF ProofAccepted
  <2> QED BY <1>2, <1>4, <2>1 DEF MM!MMNext
<1>5. ASSUME MM!FinishProofPhase(sender)
      PROVE  ProofAccepted /\ MM!MMNext
  <2>1. ProofAccepted
    BY <1>1, <1>5 DEF MM!FinishProofPhase, MM!InPhase, ProofAccepted
  <2> QED BY <1>2, <1>5, <2>1 DEF MM!MMNext
<1> QED BY <1>3, <1>4, <1>5 DEF OtherProof

LEMMA ProofStep ==
  ASSUME VGInv, ProofAccepted, UNCHANGED <<gameVars, vgOwnVars>>
  PROVE  /\ ReplayInv' /\ HonestReplayInv'
         /\ history' \in Seq(MM!ReadWrite) /\ created'
<1> PICK n \in Nat : n = Len(history)
  BY LenProperties DEF VGInv
<1> PICK log : log = StepLog[Trace[vgDivergenceTime]]
  OBVIOUS
<1>1. UNCHANGED <<vgState, vgDivergenceTime, hashBeforeDivergence, hashAfterDivergence,
                  instantiated, challenger, timeSubmitted, timeHash>>
  BY DEF vgOwnVars, evidence, gameVars, vars, settings, signed
<1>2. InState("WaitMemoryProveValues")' => InState("WaitMemoryProveValues")
  BY <1>1 DEF InState
<1>3. InState("WaitMemoryProveValues") =>
        instantiated' /\ (initialHash' = initialHash /\ provider' = provider /\ owner' = owner
                             => ReplayJudgesSignedHashes')
  BY <1>1 DEF VGInv, ReplayInv, ReplayJudgesSignedHashes, InState
<1>4. Challenger \in Honest /\ InState("WaitMemoryProveValues") =>
        /\ Divergence(vgDivergenceTime)'
        /\ n <= Len(log) /\ \A i \in 1..n : history[i] = log[i]
        /\ Len(log) \in Nat
  <2>1. ASSUME InState("WaitMemoryProveValues"), created
        PROVE  Len(log) \in Nat
    BY <2>1, MachineSteps, LenProperties DEF VGInv
  <2>2. Divergence(vgDivergenceTime)' = Divergence(vgDivergenceTime)
    BY <1>1 DEF Divergence, Agrees
  <2> QED BY <2>1, <2>2 DEF VGInv, HonestReplayInv, Begins, ProofAccepted
<1>5. ASSUME NEW rw \in MM!ReadWrite,
             created, phase = "WaitingProofs",
             history' = Append(history, rw),
             newHash' \in MM!Memories,
             MM!Access(newHash, rw, newHash'),
             Challenger \in Honest /\ InState("WaitMemoryProveValues") =>
               n < Len(log) /\ rw = log[n + 1],
             UNCHANGED <<created, running, owner, provider, initialHash, phase>>
      PROVE  /\ ReplayInv' /\ HonestReplayInv'
             /\ history' \in Seq(MM!ReadWrite) /\ created'
  <2>1. /\ history' \in Seq(MM!ReadWrite) /\ Len(history') = n + 1
        /\ \A i \in 1..n : history'[i] = history[i]
        /\ history'[n + 1] = rw
    BY <1>5, AppendProperties DEF VGInv
  <2>2. newHash' \in Hash
    BY <1>5, HashesAreRoots
  <2>3. InState("WaitMemoryProveValues") => Leads(history', initialHash, newHash')
    <3> SUFFICES ASSUME InState("WaitMemoryProveValues")
                 PROVE  Leads(history', initialHash, newHash')
      OBVIOUS
    <3> PICK next : next = newHash'
      OBVIOUS
    <3>1. Leads(history, initialHash, newHash) /\ history \in Seq(MM!ReadWrite)
      BY DEF VGInv, ReplayInv
    <3>2. Leads(Append(history, rw), initialHash, next)
      BY <1>5, <2>2, <3>1, LeadsOn
    <3> QED BY <1>5, <3>2
  <2>4. ReplayInv'
    BY <1>2, <1>3, <1>5, <2>2, <2>3 DEF ReplayInv
  <2>5. HonestReplayInv'
    <3> SUFFICES ASSUME Challenger \in Honest, InState("WaitMemoryProveValues")
                 PROVE  Divergence(vgDivergenceTime)' /\ Begins(log, history')
      BY <1>1, <1>2, <1>5 DEF HonestReplayInv
    <3>1. n + 1 <= Len(log) /\ \A i \in 1..(n + 1) : history'[i] = log[i]
      <4>1. \A i \in 1..(n + 1) : i \in 1..n \/ i = n + 1
        OBVIOUS
      <4> QED BY <1>4, <1>5, <2>1, <4>1
    <3> QED BY <1>4, <2>1, <3>1 DEF Begins
  <2> QED BY <1>5, <2>1, <2>4, <2>5
<1>6. ASSUME created, phase' = "WaitingReplay",
             Challenger \in Honest /\ InState("WaitMemoryProveValues") => n >= Len(log),
             UNCHANGED <<created, running, owner, provider, initialHash, newHash, history>>
      PROVE  /\ ReplayInv' /\ HonestReplayInv'
             /\ history' \in Seq(MM!ReadWrite) /\ created'
  <2>1. history' \in Seq(MM!ReadWrite)
    BY <1>6 DEF VGInv
  <2>2. ReplayInv'
    BY <1>2, <1>3, <1>6 DEF VGInv, ReplayInv
  <2>3. HonestReplayInv'
    <3> SUFFICES ASSUME Challenger \in Honest, InState("WaitMemoryProveValues")
                 PROVE  /\ Divergence(vgDivergenceTime)'
                        /\ Begins(log, history') /\ Len(history') = Len(log)
      BY <1>1, <1>2 DEF HonestReplayInv
    <3> QED BY <1>4, <1>6 DEF Begins
  <2> QED BY <1>6, <2>1, <2>2, <2>3
<1> QED BY <1>5, <1>6 DEF ProofAccepted

\* A finished game keeps nothing of the replay.
LEMMA FinishStep ==
  ASSUME VGInv, NEW state, state # "WaitMemoryProveValues", Finish(state),
         state = "FinishedChallengerWon" => Claimer \notin Honest,
         UNCHANGED gameVars, created' => created,
         history' \in Seq(MM!ReadWrite), ~ created' => history' = <<>>
  PROVE  VGInv'
<1>1. [GameNext]_gameVars
  OBVIOUS
<1>2. GInv' /\ DivergenceIsSigned'
  BY <1>1, GameStep
<1>3. vgState' = state /\ vgDivergenceTime' = 0
  BY DEF Finish
<1>4. ReplayInv' /\ HonestReplayInv' /\ HonestClaimerDoesNotLose'
  BY <1>3 DEF ReplayInv, HonestReplayInv, HonestClaimerDoesNotLose, InState
<1>5. created' => vgDivergenceTime' \in 0..(MaxTime - 1)
  BY <1>3 DEF VGInv
<1> QED BY <1>2, <1>4, <1>5 DEF VGInv

LEMMA VGStep ==
  ASSUME VGInv, [VGNext]_vgVars
  PROVE  VGInv' /\ [GameNext]_gameVars /\ [MM!MMNext]_(MM!mmVars)
<1>1. ASSUME \/ InState("none") /\ vgState' = "WaitPartition"
             \/ UNCHANGED <<vgState, vgRoundDuration, sinceChallenge>>,
             GameNext, UNCHANGED <<mmVars, evidence>>
      PROVE  VGInv' /\ [MM!MMNext]_(MM!mmVars)
  <2>1. GInv' /\ DivergenceIsSigned'
    BY <1>1, GameStep
  <2>2. UNCHANGED <<created, history, vgDivergenceTime>> /\ UNCHANGED MM!mmVars
    BY <1>1 DEF mmVars, MM!mmVars, evidence
  <2>3. ReplayInv' /\ HonestReplayInv' /\ HonestClaimerDoesNotLose'
    <3>1. CASE vgState' = "WaitPartition"
      BY <3>1 DEF ReplayInv, HonestReplayInv, HonestClaimerDoesNotLose, InState
    <3>2. CASE vgState' = vgState
      BY <1>1, <3>2, ReplayIsKept DEF VGInv, HonestClaimerDoesNotLose
    <3> QED BY <1>1, <3>1, <3>2
  <2> QED BY <2>1, <2>2, <2>3 DEF VGInv
<1>2. ASSUME HonestProof \/ \E sender \in Users \ Honest : OtherProof(sender),
             UNCHANGED <<gameVars, vgOwnVars>>
      PROVE  VGInv' /\ MM!MMNext
  <2>1. ProofAccepted /\ MM!MMNext
    BY <1>2, HonestProofAccepted, OtherProofAccepted
  <2>2. GInv' /\ DivergenceIsSigned'
    <3>1. [GameNext]_gameVars
      BY <1>2
    <3> QED BY <3>1, GameStep
  <2>3. UNCHANGED <<vgState, vgDivergenceTime>>
    BY <1>2 DEF vgOwnVars, evidence
  <2>4. created /\ ReplayInv' /\ HonestReplayInv' /\ history' \in Seq(MM!ReadWrite) /\ created'
    BY <1>2, <2>1, ProofStep DEF ProofAccepted
  <2>5. HonestClaimerDoesNotLose' /\ vgDivergenceTime' \in 0..(MaxTime - 1)
    BY <2>3, <2>4 DEF VGInv, HonestClaimerDoesNotLose
  <2> QED BY <2>1, <2>2, <2>4, <2>5 DEF VGInv
<1>3. ASSUME StartMachineRunChallenge
      PROVE  VGInv' /\ UNCHANGED gameVars /\ MM!MMNext
  <2>1. UNCHANGED gameVars /\ vgState' = "WaitMemoryProveValues" /\ UNCHANGED history
        /\ MM!MMInstantiate(VGAddress, challenger, timeHash[divergenceTime])
    BY <1>3 DEF StartMachineRunChallenge, MM!MMInstantiate
  <2>2. [GameNext]_gameVars
    BY <2>1
  <2>3. GInv' /\ DivergenceIsSigned'
    BY <2>2, GameStep
  <2>4. VGInv'
    BY <1>3, <2>1, <2>3, ReplayStarts DEF VGInv, HonestClaimerDoesNotLose
  <2>5. PICK user \in Users, hash \in MM!Roots :
          user = challenger /\ hash = timeHash[divergenceTime]
    BY <1>3, ReplayStarts
  <2>6. MM!MMInstantiate(VGAddress, user, hash)
    BY <2>1, <2>5 DEF MM!MMInstantiate
  <2>7. VGAddress \in Users \union {VGAddress} /\ user \in Users \union {VGAddress}
    BY <2>5
  <2> QED BY <2>1, <2>4, <2>6, <2>7 DEF MM!MMNext
<1>4. ASSUME WinByPartitionTimeout
      PROVE  VGInv' /\ UNCHANGED gameVars /\ UNCHANGED MM!mmVars
  <2>1. UNCHANGED gameVars /\ UNCHANGED mmVars
    BY <1>4 DEF WinByPartitionTimeout
  <2>2. UNCHANGED MM!mmVars /\ UNCHANGED <<created, history>>
    BY <2>1 DEF mmVars, MM!mmVars
  <2>3. /\ created' => created
        /\ history' \in Seq(MM!ReadWrite) /\ (~ created' => history' = <<>>)
    BY <2>2 DEF VGInv
  <2>4. ASSUME currentState = "ChallengerWon", Finish("FinishedChallengerWon")
        PROVE  VGInv'
    <3>1. Claimer \notin Honest
      BY <2>4 DEF VGInv, GInv, HonestPartyIsNeverTimedOut
    <3> QED BY <2>1, <2>3, <2>4, <3>1, FinishStep
  <2>5. ASSUME Finish("FinishedClaimerWon")
        PROVE  VGInv'
    BY <2>1, <2>3, <2>5, FinishStep
  <2> QED BY <1>4, <2>1, <2>2, <2>4, <2>5 DEF WinByPartitionTimeout
<1>5. ASSUME NEW sender \in Users, SettleVerificationGame(sender)
      PROVE  VGInv' /\ UNCHANGED gameVars /\ MM!MMNext
  <2>1. /\ Finish("FinishedClaimerWon") /\ UNCHANGED gameVars
        /\ MM!FinishReplayPhase(VGAddress)
    BY <1>5 DEF SettleVerificationGame
  <2>2. created /\ created' /\ history' = <<>> /\ history' \in Seq(MM!ReadWrite)
    BY <2>1, EmptySeq DEF MM!FinishReplayPhase, MM!InPhase
  <2>3. VGInv'
    BY <2>1, <2>2, FinishStep
  <2>4. VGAddress \in Users \union {VGAddress}
    OBVIOUS
  <2> QED BY <2>1, <2>3, <2>4 DEF MM!MMNext
<1>6. ASSUME NEW sender \in Users, VGClaimVictoryByTime(sender)
      PROVE  VGInv' /\ UNCHANGED gameVars /\ UNCHANGED MM!mmVars
  <2>1. Finish("FinishedClaimerWon") /\ UNCHANGED gameVars /\ UNCHANGED mmVars
    BY <1>6 DEF VGClaimVictoryByTime
  <2>2. UNCHANGED MM!mmVars /\ UNCHANGED <<created, history>>
    BY <2>1 DEF mmVars, MM!mmVars
  <2>3. /\ created' => created
        /\ history' \in Seq(MM!ReadWrite) /\ (~ created' => history' = <<>>)
    BY <2>2 DEF VGInv
  <2>4. VGInv'
    BY <2>1, <2>3, FinishStep
  <2> QED BY <2>1, <2>2, <2>4
<1>7. ASSUME UNCHANGED <<gameVars, mmVars, vgState, evidence>>
      PROVE  VGInv' /\ UNCHANGED MM!mmVars
  <2>1. GInv' /\ DivergenceIsSigned' /\ ReplayInv' /\ HonestReplayInv'
    <3>1. [GameNext]_gameVars
      BY <1>7
    <3> QED BY <1>7, <3>1, GameStep, ReplayIsKept
  <2>2. UNCHANGED <<created, history, vgDivergenceTime>> /\ UNCHANGED MM!mmVars
    BY <1>7 DEF mmVars, MM!mmVars, evidence
  <2> QED BY <1>7, <2>1, <2>2 DEF VGInv, HonestClaimerDoesNotLose
<1> QED BY <1>1, <1>2, <1>3, <1>4, <1>5, <1>6, <1>7, VGCases

LEMMA VGInvariance == VGSafety => []VGInv
<1>1. VGInv /\ [VGNext]_vgVars => VGInv'
  BY VGStep
<1> QED BY <1>1, VGInitInv, PTL DEF VGSafety

-----------------------------------------------------------------------------
\* The partition of a verification game is played as PartitionGame says: what is proved
\* of it there holds here (VGInstantiator.sol creates it and only reads it from then on).
THEOREM VGImplementsGame == VGSafety => GameSafety
<1>1. VGInit => GameInit
  BY DEF VGInit
<1>2. VGInv /\ [VGNext]_vgVars => [GameNext]_gameVars
  BY VGStep
<1> QED BY <1>1, <1>2, VGInvariance, PTL DEF VGSafety, GameSafety

\* The memory manager that startMachineRunChallenge creates is used as MMInstantiator
\* allows, by the contract and by anybody: what is proved of it holds here.
THEOREM VGImplementsMM == VGSafety => MM!MMSpec
<1>1. VGInit => MM!MMInit
  BY DEF VGInit
<1>2. VGInv /\ [VGNext]_vgVars => [MM!MMNext]_(MM!mmVars)
  BY VGStep
<1> QED BY <1>1, <1>2, VGInvariance, PTL DEF VGSafety, MM!MMSpec

-----------------------------------------------------------------------------
\* The replay judges two consecutive hashes that the claimer has signed, whatever is
\* presented to the partition after it has begun (VGInstantiator.sol).
THEOREM ReplaysJudgeSignedHashes == VGSafety => []ReplayJudgesSignedHashes
<1>1. VGInv => ReplayJudgesSignedHashes
  BY DEF VGInv, ReplayInv, ReplayJudgesSignedHashes
<1> QED BY <1>1, VGInvariance, PTL

\* A history that is the log of the step ends at the root of the machine after it.
LEMMA WholeLogLeadsToNext ==
  ASSUME VGInv, InState("WaitMemoryProveValues"), initialHash = Trace[vgDivergenceTime],
         history = StepLog[Trace[vgDivergenceTime]]
  PROVE  newHash = Trace[vgDivergenceTime + 1]
<1>1. Leads(history, initialHash, newHash) /\ ReplayJudgesSignedHashes /\ GInv
  BY DEF VGInv, ReplayInv
<1>2. {vgDivergenceTime, vgDivergenceTime + 1} \subseteq Times
  BY <1>1 DEF ReplayJudgesSignedHashes, GInv, IInv, TypeOK
<1>3. vgDivergenceTime \in 0..(MaxTime - 1)
  BY <1>2 DEF Times
<1>4. history \in Seq(MM!ReadWrite) /\ Leads(history, initialHash, Trace[vgDivergenceTime + 1])
  BY <1>3, MachineSteps
<1> QED BY <1>1, <1>4, LeadsToOne

LEMMA DivergenceBelow ==
  ASSUME VGInv, InState("WaitMemoryProveValues")
  PROVE  vgDivergenceTime \in 0..(MaxTime - 1)
<1>1. {vgDivergenceTime, vgDivergenceTime + 1} \subseteq Times
  BY DEF VGInv, ReplayInv, ReplayJudgesSignedHashes, GInv, IInv, TypeOK
<1> QED BY <1>1 DEF Times

\* When an honest challenger has ended its proofs, the step runs through and its result
\* is not the hash the claimer signed: the condition that settleVerificationGame tests
\* before it calls challengerWins is met.
THEOREM HonestChallengersHaveEvidence == VGSafety => []HonestChallengerHasEvidence
<1>1. VGInv => HonestChallengerHasEvidence
  <2> SUFFICES ASSUME VGInv, Challenger \in Honest, InState("WaitMemoryProveValues"),
                      phase = "WaitingReplay"
               PROVE  StepMatches /\ ProvesClaimerWrong
    BY DEF HonestChallengerHasEvidence
  <2>1. /\ timeHash[vgDivergenceTime] = Trace[vgDivergenceTime]
        /\ timeHash[vgDivergenceTime + 1] # Trace[vgDivergenceTime + 1]
        /\ Begins(StepLog[Trace[vgDivergenceTime]], history)
        /\ Len(history) = Len(StepLog[Trace[vgDivergenceTime]])
    BY DEF VGInv, HonestReplayInv, Divergence, Agrees
  <2>2. /\ initialHash = Trace[vgDivergenceTime]
        /\ hashAfterDivergence = timeHash[vgDivergenceTime + 1]
    BY <2>1 DEF VGInv, ReplayInv, ReplayJudgesSignedHashes
  <2>3. /\ initialHash \in MM!Memories
        /\ StepLog[initialHash] \in Seq(MM!ReadWrite)
        /\ history \in Seq(MM!ReadWrite)
    BY <2>2, DivergenceBelow, MachineSteps DEF VGInv
  <2>4. history = StepLog[initialHash]
    BY <2>1, <2>2, <2>3, SeqEqual DEF Begins
  <2>5. newHash = Trace[vgDivergenceTime + 1]
    BY <2>2, <2>4, WholeLogLeadsToNext
  <2>6. SubSeq(history, 1, Len(StepLog[initialHash])) = StepLog[initialHash]
    BY <2>3, <2>4, SubSeqFull
  <2>7. Len(StepLog[initialHash]) \in Nat
    BY <2>3, LenProperties
  <2>8. StepMatches
    BY <2>3, <2>4, <2>6, <2>7 DEF StepMatches
  <2>9. ProvesClaimerWrong
    BY <2>1, <2>2, <2>4, <2>5 DEF ProvesClaimerWrong
  <2> QED BY <2>8, <2>9
<1> QED BY <1>1, VGInvariance, PTL

\* No proofs of a dishonest challenger meet that condition against an honest claimer.
THEOREM NoEvidenceAgainstHonest == VGSafety => []NoEvidenceAgainstHonestClaimer
<1>1. VGInv => NoEvidenceAgainstHonestClaimer
  <2> SUFFICES ASSUME VGInv, Claimer \in Honest, InState("WaitMemoryProveValues"),
                      StepMatches, ProvesClaimerWrong
               PROVE  FALSE
    BY DEF NoEvidenceAgainstHonestClaimer
  <2>1. /\ {vgDivergenceTime, vgDivergenceTime + 1} \subseteq timeSubmitted
        /\ initialHash = timeHash[vgDivergenceTime]
        /\ hashAfterDivergence = timeHash[vgDivergenceTime + 1]
    BY DEF VGInv, ReplayInv, ReplayJudgesSignedHashes
  <2>2. /\ timeHash[vgDivergenceTime] = Trace[vgDivergenceTime]
        /\ timeHash[vgDivergenceTime + 1] = Trace[vgDivergenceTime + 1]
    BY <2>1 DEF VGInv, GInv, ClaimerSignsOnlyTrueHashes, Agrees
  <2>3. history \in Seq(MM!ReadWrite)
    BY DEF VGInv
  <2>4. SubSeq(history, 1, Len(history)) = StepLog[initialHash]
    BY DEF StepMatches, ProvesClaimerWrong
  <2>5. history = StepLog[initialHash]
    BY <2>3, <2>4, SubSeqFull
  <2>6. newHash = Trace[vgDivergenceTime + 1]
    BY <2>1, <2>2, <2>5, WholeLogLeadsToNext
  <2> QED BY <2>1, <2>2, <2>6 DEF ProvesClaimerWrong
<1> QED BY <1>1, VGInvariance, PTL

\* An honest claimer never loses a verification game: it is never late in the partition,
\* and there is no other way to FinishedChallengerWon.
THEOREM HonestClaimersDoNotLose == VGSafety => []HonestClaimerDoesNotLose
<1>1. VGInv => HonestClaimerDoesNotLose
  BY DEF VGInv
<1> QED BY <1>1, VGInvariance, PTL

\* The game has at most one winner, who stays the winner: the part of RefinesContest
\* that does not depend on fairness.
THEOREM VGImplementsContest == VGSafety => Outcome!ContestSafety
<1> DEFINE verdict == IF InState("none") THEN "none"
                      ELSE IF InState("FinishedChallengerWon") THEN "challenger"
                      ELSE IF InState("FinishedClaimerWon") THEN "claimer"
                      ELSE "open"
<1>1. VGInit => Outcome!ContestInit
  BY DEF VGInit, Outcome!ContestInit, InState
<1>2. [VGNext]_vgVars => [Outcome!ContestNext]_verdict
  <2> SUFFICES ASSUME [VGNext]_vgVars PROVE [Outcome!ContestNext]_verdict
    OBVIOUS
  <2>1. CASE InState("none") /\ vgState' = "WaitPartition"
    BY <2>1 DEF InState, Outcome!ContestNext, Outcome!Start
  <2>2. CASE vgState' = vgState
    BY <2>2 DEF InState
  <2>3. CASE StartMachineRunChallenge
    BY <2>3 DEF StartMachineRunChallenge, InState
  <2>4. ASSUME vgState \in {"WaitPartition", "WaitMemoryProveValues"},
               vgState' \in {"FinishedChallengerWon", "FinishedClaimerWon"}
        PROVE  [Outcome!ContestNext]_verdict
    BY <2>4 DEF InState, Outcome!ContestNext, Outcome!Decide
  <2>5. ASSUME \/ WinByPartitionTimeout
               \/ \E sender \in Users : SettleVerificationGame(sender)
               \/ \E sender \in Users : VGClaimVictoryByTime(sender)
        PROVE  [Outcome!ContestNext]_verdict
    BY <2>4, <2>5
       DEF WinByPartitionTimeout, SettleVerificationGame, VGClaimVictoryByTime, Finish, InState
  <2> QED BY <2>1, <2>2, <2>3, <2>5, VGCases DEF vgOwnVars
<1> QED BY <1>1, <1>2, PTL DEF VGSafety, Outcome!ContestSafety
=============================================================================
