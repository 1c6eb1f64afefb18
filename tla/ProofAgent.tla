------------------------------ MODULE ProofAgent ------------------------------
(***************************************************************************)
(* MemoryManager with the agent that fills it, MM::react of                *)
(* compute/src/mm.rs: it has the emulator log one step of its machine and  *)
(* proves the accesses of the log one transaction after the other, each    *)
(* with the Merkle siblings that the emulator put in the log.              *)
(*                                                                         *)
(* The library Merkle, the emulator, the dispatcher and the transactions   *)
(* on their way to the chain are external. The transactions of one account *)
(* are executed in the order they were sent in, each at most once; any of  *)
(* them may be lost, or refused. An agent may be restarted: it keeps       *)
(* nothing but the archive.                                                *)
(***************************************************************************)
EXTENDS MemoryManager

CONSTANTS Agent,         \* the user that runs the agent
          MachineId, DivergenceTime, \* MMParams
          Before,        \* the machine's memory at the divergence
          Log,           \* the accesses of its next step
          Depth,         \* levels of the Merkle tree
          MaxInFlight    \* bound: transactions of the agent on their way to the chain

\* The memory before each access of the log.
MemoryAt[i \in 1..(Len(Log) + 1)] ==
  IF i = 1 THEN Before
  ELSE IF Log[i - 1].wasRead THEN MemoryAt[i - 1]
  ELSE [MemoryAt[i - 1] EXCEPT ![Log[i - 1].position] = Log[i - 1].value]

ASSUME ProofAssumption ==
  /\ Agent \in Users
  /\ Before \in Memories
  /\ Depth \in Nat
  /\ Positions = 0..(2 ^ Depth - 1)
  /\ Log \in Seq(ReadWrite)
  /\ Len(Log) <= MaxHistory
  /\ \A i \in 1..Len(Log) : Log[i].wasRead => Log[i].value = MemoryAt[i][Log[i].position]
  /\ MaxInFlight \in Nat

\* Arithmetic the provers do not know.
ASSUME PowersOfTwo ==
  /\ 2 ^ 0 = 1
  /\ \A level \in 0..Depth :
       2 ^ level \in Nat \ {0} /\ 2 ^ (level + 1) = 2 * 2 ^ level

\* What mm.rs takes from the dispatcher without a check: it reacts to an instance again
\* only when the last transaction has been executed or lost. A history_length read any
\* earlier makes the agent prove one access twice and skip another.
OneAtATime == MaxInFlight <= 1

VARIABLES archive, \* the answers the agent has stored
          asked,   \* the requests the emulator has yet to answer
          pending  \* the transactions of the agent on their way to the chain

agentVars == <<mmVars, archive, asked, pending>>

-----------------------------------------------------------------------------
\* The Merkle tree of the memory. The hash of a subtree stands for its words. The
\* sibling of a position at a level is the other half of the subtree one level up.
Sibling(position, level) ==
  LET block == position \div 2 ^ level
      twin  == IF block % 2 = 0 THEN block + 1 ELSE block - 1
  IN  {p \in Positions : p \div 2 ^ level = twin}

TreeHashes ==
  Memories \union UNION {[Sibling(p, level) -> Values] : p \in Positions, level \in 0..(Depth - 1)}

Emulator == INSTANCE EmulatorService WITH H256 <- TreeHashes, Bytes8 <- Values

\* Merkle.getRoot, which takes the siblings from the leaf to the root.
GetRoot(position, value, proof) ==
  IF /\ Len(proof) = Depth
     /\ \A level \in 0..(Depth - 1) : DOMAIN proof[level + 1] = Sibling(position, level)
  THEN [p \in Positions |->
          IF p = position THEN value
          ELSE proof[CHOOSE n \in 1..Depth : p \in Sibling(position, n - 1)][p]]
  ELSE Unknown

\* SessionStep: the emulator logs the siblings from the root to the leaf.
StepAnswer ==
  Emulator!StepResponseTo([log |-> [i \in 1..Len(Log) |->
    LET position == Log[i].position
        memory   == MemoryAt[i]
        SiblingHash(level) == [p \in Sibling(position, level) |-> memory[p]]
    IN  [field_type    |-> IF Log[i].wasRead THEN "Read" ELSE "Write",
         value_read    |-> memory[position],
         value_written |-> Log[i].value,
         proof |-> [address          |-> position,
                    log2_target_size |-> 0,
                    log2_root_size   |-> Depth,
                    target_hash      |-> [p \in {position} |-> memory[p]],
                    sibling_hashes   |-> [n \in 1..Depth |-> SiblingHash(Depth - n)],
                    root_hash        |-> memory]]]])

-----------------------------------------------------------------------------
\* getState: the values in the order the contract returns them.
GetState == <<provider, initialHash, newHash, Len(history), phase>>

\* MMCtx from MMCtxParsed.
MMCtx(parsed) ==
  [provider |-> parsed[1], initial_hash |-> parsed[2], final_hash |-> parsed[3],
   history_length |-> parsed[4], current_state |-> parsed[5]]

\* Mutants of the operators below.
AllButOneProved(ctx, log) == ctx.history_length >= Len(log) - 1
AsLogged(siblings) == siblings

\* If all proofs have been inserted, finish proof phase.
AllProved(ctx, log) == ctx.history_length >= Len(log)

\* siblings.reverse(): "this should not be necessary, the emulator should do it".
LeafFirst(siblings) == [n \in 1..Len(siblings) |-> siblings[Len(siblings) + 1 - n]]

ProofTx(access) ==
  IF access.field_type = "Read"
  THEN [call |-> "proveRead", position |-> access.address, value |-> access.value_read,
        proof |-> LeafFirst(access.proof.sibling_hashes)]
  ELSE [call |-> "proveWrite", position |-> access.address, oldValue |-> access.value_read,
        newValue |-> access.value_written, proof |-> LeafFirst(access.proof.sibling_hashes)]

Reaction(ctx, log) ==
  IF AllProved(ctx, log) THEN [call |-> "finishProofPhase"]
  ELSE ProofTx(log[ctx.history_length + 1])

StepKey == Emulator!build_session_step_key(MachineId, DivergenceTime)
StepRequest ==
  [key |-> StepKey, request |-> Emulator!SessionStepRequest(MachineId, DivergenceTime)]

\* VG::react passes control to MM::react while the instance waits for proofs.
Reacts == created /\ provider = Agent /\ MMCtx(GetState).current_state = "WaitingProofs"

AgentSends ==
  /\ Reacts
  /\ Len(pending) < MaxInFlight
  /\ \E response \in Emulator!Responses(archive, StepKey) :
       /\ Emulator!ReadsStepResponse(response)
       /\ pending' = Append(pending,
                            Reaction(MMCtx(GetState), Emulator!StepResponseFrom(response).log))
  /\ UNCHANGED <<mmVars, archive, asked>>

AgentAsks ==
  /\ Reacts
  /\ Emulator!Responses(archive, StepKey) = {}
  /\ asked' = asked \union {StepRequest}
  /\ UNCHANGED <<mmVars, archive, pending>>

EmulatorAnswers ==
  /\ \E ask \in asked :
       /\ archive' = Emulator!Insert(archive, ask.key, StepAnswer)
       /\ asked' = asked \ {ask}
  /\ UNCHANGED <<mmVars, pending>>

Restart ==
  /\ created
  /\ archive' = Emulator!EmptyArchive
  /\ asked' = {}
  /\ UNCHANGED <<mmVars, pending>>

-----------------------------------------------------------------------------
\* The chain executes the oldest transaction of the agent.
Land ==
  /\ pending # <<>>
  /\ pending' = Tail(pending)
  /\ LET tx == Head(pending) IN
     \/ /\ tx.call = "proveRead"
        /\ GetRoot(tx.position, tx.value, tx.proof) = newHash
        /\ ProveRead(Agent, tx.position, tx.value)
     \/ /\ tx.call = "proveWrite"
        /\ GetRoot(tx.position, tx.oldValue, tx.proof) = newHash
        /\ ProveWrite(Agent, tx.position, tx.oldValue, tx.newValue)
     \/ tx.call = "finishProofPhase" /\ FinishProofPhase(Agent)
  /\ UNCHANGED <<archive, asked>>

\* It is lost, or refused.
Lose ==
  /\ pending # <<>>
  /\ pending' = Tail(pending)
  /\ UNCHANGED <<mmVars, archive, asked>>

\* Anybody else sends anything, with whatever proof there is.
Others ==
  /\ \/ \E newOwner, newProvider \in Users, hash \in Roots :
          /\ newProvider = Agent => hash = Before
          /\ MMInstantiate(newOwner, newProvider, hash)
     \/ \E sender \in Users \ {Agent} :
          \/ \E position \in Positions, value \in Values : ProveRead(sender, position, value)
          \/ \E position \in Positions, oldValue, newValue \in Values :
               ProveWrite(sender, position, oldValue, newValue)
          \/ FinishProofPhase(sender)
     \/ \E sender \in Users : FinishReplayPhase(sender)
  /\ UNCHANGED <<archive, asked, pending>>

AgentInit == MMInit /\ archive = Emulator!EmptyArchive /\ asked = {} /\ pending = <<>>

AgentNext == Others \/ Land \/ Lose \/ AgentSends \/ AgentAsks \/ EmulatorAnswers \/ Restart

\* The agent keeps reacting and the emulator answers. A transaction that is sent again
\* and again is executed in the end, and so on for an agent restarted again and again.
AgentFairness ==
  /\ SF_agentVars(Land)
  /\ SF_agentVars(AgentSends)
  /\ WF_agentVars(AgentAsks)
  /\ SF_agentVars(EmulatorAnswers)

AgentSafety == AgentInit /\ [][AgentNext]_agentVars

AgentSpec == AgentSafety /\ AgentFairness

-----------------------------------------------------------------------------
\* When an agent has finished the proof phase, the history is the log of the step,
\* neither shorter nor longer, and newHash is the memory after it: the step replays
\* (settleVerificationGame steps the machine against the history).
LogIsComplete ==
  provider = Agent /\ phase = "WaitingReplay" =>
    history = Log /\ newHash = MemoryAt[Len(Log) + 1]

\* The contract refuses nothing that the agent sends: the memory is still the one that the
\* siblings were logged for, and with them in the order of mm.rs Merkle.getRoot comes to
\* newHash, as well as to the root of the memory after a write.
ProofsAreAccepted ==
  pending # <<>> =>
    LET tx == Head(pending) IN
    /\ InPhase("WaitingProofs") /\ provider = Agent
    /\ tx.call # "finishProofPhase" => Len(history) < MaxHistory
    /\ tx.call = "proveRead" => GetRoot(tx.position, tx.value, tx.proof) = newHash
    /\ tx.call = "proveWrite" =>
         /\ GetRoot(tx.position, tx.oldValue, tx.proof) = newHash
         /\ GetRoot(tx.position, tx.newValue, tx.proof)
              = Rewritten(newHash, tx.position, tx.newValue)

\* What becomes of all this is the agent of VerificationGame (HonestProof there), for an
\* agent with one transaction on its way (OneAtATime) that is executed once or never:
\* whatever is lost, refused or forgotten in a restart, the contract sees the accesses of
\* the log one after the other, and the end of the proof phase after the last.
ProvesInOrder ==
  [][created /\ provider = Agent /\ phase = "WaitingProofs" =>
       \/ Len(history) >= Len(Log) /\ FinishProofPhase(Agent)
       \/ Len(history) < Len(Log) /\ ProveAccess(Agent, Log[Len(history) + 1])]_mmVars

\* The agent gets its proofs accepted and ends the proof phase, whatever transactions are
\* lost on the way.
ProofsEnd == created /\ provider = Agent ~> phase # "WaitingProofs"
=============================================================================
