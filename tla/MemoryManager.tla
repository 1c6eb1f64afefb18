---------------------------- MODULE MemoryManager ----------------------------
(***************************************************************************)
(* One instance of MMInstantiator: the log of memory accesses with which a *)
(* provider justifies one step of the machine. Each access is checked      *)
(* against the root of a Merkle tree; a write moves the root.              *)
(*                                                                         *)
(* The Merkle library is external and its hash is taken to be free of      *)
(* collisions: a root is the memory it commits to, or Unknown when nobody  *)
(* knows such a memory. A proof that position holds value exists exactly   *)
(* when the memory says so. Instances share no state, so one is enough.    *)
(***************************************************************************)
EXTENDS Integers, Sequences

CONSTANTS Users, NoUser,
          Positions, Values, \* words of the machine's memory
          Unknown,           \* a root with no known memory
          MaxHistory         \* bound: accesses proved in an instance

Memories == [Positions -> Values]
Roots == Memories \union {Unknown}

ASSUME MemoryAssumption ==
  /\ NoUser \notin Users
  /\ Unknown \notin Memories
  /\ MaxHistory \in Nat

VARIABLES created,      \* currentIndex has gone past this instance
          running,      \* the flag of the library that deactivate clears
          owner, provider,
          initialHash,
          newHash,      \* the root after the writes proved so far
          history,      \* the accesses proved so far
          phase         \* currentState

mmVars == <<created, running, owner, provider, initialHash, newHash, history, phase>>

ReadWrite == [wasRead : BOOLEAN, position : Positions, value : Values]
Phases == {"WaitingProofs", "WaitingReplay", "FinishedReplay"}

MMInit ==
  /\ created = FALSE
  /\ running = FALSE
  /\ owner = NoUser
  /\ provider = NoUser
  /\ initialHash = Unknown
  /\ newHash = Unknown
  /\ history = <<>>
  /\ phase = "WaitingProofs"

-----------------------------------------------------------------------------
\* A mutant of InPhase below.
AnyPhase(name) == created

\* Some proof makes Merkle.getRoot(position, value, proof) equal to the root.
Proves(root, position, value) == root \in Memories /\ root[position] = value

\* The root that the same proof gives for another value at position.
Rewritten(root, position, value) == [root EXCEPT ![position] = value]

\* The requires on currentState.
InPhase(name) == created /\ phase = name

\* Mutants of the operations: a write that leaves the root alone, a read logged with its
\* arguments swapped.
WriteKeepsHash(sender, position, oldValue, newValue) ==
  /\ InPhase("WaitingProofs")
  /\ sender = provider
  /\ Proves(newHash, position, oldValue)
  /\ Len(history) < MaxHistory
  /\ history' = Append(history, [wasRead |-> FALSE, position |-> position, value |-> newValue])
  /\ UNCHANGED <<created, running, owner, provider, initialHash, newHash, phase>>
ReadSwapped(sender, position, value) ==
  /\ InPhase("WaitingProofs")
  /\ sender = provider
  /\ Proves(newHash, position, value)
  /\ Len(history) < MaxHistory
  /\ history' = Append(history, [wasRead |-> TRUE, position |-> value, value |-> position])
  /\ UNCHANGED <<created, running, owner, provider, initialHash, newHash, phase>>

MMInstantiate(newOwner, newProvider, hash) ==
  /\ ~ created
  /\ created' = TRUE
  /\ running' = TRUE
  /\ owner' = newOwner
  /\ provider' = newProvider
  /\ initialHash' = hash
  /\ newHash' = hash
  /\ phase' = "WaitingProofs"
  /\ UNCHANGED history

ProveRead(sender, position, value) ==
  /\ InPhase("WaitingProofs")
  /\ sender = provider
  /\ Proves(newHash, position, value)
  /\ Len(history) < MaxHistory
  /\ history' = Append(history, [wasRead |-> TRUE, position |-> position, value |-> value])
  /\ UNCHANGED <<created, running, owner, provider, initialHash, newHash, phase>>

ProveWrite(sender, position, oldValue, newValue) ==
  /\ InPhase("WaitingProofs")
  /\ sender = provider
  /\ Proves(newHash, position, oldValue)
  /\ Len(history) < MaxHistory
  /\ newHash' = Rewritten(newHash, position, newValue)
  /\ history' = Append(history, [wasRead |-> FALSE, position |-> position, value |-> newValue])
  /\ UNCHANGED <<created, running, owner, provider, initialHash, phase>>

FinishProofPhase(sender) ==
  /\ InPhase("WaitingProofs")
  /\ sender = provider
  /\ phase' = "WaitingReplay"
  /\ UNCHANGED <<created, running, owner, provider, initialHash, newHash, history>>

FinishReplayPhase(sender) ==
  /\ InPhase("WaitingReplay")
  /\ sender = owner
  /\ history' = <<>>
  /\ phase' = "FinishedReplay"
  /\ running' = FALSE
  /\ UNCHANGED <<created, owner, provider, initialHash, newHash>>

\* The transaction that MM::react of compute/src/mm.rs sends for an access of a log.
ProveAccess(sender, access) ==
  \/ access.wasRead /\ ProveRead(sender, access.position, access.value)
  \/ /\ ~ access.wasRead
     /\ \E oldValue \in Values : ProveWrite(sender, access.position, oldValue, access.value)

MMNext ==
  \/ \E newOwner, newProvider \in Users, hash \in Roots :
       MMInstantiate(newOwner, newProvider, hash)
  \/ \E sender \in Users, position \in Positions, value \in Values :
       ProveRead(sender, position, value)
  \/ \E sender \in Users, position \in Positions, oldValue, newValue \in Values :
       ProveWrite(sender, position, oldValue, newValue)
  \/ \E sender \in Users : FinishProofPhase(sender)
  \/ \E sender \in Users : FinishReplayPhase(sender)

MMSpec == MMInit /\ [][MMNext]_mmVars

-----------------------------------------------------------------------------
MMTypeOK ==
  /\ created \in BOOLEAN
  /\ running \in BOOLEAN
  /\ owner \in Users \union {NoUser}
  /\ provider \in Users \union {NoUser}
  /\ initialHash \in Roots
  /\ newHash \in Roots
  /\ history \in Seq(ReadWrite)
  /\ phase \in Phases

\* The memory after an access, when the memory before it allows the access.
Access(before, rw, after) ==
  IF rw.wasRead
  THEN before \in Memories /\ before[rw.position] = rw.value /\ after = before
  ELSE before \in Memories /\ after = [before EXCEPT ![rw.position] = rw.value]

\* Where the first accesses of the history write a position.
Writes(count, position) ==
  {i \in 1..count : ~ history[i].wasRead /\ history[i].position = position}

Latest(indices) == CHOOSE i \in indices : \A j \in indices : j <= i

\* What the first accesses of the history leave at a position.
ValueAfter(count, position) ==
  IF Writes(count, position) = {} THEN initialHash[position]
  ELSE history[Latest(Writes(count, position))].value

\* Until the replay has consumed it, the log of accesses leads from the initial memory
\* to the one newHash commits to, each read seeing the value that memory had at its
\* moment: this is all that getRWArrays gives machine.step to go by.
HistoryExplainsHash ==
  IF history = <<>>
  THEN phase # "FinishedReplay" => newHash = initialHash
  ELSE /\ {initialHash, newHash} \subseteq Memories
       /\ \A position \in Positions : newHash[position] = ValueAfter(Len(history), position)
       /\ \A i \in 1..Len(history) :
            history[i].wasRead => history[i].value = ValueAfter(i - 1, history[i].position)

\* Once the provider has finished the proof phase, nobody changes what the replay will
\* be judged by.
ProofsAreFrozen ==
  [][phase # "WaitingProofs" =>
       /\ UNCHANGED <<initialHash, newHash>>
       /\ phase' = phase => UNCHANGED history]_mmVars
=============================================================================
