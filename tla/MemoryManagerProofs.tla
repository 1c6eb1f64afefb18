------------------------- MODULE MemoryManagerProofs -------------------------
(***************************************************************************)
(* Whoever fills the log of a memory manager, and with whatever proofs:    *)
(* the log is a run of the memory from the initial root to the new one,    *)
(* for every memory and every number of accesses.                          *)
(***************************************************************************)
EXTENDS MemoryManager, TLAPS, SequenceTheorems, WellFoundedInduction

\* The inductive invariant: the log is empty before the instance exists and after the
\* replay.
MMInv ==
  /\ MMTypeOK
  /\ HistoryExplainsHash
  /\ ~ created => history = <<>> /\ phase = "WaitingProofs"
  /\ phase = "FinishedReplay" => history = <<>>

USE MemoryAssumption

-----------------------------------------------------------------------------
\* Induction over numbers, stated for a set of them.
LEMMA LeastNumber ==
  ASSUME NEW S, S \subseteq Nat, S # {}
  PROVE  \E m \in S : \A k \in S : m <= k
<1>1. PICK m \in S : \A k \in S : <<k, m>> \notin OpToRel(<, Nat)
  BY WFMin, NatLessThanWellFounded, Zenon
<1>2. \A k \in S : ~ (k < m)
  BY <1>1, Zenon DEF OpToRel
<1> QED BY <1>2

LEMMA NumberInduction ==
  ASSUME NEW S, 0 \in S, \A n \in Nat : n \in S => n + 1 \in S
  PROVE  Nat \subseteq S
<1> SUFFICES ASSUME Nat \ S # {} PROVE FALSE
  OBVIOUS
<1>1. PICK m \in Nat \ S : \A k \in Nat \ S : m <= k
  <2>1. Nat \ S \subseteq Nat
    OBVIOUS
  <2> QED BY <2>1, LeastNumber
<1>2. m - 1 \in Nat /\ m - 1 < m /\ m = (m - 1) + 1
  BY <1>1
<1>3. m - 1 \in S
  BY <1>1, <1>2
<1> QED BY <1>1, <1>2, <1>3

\* The writes of a log.
LEMMA LatestIsLast ==
  ASSUME NEW n \in Nat, NEW S, S \subseteq 1..n, S # {}
  PROVE  Latest(S) \in S /\ \A j \in S : j <= Latest(S)
<1> DEFINE Bounds == {k \in Nat : \A j \in S : j <= k}
<1>1. n \in Bounds /\ \A j \in S : j \in Nat
  <2>1. \A j \in S : j \in 1..n
    OBVIOUS
  <2>2. \A j \in S : j <= n /\ j \in Nat
    BY <2>1
  <2> QED BY <2>2
<1>2. PICK k \in Bounds : \A m \in Bounds : k <= m
  <2> HIDE DEF Bounds
  <2>1. Bounds \subseteq Nat /\ Bounds # {}
    BY <1>1 DEF Bounds
  <2> QED BY <2>1, LeastNumber
<1>4. k \in S
  <2> SUFFICES ASSUME k \notin S PROVE FALSE
    OBVIOUS
  <2>1. \A j \in S : j <= k - 1
    <3>1. k \in Nat /\ \A j \in S : j <= k /\ j # k /\ j \in Nat
      BY <1>1
    <3> QED BY <3>1
  <2>2. k - 1 \in Nat
    <3>1. PICK j \in S : j \in 1..n
      OBVIOUS
    <3> QED BY <2>1, <3>1
  <2>3. k - 1 \in Bounds
    BY <2>1, <2>2
  <2> QED BY <1>2, <2>3
<1>5. \A j \in S : j <= k
  OBVIOUS
<1> HIDE DEF Bounds
<1> QED BY <1>4, <1>5 DEF Latest

LEMMA OneMoreAccess ==
  ASSUME history \in Seq(ReadWrite), NEW n \in Nat, n = Len(history), NEW rw \in ReadWrite,
         history' = Append(history, rw), initialHash' = initialHash,
         NEW position \in Positions
  PROVE  /\ \A count \in 0..n : ValueAfter(count, position)' = ValueAfter(count, position)
         /\ ValueAfter(n + 1, position)'
              = IF ~ rw.wasRead /\ rw.position = position THEN rw.value
                ELSE ValueAfter(n, position)
<1>1. /\ history'[n + 1] = rw
      /\ \A i \in 1..n : history'[i] = history[i]
  BY AppendProperties
<1>2. ASSUME NEW count \in 0..n
      PROVE  /\ Writes(count, position)' = Writes(count, position)
             /\ ValueAfter(count, position)' = ValueAfter(count, position)
  <2>1. Writes(count, position)' = Writes(count, position)
    BY <1>1 DEF Writes
  <2>2. CASE Writes(count, position) = {}
    BY <2>1, <2>2 DEF ValueAfter
  <2>3. CASE Writes(count, position) # {}
    <3>1. Writes(count, position) \subseteq 1..count
      BY DEF Writes
    <3>2. Latest(Writes(count, position)) \in 1..n
      BY <1>1, <2>3, <3>1, LatestIsLast
    <3> QED BY <1>1, <2>1, <2>3, <3>2 DEF ValueAfter
  <2> QED BY <2>1, <2>2, <2>3
<1>3. CASE ~ rw.wasRead /\ rw.position = position
  <2> DEFINE W == Writes(n + 1, position)'
  <2>1. W \subseteq 1..(n + 1) /\ n + 1 \in W
    BY <1>1, <1>3 DEF Writes
  <2>2. Latest(W) \in W /\ \A j \in W : j <= Latest(W)
    <3> HIDE DEF W
    <3>1. n + 1 \in Nat /\ W # {}
      BY <2>1
    <3> QED BY <2>1, <3>1, LatestIsLast
  <2>3. Latest(W) = n + 1
    BY <1>1, <2>1, <2>2
  <2> QED BY <1>1, <1>2, <1>3, <2>1, <2>3 DEF ValueAfter
<1>4. CASE rw.wasRead \/ rw.position # position
  <2>1. Writes(n + 1, position)' = Writes(n, position)'
    BY <1>1, <1>4 DEF Writes
  <2>2. n \in 0..n
    BY <1>1
  <2>3. ValueAfter(n + 1, position)' = ValueAfter(n, position)'
    BY <2>1 DEF ValueAfter
  <2> QED BY <1>2, <1>4, <2>2, <2>3
<1> QED BY <1>2, <1>3, <1>4

\* The history read as a run: what HistoryExplainsHash says while the log is filled.
Explained ==
  /\ {initialHash, newHash} \subseteq Memories
  /\ \A position \in Positions : newHash[position] = ValueAfter(Len(history), position)
  /\ \A i \in 1..Len(history) :
       history[i].wasRead => history[i].value = ValueAfter(i - 1, history[i].position)

LEMMA ExplainedBefore ==
  ASSUME MMInv, InPhase("WaitingProofs"), newHash \in Memories
  PROVE  Explained
<1>1. CASE history = <<>>
  <2>1. Len(history) = 0 /\ initialHash = newHash
    BY <1>1 DEF MMInv, HistoryExplainsHash, InPhase
  <2>2. \A position \in Positions : Writes(0, position) = {}
    BY DEF Writes
  <2> QED BY <2>1, <2>2 DEF Explained, ValueAfter
<1>2. CASE history # <<>>
  BY <1>2 DEF MMInv, HistoryExplainsHash, Explained
<1> QED BY <1>1, <1>2

\* An access that the memory committed to by newHash allows extends the run.
LEMMA AccessProved ==
  ASSUME MMInv, InPhase("WaitingProofs"), newHash \in Memories,
         NEW rw \in ReadWrite, history' = Append(history, rw),
         Access(newHash, rw, newHash'),
         UNCHANGED <<created, running, owner, provider, initialHash, phase>>
  PROVE  MMInv'
<1> PICK n \in Nat : n = Len(history)
  BY LenProperties DEF MMInv, MMTypeOK
<1>1. n \in Nat /\ Len(history') = n + 1 /\ history' # <<>> /\ history' \in Seq(ReadWrite)
      /\ \A i \in 1..n : history'[i] = history[i] /\ history[i] \in ReadWrite
      /\ history'[n + 1] = rw
  BY AppendProperties, ElementOfSeq DEF MMInv, MMTypeOK
<1>2. Explained
  BY ExplainedBefore
<1>3. rw.position \in Positions /\ rw.value \in Values /\ rw.wasRead \in BOOLEAN
  BY DEF ReadWrite
<1>4. newHash' \in Memories
  BY <1>3 DEF Access, Memories
<1>5. ASSUME NEW position \in Positions
      PROVE  /\ \A count \in 0..n : ValueAfter(count, position)' = ValueAfter(count, position)
             /\ ValueAfter(n + 1, position)'
                  = IF ~ rw.wasRead /\ rw.position = position THEN rw.value
                    ELSE ValueAfter(n, position)
  BY <1>1, OneMoreAccess DEF MMInv, MMTypeOK
<1>6. ASSUME NEW position \in Positions
      PROVE  newHash'[position] = ValueAfter(n + 1, position)'
  <2>1. newHash[position] = ValueAfter(n, position)
    BY <1>2 DEF Explained
  <2>2. newHash'[position]
          = IF ~ rw.wasRead /\ rw.position = position THEN rw.value ELSE newHash[position]
    BY <1>3 DEF Access, Memories
  <2> QED BY <1>5, <2>1, <2>2
<1>7. ASSUME NEW i \in 1..(n + 1), history'[i].wasRead
      PROVE  (history[i].value = ValueAfter(i - 1, history[i].position))'
  <2> DEFINE position == history'[i].position
  <2>1. position \in Positions /\ i - 1 \in 0..n
    BY <1>1, <1>3 DEF ReadWrite
  <2>2. ValueAfter(i - 1, history[i].position)' = ValueAfter(i - 1, position)
    <3>1. ASSUME NEW p \in Positions, p = position
          PROVE  ValueAfter(i - 1, p)' = ValueAfter(i - 1, p)
      BY <1>5, <2>1
    <3> QED BY <2>1, <3>1 DEF ValueAfter, Writes
  <2>3. history'[i].value = ValueAfter(i - 1, position)
    <3>1. CASE i \in 1..n
      BY <1>1, <1>2, <1>7, <3>1 DEF Explained
    <3>2. CASE i = n + 1
      BY <1>1, <1>2, <1>3, <1>7, <3>2 DEF Access, Explained
    <3> QED BY <3>1, <3>2
  <2> QED BY <2>2, <2>3
<1>8. HistoryExplainsHash'
  <2>1. {initialHash', newHash'} \subseteq Memories
    BY <1>2, <1>4 DEF Explained
  <2>2. \A position \in Positions : (newHash[position] = ValueAfter(Len(history), position))'
    BY <1>1, <1>6
  <2>3. \A i \in 1..Len(history') :
          history'[i].wasRead => (history[i].value = ValueAfter(i - 1, history[i].position))'
    BY <1>1, <1>7
  <2> QED BY <1>1, <2>1, <2>2, <2>3 DEF HistoryExplainsHash
<1>9. MMTypeOK'
  BY <1>1, <1>4 DEF MMInv, MMTypeOK, Roots
<1> QED BY <1>8, <1>9 DEF MMInv, InPhase

LEMMA MMInitInv == MMInit => MMInv
  BY EmptySeq DEF MMInit, MMInv, MMTypeOK, Roots, Phases, HistoryExplainsHash

LEMMA MMStep == MMInv /\ [MMNext]_mmVars => MMInv'
<1> SUFFICES ASSUME MMInv, [MMNext]_mmVars PROVE MMInv'
  OBVIOUS
<1>1. ASSUME NEW newOwner \in Users, NEW newProvider \in Users, NEW hash \in Roots,
             MMInstantiate(newOwner, newProvider, hash)
      PROVE  MMInv'
  BY <1>1 DEF MMInstantiate, MMInv, MMTypeOK, Phases, HistoryExplainsHash
<1>2. ASSUME NEW sender \in Users, NEW position \in Positions, NEW value \in Values,
             ProveRead(sender, position, value)
      PROVE  MMInv'
  <2> DEFINE rw == [wasRead |-> TRUE, position |-> position, value |-> value]
  <2>1. rw \in ReadWrite /\ newHash \in Memories /\ Access(newHash, rw, newHash)
    BY <1>2 DEF ProveRead, Proves, ReadWrite, Access
  <2>2. InPhase("WaitingProofs") /\ history' = Append(history, rw) /\ newHash' = newHash
    BY <1>2 DEF ProveRead
  <2>3. UNCHANGED <<created, running, owner, provider, initialHash, phase>>
    BY <1>2 DEF ProveRead
  <2> HIDE DEF rw
  <2> QED BY <2>1, <2>2, <2>3, AccessProved
<1>3. ASSUME NEW sender \in Users, NEW position \in Positions,
             NEW oldValue \in Values, NEW newValue \in Values,
             ProveWrite(sender, position, oldValue, newValue)
      PROVE  MMInv'
  <2> DEFINE rw == [wasRead |-> FALSE, position |-> position, value |-> newValue]
  <2>1. rw \in ReadWrite /\ newHash \in Memories /\ Access(newHash, rw, newHash')
    BY <1>3 DEF ProveWrite, Proves, Rewritten, ReadWrite, Access
  <2>2. InPhase("WaitingProofs") /\ history' = Append(history, rw)
    BY <1>3 DEF ProveWrite
  <2>3. UNCHANGED <<created, running, owner, provider, initialHash, phase>>
    BY <1>3 DEF ProveWrite
  <2> HIDE DEF rw
  <2> QED BY <2>1, <2>2, <2>3, AccessProved
<1>4. ASSUME NEW sender \in Users, FinishProofPhase(sender)
      PROVE  MMInv'
  BY <1>4 DEF FinishProofPhase, InPhase, MMInv, MMTypeOK, Phases, HistoryExplainsHash,
              Writes, ValueAfter
<1>5. ASSUME NEW sender \in Users, FinishReplayPhase(sender)
      PROVE  MMInv'
  BY <1>5, EmptySeq DEF FinishReplayPhase, InPhase, MMInv, MMTypeOK, Phases, HistoryExplainsHash
<1>6. CASE UNCHANGED mmVars
  BY <1>6 DEF mmVars, MMInv, MMTypeOK, HistoryExplainsHash, Writes, ValueAfter
<1> QED BY <1>1, <1>2, <1>3, <1>4, <1>5, <1>6 DEF MMNext

LEMMA MMInvariance == MMSpec => []MMInv
  BY MMInitInv, MMStep, PTL DEF MMSpec

-----------------------------------------------------------------------------
\* Storage keeps its types: in particular what is logged is an access to the memory.
THEOREM MMTypeCorrect == MMSpec => []MMTypeOK
<1>1. MMInv => MMTypeOK
  BY DEF MMInv
<1> QED BY <1>1, MMInvariance, PTL

\* Until the replay, the log that machine.step is given is a run from the memory of the
\* divergence to the one that newHash commits to (MMInstantiator.sol).
THEOREM HistoryExplainsHashes == MMSpec => []HistoryExplainsHash
<1>1. MMInv => HistoryExplainsHash
  BY DEF MMInv
<1> QED BY <1>1, MMInvariance, PTL

\* Nobody adds to the log, or moves the root, after finishProofPhase.
THEOREM FinishedProofsAreFrozen == MMSpec => ProofsAreFrozen
<1>1. MMInv /\ [MMNext]_mmVars =>
        [phase # "WaitingProofs" =>
           /\ UNCHANGED <<initialHash, newHash>>
           /\ phase' = phase => UNCHANGED history]_mmVars
  BY DEF MMNext, MMInstantiate, ProveRead, ProveWrite, FinishProofPhase, FinishReplayPhase,
         InPhase, MMInv
<1> QED BY <1>1, MMInvariance, PTL DEF MMSpec, ProofsAreFrozen
=============================================================================
