--------------------------- MODULE ProofAgentProofs ---------------------------
(***************************************************************************)
(* What the agent of mm.rs makes of a memory manager: a use of the         *)
(* contract like any other, and the log of the step, complete and in       *)
(* order, as long as it has one transaction on its way at a time.          *)
(***************************************************************************)
EXTENDS ProofAgent, MemoryManagerProofs

\* Division by a positive number.
LEMMA Quotients ==
  ASSUME NEW a \in Nat, NEW b \in Nat \ {0}
  PROVE  a \div b \in Nat /\ b * (a \div b) <= a /\ a < b * (a \div b) + b
  OBVIOUS

LEMMA Products ==
  ASSUME NEW a \in Nat, NEW x \in Nat, NEW y \in Nat, x <= y
  PROVE  a * x \in Nat /\ a * y \in Nat /\ a * x <= a * y
  OBVIOUS

LEMMA QuotientIs ==
  ASSUME NEW a \in Nat, NEW b \in Nat \ {0}, NEW q \in Nat, b * q <= a, a < b * q + b
  PROVE  a \div b = q
<1> PICK r \in Nat : r = a \div b
  BY Quotients
<1>1. b * r <= a /\ a < b * r + b
  BY Quotients
<1>2. CASE r <= q - 1
  <2>1. b * (r + 1) <= b * q /\ b * (r + 1) = b * r + b
    BY <1>2, Products
  <2> QED BY <1>1, <2>1
<1>3. CASE q <= r - 1
  <2>1. b * (q + 1) <= b * r /\ b * (q + 1) = b * q + b
    BY <1>3, Products
  <2> QED BY <1>1, <2>1
<1> QED BY <1>2, <1>3

\* The other half of a block.
LEMMA Twins ==
  ASSUME NEW x \in Nat, NEW y \in Nat, x # y, x \div 2 = y \div 2
  PROVE  y = IF x % 2 = 0 THEN x + 1 ELSE x - 1
  OBVIOUS
\* Subtrees nest: half of the block of a subtree is the block of the next larger one.
LEMMA Halving ==
  ASSUME NEW a \in Nat, NEW b \in Nat \ {0}
  PROVE  (a \div b) \div 2 = a \div (2 * b) /\ a \div b \in Nat
<1> PICK q \in Nat : q = a \div b
  BY Quotients
<1> PICK h \in Nat : h = q \div 2
  OBVIOUS
<1>1. b * q <= a /\ a < b * q + b
  BY Quotients
<1>2. 2 * h <= q /\ q <= 2 * h + 1
  OBVIOUS
<1>3. (2 * b) * h <= a /\ a < (2 * b) * h + 2 * b
  <2>1. b * (2 * h) <= b * q /\ b * q <= b * (2 * h + 1)
    BY <1>2, Products
  <2>2. b * (2 * h) = (2 * b) * h /\ b * (2 * h + 1) = (2 * b) * h + b
    OBVIOUS
  <2> QED BY <1>1, <2>1, <2>2
<1>4. a \div (2 * b) = h
  <2>1. 2 * b \in Nat \ {0}
    OBVIOUS
  <2> QED BY <1>3, <2>1, QuotientIs
<1> QED BY <1>4

USE ProofAssumption

-----------------------------------------------------------------------------
\* The memory that an access of the log leaves.
After(memory, rw) ==
  IF rw.wasRead THEN memory ELSE [memory EXCEPT ![rw.position] = rw.value]

\* A run of the first accesses of the log.
IsRun(run, count) ==
  /\ run \in [1..(count + 1) -> Memories]
  /\ run[1] = Before
  /\ \A i \in 1..count : run[i + 1] = After(run[i], Log[i])

LEMMA AfterIsMemory ==
  ASSUME NEW memory \in Memories, NEW rw \in ReadWrite
  PROVE  After(memory, rw) \in Memories
  BY DEF After, Memories, ReadWrite

\* There is one of every length ...
LEMMA RunExists ==
  ASSUME NEW n \in Nat, n <= Len(Log)
  PROVE  \E run : IsRun(run, n)
<1> DEFINE With == {count \in Nat : count <= Len(Log) => \E run : IsRun(run, count)}
<1> SUFFICES Nat \subseteq With
  OBVIOUS
<1>1. 0 \in With
  <2>1. IsRun([i \in 1..1 |-> Before], 0)
    BY DEF IsRun
  <2> QED BY <2>1
<1>2. ASSUME NEW m \in Nat, m \in With
      PROVE  m + 1 \in With
  <2> SUFFICES ASSUME m + 1 <= Len(Log) PROVE \E run : IsRun(run, m + 1)
    OBVIOUS
  <2>1. m <= Len(Log) /\ m + 1 \in 1..Len(Log) /\ Log[m + 1] \in ReadWrite
    BY LenProperties, ElementOfSeq
  <2>2. PICK run : IsRun(run, m)
    BY <1>2, <2>1
  <2> DEFINE longer == [i \in 1..((m + 1) + 1) |->
                          IF i <= m + 1 THEN run[i] ELSE After(run[m + 1], Log[m + 1])]
  <2>3. /\ run \in [1..(m + 1) -> Memories] /\ run[1] = Before
        /\ \A i \in 1..m : run[i + 1] = After(run[i], Log[i])
    BY <2>2 DEF IsRun
  <2>4. After(run[m + 1], Log[m + 1]) \in Memories
    BY <2>1, <2>3, AfterIsMemory
  <2>5. longer \in [1..((m + 1) + 1) -> Memories] /\ longer[1] = Before
    BY <2>3, <2>4
  <2>6. ASSUME NEW i \in 1..(m + 1)
        PROVE  longer[i + 1] = After(longer[i], Log[i])
    <3>1. CASE i = m + 1
      BY <3>1
    <3>2. CASE i \in 1..m
      BY <2>3, <3>2
    <3> QED BY <3>1, <3>2
  <2> HIDE DEF longer
  <2>7. IsRun(longer, m + 1)
    BY <2>5, <2>6 DEF IsRun
  <2> QED BY <2>7
<1> HIDE DEF With
<1> QED BY <1>1, <1>2, NumberInduction

\* ... and the memory before each access is the one of the whole log.
LEMMA MemoryAtIsRun == IsRun(MemoryAt, Len(Log))
<1> DEFINE Body(f) ==
      [i \in 1..(Len(Log) + 1) |->
         IF i = 1 THEN Before
         ELSE IF Log[i - 1].wasRead THEN f[i - 1]
         ELSE [f[i - 1] EXCEPT ![Log[i - 1].position] = Log[i - 1].value]]
<1>1. Len(Log) \in Nat
  BY LenProperties
<1>2. PICK run : IsRun(run, Len(Log))
  BY <1>1, RunExists
<1>3. run = Body(run)
  <2>1. ASSUME NEW i \in 1..(Len(Log) + 1)
        PROVE  run[i] = Body(run)[i]
    <3>1. CASE i = 1
      BY <1>2, <3>1 DEF IsRun
    <3>2. CASE i # 1
      <4>1. i - 1 \in 1..Len(Log) /\ (i - 1) + 1 = i
        BY <1>1, <3>2
      <4>2. run[i] = After(run[i - 1], Log[i - 1])
        BY <1>2, <4>1 DEF IsRun
      <4> QED BY <3>2, <4>2 DEF After
    <3> QED BY <3>1, <3>2
  <2>2. DOMAIN run = 1..(Len(Log) + 1) /\ run = [i \in DOMAIN run |-> run[i]]
    BY <1>2 DEF IsRun
  <2> HIDE DEF Body
  <2>3. Body(run) = [i \in 1..(Len(Log) + 1) |-> Body(run)[i]]
    BY DEF Body
  <2> QED BY <2>1, <2>2, <2>3
<1>4. MemoryAt = CHOOSE f : f = Body(f)
  BY DEF MemoryAt
<1>5. MemoryAt = Body(MemoryAt)
  <2> HIDE DEF Body
  <2> QED BY <1>3, <1>4
<1>6. ASSUME NEW i \in 1..Len(Log)
      PROVE  MemoryAt[i + 1] = After(MemoryAt[i], Log[i])
  <2>1. i + 1 \in 1..(Len(Log) + 1) /\ i + 1 # 1 /\ (i + 1) - 1 = i
    BY <1>1
  <2>2. MemoryAt[i + 1] = Body(MemoryAt)[i + 1]
    BY <1>5
  <2> QED BY <2>1, <2>2 DEF After
<1>7. MemoryAt[1] = Before
  <2>1. MemoryAt[1] = Body(MemoryAt)[1]
    BY <1>5
  <2> QED BY <1>1, <2>1
<1>8. ASSUME NEW i \in 1..(Len(Log) + 1)
      PROVE  MemoryAt[i] \in Memories
  <2> DEFINE S == {n \in Nat : n <= Len(Log) => MemoryAt[n + 1] \in Memories}
  <2>1. 0 \in S
    BY <1>7
  <2>2. ASSUME NEW n \in Nat, n \in S
        PROVE  n + 1 \in S
    <3> SUFFICES ASSUME n + 1 <= Len(Log) PROVE MemoryAt[(n + 1) + 1] \in Memories
      OBVIOUS
    <3>1. n + 1 \in 1..Len(Log) /\ Log[n + 1] \in ReadWrite /\ n <= Len(Log)
      BY <1>1, ElementOfSeq
    <3> QED BY <1>6, <2>2, <3>1, AfterIsMemory
  <2>3. i - 1 \in Nat /\ i - 1 <= Len(Log) /\ (i - 1) + 1 = i
    BY <1>1
  <2>4. i - 1 \in S
    <3> HIDE DEF S
    <3> QED BY <2>1, <2>2, <2>3, NumberInduction
  <2> QED BY <2>3, <2>4
<1>9. MemoryAt \in [1..(Len(Log) + 1) -> Memories]
  <2>1. MemoryAt = [i \in 1..(Len(Log) + 1) |-> MemoryAt[i]]
    <3>1. DOMAIN Body(MemoryAt) = 1..(Len(Log) + 1)
      OBVIOUS
    <3>2. Body(MemoryAt) = [i \in DOMAIN Body(MemoryAt) |-> Body(MemoryAt)[i]]
      OBVIOUS
    <3> HIDE DEF Body
    <3> QED BY <1>5, <3>1, <3>2
  <2> QED BY <1>8, <2>1
<1> QED BY <1>6, <1>7, <1>9 DEF IsRun

-----------------------------------------------------------------------------
\* A sibling for every other word: the first level at which the two are in one subtree
\* is the one above the subtrees that are siblings.
LEMMA SiblingsCover ==
  ASSUME NEW position \in Positions, NEW p \in Positions, p # position
  PROVE  \E n \in 1..Depth : p \in Sibling(position, n - 1)
<1> DEFINE Block(x, level) == x \div 2 ^ level
           Together(level) == Block(p, level) = Block(position, level)
           Same == {level \in 0..Depth : Together(level)}
<1>1. p \in Nat /\ position \in Nat /\ p < 2 ^ Depth /\ position < 2 ^ Depth
      /\ Depth \in Nat /\ 2 ^ Depth \in Nat \ {0}
  BY PowersOfTwo
<1>2. Depth \in Same
  <2>1. 2 ^ Depth * 0 = 0
    BY <1>1
  <2>2. Block(p, Depth) = 0 /\ Block(position, Depth) = 0
    BY <1>1, <2>1, QuotientIs
  <2> QED BY <1>1, <2>2
<1>3. PICK top \in Same : \A level \in Same : top <= level
  <2>1. Same \subseteq Nat
    <3> HIDE DEF Together
    <3> QED OBVIOUS
  <2> HIDE DEF Same
  <2> QED BY <1>2, <2>1, LeastNumber
<1>4. top # 0
  <2>1. Block(p, 0) = p /\ Block(position, 0) = position
    BY <1>1, PowersOfTwo, QuotientIs
  <2> QED BY <2>1
<1> PICK level \in Nat : top = level + 1 /\ level + 1 \in 1..Depth
  BY <1>1, <1>3, <1>4
<1> DEFINE size == 2 ^ level
<1>5. size \in Nat \ {0} /\ 2 ^ (level + 1) = 2 * size
  BY <1>1, PowersOfTwo
<1>6. p \div size # position \div size
  BY <1>1, <1>3
<1>7. p \div (2 * size) = position \div (2 * size)
  BY <1>3, <1>5
<1> HIDE DEF size
<1>8. /\ p \div size \in Nat /\ position \div size \in Nat
      /\ (p \div size) \div 2 = (position \div size) \div 2
  BY <1>1, <1>5, <1>7, Halving
<1>9. p \div size = IF (position \div size) % 2 = 0 THEN position \div size + 1
                    ELSE position \div size - 1
  BY <1>6, <1>8, Twins
<1>10. p \in Sibling(position, level)
  BY <1>9 DEF Sibling, size
<1> QED BY <1>10

\* The siblings of a word, from the leaf to the root.
SiblingsOf(memory, position) ==
  [n \in 1..Depth |-> [p \in Sibling(position, n - 1) |-> memory[p]]]

\* Merkle.getRoot, given the siblings of a word in a memory, comes to the root of that
\* memory with the value at that word.
LEMMA RootOfSiblings ==
  ASSUME NEW memory \in Memories, NEW position \in Positions, NEW value
  PROVE  GetRoot(position, value, SiblingsOf(memory, position))
           = [memory EXCEPT ![position] = value]
<1> DEFINE proof == SiblingsOf(memory, position)
           Hashes == {[p \in Sibling(position, n - 1) |-> memory[p]] : n \in 1..Depth}
<1>1. Depth \in Nat /\ DOMAIN proof = 1..Depth
  BY DEF SiblingsOf
<1>2. Len(proof) = Depth
  <2>1. proof \in [1..Depth -> Hashes]
    BY DEF SiblingsOf
  <2> HIDE DEF proof, Hashes
  <2>2. proof \in Seq(Hashes)
    BY <1>1, <2>1, SeqDef
  <2>3. DOMAIN proof = 1..Len(proof) /\ Len(proof) \in Nat
    BY <2>2, LenProperties
  <2> QED BY <1>1, <2>3
<1>3. \A level \in 0..(Depth - 1) : DOMAIN proof[level + 1] = Sibling(position, level)
  <2> SUFFICES ASSUME NEW level \in 0..(Depth - 1)
               PROVE  DOMAIN proof[level + 1] = Sibling(position, level)
    OBVIOUS
  <2>1. level + 1 \in 1..Depth /\ (level + 1) - 1 = level
    BY <1>1
  <2> QED BY <2>1 DEF SiblingsOf
<1> DEFINE Hash(p) == proof[CHOOSE n \in 1..Depth : p \in Sibling(position, n - 1)][p]
<1>4. GetRoot(position, value, proof)
        = [p \in Positions |-> IF p = position THEN value ELSE Hash(p)]
  <2> HIDE DEF proof
  <2> QED BY <1>2, <1>3 DEF GetRoot
<1>5. ASSUME NEW p \in Positions, p # position
      PROVE  Hash(p) = memory[p]
  <2> DEFINE n == CHOOSE n \in 1..Depth : p \in Sibling(position, n - 1)
  <2>1. n \in 1..Depth /\ p \in Sibling(position, n - 1)
    BY <1>5, SiblingsCover
  <2> HIDE DEF n
  <2>2. proof[n][p] = memory[p]
    BY <2>1 DEF SiblingsOf
  <2> QED BY <2>2 DEF n
<1> HIDE DEF proof, Hash
<1>6. [p \in Positions |-> IF p = position THEN value ELSE Hash(p)]
        = [memory EXCEPT ![position] = value]
  BY <1>5 DEF Memories
<1> QED BY <1>4, <1>6 DEF proof

\* What MemoryManager says of proofs is what Merkle.getRoot makes of them: some proof of a
\* value is accepted exactly if the memory has it (Proves), and the same proof gives for
\* another value the root of the memory with that value (Rewritten), as proveRead and
\* proveWrite of MMInstantiator.sol use it.
THEOREM MerkleProofs ==
  ASSUME NEW root \in Memories, NEW position \in Positions, NEW value
  PROVE  /\ Proves(root, position, value) <=> \E proof : GetRoot(position, value, proof) = root
         /\ \A proof, newValue :
              GetRoot(position, value, proof) = root =>
                GetRoot(position, newValue, proof) = Rewritten(root, position, newValue)
<1>1. ASSUME Proves(root, position, value)
      PROVE  GetRoot(position, value, SiblingsOf(root, position)) = root
  <2>1. [root EXCEPT ![position] = value] = root
    BY <1>1 DEF Proves, Memories
  <2> QED BY <2>1, RootOfSiblings
<1>2. ASSUME NEW proof, GetRoot(position, value, proof) = root, NEW newValue
      PROVE  /\ root[position] = value
             /\ GetRoot(position, newValue, proof) = Rewritten(root, position, newValue)
  <2> DEFINE Fits == /\ Len(proof) = Depth
                     /\ \A level \in 0..(Depth - 1) :
                          DOMAIN proof[level + 1] = Sibling(position, level)
             Rest(p) == proof[CHOOSE n \in 1..Depth : p \in Sibling(position, n - 1)][p]
             Tree(v) == [p \in Positions |-> IF p = position THEN v ELSE Rest(p)]
  <2>1. \A v : GetRoot(position, v, proof) = IF Fits THEN Tree(v) ELSE Unknown
    BY DEF GetRoot
  <2> HIDE DEF Fits, Rest
  <2>2. Fits
    BY <1>2, <2>1, MemoryAssumption
  <2>3. root = Tree(value)
    BY <1>2, <2>1, <2>2
  <2>4. Tree(newValue) = Rewritten(root, position, newValue)
    BY <2>3 DEF Rewritten
  <2>5. root[position] = value
    BY <2>3
  <2> QED BY <2>1, <2>2, <2>4, <2>5
<1>3. (\E proof : GetRoot(position, value, proof) = root) => Proves(root, position, value)
  BY <1>2 DEF Proves
<1> QED BY <1>1, <1>2, <1>3

-----------------------------------------------------------------------------
\* An access comes out of the archive as it went in.
LEMMA AccessIsReadBack ==
  ASSUME NEW access, access.field_type \in {"Read", "Write"}
  PROVE  LET read == Emulator!AccessFrom(Emulator!AccessTo(access)) IN
         /\ read.field_type = access.field_type
         /\ read.address = access.proof.address
         /\ read.value_read = access.value_read
         /\ read.value_written = access.value_written
         /\ read.proof = Emulator!ProofFrom(Emulator!ProofTo(access.proof))
<1> DEFINE message == Emulator!AccessTo(access)
<1>1. /\ message.field_type = Emulator!AccessTypeTo(access.field_type)
      /\ message.read = access.value_read
      /\ message.written = access.value_written
      /\ message.proof = {Emulator!ProofTo(access.proof)}
  BY DEF Emulator!AccessTo, Emulator!Some
<1> HIDE DEF message
<1>2. Emulator!Unwrap(message.proof) = Emulator!ProofTo(access.proof)
  BY <1>1 DEF Emulator!Unwrap
<1> DEFINE proof == Emulator!ProofFrom(Emulator!ProofTo(access.proof))
<1>3. proof.address = access.proof.address
  BY DEF Emulator!ProofFrom, Emulator!ProofTo, Emulator!Map
<1> HIDE DEF proof
<1>4. Emulator!AccessTypeFrom(Emulator!AccessTypeTo(access.field_type)) = access.field_type
  BY DEF Emulator!AccessTypeFrom, Emulator!AccessTypeTo
<1> DEFINE read == Emulator!AccessFrom(message)
<1>5. /\ read.field_type = Emulator!AccessTypeFrom(message.field_type)
      /\ read.proof = Emulator!ProofFrom(Emulator!Unwrap(message.proof))
      /\ read.address = Emulator!ProofFrom(Emulator!Unwrap(message.proof)).address
      /\ read.value_read = message.read
      /\ read.value_written = message.written
  BY DEF Emulator!AccessFrom, Emulator!Words
<1> HIDE DEF read
<1>6. /\ read.field_type = access.field_type
      /\ read.address = access.proof.address
      /\ read.value_read = access.value_read
      /\ read.value_written = access.value_written
      /\ read.proof = proof
  BY <1>1, <1>2, <1>3, <1>4, <1>5 DEF proof
<1> QED BY <1>6 DEF read, message, proof

LEMMA SiblingsAreReadBack ==
  ASSUME NEW proof
  PROVE  Emulator!ProofFrom(Emulator!ProofTo(proof)).sibling_hashes
           = [n \in DOMAIN proof.sibling_hashes |-> proof.sibling_hashes[n]]
  BY DEF Emulator!ProofFrom, Emulator!ProofTo, Emulator!Map, Emulator!HashFrom, Emulator!HashTo

\* The siblings as the emulator logs them, from the root to the leaf ...
RootFirst(memory, position) ==
  [n \in 1..Depth |-> [p \in Sibling(position, Depth - n) |-> memory[p]]]

\* ... are turned by the agent, for Merkle.getRoot.
LEMMA LeafFirstTurns ==
  ASSUME NEW memory, NEW position
  PROVE  LeafFirst(RootFirst(memory, position)) = SiblingsOf(memory, position)
<1> DEFINE S(n) == [p \in Sibling(position, n) |-> memory[p]]
           logged == [n \in 1..Depth |-> S(Depth - n)]
           Hashes == {S(Depth - n) : n \in 1..Depth}
<1>1. RootFirst(memory, position) = logged
  BY DEF RootFirst
<1>2. SiblingsOf(memory, position) = [n \in 1..Depth |-> S(n - 1)]
  BY DEF SiblingsOf
<1> HIDE DEF S
<1>3. Len(logged) = Depth
  <2>1. logged \in [1..Depth -> Hashes]
    OBVIOUS
  <2> HIDE DEF logged, Hashes
  <2>2. logged \in Seq(Hashes)
    BY <2>1, SeqDef
  <2> QED BY <2>1, <2>2, LenProperties
<1>4. LeafFirst(logged) = [n \in 1..Depth |-> logged[Depth + 1 - n]]
  <2> HIDE DEF logged
  <2> QED BY <1>3 DEF LeafFirst
<1>5. ASSUME NEW n \in 1..Depth
      PROVE  logged[Depth + 1 - n] = S(n - 1)
  <2>1. Depth + 1 - n \in 1..Depth /\ Depth - (Depth + 1 - n) = n - 1
    OBVIOUS
  <2> QED BY <2>1
<1> HIDE DEF logged
<1> QED BY <1>1, <1>2, <1>4, <1>5

\* The accesses as the agent reads them out of the archive.
StepLog == Emulator!StepResponseFrom(StepAnswer).log

LEMMA StepLogIsLog ==
  /\ Len(StepLog) = Len(Log)
  /\ \A i \in 1..Len(Log) :
       /\ StepLog[i].field_type = IF Log[i].wasRead THEN "Read" ELSE "Write"
       /\ StepLog[i].address = Log[i].position
       /\ StepLog[i].value_read = MemoryAt[i][Log[i].position]
       /\ StepLog[i].value_written = Log[i].value
       /\ LeafFirst(StepLog[i].proof.sibling_hashes) = SiblingsOf(MemoryAt[i], Log[i].position)
<1> DEFINE SiblingHash(i, level) == [p \in Sibling(Log[i].position, level) |-> MemoryAt[i][p]]
           access(i) ==
             [field_type    |-> IF Log[i].wasRead THEN "Read" ELSE "Write",
              value_read    |-> MemoryAt[i][Log[i].position],
              value_written |-> Log[i].value,
              proof |-> [address          |-> Log[i].position,
                         log2_target_size |-> 0,
                         log2_root_size   |-> Depth,
                         target_hash      |-> [p \in {Log[i].position} |-> MemoryAt[i][p]],
                         sibling_hashes   |-> [n \in 1..Depth |-> SiblingHash(i, Depth - n)],
                         root_hash        |-> MemoryAt[i]]]
           sent == [i \in 1..Len(Log) |-> Emulator!AccessTo(access(i))]
           read == [i \in 1..Len(Log) |-> Emulator!AccessFrom(Emulator!AccessTo(access(i)))]
<1>1. StepAnswer = Emulator!StepResponseTo([log |-> [i \in 1..Len(Log) |-> access(i)]])
  BY DEF StepAnswer
<1>2. ASSUME NEW i \in 1..Len(Log)
      PROVE  LET x == Emulator!AccessFrom(Emulator!AccessTo(access(i))) IN
             /\ x.field_type = IF Log[i].wasRead THEN "Read" ELSE "Write"
             /\ x.address = Log[i].position
             /\ x.value_read = MemoryAt[i][Log[i].position]
             /\ x.value_written = Log[i].value
             /\ LeafFirst(x.proof.sibling_hashes) = SiblingsOf(MemoryAt[i], Log[i].position)
  <2>1. /\ access(i).field_type = IF Log[i].wasRead THEN "Read" ELSE "Write"
        /\ access(i).value_read = MemoryAt[i][Log[i].position]
        /\ access(i).value_written = Log[i].value
        /\ access(i).proof.address = Log[i].position
        /\ access(i).proof.sibling_hashes = RootFirst(MemoryAt[i], Log[i].position)
    BY DEF RootFirst
  <2> HIDE DEF access
  <2>2. access(i).field_type \in {"Read", "Write"}
    BY <2>1
  <2>3. Emulator!AccessFrom(Emulator!AccessTo(access(i))).proof.sibling_hashes
          = RootFirst(MemoryAt[i], Log[i].position)
    BY <2>1, <2>2, AccessIsReadBack, SiblingsAreReadBack DEF RootFirst
  <2> DEFINE x == Emulator!AccessFrom(Emulator!AccessTo(access(i)))
  <2>4. LeafFirst(x.proof.sibling_hashes) = SiblingsOf(MemoryAt[i], Log[i].position)
    BY <2>3, LeafFirstTurns
  <2>5. /\ x.field_type = access(i).field_type
        /\ x.address = access(i).proof.address
        /\ x.value_read = access(i).value_read
        /\ x.value_written = access(i).value_written
    BY <2>2, AccessIsReadBack
  <2> HIDE DEF x
  <2>6. /\ x.field_type = IF Log[i].wasRead THEN "Read" ELSE "Write"
        /\ x.address = Log[i].position
        /\ x.value_read = MemoryAt[i][Log[i].position]
        /\ x.value_written = Log[i].value
    BY <2>1, <2>5
  <2> QED BY <2>4, <2>6 DEF x
<1> HIDE DEF access
<1>3. StepAnswer.log = {[accesses |-> sent]}
  BY <1>1 DEF Emulator!StepResponseTo, Emulator!Some, Emulator!Map
<1>4. Emulator!Unwrap(StepAnswer.log) = [accesses |-> sent]
  BY <1>3 DEF Emulator!Unwrap
<1>5. StepLog = read
  BY <1>4 DEF StepLog, Emulator!StepResponseFrom, Emulator!Map
<1>6. Len(StepLog) = Len(Log)
  <2> DEFINE S == {read[i] : i \in 1..Len(Log)}
  <2>1. Len(Log) \in Nat
    BY LenProperties
  <2>2. read \in [1..Len(Log) -> S]
    OBVIOUS
  <2> HIDE DEF read, S
  <2>3. StepLog \in Seq(S)
    BY <1>5, <2>1, <2>2, SeqDef
  <2>4. DOMAIN StepLog = 1..Len(Log) /\ DOMAIN StepLog = 1..Len(StepLog) /\ Len(StepLog) \in Nat
    BY <1>5, <2>2, <2>3, LenProperties
  <2> QED BY <2>1, <2>4
<1>7. ASSUME NEW i \in 1..Len(Log)
      PROVE  StepLog[i] = Emulator!AccessFrom(Emulator!AccessTo(access(i)))
  BY <1>5
<1> QED BY <1>2, <1>6, <1>7

\* The transaction that the agent answers a history of n accesses with.
TxAt(n) ==
  IF n >= Len(Log) THEN [call |-> "finishProofPhase"] ELSE ProofTx(StepLog[n + 1])

Txs == {TxAt(n) : n \in Nat}

LEMMA TxProves ==
  ASSUME NEW n \in Nat
  PROVE  /\ n >= Len(Log) => TxAt(n).call = "finishProofPhase"
         /\ n < Len(Log) =>
              /\ n + 1 \in 1..Len(Log) /\ Log[n + 1] \in ReadWrite
              /\ MemoryAt[n + 1] \in Memories
              /\ TxAt(n).position = Log[n + 1].position
              /\ TxAt(n).proof = SiblingsOf(MemoryAt[n + 1], Log[n + 1].position)
              /\ Log[n + 1].wasRead =>
                   /\ TxAt(n).call = "proveRead"
                   /\ TxAt(n).value = Log[n + 1].value
                   /\ TxAt(n).value = MemoryAt[n + 1][Log[n + 1].position]
              /\ ~ Log[n + 1].wasRead =>
                   /\ TxAt(n).call = "proveWrite"
                   /\ TxAt(n).oldValue = MemoryAt[n + 1][Log[n + 1].position]
                   /\ TxAt(n).newValue = Log[n + 1].value
<1>1. Len(Log) \in Nat
  BY LenProperties
<1>2. CASE n >= Len(Log)
  BY <1>1, <1>2 DEF TxAt
<1>3. CASE n < Len(Log)
  <2>1. n + 1 \in 1..Len(Log) /\ Log[n + 1] \in ReadWrite
    BY <1>1, <1>3, ElementOfSeq
  <2>2. MemoryAt[n + 1] \in Memories
    BY <1>1, <2>1, MemoryAtIsRun DEF IsRun
  <2>3. TxAt(n) = ProofTx(StepLog[n + 1])
    BY <1>1, <1>3 DEF TxAt
  <2>4. CASE Log[n + 1].wasRead
    <3>1. Log[n + 1].value = MemoryAt[n + 1][Log[n + 1].position]
      BY <2>1, <2>4
    <3>2. StepLog[n + 1].field_type = "Read"
      BY <2>1, <2>4, StepLogIsLog
    <3> QED BY <1>1, <1>3, <2>1, <2>2, <2>3, <2>4, <3>1, <3>2, StepLogIsLog DEF ProofTx
  <2>5. CASE ~ Log[n + 1].wasRead
    <3>1. StepLog[n + 1].field_type = "Write"
      BY <2>1, <2>5, StepLogIsLog
    <3> QED BY <1>1, <1>3, <2>1, <2>2, <2>3, <2>5, <3>1, StepLogIsLog DEF ProofTx
  <2> QED BY <2>4, <2>5
<1> QED BY <1>1, <1>2, <1>3

-----------------------------------------------------------------------------
\* However many transactions are on their way, each of them is one of these, for the
\* archive holds no answer but the emulator's.
SentInv ==
  /\ pending \in Seq(Txs)
  /\ \A key \in DOMAIN archive : archive[key] = StepAnswer

LEMMA ReactionIsTx ==
  ASSUME MMInv, SentInv, NEW response \in Emulator!Responses(archive, StepKey)
  PROVE  /\ Reaction(MMCtx(GetState), Emulator!StepResponseFrom(response).log)
              = TxAt(Len(history))
         /\ Len(history) \in Nat /\ TxAt(Len(history)) \in Txs
<1>1. response = StepAnswer
  BY DEF Emulator!Responses, SentInv
<1>2. Emulator!StepResponseFrom(response).log = StepLog
  BY <1>1 DEF StepLog
<1>3. MMCtx(GetState).history_length = Len(history)
  BY DEF MMCtx, GetState
<1>4. Len(history) \in Nat
  BY LenProperties DEF MMInv, MMTypeOK
<1> QED BY <1>2, <1>3, <1>4, StepLogIsLog DEF Reaction, AllProved, TxAt, Txs

\* Each step of the composition is one of the contract, or leaves it alone.
LEMMA AgentStep ==
  ASSUME MMInv, SentInv, [AgentNext]_agentVars
  PROVE  [MMNext]_mmVars /\ SentInv'
<1>1. CASE Others
  BY <1>1 DEF Others, MMNext, SentInv
<1>2. CASE Land
  <2> DEFINE tx == Head(pending)
  <2>1. tx \in Txs /\ pending' \in Seq(Txs) /\ archive' = archive
    BY <1>2, HeadTailProperties DEF Land, SentInv
  <2>2. PICK n \in Nat : tx = TxAt(n)
    BY <2>1 DEF Txs
  <2>3. Len(Log) \in Nat
    BY LenProperties
  <2>4. ASSUME tx.call = "proveRead", ProveRead(Agent, tx.position, tx.value)
        PROVE  MMNext
    <3>1. n < Len(Log)
      BY <2>2, <2>3, <2>4, TxProves
    <3>2. tx.position \in Positions /\ tx.value \in Values
      BY <2>2, <2>4, <3>1, TxProves DEF ReadWrite
    <3> QED BY <2>4, <3>2 DEF MMNext
  <2>5. ASSUME tx.call = "proveWrite", ProveWrite(Agent, tx.position, tx.oldValue, tx.newValue)
        PROVE  MMNext
    <3>1. n < Len(Log)
      BY <2>2, <2>3, <2>5, TxProves
    <3>2. tx.position \in Positions /\ tx.oldValue \in Values /\ tx.newValue \in Values
      BY <2>2, <2>5, <3>1, TxProves DEF ReadWrite, Memories
    <3> QED BY <2>5, <3>2 DEF MMNext
  <2>6. ASSUME FinishProofPhase(Agent)
        PROVE  MMNext
    BY <2>6 DEF MMNext
  <2>7. MMNext
    BY <1>2, <2>4, <2>5, <2>6 DEF Land
  <2> QED BY <2>1, <2>7 DEF SentInv
<1>3. CASE Lose
  BY <1>3, HeadTailProperties DEF Lose, SentInv
<1>4. CASE AgentSends
  <2>1. PICK response \in Emulator!Responses(archive, StepKey) :
          pending' = Append(pending,
                       Reaction(MMCtx(GetState), Emulator!StepResponseFrom(response).log))
    BY <1>4 DEF AgentSends
  <2>2. pending' = Append(pending, TxAt(Len(history))) /\ TxAt(Len(history)) \in Txs
    BY <2>1, ReactionIsTx
  <2>3. pending' \in Seq(Txs)
    BY <2>2, AppendProperties DEF SentInv
  <2> QED BY <1>4, <2>3 DEF AgentSends, SentInv
<1>5. CASE AgentAsks
  BY <1>5 DEF AgentAsks, SentInv
<1>6. CASE EmulatorAnswers
  <2>1. PICK ask \in asked : archive' = Emulator!Insert(archive, ask.key, StepAnswer)
    BY <1>6 DEF EmulatorAnswers
  <2>2. \A key \in DOMAIN archive' : archive'[key] = StepAnswer
    BY <2>1 DEF Emulator!Insert, SentInv
  <2> QED BY <1>6, <2>2 DEF EmulatorAnswers, SentInv
<1>7. CASE Restart
  BY <1>7 DEF Restart, SentInv, Emulator!EmptyArchive
<1>8. CASE UNCHANGED agentVars
  BY <1>8 DEF agentVars, SentInv
<1> QED BY <1>1, <1>2, <1>3, <1>4, <1>5, <1>6, <1>7, <1>8 DEF AgentNext

LEMMA AgentInitInv == AgentInit => MMInv /\ SentInv
  BY MMInitInv, EmptySeq DEF AgentInit, SentInv, Emulator!EmptyArchive

LEMMA AgentInvariance == AgentSafety => [](MMInv /\ SentInv)
<1>1. MMInv /\ SentInv /\ [AgentNext]_agentVars => (MMInv /\ SentInv)'
  BY AgentStep, MMStep
<1> QED BY <1>1, AgentInitInv, PTL DEF AgentSafety

\* The agent of mm.rs, its emulator and whatever happens to its transactions are one way
\* of using MMInstantiator.sol: what is proved of the contract holds of them.
THEOREM AgentImplementsMM == AgentSpec => MMSpec
<1>1. AgentInit => MMInit
  BY DEF AgentInit
<1>2. MMInv /\ SentInv /\ [AgentNext]_agentVars => [MMNext]_mmVars
  BY AgentStep
<1> QED BY <1>1, <1>2, AgentInvariance, PTL DEF AgentSpec, AgentSafety, MMSpec

-----------------------------------------------------------------------------
\* With one transaction on its way at a time, it is the answer to the history it will be
\* executed on, and the history is the log up to there.
Proving == created /\ provider = Agent /\ phase = "WaitingProofs"

ProvesLog ==
  /\ Len(history) <= Len(Log)
  /\ \A i \in 1..Len(history) : history[i] = Log[i]
  /\ newHash = MemoryAt[Len(history) + 1]

LogInv ==
  /\ Len(pending) <= 1
  /\ pending # <<>> => Proving /\ Head(pending) = TxAt(Len(history))
  /\ Proving => ProvesLog
  /\ LogIsComplete

\* One more access of the log is proved.
LEMMA ProvedStep ==
  ASSUME MMInv, Proving, ProvesLog, NEW n \in Nat, n = Len(history), n < Len(Log),
         history' = Append(history, Log[n + 1]),
         newHash' = After(newHash, Log[n + 1])
  PROVE  ProvesLog'
<1>1. Len(Log) \in Nat /\ n + 1 \in 1..Len(Log) /\ Log[n + 1] \in ReadWrite
  BY LenProperties, ElementOfSeq
<1>2. /\ Len(history') = n + 1
      /\ \A i \in 1..n : history'[i] = history[i]
      /\ history'[n + 1] = Log[n + 1]
  BY <1>1, AppendProperties DEF MMInv, MMTypeOK
<1>3. newHash' = MemoryAt[(n + 1) + 1]
  BY <1>1, MemoryAtIsRun DEF IsRun, ProvesLog
<1>4. \A i \in 1..(n + 1) : history'[i] = Log[i]
  BY <1>2 DEF ProvesLog
<1>5. Len(history') <= Len(Log)
  BY <1>1, <1>2
<1> QED BY <1>2, <1>3, <1>4, <1>5 DEF ProvesLog

LEMMA LandsInOrder ==
  ASSUME MMInv, SentInv, LogInv, Land
  PROVE  LogInv'
<1> PICK n \in Nat : n = Len(history)
  BY LenProperties DEF MMInv, MMTypeOK
<1> DEFINE tx == Head(pending)
<1>1. Proving /\ ProvesLog /\ tx = TxAt(n)
  BY DEF Land, LogInv
<1>2. pending' = <<>> /\ Len(pending') <= 1
  <2>1. Tail(pending) \in Seq(Txs) /\ Len(Tail(pending)) = Len(pending) - 1 /\ Len(pending) \in Nat
    BY HeadTailProperties, LenProperties DEF Land, SentInv
  <2>2. Len(pending) <= 1
    BY DEF LogInv
  <2>3. ~ (Len(Tail(pending)) \in Nat \ {0})
    BY <2>1, <2>2
  <2>4. Tail(pending) = <<>>
    BY <2>1, <2>3, EmptySeq
  <2> QED BY <2>4, EmptySeq DEF Land
<1>3. Len(Log) \in Nat
  BY LenProperties
<1>4. ASSUME tx.call = "proveRead", ProveRead(Agent, tx.position, tx.value)
      PROVE  LogInv'
  <2>1. n < Len(Log) /\ Log[n + 1].wasRead
    BY <1>1, <1>3, <1>4, TxProves
  <2>2. Log[n + 1] = [wasRead |-> TRUE, position |-> tx.position, value |-> tx.value]
    BY <1>1, <2>1, TxProves DEF ReadWrite
  <2>3. history' = Append(history, Log[n + 1]) /\ newHash' = After(newHash, Log[n + 1])
    BY <1>4, <2>1, <2>2 DEF ProveRead, After
  <2>4. ProvesLog'
    BY <1>1, <2>1, <2>3, ProvedStep
  <2>5. UNCHANGED <<created, provider, phase>>
    BY <1>4 DEF ProveRead
  <2> QED BY <1>1, <1>2, <2>4, <2>5 DEF LogInv, Proving, LogIsComplete
<1>5. ASSUME tx.call = "proveWrite", ProveWrite(Agent, tx.position, tx.oldValue, tx.newValue)
      PROVE  LogInv'
  <2>1. n < Len(Log) /\ ~ Log[n + 1].wasRead
    BY <1>1, <1>3, <1>5, TxProves
  <2>2. Log[n + 1] = [wasRead |-> FALSE, position |-> tx.position, value |-> tx.newValue]
    BY <1>1, <2>1, TxProves DEF ReadWrite
  <2>3. history' = Append(history, Log[n + 1]) /\ newHash' = After(newHash, Log[n + 1])
    BY <1>5, <2>1, <2>2 DEF ProveWrite, After, Rewritten
  <2>4. ProvesLog'
    BY <1>1, <2>1, <2>3, ProvedStep
  <2>5. UNCHANGED <<created, provider, phase>>
    BY <1>5 DEF ProveWrite
  <2> QED BY <1>1, <1>2, <2>4, <2>5 DEF LogInv, Proving, LogIsComplete
<1>6. ASSUME tx.call = "finishProofPhase", FinishProofPhase(Agent)
      PROVE  LogInv'
  <2>1. n = Len(Log)
    BY <1>1, <1>3, <1>6, TxProves DEF ProvesLog
  <2>2. history \in Seq(ReadWrite) /\ Log \in Seq(ReadWrite)
    BY DEF MMInv, MMTypeOK
  <2>3. history = Log
    BY <1>1, <2>1, <2>2, SeqEqual DEF ProvesLog
  <2>4. newHash = MemoryAt[Len(Log) + 1]
    BY <1>1, <2>1 DEF ProvesLog
  <2>5. history' = history /\ newHash' = newHash /\ phase' = "WaitingReplay"
    BY <1>6 DEF FinishProofPhase
  <2> QED BY <1>2, <2>3, <2>4, <2>5 DEF LogInv, Proving, LogIsComplete
<1> QED BY <1>4, <1>5, <1>6 DEF Land

LEMMA LogStep ==
  ASSUME OneAtATime, MMInv, SentInv, LogInv, [AgentNext]_agentVars
  PROVE  LogInv'
<1>1. CASE Others
  <2>1. pending' = pending
    BY <1>1 DEF Others
  <2>2. ASSUME NEW newOwner \in Users, NEW newProvider \in Users, NEW hash \in Roots,
               newProvider = Agent => hash = Before,
               MMInstantiate(newOwner, newProvider, hash)
        PROVE  LogInv'
    <3>1. ~ created /\ history' = <<>> /\ newHash' = hash /\ provider' = newProvider
          /\ phase' = "WaitingProofs"
      BY <2>2 DEF MMInstantiate, MMInv
    <3>2. pending = <<>>
      BY <3>1 DEF LogInv, Proving
    <3>3. Len(history') = 0 /\ Len(Log) \in Nat
      BY <3>1, EmptySeq, LenProperties
    <3>4. MemoryAt[0 + 1] = Before
      BY MemoryAtIsRun DEF IsRun
    <3>5. Proving' => ProvesLog'
      BY <2>2, <3>1, <3>3, <3>4 DEF Proving, ProvesLog
    <3> QED BY <2>1, <3>1, <3>2, <3>5 DEF LogInv, LogIsComplete
  <2>3. ASSUME NEW sender \in Users \ {Agent}, NEW position \in Positions, NEW value \in Values,
               ProveRead(sender, position, value)
        PROVE  LogInv'
    BY <2>1, <2>3 DEF ProveRead, InPhase, LogInv, Proving, LogIsComplete
  <2>4. ASSUME NEW sender \in Users \ {Agent}, NEW position \in Positions,
               NEW oldValue \in Values, NEW newValue \in Values,
               ProveWrite(sender, position, oldValue, newValue)
        PROVE  LogInv'
    BY <2>1, <2>4 DEF ProveWrite, InPhase, LogInv, Proving, LogIsComplete
  <2>5. ASSUME NEW sender \in Users \ {Agent}, FinishProofPhase(sender)
        PROVE  LogInv'
    BY <2>1, <2>5 DEF FinishProofPhase, InPhase, LogInv, Proving, LogIsComplete
  <2>6. ASSUME NEW sender \in Users, FinishReplayPhase(sender)
        PROVE  LogInv'
    BY <2>1, <2>6 DEF FinishReplayPhase, InPhase, LogInv, Proving, LogIsComplete
  <2> QED BY <1>1, <2>2, <2>3, <2>4, <2>5, <2>6 DEF Others
<1>2. CASE Land
  BY <1>2, LandsInOrder
<1>3. CASE Lose
  <2>1. Tail(pending) \in Seq(Txs) /\ Len(Tail(pending)) = Len(pending) - 1 /\ Len(pending) \in Nat
    BY <1>3, HeadTailProperties, LenProperties DEF Lose, SentInv
  <2>2. Len(Tail(pending)) <= 1 /\ ~ (Len(Tail(pending)) \in Nat \ {0})
    BY <2>1 DEF LogInv
  <2>3. Tail(pending) = <<>>
    BY <2>1, <2>2, EmptySeq
  <2>4. pending' = <<>> /\ Len(pending') <= 1
    BY <1>3, <2>2, <2>3 DEF Lose
  <2>5. ProvesLog' = ProvesLog /\ Proving' = Proving /\ LogIsComplete' = LogIsComplete
    BY <1>3 DEF Lose, mmVars, ProvesLog, Proving, LogIsComplete
  <2> QED BY <2>4, <2>5 DEF LogInv
<1>4. CASE AgentSends
  <2>1. PICK response \in Emulator!Responses(archive, StepKey) :
          pending' = Append(pending,
                       Reaction(MMCtx(GetState), Emulator!StepResponseFrom(response).log))
    BY <1>4 DEF AgentSends
  <2>2. pending' = Append(pending, TxAt(Len(history))) /\ TxAt(Len(history)) \in Txs
    BY <2>1, ReactionIsTx
  <2>3. pending \in Seq(Txs) /\ Len(pending) \in Nat
    BY LenProperties DEF SentInv
  <2>4. Len(pending) = 0
    BY <1>4, <2>3 DEF AgentSends, OneAtATime
  <2>5. pending = <<>>
    BY <2>3, <2>4, EmptySeq
  <2>6. Len(pending') = 1 /\ Head(pending') = TxAt(Len(history))
    BY <2>2, <2>5
  <2>7. Proving
    BY <1>4 DEF AgentSends, Reacts, MMCtx, GetState, Proving
  <2>8. /\ ProvesLog' = ProvesLog /\ Proving' = Proving /\ LogIsComplete' = LogIsComplete
        /\ history' = history
    BY <1>4 DEF AgentSends, mmVars, ProvesLog, Proving, LogIsComplete
  <2>9. Head(pending') = TxAt(Len(history'))
    BY <2>6, <2>8
  <2> QED BY <2>6, <2>7, <2>8, <2>9 DEF LogInv
<1>5. CASE pending' = pending /\ UNCHANGED mmVars
  <2>1. /\ ProvesLog' = ProvesLog /\ Proving' = Proving /\ LogIsComplete' = LogIsComplete
        /\ history' = history
    BY <1>5 DEF mmVars, ProvesLog, Proving, LogIsComplete
  <2> QED BY <1>5, <2>1 DEF LogInv
<1> QED BY <1>1, <1>2, <1>3, <1>4, <1>5
        DEF AgentNext, AgentAsks, EmulatorAnswers, Restart, agentVars

LEMMA LogInitInv == AgentInit => LogInv
  BY EmptySeq DEF AgentInit, MMInit, LogInv, Proving, LogIsComplete

\* An agent that has one transaction on its way (OneAtATime), executed once or never, leaves, when it has
\* finished the proof phase, the log of the step and nothing else, and the root of the
\* memory after it (MM::react of mm.rs): settleVerificationGame can replay the step.
THEOREM LogsAreComplete ==
  ASSUME OneAtATime
  PROVE  AgentSpec => []LogIsComplete
<1>1. (MMInv /\ SentInv) /\ LogInv /\ [AgentNext]_agentVars => LogInv'
  BY LogStep
<1>2. LogInv => LogIsComplete
  BY DEF LogInv
<1> QED BY <1>1, <1>2, LogInitInv, AgentInvariance, PTL DEF AgentSpec, AgentSafety

\* Every proof that such an agent sends is accepted (MM::react of mm.rs): nobody else can
\* move the root, and the siblings that are in the order of getRoot lead to it.
THEOREM EveryProofIsAccepted ==
  ASSUME OneAtATime
  PROVE  AgentSpec => []ProofsAreAccepted
<1>1. (MMInv /\ SentInv) /\ LogInv /\ [AgentNext]_agentVars => LogInv'
  BY LogStep
<1>2. MMInv /\ LogInv => ProofsAreAccepted
  <2> SUFFICES ASSUME MMInv, LogInv, pending # <<>> PROVE ProofsAreAccepted
    BY DEF ProofsAreAccepted
  <2> PICK n \in Nat : n = Len(history)
    BY LenProperties DEF MMInv, MMTypeOK
  <2> DEFINE tx == Head(pending)
  <2>1. Proving /\ ProvesLog /\ tx = TxAt(n)
    BY DEF LogInv
  <2>2. newHash = MemoryAt[n + 1] /\ Len(Log) \in Nat
    BY <2>1, LenProperties DEF ProvesLog
  <2> HIDE DEF tx
  <2>3. CASE n >= Len(Log)
    <3>1. tx.call = "finishProofPhase"
      BY <2>1, <2>3, TxProves
    <3> QED BY <2>1, <3>1 DEF ProofsAreAccepted, Proving, InPhase, tx
  <2>4. CASE n < Len(Log)
    <3>1. n < MaxHistory
      BY <2>2, <2>4, MemoryAssumption
    <3>2. /\ newHash \in Memories /\ tx.position \in Positions
          /\ tx.proof = SiblingsOf(newHash, tx.position)
      BY <2>1, <2>2, <2>4, TxProves DEF ReadWrite
    <3>3. [newHash EXCEPT ![tx.position] = newHash[tx.position]] = newHash
      BY <3>2 DEF Memories
    <3>4. tx.call = "proveRead" => tx.value = newHash[tx.position]
      BY <2>1, <2>2, <2>4, TxProves
    <3>5. tx.call = "proveWrite" => tx.oldValue = newHash[tx.position]
      BY <2>1, <2>2, <2>4, TxProves
    <3>6. tx.call = "proveRead" => GetRoot(tx.position, tx.value, tx.proof) = newHash
      BY <3>2, <3>3, <3>4, RootOfSiblings
    <3>7. tx.call = "proveWrite" =>
            /\ GetRoot(tx.position, tx.oldValue, tx.proof) = newHash
            /\ GetRoot(tx.position, tx.newValue, tx.proof)
                 = Rewritten(newHash, tx.position, tx.newValue)
      BY <3>2, <3>3, <3>5, RootOfSiblings DEF Rewritten
    <3> QED BY <2>1, <3>1, <3>6, <3>7 DEF ProofsAreAccepted, Proving, InPhase, tx
  <2> QED BY <2>2, <2>3, <2>4
<1> QED BY <1>1, <1>2, LogInitInv, AgentInvariance, PTL DEF AgentSpec, AgentSafety

\* However many transactions are on their way, an agent proves nothing but accesses of the
\* log of its step, and only it moves the instance (MM::react of mm.rs). Their order and
\* number need more.
THEOREM AgentProvesOnlyTheLog ==
  AgentSpec =>
    [][created /\ provider = Agent /\ phase = "WaitingProofs" =>
         FinishProofPhase(Agent) \/ \E i \in 1..Len(Log) : ProveAccess(Agent, Log[i])]_mmVars
<1> DEFINE Logged == FinishProofPhase(Agent) \/ \E i \in 1..Len(Log) : ProveAccess(Agent, Log[i])
<1>1. MMInv /\ SentInv /\ [AgentNext]_agentVars =>
        [created /\ provider = Agent /\ phase = "WaitingProofs" => Logged]_mmVars
  <2> SUFFICES ASSUME MMInv, SentInv, AgentNext, mmVars' # mmVars,
                      created, provider = Agent, phase = "WaitingProofs"
               PROVE  Logged
    BY DEF agentVars
  <2>1. ASSUME Others PROVE FALSE
    BY <2>1 DEF Others, MMInstantiate, ProveRead, ProveWrite, FinishProofPhase,
                FinishReplayPhase, InPhase
  <2>2. Land
    BY <2>1 DEF AgentNext, Lose, AgentSends, AgentAsks, EmulatorAnswers, Restart
  <2> DEFINE tx == Head(pending)
  <2>3. tx \in Txs
    BY <2>2, HeadTailProperties DEF Land, SentInv
  <2>4. PICK n \in Nat : tx = TxAt(n)
    BY <2>3 DEF Txs
  <2>5. Len(Log) \in Nat
    BY LenProperties
  <2>6. ASSUME tx.call = "proveRead", ProveRead(Agent, tx.position, tx.value)
        PROVE  ProveAccess(Agent, Log[n + 1]) /\ n + 1 \in 1..Len(Log)
    BY <2>4, <2>5, <2>6, TxProves DEF ProveAccess
  <2>7. ASSUME tx.call = "proveWrite",
               ProveWrite(Agent, tx.position, tx.oldValue, tx.newValue)
        PROVE  ProveAccess(Agent, Log[n + 1]) /\ n + 1 \in 1..Len(Log)
    <3>1. /\ n + 1 \in 1..Len(Log) /\ ~ Log[n + 1].wasRead
          /\ tx.position = Log[n + 1].position /\ tx.newValue = Log[n + 1].value
          /\ tx.oldValue = MemoryAt[n + 1][Log[n + 1].position]
          /\ MemoryAt[n + 1] \in Memories /\ Log[n + 1] \in ReadWrite
      BY <2>4, <2>5, <2>7, TxProves
    <3>2. tx.oldValue \in Values
      BY <3>1 DEF Memories, ReadWrite
    <3> HIDE DEF tx
    <3> QED BY <2>7, <3>1, <3>2 DEF ProveAccess
  <2> HIDE DEF tx
  <2> QED BY <2>2, <2>6, <2>7 DEF Land, tx
<1>2. MMInv /\ SentInv /\ [AgentNext]_agentVars =>
        [created /\ provider = Agent /\ phase = "WaitingProofs" =>
           FinishProofPhase(Agent) \/ \E i \in 1..Len(Log) : ProveAccess(Agent, Log[i])]_mmVars
  BY <1>1
<1> QED BY <1>2, AgentInvariance, PTL DEF AgentSpec, AgentSafety

\* If at most one transaction of the agent is on its way (OneAtATime) and each is executed
\* at most once, the agent does to the contract what that of VerificationGame does, in the
\* same order, or nothing (MM::react of mm.rs), whatever is lost or restarted. Under this
\* condition the game may be played with the abstract agent.
THEOREM AgentProvesInOrder ==
  ASSUME OneAtATime
  PROVE  AgentSpec => ProvesInOrder
<1> DEFINE Next == \/ Len(history) >= Len(Log) /\ FinishProofPhase(Agent)
                   \/ Len(history) < Len(Log) /\ ProveAccess(Agent, Log[Len(history) + 1])
<1>1. (MMInv /\ SentInv) /\ LogInv /\ [AgentNext]_agentVars => LogInv'
  BY LogStep
<1>2. MMInv /\ LogInv /\ [AgentNext]_agentVars =>
        [created /\ provider = Agent /\ phase = "WaitingProofs" => Next]_mmVars
  <2> SUFFICES ASSUME MMInv, LogInv, AgentNext, mmVars' # mmVars,
                      created, provider = Agent, phase = "WaitingProofs"
               PROVE  Next
    BY DEF agentVars
  <2>1. ASSUME Others PROVE FALSE
    BY <2>1 DEF Others, MMInstantiate, ProveRead, ProveWrite, FinishProofPhase,
                FinishReplayPhase, InPhase
  <2>2. Land
    BY <2>1 DEF AgentNext, Lose, AgentSends, AgentAsks, EmulatorAnswers, Restart
  <2> PICK n \in Nat : n = Len(history)
    BY LenProperties DEF MMInv, MMTypeOK
  <2> DEFINE tx == Head(pending)
  <2>3. tx = TxAt(n) /\ Len(Log) \in Nat
    BY <2>2, LenProperties DEF Land, LogInv
  <2>4. ASSUME tx.call = "proveRead", ProveRead(Agent, tx.position, tx.value)
        PROVE  Next
    BY <2>3, <2>4, TxProves DEF ProveAccess
  <2>5. ASSUME tx.call = "proveWrite",
               ProveWrite(Agent, tx.position, tx.oldValue, tx.newValue)
        PROVE  Next
    <3>1. /\ n < Len(Log) /\ ~ Log[n + 1].wasRead
          /\ tx.position = Log[n + 1].position /\ tx.newValue = Log[n + 1].value
          /\ tx.oldValue = MemoryAt[n + 1][Log[n + 1].position]
          /\ MemoryAt[n + 1] \in Memories /\ Log[n + 1] \in ReadWrite
      BY <2>3, <2>5, TxProves
    <3>2. tx.oldValue \in Values
      BY <3>1 DEF Memories, ReadWrite
    <3> HIDE DEF tx
    <3> QED BY <2>5, <3>1, <3>2 DEF ProveAccess
  <2>6. ASSUME tx.call = "finishProofPhase", FinishProofPhase(Agent)
        PROVE  Next
    BY <2>3, <2>6, TxProves
  <2> HIDE DEF Next
  <2> QED BY <2>2, <2>4, <2>5, <2>6 DEF Land
<1>3. MMInv /\ LogInv /\ [AgentNext]_agentVars =>
        [created /\ provider = Agent /\ phase = "WaitingProofs" =>
           \/ Len(history) >= Len(Log) /\ FinishProofPhase(Agent)
           \/ Len(history) < Len(Log) /\ ProveAccess(Agent, Log[Len(history) + 1])]_mmVars
  BY <1>2
<1> QED BY <1>1, <1>3, LogInitInv, AgentInvariance, PTL
        DEF AgentSpec, AgentSafety, ProvesInOrder
=============================================================================
