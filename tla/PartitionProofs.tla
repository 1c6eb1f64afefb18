--------------------------- MODULE PartitionProofs ---------------------------
(***************************************************************************)
(* Safety of one partition instance, for every set of users and hashes,    *)
(* every finalTime, querySize and round duration, and whatever             *)
(* transactions anybody sends. What slice promises to the bisection, for   *)
(* every querySize and every interval, comes first: the end points are     *)
(* kept, the separators never go back or leave the interval, and every     *)
(* piece of an interval longer than one cycle is strictly shorter than it. *)
(***************************************************************************)
EXTENDS Partition, TLAPS, WellFoundedInduction

\* The quotient and the remainder of an integer division.
LEMMA Quotient ==
  ASSUME NEW a \in Nat, NEW b \in Nat, b > 0
  PROVE  /\ a \div b \in Nat
         /\ b * (a \div b) <= a
         /\ a < b * (a \div b) + b
  OBVIOUS

\* Jumps of d cycles from l: i of them go no further than j >= i of them.
LEMMA JumpsInOrder ==
  ASSUME NEW d \in Nat, NEW i \in Nat, NEW j \in Nat, i <= j
  PROVE  i * d \in Nat /\ j * d \in Nat /\ i * d <= j * d
  OBVIOUS

\* One more jump is d cycles further.
LEMMA OneMoreJump ==
  ASSUME NEW d \in Nat, NEW i \in Nat
  PROVE  (i + 1) * d = i * d + d
  OBVIOUS

\* slice (PartitionInstantiator.sol) cuts every interval in order, and whichever
\* piece the challenger picks next, the contest has made progress.
THEOREM SliceProgress ==
  ASSUME NEW q \in Nat, q > 2, NEW l \in Nat, NEW r \in Nat, l < r
  PROVE  OrderedCut(Slice(q, l, r), q, l, r) /\ ShorterPieces(Slice(q, l, r), q, l, r)
<1> DEFINE s == Slice(q, l, r)
           last == q - 1
           d == (r - l) \div last
<1> SUFFICES OrderedCut(s, q, l, r) /\ ShorterPieces(s, q, l, r)
  OBVIOUS
<1>1. /\ last \in Nat /\ last >= 2
      /\ r - l \in Nat /\ r - l > 0
  OBVIOUS
<1>2. d \in Nat /\ last * d <= r - l /\ r - l < last * d + last
  BY <1>1, Quotient
<1>3. CASE r - l < 2 * last
  <2>1. s = [i \in 0..last |->
               IF i = last THEN r ELSE IF l + i < r THEN l + i ELSE r]
    BY <1>3 DEF Slice
  <2> HIDE DEF s
  <2> QED BY <2>1, <1>1 DEF OrderedCut, ShorterPieces
<1>4. CASE ~ (r - l < 2 * last)
  <2>1. s = [i \in 0..last |-> IF i = last THEN r ELSE l + i * d]
    BY <1>4 DEF Slice, DivisionLength
  <2> HIDE DEF d, s
  <2>2. d >= 2
    BY <1>1, <1>2, <1>4
  <2>3. last * d = (last - 1) * d + d /\ (last - 1) * d \in Nat
    BY <1>1, <1>2, OneMoreJump, JumpsInOrder
  <2>4. \A i \in 0..(last - 1) :
          i * d \in Nat /\ i * d <= (last - 1) * d /\ (i + 1) * d = i * d + d
    BY <1>1, <1>2, OneMoreJump, JumpsInOrder
  <2>5. d < r - l /\ (r - l) - (last - 1) * d < r - l
    <3>1. 1 * d <= (last - 1) * d
      BY <1>1, <1>2, JumpsInOrder
    <3> QED BY <3>1, <2>2, <2>3, <1>1, <1>2
  <2> QED BY <2>1, <2>2, <2>3, <2>4, <2>5, <1>1, <1>2 DEF OrderedCut, ShorterPieces
<1> QED BY <1>3, <1>4

\* What instantiate establishes and no later transaction touches.
SettingsInv ==
  /\ instantiated => /\ querySize > 2 /\ querySize < MaxQuerySize
                     /\ finalTime > 0
                     /\ challenger # claimer
                     /\ {0, finalTime} \subseteq timeSubmitted
  /\ ~ instantiated => finalTime = 0 /\ partitionGameIndex = 0 /\ timeSubmitted = {}

\* The query of an open instance is what slice makes of its end points, so every
\* fact about slice is a fact about the query.
QueryIsSliced == Open => queryArray = Slice(querySize, queryArray[0], queryArray[Last])

\* The inductive invariant.
IInv == TypeOK /\ SettingsInv /\ QueryIsSliced /\ QueryIsSigned /\ RoundsAreBounded

USE PartitionAssumption

LEMMA InitInv == Init => IInv
<1> SUFFICES ASSUME Init PROVE IInv
  OBVIOUS
<1>1. /\ ~ Open
      /\ 0 \in Times
      /\ queryArray \in [0..(querySize - 1) -> Times]
      /\ timeHash \in [Times -> Hash]
  BY DEF Init, Open, Times
<1>2. TypeOK
  BY <1>1 DEF Init, TypeOK, States
<1> QED BY <1>1, <1>2
        DEF Init, IInv, SettingsInv, QueryIsSliced, QueryIsSigned, RoundsAreBounded

\* slice fills a query of a well-formed instance with times of the instance.
LEMMA SliceOfTimes ==
  ASSUME NEW q \in Nat, q > 2, NEW l \in Times, NEW r \in Times, l < r
  PROVE  Slice(q, l, r) \in [0..(q - 1) -> Times]
<1> DEFINE s == Slice(q, l, r)
<1>1. l \in Nat /\ r \in Nat
  BY DEF Times
<1>2. s \in [0..(q - 1) -> l..r]
  BY <1>1, SliceProgress DEF OrderedCut
<1> HIDE DEF s
<1>3. \A i \in 0..(q - 1) : s[i] \in Times
  BY <1>1, <1>2 DEF Times
<1> QED BY <1>2, <1>3 DEF s

\* A non-empty set of naturals has a least element: the first index with some
\* property, which the loops over queryArray look for.
LEMMA LeastElement ==
  ASSUME NEW S, S \subseteq Nat, S # {}
  PROVE  \E m \in S : \A k \in S : m <= k
<1>1. PICK m \in S : \A k \in S : <<k, m>> \notin OpToRel(<, Nat)
  BY WFMin, NatLessThanWellFounded, Zenon
<1>2. \A k \in S : ~ (k < m)
  BY <1>1, Zenon DEF OpToRel
<1> QED BY <1>2

\* replyQuery stores, for a time of the answer, a hash posted for that time.
LEMMA StoredIsPosted ==
  ASSUME NEW n \in Nat, NEW posted, DOMAIN posted = 0..n,
         NEW t, \E i \in 0..n : posted[i] = t
  PROVE  StoredAt(posted, t) \in 0..n /\ posted[StoredAt(posted, t)] = t
<1> DEFINE S == {i \in 0..n : posted[i] = t}
<1>1. PICK m \in S : \A k \in S : m <= k
  <2>1. S \subseteq Nat /\ S # {}
    OBVIOUS
  <2> HIDE DEF S
  <2> QED BY <2>1, LeastElement
<1>2. m \in DOMAIN posted /\ posted[m] = t
      /\ \A j \in DOMAIN posted : posted[j] = t => m <= j
  BY <1>1
<1> QED BY <1>2 DEF StoredAt

LEMMA InstantiateInv ==
  ASSUME IInv,
         NEW newChallenger \in Users, NEW newClaimer \in Users,
         NEW initialHash \in Hash, NEW claimerFinalHash \in Hash,
         NEW final \in FinalTimes, NEW size \in QuerySizes, NEW duration \in RoundDurations,
         Instantiate(newChallenger, newClaimer, initialHash, claimerFinalHash,
                     final, size, duration)
  PROVE  IInv'
<1> USE DEF Instantiate
<1>1. final \in Times /\ 0 \in Times /\ final > 0 /\ final \in Nat /\ size \in Nat /\ size > 2
  BY DEF Times
<1>2. queryArray' \in [0..(size - 1) -> Times]
  BY <1>1, SliceOfTimes
<1>3. /\ queryArray'[0] = 0
      /\ queryArray'[size - 1] = final
      /\ OrderedCut(queryArray', size, 0, final)
  <2>1. OrderedCut(queryArray', size, 0, final)
    BY <1>1, SliceProgress
  <2> QED BY <2>1 DEF OrderedCut
<1>4. TypeOK'
  <2>1. timeHash' \in [Times -> Hash]
    BY <1>1 DEF IInv, TypeOK
  <2>2. timeSubmitted' \subseteq Times
    BY <1>1
  <2> QED BY <1>1, <1>2, <2>1, <2>2 DEF IInv, TypeOK, States
<1>5. SettingsInv'
  BY <1>1 DEF SettingsInv
<1>6. QueryIsSliced' /\ QueryIsSigned'
  BY <1>1, <1>3 DEF QueryIsSliced, QueryIsSigned, Last
<1>7. RoundsAreBounded'
  BY <1>1, <1>3 DEF RoundsAreBounded, Last, IntervalLength, IInv, SettingsInv
<1> QED BY <1>4, <1>5, <1>6, <1>7 DEF IInv

LEMMA ReplyQueryInv ==
  ASSUME IInv, NEW sender, NEW postedTimes,
         NEW postedHashes \in [0..(querySize - 1) -> Hash],
         ReplyQuery(sender, postedTimes, postedHashes)
  PROVE  IInv'
<1> USE DEF ReplyQuery, settings
<1>1. /\ DOMAIN postedTimes = 0..Last
      /\ \A i \in 0..Last : postedTimes[i] = queryArray[i] /\ queryArray[i] \in Times
  BY DEF IInv, TypeOK, Last
<1>2. Last \in Nat /\ querySize \in Nat /\ Open
  BY DEF IInv, TypeOK, SettingsInv, Last, Open
<1>3. /\ NewTimes(postedTimes) \subseteq Times
      /\ timeSubmitted' = timeSubmitted \union {queryArray[i] : i \in 0..Last}
  BY <1>1 DEF NewTimes
<1>4. timeHash' \in [Times -> Hash]
  <2>1. \A t \in NewTimes(postedTimes) : StoredAt(postedTimes, t) \in 0..Last
    BY <1>1, <1>2, StoredIsPosted DEF NewTimes
  <2> QED BY <2>1 DEF IInv, TypeOK, Last
<1>5. TypeOK'
  BY <1>3, <1>4 DEF IInv, TypeOK, States
<1>6. SettingsInv'
  BY DEF IInv, SettingsInv
<1>7. QueryIsSliced' /\ QueryIsSigned'
  BY <1>2, <1>3 DEF IInv, QueryIsSliced, QueryIsSigned, Open, Last
<1>8. RoundsAreBounded'
  BY <1>2 DEF IInv, TypeOK, RoundsAreBounded, QueryIsSigned, Open, Last, IntervalLength, Times
<1> QED BY <1>5, <1>6, <1>7, <1>8 DEF IInv

\* The piece that makeQuery cuts lies inside the interval under dispute and is
\* strictly shorter than it.
LEMMA PieceIsInside ==
  ASSUME IInv, Open, NEW i \in 0..(Last - 1)
  PROVE  /\ Last \in Nat
         /\ IntervalLength \in Nat
         /\ {queryArray[0], queryArray[i], queryArray[i + 1], queryArray[Last]} \subseteq Times
         /\ queryArray[0] <= queryArray[i]
         /\ queryArray[i] <= queryArray[i + 1]
         /\ queryArray[i + 1] <= queryArray[Last]
         /\ CanSplit(queryArray[i], queryArray[i + 1]) =>
              queryArray[i + 1] - queryArray[i] < IntervalLength
<1>1. querySize \in Nat /\ querySize > 2 /\ queryArray \in [0..Last -> Times]
  BY DEF IInv, TypeOK, SettingsInv, Open, Last
<1>2. /\ queryArray[0] \in Nat /\ queryArray[Last] \in Nat
      /\ queryArray[0] < queryArray[Last]
      /\ OrderedCut(queryArray, querySize, queryArray[0], queryArray[Last])
  BY <1>1 DEF IInv, QueryIsSigned, Last, Times
<1>3. ShorterPieces(queryArray, querySize, queryArray[0], queryArray[Last])
  BY <1>1, <1>2, SliceProgress DEF IInv, QueryIsSliced
<1>4. i + 1 \in 0..Last /\ i \in 0..(querySize - 2)
  BY <1>1 DEF Last
<1> QED BY <1>1, <1>2, <1>3, <1>4
        DEF OrderedCut, ShorterPieces, CanSplit, IntervalLength, Last, Times

LEMMA MakeQueryInv ==
  ASSUME IInv, NEW sender, NEW queryPiece \in Nat, NEW leftPoint, NEW rightPoint,
         MakeQuery(sender, queryPiece, leftPoint, rightPoint)
  PROVE  /\ IInv'
         /\ Open
         /\ queryArray[0] <= leftPoint /\ leftPoint = queryArray'[0]
         /\ rightPoint <= queryArray[Last] /\ rightPoint = queryArray'[Last]
         /\ rightPoint - leftPoint < IntervalLength
<1> USE DEF MakeQuery, settings, signed
<1>1. Open /\ querySize \in Nat /\ querySize > 2
  BY DEF Open, IInv, TypeOK, SettingsInv
<1>2. queryPiece \in 0..(Last - 1)
  BY <1>1 DEF Last
<1>3. /\ leftPoint \in Times /\ rightPoint \in Times
      /\ leftPoint \in Nat /\ rightPoint \in Nat /\ leftPoint < rightPoint
      /\ queryArray[0] <= leftPoint
      /\ rightPoint <= queryArray[Last]
      /\ rightPoint - leftPoint < IntervalLength
      /\ IntervalLength \in Nat
  BY <1>1, <1>2, PieceIsInside DEF CanSplit, Times
<1>4. /\ leftPoint \in timeSubmitted
      /\ rightPoint \in timeSubmitted
      /\ rightPoint <= finalTime
  BY <1>1, <1>2, <1>3 DEF IInv, QueryIsSigned, TypeOK, Last, Times
<1>5. /\ queryArray' \in [0..(querySize - 1) -> Times]
      /\ OrderedCut(queryArray', querySize, leftPoint, rightPoint)
  BY <1>1, <1>3, SliceOfTimes, SliceProgress
<1>6. leftPoint = queryArray'[0] /\ rightPoint = queryArray'[Last]
  BY <1>5 DEF OrderedCut, Last
<1>7. TypeOK'
  BY <1>5 DEF IInv, TypeOK, States
<1>8. SettingsInv'
  BY DEF IInv, SettingsInv
<1>9. QueryIsSliced' /\ QueryIsSigned'
  BY <1>3, <1>4, <1>5, <1>6 DEF QueryIsSliced, QueryIsSigned, Last
<1>10. RoundsAreBounded'
  <2>1. /\ IntervalLength' = rightPoint - leftPoint
        /\ rightPoint - leftPoint \in Nat
    BY <1>3, <1>6 DEF IntervalLength, Last
  <2>2. /\ partitionGameIndex \in Nat /\ finalTime \in Nat
        /\ partitionGameIndex <= finalTime
        /\ partitionGameIndex + IntervalLength <= finalTime + 1
    BY <1>1 DEF IInv, TypeOK, RoundsAreBounded, Times
  <2>3. /\ partitionGameIndex' = partitionGameIndex
        /\ finalTime' = finalTime
        /\ currentState' = "WaitingHashes"
    OBVIOUS
  <2> HIDE DEF MakeQuery
  <2> QED BY <1>3, <2>1, <2>2, <2>3 DEF RoundsAreBounded
<1> QED BY <1>1, <1>3, <1>6, <1>7, <1>8, <1>9, <1>10 DEF IInv

LEMMA ClaimVictoryByTimeInv ==
  ASSUME IInv, NEW sender, ClaimVictoryByTime(sender)
  PROVE  IInv'
  BY DEF ClaimVictoryByTime, settings, signed, IInv, TypeOK, States, SettingsInv,
         QueryIsSliced, QueryIsSigned, RoundsAreBounded, Open

LEMMA PresentDivergenceInv ==
  ASSUME IInv, NEW sender, NEW time \in Times, PresentDivergence(sender, time)
  PROVE  IInv'
  BY DEF PresentDivergence, settings, signed, IInv, TypeOK, States, SettingsInv,
         QueryIsSliced, QueryIsSigned, RoundsAreBounded, Open

LEMMA TickInv ==
  ASSUME IInv, Tick
  PROVE  IInv'
<1> USE DEF Tick, settings, signed
<1>1. TypeOK'
  BY DEF IInv, TypeOK
<1> QED BY <1>1 DEF IInv, SettingsInv, QueryIsSliced, QueryIsSigned, RoundsAreBounded,
                    Open, Last, IntervalLength

LEMMA StutterInv ==
  ASSUME IInv, UNCHANGED vars
  PROVE  IInv'
  BY DEF vars, settings, signed, IInv, TypeOK, SettingsInv, QueryIsSliced, QueryIsSigned,
         RoundsAreBounded, Open, Last, IntervalLength

LEMMA NextInv == IInv /\ [Next]_vars => IInv'
<1> SUFFICES ASSUME IInv, [Next]_vars PROVE IInv'
  OBVIOUS
<1>1. CASE UNCHANGED vars
  BY <1>1, StutterInv
<1>2. ASSUME NEW newChallenger \in Users, NEW newClaimer \in Users,
             NEW initialHash \in Hash, NEW claimerFinalHash \in Hash,
             NEW final \in FinalTimes, NEW size \in QuerySizes,
             NEW duration \in RoundDurations,
             Instantiate(newChallenger, newClaimer, initialHash, claimerFinalHash,
                         final, size, duration)
      PROVE  IInv'
  BY <1>2, InstantiateInv
<1>3. ASSUME NEW sender \in Users, NEW postedTimes \in Queries,
             NEW postedHashes \in [0..(querySize - 1) -> Hash],
             ReplyQuery(sender, postedTimes, postedHashes)
      PROVE  IInv'
  BY <1>3, ReplyQueryInv
<1>4. ASSUME NEW sender \in Users, NEW queryPiece \in 0..MaxQuerySize,
             NEW leftPoint \in Times, NEW rightPoint \in Times,
             MakeQuery(sender, queryPiece, leftPoint, rightPoint)
      PROVE  IInv'
  <2>1. queryPiece \in Nat
    OBVIOUS
  <2> QED BY <1>4, <2>1, MakeQueryInv
<1>5. ASSUME NEW sender \in Users, ClaimVictoryByTime(sender) PROVE IInv'
  BY <1>5, ClaimVictoryByTimeInv
<1>6. ASSUME NEW sender \in Users, NEW time \in Times, PresentDivergence(sender, time)
      PROVE  IInv'
  BY <1>6, PresentDivergenceInv
<1>7. CASE Tick
  BY <1>7, TickInv
<1> QED BY <1>1, <1>2, <1>3, <1>4, <1>5, <1>6, <1>7 DEF Next

\* One step keeps every signed hash.
LEMMA SignedStep ==
  IInv /\ [Next]_vars =>
    [\A t \in timeSubmitted : t \in timeSubmitted' /\ timeHash'[t] = timeHash[t]]_vars
<1> SUFFICES ASSUME IInv, Next, NEW t \in timeSubmitted
             PROVE  t \in timeSubmitted' /\ timeHash'[t] = timeHash[t]
  OBVIOUS
<1>1. t \in Times
  BY DEF IInv, TypeOK
<1>2. ASSUME NEW c, NEW d, NEW h, NEW k, NEW f, NEW s, NEW r,
             Instantiate(c, d, h, k, f, s, r)
      PROVE  FALSE
  BY <1>2 DEF Instantiate, IInv, SettingsInv
<1>3. ASSUME NEW u, NEW postedTimes, NEW postedHashes,
             ReplyQuery(u, postedTimes, postedHashes)
      PROVE  t \in timeSubmitted' /\ timeHash'[t] = timeHash[t]
  BY <1>1, <1>3 DEF ReplyQuery, NewTimes
<1>4. CASE UNCHANGED signed
  BY <1>4 DEF signed
<1> QED BY <1>2, <1>3, <1>4
        DEF Next, MakeQuery, ClaimVictoryByTime, PresentDivergence, Tick

LEMMA InvarianceOfIInv == Spec => []IInv
  BY InitInv, NextInv, PTL DEF Spec

-----------------------------------------------------------------------------
\* Storage keeps its types: in particular every query holds times of the instance
\* and every stored word is a hash.
THEOREM TypeCorrect == Spec => []TypeOK
<1>1. IInv => TypeOK
  BY DEF IInv
<1> QED BY <1>1, InvarianceOfIInv, PTL

\* The end points of the interval under dispute are signed at all times, and every
\* separator once the query is answered.
THEOREM QueriesAreSigned == Spec => []QueryIsSigned
<1>1. IInv => QueryIsSigned
  BY DEF IInv
<1> QED BY <1>1, InvarianceOfIInv, PTL

\* The number of answers is bounded by finalTime, for every querySize.
THEOREM BoundedRounds == Spec => []RoundsAreBounded
<1>1. IInv => RoundsAreBounded
  BY DEF IInv
<1> QED BY <1>1, InvarianceOfIInv, PTL

\* A challenger that disagrees with the right end of a piece always has a transaction
\* that the contract accepts.
THEOREM PiecesCanBePursued == Spec => []EveryPieceCanBePursued
<1>1. IInv => EveryPieceCanBePursued
  <2> SUFFICES ASSUME IInv, Open, currentState = "WaitingQuery",
                      NEW i \in 0..(Last - 1),
                      queryArray[i] # queryArray[i + 1],
                      ~ CanSplit(queryArray[i], queryArray[i + 1])
               PROVE  /\ queryArray[i + 1] = queryArray[i] + 1
                      /\ queryArray[i] < finalTime
                      /\ {queryArray[i], queryArray[i + 1]} \subseteq timeSubmitted
    BY DEF EveryPieceCanBePursued
  <2>1. /\ Last \in Nat
        /\ queryArray[i] \in Nat /\ queryArray[i + 1] \in Nat /\ queryArray[Last] \in Nat
        /\ queryArray[i] <= queryArray[i + 1]
        /\ queryArray[i + 1] <= queryArray[Last]
    BY PieceIsInside DEF Times
  <2>2. queryArray[i + 1] = queryArray[i] + 1
    BY <2>1 DEF CanSplit
  <2>3. queryArray[Last] <= finalTime /\ finalTime \in Nat
    BY DEF IInv, TypeOK, QueryIsSigned, Times
  <2>4. i \in 0..Last /\ i + 1 \in 0..Last
    BY <2>1
  <2>5. {queryArray[i], queryArray[i + 1]} \subseteq timeSubmitted
    BY <2>4 DEF IInv, QueryIsSigned
  <2> QED BY <2>1, <2>2, <2>3, <2>5
<1> QED BY <1>1, InvarianceOfIInv, PTL

\* No transaction of anybody rewrites or withdraws a hash the claimer has signed.
THEOREM SignedHashesFinal == Spec => SignedHashesAreFinal
<1> QED BY SignedStep, InvarianceOfIInv, PTL DEF Spec, SignedHashesAreFinal

\* Every query lies inside the one before it and is strictly shorter.
THEOREM QueriesGetNarrower == Spec => QueriesNarrow
<1>1. IInv /\ [Next]_vars =>
        [Open /\ currentState = "WaitingQuery" /\ currentState' = "WaitingHashes" =>
           /\ queryArray[0] <= queryArray'[0]
           /\ queryArray'[Last] <= queryArray[Last]
           /\ queryArray'[Last] - queryArray'[0] < IntervalLength]_vars
  <2> SUFFICES ASSUME IInv, Next, Open,
                      currentState = "WaitingQuery", currentState' = "WaitingHashes"
               PROVE  /\ queryArray[0] <= queryArray'[0]
                      /\ queryArray'[Last] <= queryArray[Last]
                      /\ queryArray'[Last] - queryArray'[0] < IntervalLength
    OBVIOUS
  <2>1. PICK u \in Users, queryPiece \in 0..MaxQuerySize,
             leftPoint \in Times, rightPoint \in Times :
               MakeQuery(u, queryPiece, leftPoint, rightPoint)
    BY DEF Next, Open, Instantiate, ReplyQuery, ClaimVictoryByTime, PresentDivergence, Tick
  <2>2. queryPiece \in Nat
    OBVIOUS
  <2> QED BY <2>1, <2>2, MakeQueryInv
<1> QED BY <1>1, InvarianceOfIInv, PTL DEF Spec, QueriesNarrow

\* Whatever is sent to a closed instance, it stays closed with the same hashes.
THEOREM ClosedStaysClosed == Spec => ClosedNeverReopens
<1>1. IInv /\ [Next]_vars =>
        [instantiated /\ ~ Open =>
           UNCHANGED <<signed, queryArray>>
           /\ currentState' \in {currentState, "DivergenceFound"}]_vars
  BY DEF Next, Open, Instantiate, ReplyQuery, MakeQuery, ClaimVictoryByTime,
         PresentDivergence, Tick
<1> QED BY <1>1, InvarianceOfIInv, PTL DEF Spec, ClosedNeverReopens
=============================================================================
