------------------------------ MODULE Durations ------------------------------
(***************************************************************************)
(* The deadlines of the contracts: how long a party may take in            *)
(* each state. Arithmetic is that of uint256 in Solidity 0.7, where        *)
(* results wrap around without an error.                                   *)
(***************************************************************************)
EXTENDS Integers

CONSTANTS TimeToStartMachine,   \* seconds to build a machine; 40 in the code
          PicoSecondsToRunInsn, \* picoseconds an instruction takes; 500 in the code
          PicoSeconds,          \* picoseconds in one second; 1e12 in the code
          WordSize,             \* number of uint256 values; 2^256 in the EVM
          TimeOfLastMove        \* block.timestamp at the moves of an instance

ASSUME DurationsAssumption ==
  /\ TimeToStartMachine \in Nat
  /\ PicoSecondsToRunInsn \in Nat
  /\ PicoSeconds \in Nat \ {0}
  /\ WordSize \in Nat \ {0}
  /\ TimeOfLastMove \in Nat

-----------------------------------------------------------------------------
Word(x) == x % WordSize

\* timeOfLastMove + duration, which may wrap around, and the time after it. The moves of
\* an instance are taken to have one timestamp: the modules keep the seconds elapsed since
\* the last of them, and the timestamp matters only to what overflows.
Deadline(duration)         == Word(TimeOfLastMove + duration)
Overdue(elapsed, duration) == TimeOfLastMove + elapsed > Deadline(duration)

\* When the sum does not wrap around, a party has the whole of its duration.
DeadlineFits(duration) == TimeOfLastMove + duration < WordSize

\* partitionSize ** partitionGameIndex: the divisor of getMaxStateDuration. A
\* division by zero reverts, so a caller must have PartitionDivisor # 0.
PartitionDivisor(querySize, gameIndex) == Word(querySize ^ gameIndex)

\* Instructions that have to be run to answer in the current round.
CurrentPartitionSize(querySize, gameIndex, maxCycle) ==
  LET piece == maxCycle \div PartitionDivisor(querySize, gameIndex)
  IN  IF gameIndex = 0 THEN piece ELSE Word(piece * (querySize - 1))

\* getMaxStateDuration in WaitingQuery and in WaitingHashes: time to build the
\* machine, to run it through the interval, and to send one transaction.
RunDuration(roundDuration, querySize, gameIndex, maxCycle) ==
  LET runTime == Word(CurrentPartitionSize(querySize, gameIndex, maxCycle)
                        * PicoSecondsToRunInsn) \div PicoSeconds
  IN  Word(TimeToStartMachine + runTime + roundDuration)

\* No deadline of a partition overflows, in whatever round.
DeadlinesFit(roundDuration, querySize, maxCycle) ==
  \A gameIndex \in 0..maxCycle :
    PartitionDivisor(querySize, gameIndex) # 0 =>
      DeadlineFits(RunDuration(roundDuration, querySize, gameIndex, maxCycle))

\* log2OverTwo: half the integer part of the logarithm, for x > 0. It is 0 below 4.
Log2OverTwo(x) == (CHOOSE n \in 0..x : 2 ^ n <= x /\ x < 2 ^ (n + 1)) \div 2

\* MMInstantiator.getMaxInstanceDuration: proofs, replay, and proofs once more.
ReplayDuration(roundDuration) ==
  LET proofs == TimeToStartMachine + 2 * roundDuration
  IN  Word(proofs + roundDuration + proofs)
=============================================================================
