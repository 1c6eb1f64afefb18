SPECIFICATION VGSpec
CONSTANTS
  ch = ch
  cl = cl
  word = word
  Users = {ch, cl}
  NoUser = NoUser
  VGAddress = VGAddress
  Challenger = ch
  Claimer = cl
  Honest = {ch}
  Positions = {word}
  Values = {0, 1}
  Unknown = Unknown
  MaxHistory = 3
  Hash <- AllHashes
  ZeroHash = Unknown
  Trace <- FlippingTrace
  StepLog <- FlippingLog
  MaxTime = 4
  FinalTimes = {1, 2, 4}
  QuerySizes = {3}
  RoundDurations = {2}
  MaxQuerySize = 4
  MinRoundDuration = 1
  MaxElapsed = 5
  TimeToStartMachine = 1
  PicoSecondsToRunInsn = 1
  PicoSeconds = 12
  WordSize = 1000
  TimeOfLastMove = 100
  RoundMargin = 1
  MaxChallengeElapsed = 20
INVARIANTS
  HonestChallengerHasEvidence
PROPERTIES
  RefinesContest
CHECK_DEADLOCK FALSE
