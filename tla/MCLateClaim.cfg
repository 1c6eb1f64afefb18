SPECIFICATION ComputeSpec
CONSTANTS
  ch = ch
  cl = cl
  other = other
  right = right
  wrong = wrong
  Users = {ch, cl, other}
  NoUser = NoUser
  Challenger = ch
  Claimer = cl
  Hash = {right, wrong}
  ZeroHash = wrong
  Truth = right
  FinalTimes = {1, 8}
  RoundDurations = {2, 3}
  MinRoundDuration = 1
  QuerySize = 3
  MaxElapsed = 14
  TimeToStartMachine = 1
  PicoSecondsToRunInsn = 1
  PicoSeconds = 4
  WordSize = 1000
  TimeOfLastMove = 100
INVARIANTS
  WrongClaimIsDisputed
CHECK_DEADLOCK FALSE
