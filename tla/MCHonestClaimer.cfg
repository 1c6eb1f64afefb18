SPECIFICATION AgentSpec
CONSTANTS
  ch = ch
  cl = cl
  other = other
  h0 = h0
  h1 = h1
  Users = {ch, cl, other}
  NoUser = NoUser
  Challenger = ch
  Claimer = cl
  Honest = {cl}
  Trace <- AlternatingTrace
  Hash = {h0, h1}
  ZeroHash = h0
  MaxTime = 10
  FinalTimes = {1, 2, 6, 10}
  QuerySizes = {3, 4, 5}
  RoundDurations = {2}
  MaxQuerySize = 6
  MinRoundDuration = 1
  MaxElapsed = 5
  TimeToStartMachine = 1
  PicoSecondsToRunInsn = 1
  PicoSeconds = 10
  WordSize = 1000
  TimeOfLastMove = 100
  MachineId = machine
INVARIANTS
  ArchiveIsTrue
  ClaimerSignsOnlyTrueHashes
  HonestPartyIsNeverTimedOut
PROPERTIES
  ImplementsGame
  DisputeEnds
CHECK_DEADLOCK FALSE
