SPECIFICATION Spec
SYMMETRY Symmetry
CONSTANTS
  u1 = u1
  u2 = u2
  h0 = h0
  h1 = h1
  Users = {u1, u2}
  NoUser = NoUser
  Hash = {h0, h1}
  ZeroHash = h0
  MaxTime = 9
  FinalTimes = {9}
  QuerySizes = {3, 4}
  RoundDurations = {2}
  MaxQuerySize = 5
  MinRoundDuration = 1
  MaxElapsed = 13
  TimeToStartMachine = 1
  PicoSecondsToRunInsn = 1
  PicoSeconds = 1
  WordSize = 1000
  TimeOfLastMove = 100
INVARIANT DeadlineCoversRun
CHECK_DEADLOCK FALSE
