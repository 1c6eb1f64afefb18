SPECIFICATION Spec
SYMMETRY Symmetry
CONSTANTS
  u1 = u1
  u2 = u2
  h0 = h0
  h1 = h1
  Users = {u1, u2}
  NoUser = NoUser
  Hash = {h0, h1}
  ZeroHash = h0
  MaxTime = 9
  FinalTimes = {0, 1, 3, 7, 9}
  QuerySizes = {2, 3, 4, 5}
  RoundDurations = {1, 2, 11}
  MaxQuerySize = 5
  MinRoundDuration = 1
  MaxElapsed = 6
  TimeToStartMachine = 1
  PicoSecondsToRunInsn = 1
  PicoSeconds = 4
  WordSize = 16
  TimeOfLastMove = 3
INVARIANTS
  TypeOK
  QueryIsSigned
  EveryPieceCanBePursued
  RoundsAreBounded
PROPERTIES
  SignedHashesAreFinal
  QueriesNarrow
  ClosedNeverReopens
CHECK_DEADLOCK FALSE
