SPECIFICATION AgentSpec
CONSTANTS
  agent = agent
  other = other
  Users = {agent, other}
  NoUser = NoUser
  Agent = agent
  MachineId = machine
  DivergenceTime = 7
  Positions <- Words
  Values = {0, 1}
  Before <- Start
  Log <- Step
  Depth = 2
  Unknown = Unknown
  MaxHistory = 3
  MaxInFlight = 1
INVARIANTS
  MMTypeOK
  HistoryExplainsHash
  LogIsComplete
  ProofsAreAccepted
PROPERTIES
  ProofsAreFrozen
  ProvesInOrder
  ProofsEnd
CHECK_DEADLOCK FALSE
