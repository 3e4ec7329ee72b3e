SPECIFICATION BoxSpec
CONSTANTS
  b1 = b1
  b2 = b2
  c1 = c1
  c2 = c2
  c3 = c3
  Flaw = {"none", "drivers", "bringup"}
  MaxBootAttempts = 4
  Timeout = 4
  Patience = 1
  MaxGlitches = 2
  MaxCycles = 2
  MaxSessions = 2
  MaxLines = 1
  RxRoom = 1
  TxRoom = 3
  Hasty = FALSE
  Sign = {b1, b2}
  QueueDepth = 2
  Settle = 2
  NameWithin = 2
  MaxRefusals = 2
  Console = {c1, c2, c3}
  MaxClients = 2
  MaxPending = 1
  MaxCalls = 3
PROPERTIES BoxRecovers  NamesAreLearnt ConsolesAreContained
CHECK_DEADLOCK FALSE
