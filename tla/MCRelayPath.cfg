SPECIFICATION Spec
CONSTANTS
  NoNumber = NoNumber
  m1 = m1
  m2 = m2
  Masters = {m1, m2}
  NoMaster = NoMaster
  Commander <- MCCommander
  Asks <- MCAsks
  Rows <- MCRows
  NbRelays = 2
  NbAlarms = 1
  NbBits = 3
  ModeSRU = FALSE
  Simulates = TRUE
  MaxQueue = 2
INVARIANT Obeyed
PROPERTY AckIsDriven
PROPERTY RequestEnds
