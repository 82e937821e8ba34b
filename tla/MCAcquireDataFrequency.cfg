SPECIFICATION Spec
CONSTANTS
  NoNumber = NoNumber
  Rows <- MCCounterRows
  Chassis <- MCCounterChassis
  Sampled <- MCNone
  OldFirst <- MCNone
  LineSize <- MCCounterSize
  WordBase = 2
  Second = 2
  MaxTick = 3
  MaxWindow = 0
  MaxTime = 5
  MaxCount = 3
PROPERTY FrequencySeen
\* the bounds end it
CHECK_DEADLOCK FALSE
