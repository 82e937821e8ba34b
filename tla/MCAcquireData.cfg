SPECIFICATION Spec
CONSTANTS
  NoNumber = NoNumber
  Rows <- MCRows
  Chassis <- MCChassis
  Sampled <- MCSampled
  OldFirst <- MCNone
  LineSize <- MCLineSize
  WordBase = 2
  Second = 2
  MaxTick = 2
  MaxWindow = 2
  MaxTime = 6
  MaxCount = 4
INVARIANT TypeOK
INVARIANT WholeTick
INVARIANT WordsWhole
PROPERTY Fresh
PROPERTY FrequencySound
\* the bounds end it
CHECK_DEADLOCK FALSE
