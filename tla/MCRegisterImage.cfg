CONSTANTS
  NRegs = 4
  Width <- ShiftedWidth
  Pair <- CounterWords
  MaxTick = 4
SPECIFICATION Spec
INVARIANT TypeOK
INVARIANT PublishedPrefix
INVARIANT FreshReply
INVARIANT NewestReaching
