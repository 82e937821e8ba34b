CONSTANTS
  NRegs = 4
  Width <- ShiftedWidth
  Pair <- CounterWords
  MaxTick = 3
SPECIFICATION Spec
INVARIANT PairIsConsistent
