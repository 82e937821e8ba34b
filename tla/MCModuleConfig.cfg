SPECIFICATION Spec
CONSTANTS
  Mod1 = Mod1
  Mod2 = Mod2
  Missing = Missing
  Types <- Products
  Kind <- KindOf
  Made <- MadeOf
  Aliases <- AliasSet
  Limits <- LimitSet
  CounterLimits <- CounterLimitSet
  Counts <- CountSet
  CounterTop <- Top
  MaxChanges = 2
SYMMETRY AliasSymmetry
CHECK_DEADLOCK FALSE
INVARIANT TypeOK
INVARIANT RangeOrdered
INVARIANT FileTaken
PROPERTY StableStart
