CONSTANTS
  boot = boot
  c1 = c1
  c2 = c2
  nobody = nobody
  Timers <- MCTimers
  Callers <- TwoCallers
  Clients <- TwoClients
  Boot = boot
  NoCaller = nobody
  SpawnMayFail = TRUE
SYMMETRY ClientSymmetry
SPECIFICATION Spec
INVARIANT TypeOK
INVARIANT ExclusiveUntilClash
INVARIANT EndsOnlyWhenMet
INVARIANT LineNotShared
INVARIANT ActiveMeansRunning
PROPERTY StopIsComplete
PROPERTY ImplementsMode
CHECK_DEADLOCK FALSE
