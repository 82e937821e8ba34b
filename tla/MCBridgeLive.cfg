CONSTANTS
  boot = boot
  c1 = c1
  c2 = c2
  nobody = nobody
  Timers <- MCTimers
  Callers <- OneCaller
  Clients <- OneClient
  Boot = boot
  NoCaller = nobody
  SpawnMayFail = TRUE
SPECIFICATION FairSpec
PROPERTY CommandReturns
PROPERTY ActiveTimerTicks
CHECK_DEADLOCK FALSE
