CONSTANTS
  boot = boot
  c1 = c1
  c2 = c2
  nobody = nobody
  Timers <- MCTimers
  Callers <- OneCaller
  Clients <- OneClient
  Boot = boot
  NoCaller = nobody
  SpawnMayFail = FALSE
SPECIFICATION Spec
INVARIANT TimersExclusive
CHECK_DEADLOCK FALSE
