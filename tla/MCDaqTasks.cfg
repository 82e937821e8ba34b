CONSTANTS
  timer = timer
  client1 = client1
  client2 = client2
  sampler = sampler
  ctr0 = ctr0
  ctr1 = ctr1
  NoKey = NoKey
  Threads <- ThreadSet
  Calls <- LiveCalls
  Resources <- ResourceSet
  Keys <- KeySet
  MaxRetries = 2
  MaxTasks = 3
  DriverFails = TRUE
SYMMETRY ClientSymmetry
SPECIFICATION Spec
CHECK_DEADLOCK FALSE
INVARIANT OneTaskPerKey
INVARIANT ForgottenHoldNothing
PROPERTY LostAtStart
PROPERTY CallsProgress
