CONSTANTS
  Fds <- ThreeFds
  ServerFd = 3
  Requests <- AllRequests
  MaxInbox = 1
  MaxBacklog = 2
SPECIFICATION FairSpec
INVARIANT TypeOK
INVARIANT Bookkeeping
INVARIANT AheadIsReady
PROPERTY ServedIfPassesEnd
PROPERTY ForgottenIfPassesEnd
