CONSTANTS
  polite = polite
  hasty = hasty
  nobody = nobody
  Connections <- BothConnections
  Polite <- OnlyPolite
  Fds <- OneFd
  NoConnection = nobody
  MaxLine = 4
  FileSize = 2
  MaxCommands <- FewOrMore
  MaxUnderWay <- OneOrTwo
SPECIFICATION FairSpec
INVARIANT SocketsAccounted
INVARIANT NoGhost
INVARIANT LinesConserved
INVARIANT FramingKept
PROPERTY CommandAnswered
PROPERTY LeaverReleased
CHECK_DEADLOCK FALSE
