CONSTANTS
  Sessions = {s1, s2, s3}
  Callers <- MCCallers
  Requesters <- MCRequesters
  Acceptor = acceptor
  Names = {alice}
  Anonymous = anonymous
  NoCaller = noCaller
  NoSession = noSession
  MaxConnections = 2
  MaxPerUser = 3
  MaxQueue = 1
  QueueEnabled = TRUE
  Threads = 4
  Protocols = {"http"}
  MayTimeOut = FALSE
SPECIFICATION Spec
INVARIANTS
  TotalNeverOvercounts
SYMMETRY SymSessions
CHECK_DEADLOCK FALSE
