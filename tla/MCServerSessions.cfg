CONSTANTS
  Sessions = {s1, s2}
  Callers <- MCCallers
  Requesters <- MCRequesters
  Acceptor = acceptor
  Names = {alice}
  Anonymous = anonymous
  NoCaller = noCaller
  NoSession = noSession
  MaxConnections = 2
  MaxPerUser = 2
  MaxQueue = 1
  QueueEnabled = TRUE
  Threads = 3
  Protocols = {"socks", "http"}
  MayTimeOut = TRUE
SPECIFICATION FairSpec
INVARIANTS
  ServerTypeOK
  RegistryAgrees
PROPERTIES
  NoResurrection
  ClosesFinish
  TunnelsTearDown
