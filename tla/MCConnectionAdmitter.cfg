CONSTANTS
  Callers = {acc, t1, t2}
  Requesters = {acc}
  Sessions = {s1, s2}
  Names = {alice}
  Anonymous = anonymous
  NoCaller = noCaller
  NoSession = noSession
  MaxConnections = 2
  MaxPerUser = 2
  MaxQueue = 2
  QueueEnabled = TRUE
SPECIFICATION AdmSpec
INVARIANTS
  AdmTypeOK
  PromisedBounded
  UserOvershootBounded
  PromotionExclusive
PROPERTIES
  ImplementsLimiter
