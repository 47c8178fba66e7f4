CONSTANTS
  s1 = s1
  s2 = s2
  s3 = s3
  i1 = i1
  i2 = i2
  n1 = n1
  n2 = n2
  Threads = {t1, t2}
  Sessions = {s1, s2, s3}
  IPs = {i1, i2}
  ip <- MCip
  Tags = {n1, n2}
  NoTag = noTag
  InitNodes <- MCInitNodes
  Periodic = p
  Web = {w}
  Capacity = 1
  FailureThreshold = 2
  MaxRecords = 1
  Latencies = {1}
  Weights = {1}
  DefaultWeight = 2
  Strategies = {"round_robin", "weighted_round_robin", "least_connections", "lowest_latency"}
  MaxEdits = 1
SPECIFICATION Spec
CONSTRAINT Quiet
SYMMETRY SameClient
INVARIANTS
  LBTypeOK
  OvershootBounded
  CountsFollowSessions
