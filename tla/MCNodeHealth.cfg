CONSTANTS
  s1 = s1
  s2 = s2
  s3 = s3
  i1 = i1
  i2 = i2
  n1 = n1
  n2 = n2
  Threads = {t1}
  Sessions = {}
  IPs = {i1, i2}
  ip <- MCip
  Tags = {n1, n2}
  NoTag = noTag
  InitNodes <- MCOneNode
  Periodic = p
  Web = {w}
  Capacity = 1
  FailureThreshold = 2
  MaxRecords = 1
  Latencies = {0}
  Weights = {1}
  DefaultWeight = 2
  Strategies = {"lowest_latency"}
  MaxEdits = 3
SPECIFICATION Spec
INVARIANTS
  HealthAgrees
  RemovedStaysOut
PROPERTIES
  Recovers
