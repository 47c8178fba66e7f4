CONSTANTS
  IPs = {i1}
  MaxConn = 4
  MaxFails = 2
  Second = 2
  Minute = 3
  BanDuration = 3
  MaxPending = 3
SPECIFICATION Spec
INVARIANTS
  LetInPerSecond
  GuessingBans
PROPERTIES
  BansEnd
