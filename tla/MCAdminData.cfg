CONSTANTS
  Web = {w1, w2}
  Hosts = {"a.cn", "b.cn"}
  endings <- MCendings
  BuiltinFile <- MCBuiltinFile
  CustomFile <- MCCustomFile
  NewRules <- MCNewRules
  Names = {"admin", "u", ""}
  NoName = ""
  LoginNames = {"admin", "u"}
  Admin = "admin"
  Passwords = {1, 2}
  AdminPassword = 1
  Lifetimes = {1}
  NoFile = noFile
  Empty = empty
  Torn = torn
  LoginLimit = 2
  FailRecords = 1
  MaxRequests = 2
  MaxUpsets = 2
  MaxTime = 3
SYMMETRY SymThreads
SPECIFICATION Spec
INVARIANTS
  DecidesAsShown
  AnsweredIsSaved
  FilesReadable
  
  GuessesLimited
