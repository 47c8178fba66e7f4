CONSTANTS
  Web = {w1, w2}
  t1 = t1
  t2 = t2
  b1 = b1
  Tags = {t1, t2}
  VmessTags = {t1}
  AutoTags <- MCAutoTags
  NoTag = noTag
  OtherTag = otherTag
  Bodies = {b1}
  Blank = blank
  Uploads <- MCUploads
  NoFile = noFile
  Empty = empty
  Torn = torn
  NoConfig = noConfig
  MaxNodes = 2
  MaxOrder = 2
  MaxUpsets = 1
  MaxRules = 2
SPECIFICATION Spec
CONSTRAINT OneRace
INVARIANTS
  SnapshotStable
  
  UniqueTags
  

  
