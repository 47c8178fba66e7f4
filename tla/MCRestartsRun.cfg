CONSTANTS
  V2rays = {v1, v2}
  Helpers = {}
  Web = {w1, w2}
  Boot = boot
  Main = main
  NoPid = noPid
  NoCaller = noCaller
SPECIFICATION FairSpec
PROPERTIES
  RestartsRun
