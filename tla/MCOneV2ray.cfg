CONSTANTS
  V2rays = {v1, v2}
  Helpers = {h1, h2}
  Web = {w1, w2}
  Boot = boot
  Main = main
  NoPid = noPid
  NoCaller = noCaller
SPECIFICATION Spec
INVARIANTS
  OneV2ray
