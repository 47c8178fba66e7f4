CONSTANTS
  Requests <- MCRequests
  Links <- MCLinks
  Outbounds <- MCOutbounds
SPECIFICATION FormatSpec
INVARIANTS
  Runnable
  SharedIsAccepted
PROPERTIES
  ReloadKeepsWire
  LinkKeepsWire
