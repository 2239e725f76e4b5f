SPECIFICATION ListenerSpec
CONSTANTS
  Unspecified = "any"
  Local = {"a", "b"}
  Packets <- TwoSocketsTraffic
  BoundTo <- TwoSockets
  Inet6 = {4}
  Standalone = TRUE
  HasTimeout = TRUE
  MaxHups = 2
  MaxTerms = 1
  MaxQueue = 2
INVARIANTS
  JumpTargetLive
  NoSleepOnSignal
  ReloadNotLost
PROPERTIES
  SignalsHeeded
  RequestsTaken
