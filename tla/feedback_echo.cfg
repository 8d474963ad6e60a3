SPECIFICATION Spec
CONSTANTS
  None = None
  FORGET = 2
  WINDOW = 1
  SPORT_STALE = 1
  LOW_STALE = 1
  BRIDGE_STALE = 1
  STALE = 1
  HISTORY = 2
  Stamps = {1, 2}
  Streams = {}
  Samples = {"STOPPED"}
  Faults = {"death"}
  MAX_FLIGHT = 2
  MAX_TRANSIT = 1
  MAX_FILL = 1
  MAX_BACK = 0
  MAX_LIVES = 3
  HORIZON = 4
INVARIANTS
  ReceivedIsRecent
PROPERTIES
  EchoNeverGoesBack
CHECK_DEADLOCK FALSE
