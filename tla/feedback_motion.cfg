SPECIFICATION Spec
CONSTANTS
  None = None
  FORGET = 4
  WINDOW = 2
  SPORT_STALE = 1
  LOW_STALE = 1
  BRIDGE_STALE = 1
  STALE = 1
  HISTORY = 2
  Stamps = {}
  Streams = {"sport", "low"}
  Samples = {"STOPPED", "MOVING"}
  Faults = {"clock", "motors"}
  MAX_FLIGHT = 0
  MAX_TRANSIT = 1
  MAX_FILL = 0
  MAX_BACK = 1
  MAX_LIVES = 3
  HORIZON = 5
PROPERTIES
  MotionIsSustained
CHECK_DEADLOCK FALSE
