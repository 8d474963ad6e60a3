SPECIFICATION Spec
CONSTANTS
  None = None
  FORGET = 3
  WINDOW = 1
  SPORT_STALE = 1
  LOW_STALE = 1
  BRIDGE_STALE = 1
  STALE = 1
  HISTORY = 2
  Stamps = {}
  Streams = {"sport", "low"}
  Samples = {"STOPPED"}
  Faults = {"latch"}
  MAX_FLIGHT = 1
  MAX_TRANSIT = 1
  MAX_FILL = 0
  MAX_BACK = 1
  MAX_LIVES = 2
  HORIZON = 5
INVARIANTS
  LossIsNoticed
  SilenceIsNoticed
CHECK_DEADLOCK FALSE
