SPECIFICATION Spec
CONSTANTS
  None = None
  NonFinite = NonFinite
  BadStamp = BadStamp
  CMD_TIMEOUT = 1
  STALE = 1
  STANDDOWN_DELAY = 1
  SUSTAIN = 1
  FORGET = 3
  VX_MAX = 1
  VYAW_MAX = 1
  GEOFENCE = 1
  HIP_ABORT = 2
  HIP_ARM_MAX = 1
  BALANCE_STAND = 100
  Guards = {}
  INPUT_TYPE = "twist"
  Twists <- MCTwists
  Stamps = {0}
  ErrorCodes = {100, 0}
  Positions = {0}
  Temps = {0}
  ARMINGS = {TRUE}
  MATCHINGS = {TRUE}
  MAX_BACK = 1
  MAX_STARTS = 1
INVARIANTS
  DeadmanInTrueTime
CHECK_DEADLOCK FALSE
