SPECIFICATION Spec
CONSTANTS
  None = None
  NonFinite = NonFinite
  BadStamp = BadStamp
  CMD_TIMEOUT = 1
  STALE = 1
  STANDDOWN_DELAY = 1
  SUSTAIN = 1
  FORGET = 2
  VX_MAX = 1
  VYAW_MAX = 1
  GEOFENCE = 1
  HIP_ABORT = 2
  HIP_ARM_MAX = 1
  BALANCE_STAND = 100
  Guards = {}
  INPUT_TYPE = "twist_stamped"
  Twists <- MCFewTwists
  Stamps = {0, 1, 2, BadStamp}
  ErrorCodes = {100, 0}
  Positions = {0, 1, 2}
  Temps = {0}
  ARMINGS = {TRUE}
  MATCHINGS = {TRUE, FALSE}
  MAX_BACK = 0
  MAX_STARTS = 2
INVARIANTS
  TickNeverRaises
  DeadmanHolds
  NoSilentHandover
  MoveWasAsked
PROPERTIES
  FenceHolds
  ImplementsAuthority
  ImplementsView
CHECK_DEADLOCK FALSE
