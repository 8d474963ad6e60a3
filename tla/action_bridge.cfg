SPECIFICATION Spec
CONSTANTS
  None = None
  FORGET = 3
  STALE = 1
  START_TIMEOUT = 1
  MAX_DANCE = 1
  LOCKOUT = 2
  HANDSET_QUIET = 1
  FOREIGN_QUIET = 1
  OWN_ECHO = 1
  HIP_ARM_MAX = 1
  MAX_SENDS = 2
  BALANCE_STAND = 100
  DANCE_CODE = 1006
  ErrorCodes = {100, 1006}
  Temps = {0}
  MotorCounts = {12}
  ARMINGS = {TRUE}
  MATCHINGS = {TRUE}
  BRIDGINGS = {FALSE}
  MAX_STARTS = 2
  MAX_BACK = 1
  MAX_AHEAD = 1
INVARIANTS
  WatchIsDefined
  LockoutHolds
PROPERTIES
  ImplementsOneShot
CHECK_DEADLOCK FALSE
