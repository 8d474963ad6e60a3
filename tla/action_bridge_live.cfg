SPECIFICATION FairSpec
CONSTANTS
  None = None
  FORGET = 2
  STALE = 1
  START_TIMEOUT = 1
  MAX_DANCE = 1
  LOCKOUT = 1
  HANDSET_QUIET = 1
  FOREIGN_QUIET = 1
  OWN_ECHO = 1
  HIP_ARM_MAX = 1
  MAX_SENDS = 1
  BALANCE_STAND = 100
  DANCE_CODE = 1006
  ErrorCodes = {100, 1006}
  Temps = {0}
  MotorCounts = {12}
  ARMINGS = {TRUE}
  MATCHINGS = {TRUE, FALSE}
  BRIDGINGS = {TRUE, FALSE}
  MAX_STARTS = 1
  MAX_BACK = 0
  MAX_AHEAD = 0
PROPERTIES
  SendResolves
CHECK_DEADLOCK FALSE
