SPECIFICATION FairSpec
CONSTANTS
  None = None
  FORGET = 2
  Keys = {"w", "s"}
  XTimes = {1, 2, 3}
  DEBOUNCE = 1
  PERIOD = 1
  ZERO_BURST = 2
  HOLD_MAX = 2
  MAX_QUEUE = 2
INVARIANTS
  MotionNeedsKeyDown
  NoStuckKey
  EndsInZero
  LatchIsFinal
PROPERTIES
  HandIsObeyed
  HandsOffStops
CHECK_DEADLOCK FALSE
