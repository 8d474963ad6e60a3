SPECIFICATION ProbeSpec
CONSTANTS
  None = None
  FORGET = 2
  STAGES = {"stand"}
  LYING_MAX = 0
  STANDING_MIN = 2
  START_MAX_C = 1
  CEILING = 2
  RADIUS_ABORT = 1
  STALE_SPORT = 1
  SUSTAIN_SPORT = 1
  GUARDED = {"speed"}
  MOVES = 2
  Heights = {0, 2}
  Hips = {0, 1, 2}
  Distances = {0, 2}
PROPERTY NothingAfterHandset
CHECK_DEADLOCK FALSE
