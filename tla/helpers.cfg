SPECIFICATION HelpersSpec
CONSTANTS
  PARTS = {"adapter", "arbiter", "profile", "probe", "unload", "torque", "sender", "watch", "report"}
  None = None
  NonFinite = NonFinite
  FORGET = 4
  SAMPLES = 2
  STEP_THRESHOLD = 1
  STEP_CONSECUTIVE = 2
  Nodes = {"clock_offset", "lidar", "state", "watchdog"}
  PERIOD = 2
  STALE_TIMEOUT = 1
  MAX_DELAY = 1
  Steps <- MCSteps
  MAX_STEPS = 2
  MAX_BACK = 2
  MAX_RESTARTS = 1
  LIMIT = 1
  WATCHDOG_TIMEOUT = 1
  DEADBAND = 1
  HOLD_OVER = 1
  MUX_TIMEOUT = 2
  Raws = {3, NonFinite}
  Sticks <- MCSticks
  JUMPS <- MCJumps
  MAX_AHEAD = 1
  MAX_BEHIND = 1
  PROFILES_RUN = {"listen", "walk_03", "walk_03_kill", "turn_10"}
  TWISTS = 2
  BridgeStates = {"IDLE", "WAITING", "DRIVING", "ABORTED"}
  MAX_SIGNALS = 2
  STAGES = {"listen", "query", "move_once", "walk_03", "stop", "lie"}
  LYING_MAX = 0
  STANDING_MIN = 2
  START_MAX_C = 1
  CEILING = 2
  RADIUS_ABORT = 1
  STALE_SPORT = 1
  SUSTAIN_SPORT = 1
  GUARDED = {"speed"}
  MOVES = 2
  Heights = {0, 2}
  Hips = {0, 1, 2}
  Distances = {0, 2}
  MEDIAN_WIN = 5
  LAG = 2
  SETTLE = 2
  EDGE_COUNTS = 3
  MOVE = 1
  TICK_MOD = 115
  MAX_GAP = 2
  WARMUP = 6
  HOLD = 23
  HOLDS = {23, 24}
  LOST_AT = {1, 46}
  LOST = {0, 1, 4, 46}
  STAND = 8
  LIFT = 6
  SHIFTS = {2, 3}
  SPIKE = 20
  DITHER_LOAD = 2
  SPIKED_AT = {0, 22, 23, 46, 47}
  PAIR = 2
  SPARES = 2
  LOADED_COUNTS = 10
  DITHER_COUNTS = 4
  HEAVY = 40
  WANT = 3
  ERRANDS = {"walk_03", "walk_03_silent", "replay"}
  TWISTS_SENT = 3
  REPLAYS = 1
  FINE = 10
  CLOCK_STEPS <- MCBack
  SENDER_LIVES = 2
  MAX_NOW = 1
  WATCHES = {"thermal", "dance"}
  DURATION = 4
  INTERVAL = 1
  STALE_WATCH = 1
  DECIMATE = 2
  CEILING_C = 2
  Peaks = {1, 2}
  WALL_STEPS <- MCSteps
  WALL_BACK = 2
  TRIALS = {"once", "stream", "kill"}
  ONSET = 1
  TAIL = 2
  STOP_AT = 6
  SEG_GAP = 3
  EXTRA = 3
  STREAM = 3
  PAUSE = 5
  OVERTIME = 1
  STOP_LIMIT = 1
  KILL_LIMIT = 3
  KILL_TIME = 2
  COASTS = {0, 2, 6}
  GAPS = {0, 1, 3}
  END = 20
INVARIANTS
  WrongStampsAreFew
  ThrottlePaces
  LinkLossIsNoticed
  GuardedIsFresh
  StickIsObeyed
  SignalEndsStream
  EndsLying
  SentAsPlanned
  VerdictIsTrue
  ReadingIsSound
  SenderIsHeard
  WatchIsCurrent
  ReportIsTrue
PROPERTIES
  StickReleaseReturns
  YieldsToHandset
CHECK_DEADLOCK FALSE
