------------------------------- MODULE LiveWatch -------------------------------
(***************************************************************************)
(* The two live watches an operator reads while the robot stands or dances:*)
(* go2_thermal_watch prints the hotter rear hip, go2_dance_capture the row *)
(* it recorded last, with the hip temperatures it copied into that row.    *)
(* One thread: callbacks run in spin_once, and once an INTERVAL the loop   *)
(* prints a line, until the duration is over.  All of it subtracts wall    *)
(* clock readings.                                                         *)
(***************************************************************************)
EXTENDS Ages

CONSTANTS
  WATCHES,              \* within {"thermal", "dance"}
  DURATION, INTERVAL, STALE_WATCH,
  DECIMATE,             \* every DECIMATE-th /sportmodestate is a row
  CEILING_C, Peaks,     \* what /lowstate may say of the hotter rear hip
  WALL_STEPS, WALL_BACK \* of the wall clock: sizes of a step; backwards in all

ASSUME WatchAssumption ==
  /\ {DURATION, INTERVAL} \subseteq Nat \ {0}
  /\ {STALE_WATCH, WALL_BACK, CEILING_C} \subseteq Nat
  /\ DECIMATE \in Nat \ {0}
  /\ Peaks \subseteq Nat /\ WALL_STEPS \subseteq Int
  /\ FORGET > STALE_WATCH + WALL_BACK /\ FORGET > INTERVAL + WALL_BACK

VARIABLES
  watch,                \* which of the two
  latest, t_rx,         \* the peak of the newest /lowstate; its age
  t_sport, n_rx,        \* age of the newest /sportmodestate; n % DECIMATE
  recorded,             \* last is not None
  t_print,              \* age of last_print
  remains,              \* of the duration: args.duration - (now - t0)
  line, called,         \* the last line; an ABORT was called out
  over,                 \* the loop has ended
  turned,               \* the loop has turned since the clock moved
  true_rx, true_row,    \* observers: true ages of latest and of last
  true_hips,            \* observer: true age of the /lowstate copied into last
  unread, hips_unread,  \* observers: whether newer messages came after last
  mute,                 \* observer: true time since a line, or the first sample
  set_back              \* observer: what the wall clock was stepped back

heardVars == <<latest, t_rx, t_sport, n_rx, recorded, true_rx, true_row, true_hips, unread, hips_unread>>
watchVars == <<watch, heardVars, t_print, remains, line, called, over, turned, mute, set_back>>

WatchInit ==
  /\ watch \in WATCHES
  /\ latest = None /\ t_rx = None /\ t_sport = None /\ n_rx = 0 /\ recorded = FALSE
  /\ t_print = IF watch = "thermal" THEN 0 ELSE FORGET
  /\ remains = DURATION /\ over = FALSE
  /\ line = None /\ called = FALSE /\ turned = FALSE
  /\ true_rx = None /\ true_row = None /\ true_hips = None
  /\ unread = FALSE /\ hips_unread = FALSE
  /\ mute = IF watch = "thermal" THEN None ELSE 0
  /\ set_back = 0

-----------------------------------------------------------------------------
(* What a spin_once may run.                                               *)
LowCb(peak) ==
  /\ latest' = peak /\ t_rx' = 0 /\ true_rx' = 0 /\ hips_unread' = TRUE
  /\ UNCHANGED <<t_sport, n_rx, recorded, true_row, true_hips, unread>>

Records == n_rx' = 0 /\ latest # None

SportCb ==
  /\ watch = "dance"
  /\ t_sport' = 0 /\ n_rx' = (n_rx + 1) % DECIMATE
  /\ recorded' = (recorded \/ Records)
  /\ true_row' = IF Records THEN 0 ELSE true_row
  /\ true_hips' = IF Records THEN true_rx ELSE true_hips
  /\ unread' = ~Records
  /\ hips_unread' = (hips_unread /\ ~Records)
  /\ UNCHANGED <<latest, t_rx, true_rx>>

-----------------------------------------------------------------------------
(* A turn of the loop.                                                     *)
IsStale_mutant(age) == age = None

IsStale(age) == age = None \/ age > STALE_WATCH

\* the thermal watch prints nothing before the first /lowstate
Due == t_print >= INTERVAL /\ (watch = "thermal" => latest' # None)

Classify(peak) == IF peak >= CEILING_C THEN "ABORT" ELSE "below"

ThermalLine ==
  IF IsStale(t_rx') THEN [kind |-> "STALE"]
  ELSE [kind |-> Classify(latest'),
        true |-> true_rx', newest |-> TRUE, hips |-> true_rx', hips_newest |-> TRUE]

\* (the age of the row's own temperatures, low_age_s, is not looked at)
DanceLine ==
  IF IsStale(t_sport') \/ ~recorded' \/ IsStale(t_rx') THEN [kind |-> "STALE"]
  ELSE [kind |-> "row",
        true |-> true_row', newest |-> ~unread', hips |-> true_hips', hips_newest |-> ~hips_unread']

Prints ==
  /\ Due
  /\ line' = IF watch = "thermal" THEN ThermalLine ELSE DanceLine
  /\ called' = (called \/ line'.kind = "ABORT")
  /\ t_print' = 0 /\ mute' = 0

Waits ==
  /\ ~Due
  /\ mute' = IF mute = None /\ latest' # None THEN 0 ELSE mute
  /\ UNCHANGED <<t_print, line, called>>

\* while rclpy.ok() and time.time() - t0 < args.duration
Running == ~over /\ remains > 0

LoopTurns ==
  /\ Running
  /\ (\E peak \in Peaks : LowCb(peak)) \/ SportCb \/ UNCHANGED heardVars
  /\ Prints \/ Waits
  /\ turned' = TRUE
  /\ UNCHANGED <<watch, remains, over, set_back>>

LoopEnds ==
  /\ ~over /\ ~Running
  /\ over' = TRUE
  /\ UNCHANGED <<watch, heardVars, t_print, remains, line, called, turned, mute, set_back>>

-----------------------------------------------------------------------------
(* Time.  spin_once returns within its timeout, so the loop turns often.   *)
WallMoves(d) ==
  /\ t_rx' = Later(t_rx, d) /\ t_sport' = Later(t_sport, d) /\ t_print' = Later(t_print, d)
  /\ remains' = Sooner(remains, d)

WatchTimePasses ==
  /\ turned /\ ~over
  /\ turned' = FALSE
  /\ WallMoves(1)
  /\ true_rx' = Later(true_rx, 1) /\ true_row' = Later(true_row, 1)
  /\ true_hips' = Later(true_hips, 1) /\ mute' = Later(mute, 1)
  /\ UNCHANGED <<watch, latest, n_rx, recorded, line, called, over, unread, hips_unread, set_back>>

WallSteps(d) ==
  /\ ~over
  /\ WallMoves(d)
  /\ set_back' = IF d < 0 THEN set_back - d ELSE set_back
  /\ set_back' <= WALL_BACK
  /\ UNCHANGED <<watch, latest, n_rx, recorded, line, called, over, turned, true_rx, true_row,
                 true_hips, unread, hips_unread, mute>>

WatchNext == LoopTurns \/ LoopEnds \/ WatchTimePasses \/ \E d \in WALL_STEPS : WallSteps(d)

WatchSpec == WatchInit /\ [][WatchNext]_watchVars

-----------------------------------------------------------------------------
(* A line rests on samples no older than the limit and what the wall clock *)
(* was stepped back: the thermal watch's temperatures; a dance row that no *)
(* later message should have replaced; the temperatures copied into it, if *)
(* none came since.  And no clock step silences a watch that has heard     *)
(* anything for longer than its interval and the step (is_stale, main).    *)
WatchIsCurrent ==
  /\ line # None /\ line.kind # "STALE" =>
       /\ line.newest => line.true <= STALE_WATCH + set_back
       /\ line.hips_newest => line.hips <= STALE_WATCH + set_back
  /\ mute # None => mute <= INTERVAL + set_back
=============================================================================
