---------------------------- MODULE OperatorProofs ----------------------------
(***************************************************************************)
(* Four of the operator's tools: the scripted profile, the live watches,   *)
(* the hexapod's sender, and what the probe and the profile report.  Each  *)
(* of the first three is one thread whose callbacks and signals come       *)
(* between its steps; the proofs hold for any number of Twists, signals,   *)
(* lives and clock steps.                                                  *)
(***************************************************************************)
EXTENDS Profile, LiveWatch, Sender, MotionReport, AgesProofs, FiniteSetTheorems,
  SequenceTheorems, WellFoundedInduction, TLAPS

USE DEF Age

TrueAge == Nat \cup {None}

-----------------------------------------------------------------------------
(* cmd_vel_profile.                                                        *)

\* a flag that is set stays set until the abort that clears it
ProfileInv ==
  /\ at \in {"preflight", "steps", "flush", "over"}
  /\ flushed \in Nat /\ signals \in Nat /\ late \in {0, 1}
  /\ at = "preflight" => late = 0
  /\ at \in {"preflight", "steps"} => code = 0 /\ flushed = 0 /\ (signals > 0 => sig)
  /\ at = "steps" /\ late = 1 => sig /\ ~may_twist
  /\ at = "flush" /\ flushed > 0 => last_twist = 0
  /\ at = "over" /\ code = 1 /\ streamed => last_twist = 0

LEMMA AbortEnds ==
  ASSUME ProfileInv, Aborted, at \in {"preflight", "steps"},
         UNCHANGED <<signals, streamed, flushed, last_twist, late>>
  PROVE  ProfileInv'
BY DEF ProfileInv, Aborted

(* However many signals come, and whenever: at most one more Twist of a    *)
(* stream is published, and a run that is cut short after it streamed ends *)
(* in a zero (on_signal, spin_for, run_live).                              *)
THEOREM SignalEnds == ProfileSpec => []SignalEndsStream
<1> USE ProfileAssumption
<1>1. ProfileInit => ProfileInv
  BY DEF ProfileInit, ProfileInv
<1>2. ProfileInv /\ [ProfileNext]_profileVars => ProfileInv'
  <2> SUFFICES ASSUME ProfileInv, [ProfileNext]_profileVars PROVE ProfileInv'
    OBVIOUS
  <2>1. CASE OnSignal
    BY <2>1 DEF OnSignal, ProfileInv
  <2>2. CASE AwaitStatus
    BY <2>2 DEF AwaitStatus, ProfileInv
  <2>3. ASSUME NEW env \in Environments, PreflightVerdict(env) PROVE ProfileInv'
    BY <2>3 DEF PreflightVerdict, ProfileInv
  <2>4. CASE ProfileSpin
    <3>1. at = "steps" /\ UNCHANGED <<signals, streamed, flushed, last_twist, late>>
      BY <2>4 DEF ProfileSpin, InSpin, Stepping
    <3>2. CASE sig
      BY <2>4, <3>1, <3>2, AbortEnds DEF ProfileSpin, SpinSignalled
    <3>3. CASE ~sig
      BY <2>4, <3>1, <3>3 DEF ProfileSpin, SpinSignalled, ProfileInv
    <3>4. QED
      BY <3>2, <3>3
  <2>5. CASE StreamTwist
    BY <2>5 DEF StreamTwist, Stepping, ProfileInv
  <2>6. CASE StreamEnds
    BY <2>6 DEF StreamEnds, Stepping, ProfileInv
  <2>7. CASE KillBridge
    BY <2>7 DEF KillBridge, Stepping, ProfileInv
  <2>8. CASE ProfileDone
    BY <2>8 DEF ProfileDone, ProfileInv
  <2>9. CASE BadStatus
    <3>1. /\ at \in {"preflight", "steps"} /\ Aborted
          /\ UNCHANGED <<signals, streamed, flushed, last_twist, late>>
      BY <2>9 DEF BadStatus, InSpin, Stepping
    <3>2. QED
      BY <3>1, AbortEnds
  <2>10. CASE FlushZero
    BY <2>10 DEF FlushZero, ProfileInv
  <2>11. CASE FlushEnds
    BY <2>11 DEF FlushEnds, ProfileInv
  <2>12. CASE UNCHANGED profileVars
    BY <2>12 DEF profileVars, ProfileInv
  <2>13. QED
    BY <2>1, <2>2, <2>3, <2>4, <2>5, <2>6, <2>7, <2>8, <2>9, <2>10, <2>11, <2>12
       DEF ProfileNext
<1>3. ProfileInv => SignalEndsStream
  BY DEF ProfileInv, SignalEndsStream
<1>4. QED
  BY <1>1, <1>2, <1>3, PTL DEF ProfileSpec

-----------------------------------------------------------------------------
(* The live watches.                                                       *)
WatchType ==
  /\ latest \in Nat \cup {None}
  /\ t_rx \in Age /\ t_sport \in Age /\ t_print \in Int
  /\ true_rx \in TrueAge /\ true_row \in TrueAge /\ true_hips \in TrueAge /\ mute \in TrueAge
  /\ unread \in BOOLEAN /\ hips_unread \in BOOLEAN /\ turned \in BOOLEAN
  /\ set_back \in Nat

\* a true age exceeds the wall age by what the clock was stepped back
Behind(wall, true) == wall # None => true # None /\ true <= wall + set_back

HeardInv ==
  /\ true_rx # None => true_rx <= FORGET
  /\ true_row # None => true_row <= FORGET
  /\ true_hips # None => true_hips <= FORGET
  /\ Behind(t_rx, true_rx)
  /\ ~unread => Behind(t_sport, true_row)
  /\ ~hips_unread => Behind(t_rx, true_hips)

MuteInv ==
  /\ t_print + set_back >= 0
  /\ watch = "thermal" /\ latest = None => mute = None
  /\ mute # None => /\ mute <= FORGET /\ mute <= t_print + set_back
                    /\ mute <= INTERVAL + set_back
                    /\ turned => mute < INTERVAL + set_back

LineInv ==
  line # None /\ line.kind # "STALE" =>
    /\ line.newest => line.true \in Int /\ line.true <= STALE_WATCH + set_back
    /\ line.hips_newest => line.hips \in Int /\ line.hips <= STALE_WATCH + set_back

LEMMA WatchTyped == WatchSpec => []WatchType
<1> USE AgeAssumption, WatchAssumption
<1>1. WatchInit => WatchType
  <2>1. WatchInit => unread \in BOOLEAN /\ hips_unread \in BOOLEAN /\ turned \in BOOLEAN
    BY DEF WatchInit
  <2>2. QED
    BY <2>1 DEF WatchInit, WatchType, TrueAge
<1>2. WatchType /\ [WatchNext]_watchVars => WatchType'
  <2> SUFFICES ASSUME WatchType, [WatchNext]_watchVars PROVE WatchType'
    OBVIOUS
  <2>1. CASE LoopTurns
    <3>1. /\ latest' \in Nat \cup {None} /\ t_rx' \in Age /\ t_sport' \in Age
          /\ true_rx' \in TrueAge /\ true_row' \in TrueAge /\ true_hips' \in TrueAge
      BY <2>1 DEF LoopTurns, LowCb, SportCb, WatchType, TrueAge, heardVars
    <3>2. unread' \in BOOLEAN /\ hips_unread' \in BOOLEAN
      BY <2>1 DEF LoopTurns, LowCb, SportCb, WatchType, heardVars
    <3>3. t_print' \in Int /\ mute' \in TrueAge
      BY <2>1 DEF LoopTurns, Prints, Waits, WatchType, TrueAge
    <3>4. turned' \in BOOLEAN /\ set_back' \in Nat
      BY <2>1 DEF LoopTurns, WatchType
    <3>5. QED
      BY <3>1, <3>2, <3>3, <3>4 DEF WatchType
  <2>2. CASE WatchTimePasses
    <3>1. t_rx' \in Age /\ t_sport' \in Age /\ t_print' \in Int
      BY <2>2, LaterType DEF WatchTimePasses, WallMoves, WatchType, Later
    <3>2. true_rx' \in TrueAge /\ true_row' \in TrueAge /\ true_hips' \in TrueAge /\ mute' \in TrueAge
      BY <2>2 DEF WatchTimePasses, WatchType, TrueAge, Later
    <3>3. turned' \in BOOLEAN /\ unread' \in BOOLEAN /\ hips_unread' \in BOOLEAN
      BY <2>2 DEF WatchTimePasses, WatchType
    <3>4. QED
      BY <2>2, <3>1, <3>2, <3>3 DEF WatchTimePasses, WatchType
  <2>3. ASSUME NEW d \in WALL_STEPS, WallSteps(d) PROVE WatchType'
    <3>1. d \in Int
      OBVIOUS
    <3>2. t_rx' \in Age /\ t_sport' \in Age /\ t_print' \in Int
      BY <2>3, <3>1, LaterType DEF WallSteps, WallMoves, WatchType, Later
    <3>3. set_back' \in Nat
      BY <2>3, <3>1 DEF WallSteps, WatchType
    <3>4. QED
      BY <2>3, <3>2, <3>3 DEF WallSteps, WatchType
  <2>4. CASE LoopEnds
    BY <2>4 DEF LoopEnds, heardVars, WatchType
  <2>5. CASE UNCHANGED watchVars
    BY <2>5 DEF watchVars, heardVars, WatchType
  <2>6. QED
    BY <2>1, <2>2, <2>3, <2>4, <2>5 DEF WatchNext
<1>3. QED
  BY <1>1, <1>2, PTL DEF WatchSpec

\* t of true time and d of the wall clock keep a pair
LEMMA BehindMoves ==
  ASSUME NEW wall \in Age, NEW true \in TrueAge, NEW d \in Int, NEW t \in {0, 1},
         set_back \in Nat, set_back' \in Nat, set_back' >= set_back,
         t <= d \/ set_back' = set_back + t - d, Behind(wall, true), Later(wall, d) # None
  PROVE  Later(true, t) # None /\ Later(true, t) <= Later(wall, d) + set_back'
<1>1. wall # None
  BY DEF Later
<1>2. wall \in Int /\ true \in Nat /\ true <= wall + set_back
  BY <1>1 DEF Behind, TrueAge
<1>3. /\ Later(true, t) # None /\ Later(true, t) \in Int
      /\ Later(true, t) <= FORGET /\ Later(true, t) <= true + t
  BY <1>2, AgeAssumption DEF Later
<1>4. Later(wall, d) = FORGET \/ Later(wall, d) = wall + d
  BY <1>1 DEF Later
<1>5. QED
  BY <1>2, <1>3, <1>4, AgeAssumption

\* an age that is not past FORGET is the same age when no time passes
LEMMA LaterZero ==
  ASSUME NEW age \in TrueAge, age # None => age <= FORGET
  PROVE  Later(age, 0) = age
<1>1. CASE age = None
  BY <1>1 DEF Later
<1>2. CASE age # None
  <2>1. age \in Nat /\ ~(age + 0 > FORGET) /\ age + 0 = age
    BY <1>2, AgeAssumption DEF TrueAge
  <2>2. QED
    BY <1>2, <2>1 DEF Later
<1>3. QED
  BY <1>1, <1>2

LEMMA HeardMoves ==
  ASSUME WatchType, WatchType', HeardInv, NEW d \in Int, NEW t \in {0, 1},
         set_back' >= set_back, t <= d \/ set_back' = set_back + t - d,
         WallMoves(d), true_rx' = Later(true_rx, t), true_row' = Later(true_row, t),
         true_hips' = Later(true_hips, t), unread' = unread, hips_unread' = hips_unread
  PROVE  HeardInv'
<1>1. /\ set_back \in Nat /\ set_back' \in Nat /\ t_rx \in Age /\ t_sport \in Age
      /\ true_rx \in TrueAge /\ true_row \in TrueAge /\ true_hips \in TrueAge
      /\ t_rx' = Later(t_rx, d) /\ t_sport' = Later(t_sport, d)
  BY DEF WatchType, WallMoves
<1>2. Behind(t_rx, true_rx)'
  BY <1>1, BehindMoves DEF HeardInv, Behind
<1>3. ~unread' => Behind(t_sport, true_row)'
  BY <1>1, BehindMoves DEF HeardInv, Behind
<1>4. ~hips_unread' => Behind(t_rx, true_hips)'
  BY <1>1, BehindMoves DEF HeardInv, Behind
<1>5. \A age \in TrueAge : Later(age, t) # None => Later(age, t) <= FORGET
  BY AgeAssumption DEF TrueAge, Later
<1>6. QED
  BY <1>1, <1>2, <1>3, <1>4, <1>5 DEF HeardInv

LEMMA HeardStep ==
  ASSUME WatchType, WatchType', HeardInv, [WatchNext]_watchVars
  PROVE  HeardInv'
<1> USE AgeAssumption, WatchAssumption
<1>1. CASE LoopTurns
  <2>1. set_back' = set_back /\ set_back \in Nat
    BY <1>1 DEF LoopTurns, WatchType
  <2>2. ASSUME NEW peak \in Peaks, LowCb(peak) PROVE HeardInv'
    BY <2>1, <2>2 DEF LowCb, HeardInv, Behind
  <2>3. CASE SportCb
    <3>1. /\ t_sport' = 0 /\ UNCHANGED <<t_rx, true_rx>>
          /\ unread' = ~Records /\ true_row' = IF Records THEN 0 ELSE true_row
          /\ hips_unread' = (hips_unread /\ ~Records)
          /\ true_hips' = IF Records THEN true_rx ELSE true_hips
      BY <2>3 DEF SportCb
    <3>2. CASE Records
      BY <2>1, <3>1, <3>2 DEF HeardInv, Behind
    <3>3. CASE ~Records
      BY <2>1, <3>1, <3>3 DEF HeardInv, Behind
    <3>4. QED
      BY <3>2, <3>3
  <2>4. CASE UNCHANGED heardVars
    BY <2>1, <2>4 DEF heardVars, HeardInv, Behind
  <2>5. QED
    BY <1>1, <2>2, <2>3, <2>4 DEF LoopTurns
<1>2. CASE WatchTimePasses
  <2>1. /\ WallMoves(1) /\ true_rx' = Later(true_rx, 1) /\ true_row' = Later(true_row, 1)
        /\ true_hips' = Later(true_hips, 1)
        /\ unread' = unread /\ hips_unread' = hips_unread /\ set_back' = set_back
    BY <1>2 DEF WatchTimePasses
  <2>2. set_back' >= set_back
    BY <2>1 DEF WatchType
  <2>3. QED
    BY <2>1, <2>2, HeardMoves
<1>3. ASSUME NEW d \in WALL_STEPS, WallSteps(d) PROVE HeardInv'
  <2>1. /\ WallMoves(d) /\ UNCHANGED <<true_rx, true_row, true_hips, unread, hips_unread>>
        /\ set_back' = IF d < 0 THEN set_back - d ELSE set_back
    BY <1>3 DEF WallSteps
  <2>2. d \in Int /\ set_back \in Nat
    BY DEF WatchType
  <2>3. set_back' >= set_back /\ (0 <= d \/ set_back' = set_back + 0 - d)
    BY <2>1, <2>2
  <2>4. /\ true_rx' = Later(true_rx, 0) /\ true_row' = Later(true_row, 0)
        /\ true_hips' = Later(true_hips, 0)
    BY <2>1, LaterZero DEF WatchType, HeardInv
  <2>5. QED
    BY <2>1, <2>2, <2>3, <2>4, HeardMoves
<1>4. CASE LoopEnds
  BY <1>4 DEF LoopEnds, heardVars, HeardInv, Behind
<1>5. CASE UNCHANGED watchVars
  BY <1>5 DEF watchVars, heardVars, HeardInv, Behind
<1>6. QED
  BY <1>1, <1>2, <1>3, <1>4, <1>5 DEF WatchNext

LEMMA MuteStep ==
  ASSUME WatchType, WatchType', MuteInv, [WatchNext]_watchVars
  PROVE  MuteInv'
<1> USE AgeAssumption, WatchAssumption
<1>1. CASE LoopTurns
  <2>1. set_back' = set_back /\ set_back \in Nat /\ watch' = watch
    BY <1>1 DEF LoopTurns, WatchType
  <2>2. watch = "thermal" /\ latest' = None => latest = None
    BY <1>1 DEF LoopTurns, LowCb, SportCb, heardVars
  <2>3. CASE Prints
    <3>1. t_print' = 0 /\ mute' = 0 /\ (watch = "thermal" => latest' # None)
      BY <2>3 DEF Prints, Due
    <3>2. QED
      BY <2>1, <3>1 DEF MuteInv
  <2>4. CASE Waits
    <3>1. /\ t_print' = t_print /\ mute' = IF mute = None /\ latest' # None THEN 0 ELSE mute
          /\ t_print \in Int
          /\ t_print < INTERVAL \/ (watch = "thermal" /\ latest' = None)
      BY <2>4 DEF Waits, Due, WatchType
    <3>2. CASE t_print < INTERVAL
      BY <2>1, <2>2, <3>1, <3>2 DEF MuteInv, WatchType, TrueAge
    <3>3. CASE watch = "thermal" /\ latest' = None
      BY <2>1, <2>2, <3>1, <3>3 DEF MuteInv
    <3>4. QED
      BY <3>1, <3>2, <3>3
  <2>5. QED
    BY <1>1, <2>3, <2>4 DEF LoopTurns
<1>2. CASE WatchTimePasses
  <2>1. /\ turned /\ turned' = FALSE /\ t_print' = Later(t_print, 1) /\ mute' = Later(mute, 1)
        /\ UNCHANGED <<watch, latest, set_back>> /\ set_back \in Nat
    BY <1>2 DEF WatchTimePasses, WallMoves, WatchType
  <2>2. t_print' + set_back' >= 0
    BY <2>1 DEF MuteInv, WatchType, Later
  <2>3. ASSUME mute' # None
        PROVE  mute' <= FORGET /\ mute' <= t_print' + set_back' /\ mute' <= INTERVAL + set_back'
    <3>1. mute \in Nat /\ mute <= t_print + set_back /\ mute < INTERVAL + set_back
      BY <2>1, <2>3 DEF MuteInv, WatchType, TrueAge, Later
    <3>2. mute' <= FORGET /\ mute' <= mute + 1 /\ mute' \in Int
      BY <2>1, <3>1 DEF Later
    <3>3. t_print' = FORGET \/ t_print' = t_print + 1
      BY <2>1 DEF Later, WatchType
    <3>4. QED
      BY <2>1, <3>1, <3>2, <3>3 DEF WatchType
  <2>4. watch' = "thermal" /\ latest' = None => mute' = None
    BY <2>1 DEF MuteInv, Later
  <2>5. QED
    BY <2>1, <2>2, <2>3, <2>4 DEF MuteInv
<1>3. ASSUME NEW d \in WALL_STEPS, WallSteps(d) PROVE MuteInv'
  <2>1. /\ t_print' = Later(t_print, d) /\ UNCHANGED <<watch, latest, turned, mute>>
        /\ set_back' = IF d < 0 THEN set_back - d ELSE set_back
    BY <1>3 DEF WallSteps, WallMoves
  <2>2. d \in Int /\ set_back \in Nat /\ t_print \in Int
    BY DEF WatchType
  <2>3. t_print' = FORGET \/ t_print' = t_print + d
    BY <2>1, <2>2 DEF Later
  <2>4. t_print' + set_back' >= 0
    BY <2>1, <2>2, <2>3 DEF MuteInv
  <2>5. ASSUME mute # None
        PROVE  /\ mute <= FORGET /\ mute <= t_print' + set_back' /\ mute <= INTERVAL + set_back'
               /\ turned => mute < INTERVAL + set_back'
    <3>1. mute \in Nat /\ mute <= FORGET /\ mute <= t_print + set_back
          /\ mute <= INTERVAL + set_back /\ (turned => mute < INTERVAL + set_back)
      BY <2>5 DEF MuteInv, WatchType, TrueAge
    <3>2. QED
      BY <2>1, <2>2, <2>3, <3>1
  <2>6. QED
    BY <2>1, <2>4, <2>5 DEF MuteInv
<1>4. CASE LoopEnds
  BY <1>4 DEF LoopEnds, heardVars, MuteInv
<1>5. CASE UNCHANGED watchVars
  BY <1>5 DEF watchVars, heardVars, MuteInv
<1>6. QED
  BY <1>1, <1>2, <1>3, <1>4, <1>5 DEF WatchNext

LEMMA LineStep ==
  ASSUME WatchType, WatchType', HeardInv, HeardInv', LineInv, [WatchNext]_watchVars
  PROVE  LineInv'
<1>1. CASE line' = line /\ set_back' >= set_back
  <2>1. set_back \in Nat /\ set_back' \in Nat /\ STALE_WATCH \in Nat
    BY WatchAssumption DEF WatchType
  <2>2. QED
    BY <1>1, <2>1 DEF LineInv
<1>2. CASE LoopTurns /\ Prints
  <2>1. set_back' = set_back /\ line' = IF watch = "thermal" THEN ThermalLine ELSE DanceLine
    BY <1>2 DEF LoopTurns, Prints
  <2>2. CASE watch = "thermal"
    <3>1. line' = ThermalLine
      BY <2>1, <2>2
    <3>2. CASE IsStale(t_rx')
      BY <3>1, <3>2 DEF ThermalLine, LineInv
    <3>3. CASE ~IsStale(t_rx')
      <4>1. line'.true = true_rx' /\ line'.hips = true_rx'
        BY <3>1, <3>3 DEF ThermalLine
      <4>2. t_rx' # None /\ t_rx' \in Int /\ t_rx' <= STALE_WATCH
        BY <3>3, WatchAssumption DEF IsStale, WatchType
      <4>3. true_rx' \in Nat /\ true_rx' <= t_rx' + set_back'
        BY <4>2 DEF HeardInv, Behind, WatchType, TrueAge
      <4>4. true_rx' \in Int /\ true_rx' <= STALE_WATCH + set_back'
        <5>1. t_rx' \in Int /\ t_rx' <= STALE_WATCH
          BY <4>2
        <5>2. STALE_WATCH \in Int /\ set_back' \in Int
          BY WatchAssumption DEF WatchType
        <5>3. true_rx' \in Int /\ true_rx' <= t_rx' + set_back'
          BY <4>3
        <5>4. \A x, y, z, w \in Int : x <= y + w /\ y <= z => x <= z + w
          OBVIOUS
        <5>5. QED
          BY <5>1, <5>2, <5>3, <5>4, Zenon
      <4>5. QED
        BY <4>1, <4>4 DEF LineInv
    <3>4. QED
      BY <3>2, <3>3
  <2>3. CASE watch # "thermal"
    <3>1. line' = DanceLine
      BY <2>1, <2>3
    <3>2. CASE IsStale(t_sport') \/ ~recorded' \/ IsStale(t_rx')
      BY <3>1, <3>2 DEF DanceLine, LineInv
    <3>3. CASE ~(IsStale(t_sport') \/ ~recorded' \/ IsStale(t_rx'))
      <4>1. /\ line'.true = true_row' /\ line'.newest = ~unread'
            /\ line'.hips = true_hips' /\ line'.hips_newest = ~hips_unread'
        BY <3>1, <3>3 DEF DanceLine
      <4>2. /\ t_sport' # None /\ t_sport' \in Int /\ t_sport' <= STALE_WATCH
            /\ t_rx' # None /\ t_rx' \in Int /\ t_rx' <= STALE_WATCH
        BY <3>3, WatchAssumption DEF IsStale, WatchType
      <4>3. ~unread' => true_row' \in Nat /\ true_row' <= t_sport' + set_back'
        BY <4>2 DEF HeardInv, Behind, WatchType, TrueAge
      <4>4. ~unread' => true_row' \in Int /\ true_row' <= STALE_WATCH + set_back'
        BY <4>2, <4>3, WatchAssumption DEF WatchType
      <4>5. ~hips_unread' => true_hips' \in Nat /\ true_hips' <= t_rx' + set_back'
        BY <4>2 DEF HeardInv, Behind, WatchType, TrueAge
      <4>6. ~hips_unread' => true_hips' \in Int /\ true_hips' <= STALE_WATCH + set_back'
        BY <4>2, <4>5, WatchAssumption DEF WatchType
      <4>7. QED
        BY <4>1, <4>4, <4>6 DEF LineInv
    <3>4. QED
      BY <3>2, <3>3
  <2>4. QED
    BY <2>2, <2>3
<1>3. CASE LoopTurns /\ Waits
  <2>1. line' = line /\ set_back' >= set_back
    BY <1>3 DEF LoopTurns, Waits, WatchType
  <2>2. QED
    BY <1>1, <2>1
<1>4. WatchTimePasses \/ LoopEnds \/ UNCHANGED watchVars => line' = line /\ set_back' >= set_back
  BY DEF WatchTimePasses, LoopEnds, watchVars, WatchType
<1>5. ASSUME NEW d \in WALL_STEPS, WallSteps(d) PROVE line' = line /\ set_back' >= set_back
  <2>1. d \in Int /\ set_back \in Nat
    BY WatchAssumption DEF WatchType
  <2>2. QED
    BY <1>5, <2>1 DEF WallSteps
<1>6. QED
  BY <1>1, <1>2, <1>3, <1>4, <1>5 DEF WatchNext, LoopTurns

(* A line rests on samples no older than the limit and what the wall clock *)
(* was stepped back, but for a dance row, or temperatures in it, that a    *)
(* later message should have replaced; and no clock step silences a watch  *)
(* for longer than its interval and the step (is_stale, main).             *)
THEOREM WatchCurrent == WatchSpec => []WatchIsCurrent
<1> USE AgeAssumption, WatchAssumption
<1>1. WatchInit => HeardInv /\ MuteInv /\ LineInv
  BY DEF WatchInit, HeardInv, Behind, MuteInv, LineInv
<1>2. /\ WatchType /\ WatchType' /\ HeardInv /\ MuteInv /\ LineInv /\ [WatchNext]_watchVars
      => HeardInv' /\ MuteInv' /\ LineInv'
  BY HeardStep, MuteStep, LineStep
<1>3. HeardInv /\ MuteInv /\ LineInv => WatchIsCurrent
  BY DEF MuteInv, LineInv, WatchIsCurrent
<1>4. QED
  BY <1>1, <1>2, <1>3, WatchTyped, PTL DEF WatchSpec

-----------------------------------------------------------------------------
(* The hexapod's sender.                                                   *)
Reading == Nat \cup {None}

SenderType ==
  /\ doing \in {"preflight", "profile", "replay", "zeros", "listen", "over"}
  /\ stamps \in Seq(Nat)
  /\ doing = "preflight" => stamps = <<>> /\ outcome = None
  /\ now \in Nat /\ stamped \in Reading /\ newest \in Reading /\ reached \in Reading

\* the relay was lost, or a preflight passed on a count that had changed
Unheard == gone \/ overtaken

\* a profile is running only while the relay is connected, or one of these;
\* a count that nobody overtook is still the number of those registered
WiredInv ==
  /\ registered \subseteq Subscribers /\ "relay" \in registered
  /\ connected \subseteq registered
  /\ gone => "relay" \notin connected
  /\ n_reg # None /\ ~overtaken => n_reg = Cardinality(registered)
  /\ doing \in {"profile", "replay", "zeros"} => Unheard \/ "relay" \in connected

\* what the bridge took is behind the next stamp, or an earlier life's
StampedInv ==
  /\ newest # None => \/ reached # None /\ newest <= reached
                      \/ stamped # None /\ newest <= stamped
  /\ \A i \in DOMAIN stamps : stamped # None /\ stamps[i] <= stamped
  /\ ~Unheard => \A i \in DOMAIN stamps : newest # None /\ stamps[i] <= newest
  /\ doing = "replay" => Len(stamps) >= 3

OutcomeInv ==
  outcome # None =>
    /\ outcome.lost => Unheard
    /\ outcome.refused /\ ~outcome.again => reached # None /\ outcome.stamp <= reached
    /\ outcome.again => outcome.lost \/ outcome.refused \/ overtaken

EndInv ==
  /\ doing = "replay" => errand = "replay"
  /\ finished => doing = "over"
  /\ (doing = "listen" \/ finished) /\ ERRAND[errand].zeros => outcome.moves = FALSE

LEMMA NextStampAhead ==
  ASSUME SenderType
  PROVE  NextStamp \in Nat /\ (stamped # None => NextStamp > stamped)
<1>1. now \in Nat /\ FINE \in Nat /\ stamped \in Nat \cup {None}
  BY SenderAssumption DEF SenderType, Reading
<1>2. now * FINE \in Nat
  BY <1>1
<1>3. QED
  BY <1>1, <1>2, AgeAssumption DEF NextStamp

LEMMA ReplayNat ==
  ASSUME SenderType, StampedInv, doing = "replay"
  PROVE  /\ Len(stamps) - 2 \in DOMAIN stamps
         /\ stamps[Len(stamps) - 2] \in Nat
BY DEF SenderType, StampedInv

\* every subscriber connected means the relay is
LEMMA WiredRelay ==
  ASSUME WiredInv, Wired, n_reg # None, ~overtaken
  PROVE  "relay" \in connected
<1>1. IsFiniteSet(Subscribers)
  <2>1. IsFiniteSet({}) /\ {} \cup {"relay"} = {"relay"}
    BY FS_EmptySet
  <2>2. IsFiniteSet({"relay"})
    BY <2>1, FS_AddElement
  <2>3. Subscribers = {"relay"} \cup {"probe"}
    BY DEF Subscribers
  <2>4. QED
    BY <2>2, <2>3, FS_AddElement
<1>2. IsFiniteSet(registered)
  BY <1>1, FS_Subset DEF WiredInv
<1>3. connected \in SUBSET registered /\ Cardinality(connected) <= Cardinality(registered)
  BY <1>2, FS_Subset DEF WiredInv
<1>4. Cardinality(connected) >= Cardinality(registered)
  BY DEF Wired, WiredInv
<1>5. IsFiniteSet(connected)
  BY <1>2, <1>3, FS_Subset
<1>6. Cardinality(connected) \in Nat /\ Cardinality(registered) \in Nat
  BY <1>2, <1>5, FS_CardinalityType
<1>7. Cardinality(registered) = Cardinality(connected)
  BY <1>3, <1>4, <1>6
<1>8. registered = connected
  BY <1>2, <1>3, <1>7, FS_Subset
<1>9. QED
  BY <1>8 DEF WiredInv

LEMMA WiredStep ==
  ASSUME WiredInv, [SenderNext]_senderVars
  PROVE  WiredInv'
<1>1. CASE Graph
  <2>1. doing' = doing /\ gone' = (gone \/ "relay" \in connected \ connected')
        /\ n_reg' = n_reg
        /\ overtaken' = (overtaken \/ (n_reg # None /\ registered' # registered))
    BY <1>1 DEF Graph
  <2>2. CASE ProbeRegisters
    BY <2>1, <2>2 DEF ProbeRegisters, WiredInv, Unheard, Subscribers
  <2>3. ASSUME NEW s \in Subscribers, Connects(s) PROVE WiredInv'
    BY <2>1, <2>3 DEF Connects, WiredInv, Unheard
  <2>4. ASSUME NEW s \in Subscribers, Disconnects(s) PROVE WiredInv'
    BY <2>1, <2>4 DEF Disconnects, WiredInv, Unheard
  <2>5. QED
    BY <1>1, <2>2, <2>3, <2>4 DEF Graph
<1>2. ASSUME NEW heard_status \in BridgeReports, NEW demand \in [armed : BOOLEAN, waiting : BOOLEAN],
             MasterAnswers(heard_status, demand)
      PROVE  WiredInv'
  BY <1>2 DEF MasterAnswers, WiredInv, Unheard
<1>11. CASE ConnectionsCounted
  <2>1. n_reg # None /\ n_reg' = None /\ UNCHANGED <<registered, connected, gone, overtaken>>
        /\ doing' = IF Wired THEN "profile" ELSE "preflight"
    BY <1>11 DEF ConnectionsCounted
  <2>2. Wired /\ ~overtaken => "relay" \in connected
    BY <2>1, WiredRelay
  <2>3. QED
    BY <2>1, <2>2 DEF WiredInv, Unheard
<1>3. CASE UNCHANGED lineVars /\ doing' = doing
  BY <1>3 DEF lineVars, WiredInv, Unheard
<1>4. CASE UNCHANGED lineVars /\ doing' \in {"listen", "over"}
  BY <1>4 DEF lineVars, WiredInv, Unheard
<1>5. CASE StepOver
  BY <1>5 DEF StepOver, lineVars, WiredInv, Unheard
<1>6. CASE SendZero
  BY <1>6 DEF SendZero, lineVars, WiredInv, Unheard
<1>7. CASE SenderRestarts
  BY <1>7 DEF SenderRestarts, WiredInv, Unheard, Subscribers
<1>8. StepSendsTwist \/ SendAgain \/ UNCHANGED senderVars => UNCHANGED lineVars /\ doing' = doing
  BY DEF StepSendsTwist, SendAgain, senderVars
<1>9. ASSUME NEW d \in CLOCK_STEPS \cup {1}, WallClock(d) PROVE UNCHANGED lineVars /\ doing' = doing
  BY <1>9 DEF WallClock
<1>10. Ends \/ ReplayOver \/ ListenEnds => UNCHANGED lineVars /\ doing' \in {"listen", "over"}
  BY DEF Ends, ReplayOver, ListenEnds
<1>12. QED
  BY <1>1, <1>2, <1>3, <1>4, <1>5, <1>6, <1>7, <1>8, <1>9, <1>10, <1>11
     DEF SenderNext

\* a new stamp, appended to the list or not
LEMMA StampSent ==
  ASSUME SenderType, StampedInv, WiredInv, NEW moves, SendNext(moves),
         stamps' = stamps \/ stamps' = Append(stamps, NextStamp),
         UNCHANGED <<gone, overtaken, reached>>, Unheard \/ "relay" \in connected,
         doing' # "replay"
  PROVE  stamps' \in Seq(Nat) /\ stamped' \in Reading /\ newest' \in Reading /\ StampedInv'
<1> DEFINE stamp == NextStamp
<1>1. stamp \in Nat /\ (stamped # None => stamp > stamped)
  BY NextStampAhead
<1>2. stamped' = stamp /\ newest' = IF "relay" \in connected /\ Taken(stamp) THEN stamp ELSE newest
  BY DEF SendNext, SendStamp
<1>3. /\ stamps \in Seq(Nat) /\ stamped \in Reading /\ newest \in Reading /\ reached \in Reading
      /\ stamp # None
  BY <1>1, AgeAssumption DEF SenderType
<1>4. stamps' \in Seq(Nat) /\ stamped' \in Reading /\ newest' \in Reading
  BY <1>1, <1>2, <1>3 DEF Reading
<1>5. newest' # None => (reached' # None /\ newest' <= reached') \/ newest' <= stamped'
  BY <1>1, <1>2, <1>3 DEF StampedInv, Reading
<1>6. ASSUME NEW i \in DOMAIN stamps' PROVE stamps'[i] \in Nat /\ stamps'[i] <= stamped'
  <2>1. (i \in DOMAIN stamps /\ stamps'[i] = stamps[i]) \/ stamps'[i] = stamp
    BY <1>1, <1>3, <1>6
  <2>2. CASE i \in DOMAIN stamps /\ stamps'[i] = stamps[i]
    <3>1. stamped # None /\ stamps[i] <= stamped /\ stamps[i] \in Nat
      BY <1>3, <2>2 DEF StampedInv
    <3>2. QED
      BY <1>1, <1>2, <1>3, <2>2, <3>1 DEF Reading
  <2>3. QED
    BY <1>1, <1>2, <2>1, <2>2
<1>7. ASSUME ~Unheard', NEW i \in DOMAIN stamps' PROVE newest' # None /\ stamps'[i] <= newest'
  <2>1. "relay" \in connected /\ ~Unheard
    BY <1>7 DEF Unheard
  <2>2. newest' # None /\ newest' \in Nat /\ stamp <= newest' /\ (newest # None => newest <= newest')
    BY <1>1, <1>2, <1>3, <2>1 DEF Taken, Reading
  <2>3. (i \in DOMAIN stamps /\ stamps'[i] = stamps[i]) \/ stamps'[i] = stamp
    BY <1>1, <1>3, <1>7
  <2>4. CASE i \in DOMAIN stamps /\ stamps'[i] = stamps[i]
    <3>1. newest # None /\ stamps[i] <= newest /\ stamps[i] \in Nat
      BY <1>3, <2>1, <2>4 DEF StampedInv
    <3>2. QED
      BY <1>3, <2>2, <2>4, <3>1 DEF Reading
  <2>5. QED
    BY <2>2, <2>3, <2>4
<1>8. QED
  BY <1>2, <1>3, <1>4, <1>5, <1>6, <1>7 DEF StampedInv

\* a replay is of a stamp the bridge took, or the relay is gone
LEMMA ReplayIsOld ==
  ASSUME SenderType, StampedInv, WiredInv, doing = "replay", "relay" \in connected,
         ~overtaken
  PROVE  ~Taken(stamps[Len(stamps) - 2])
<1>1. ~Unheard
  BY DEF WiredInv, Unheard
<1>2. newest # None /\ stamps[Len(stamps) - 2] <= newest
  BY <1>1, ReplayNat DEF StampedInv
<1>3. newest \in Nat /\ stamps[Len(stamps) - 2] \in Nat
  BY <1>2, ReplayNat DEF SenderType, Reading
<1>4. QED
  BY <1>2, <1>3 DEF Taken

LEMMA StampStep ==
  ASSUME SenderType, StampedInv, WiredInv, [SenderNext]_senderVars
  PROVE  SenderType' /\ StampedInv'
<1> DEFINE sending == <<stamps, stamped, newest, reached, outcome>>
<1> USE DEF SenderType, StampedInv
<1>1. CASE Graph
  <2>1. UNCHANGED <<sending, doing, now>> /\ (Unheard => Unheard')
    BY <1>1 DEF Graph, Unheard
  <2>2. QED
    BY <2>1
<1>2. CASE StepSendsTwist
  <2>1. /\ SendNext(ERRAND[errand].moves) /\ stamps' = Append(stamps, NextStamp)
        /\ UNCHANGED <<gone, overtaken, reached, doing, now>> /\ doing = "profile"
    BY <1>2 DEF StepSendsTwist, lineVars
  <2>2. Unheard \/ "relay" \in connected
    BY <2>1 DEF WiredInv
  <2>3. stamps' \in Seq(Nat) /\ stamped' \in Reading /\ newest' \in Reading /\ StampedInv'
    BY <2>1, <2>2, StampSent
  <2>4. QED
    BY <2>1, <2>3
<1>3. CASE SendZero
  <2>1. /\ SendNext(FALSE) /\ stamps' = stamps
        /\ UNCHANGED <<gone, overtaken, reached, now>> /\ doing = "zeros" /\ doing' \in {"listen", "zeros"}
    BY <1>3 DEF SendZero, lineVars
  <2>2. Unheard \/ "relay" \in connected
    BY <2>1 DEF WiredInv
  <2>3. stamps' \in Seq(Nat) /\ stamped' \in Reading /\ newest' \in Reading /\ StampedInv'
    BY <2>1, <2>2, StampSent
  <2>4. QED
    BY <2>1, <2>3
<1>4. CASE SendAgain
  <2>1. /\ UNCHANGED <<stamps, stamped, reached, doing, now, gone, overtaken>> /\ doing = "replay"
        /\ newest' = IF "relay" \in connected /\ Taken(stamps[Len(stamps) - 2])
                     THEN stamps[Len(stamps) - 2] ELSE newest
    BY <1>4 DEF SendAgain, SendStamp, lineVars
  <2>2. stamps[Len(stamps) - 2] \in Nat
    BY <2>1, ReplayNat
  <2>3. CASE newest' = newest
    BY <2>1, <2>3 DEF Unheard
  <2>4. CASE newest' # newest
    <3>1. overtaken /\ overtaken' /\ newest' = stamps[Len(stamps) - 2]
      BY <2>1, <2>4, ReplayIsOld
    <3>2. stamped # None /\ newest' <= stamped
      BY <2>1, <3>1, ReplayNat
    <3>3. QED
      BY <2>1, <2>2, <3>1, <3>2 DEF Unheard, Reading
  <2>5. QED
    BY <2>3, <2>4
<1>5. CASE StepOver
  <2>1. UNCHANGED <<sending, now, gone, overtaken>> /\ doing' \in {"replay", "zeros", "listen"}
        /\ (doing' = "replay" => Len(stamps) >= 3)
    BY <1>5 DEF StepOver, lineVars
  <2>2. QED
    BY <2>1 DEF Unheard
<1>6. CASE SenderRestarts
  <2>1. /\ stamps' = <<>> /\ stamped' = None /\ reached' = newest /\ doing' = "preflight"
        /\ outcome' = None
        /\ UNCHANGED <<now, newest, gone>>
    BY <1>6 DEF SenderRestarts
  <2>2. newest' # None => reached' # None /\ newest' <= reached'
    BY <2>1, AgeAssumption DEF Reading
  <2>3. stamps' \in Seq(Nat) /\ DOMAIN stamps' = {} /\ stamped' \in Reading
    BY <2>1 DEF Reading
  <2>4. QED
    BY <2>1, <2>2, <2>3
<1>7. ASSUME NEW d \in CLOCK_STEPS \cup {1}, WallClock(d) PROVE SenderType' /\ StampedInv'
  <2>1. UNCHANGED <<sending, doing, gone, overtaken>> /\ now' \in Nat
    BY <1>7, SenderAssumption DEF WallClock, lineVars
  <2>2. QED
    BY <2>1 DEF Unheard
<1>8. ASSUME NEW heard_status \in BridgeReports, NEW demand \in [armed : BOOLEAN, waiting : BOOLEAN],
             MasterAnswers(heard_status, demand)
      PROVE  SenderType' /\ StampedInv'
  BY <1>8 DEF MasterAnswers, Unheard
<1>11. CASE ConnectionsCounted
  BY <1>11 DEF ConnectionsCounted, Unheard
<1>9. CASE Ends \/ ReplayOver \/ ListenEnds
  BY <1>9 DEF Ends, ReplayOver, ListenEnds, lineVars, Unheard
<1>10. CASE UNCHANGED senderVars
  BY <1>10 DEF senderVars, lineVars, Unheard
<1>12. QED
  BY <1>1, <1>2, <1>3, <1>4, <1>5, <1>6, <1>7, <1>8, <1>9, <1>10, <1>11
     DEF SenderNext

LEMMA OutcomeStep ==
  ASSUME SenderType, StampedInv, WiredInv, OutcomeInv, [SenderNext]_senderVars
  PROVE  OutcomeInv'
<1>1. CASE UNCHANGED <<outcome, reached>> /\ (gone => gone') /\ (overtaken => overtaken')
  BY <1>1 DEF OutcomeInv, Unheard
<1>2. ASSUME NEW moves, SendNext(moves), UNCHANGED <<gone, overtaken, reached>>,
             doing \in {"profile", "zeros"}
      PROVE  OutcomeInv'
  <2> DEFINE arrives == "relay" \in connected
  <2>1. outcome' = [stamp |-> NextStamp, moves |-> moves, again |-> FALSE,
                    lost |-> ~arrives, refused |-> arrives /\ ~Taken(NextStamp)]
    BY <1>2 DEF SendNext, SendStamp
  <2>2. ~arrives => Unheard /\ Unheard'
    BY <1>2 DEF WiredInv, Unheard
  <2>3. ASSUME ~Taken(NextStamp) PROVE reached # None /\ NextStamp <= reached
    <3>1. /\ NextStamp \in Nat /\ (stamped # None => NextStamp > stamped)
          /\ stamped \in Reading /\ newest \in Reading /\ reached \in Reading
      BY NextStampAhead DEF SenderType
    <3>2. newest # None /\ NextStamp <= newest
      BY <2>3, <3>1, AgeAssumption DEF Taken, Reading
    <3>3. ~(stamped # None /\ newest <= stamped)
      BY <3>1, <3>2, AgeAssumption DEF Reading
    <3>4. reached # None /\ newest <= reached
      BY <3>2, <3>3 DEF StampedInv
    <3>5. QED
      BY <3>1, <3>2, <3>4, AgeAssumption DEF Reading
  <2>4. /\ outcome'.lost = ~arrives /\ outcome'.again = FALSE /\ outcome'.stamp = NextStamp
        /\ outcome'.refused = (arrives /\ ~Taken(NextStamp))
    BY <2>1
  <2>5. QED
    BY <1>2, <2>2, <2>3, <2>4 DEF OutcomeInv
<1>3. CASE StepSendsTwist
  BY <1>2, <1>3 DEF StepSendsTwist, lineVars
<1>4. CASE SendZero
  BY <1>2, <1>4 DEF SendZero, lineVars
<1>5. CASE SendAgain
  <2> DEFINE arrives == "relay" \in connected
             stamp == stamps[Len(stamps) - 2]
  <2>1. /\ outcome' = [stamp |-> stamp, moves |-> FALSE, again |-> TRUE,
                       lost |-> ~arrives, refused |-> arrives /\ ~Taken(stamp)]
        /\ doing = "replay" /\ UNCHANGED <<gone, overtaken>>
    BY <1>5 DEF SendAgain, SendStamp, lineVars
  <2>2. ~arrives => Unheard'
    BY <2>1 DEF WiredInv, Unheard
  <2>3. arrives /\ ~overtaken => ~Taken(stamp)
    BY <2>1, ReplayIsOld
  <2>4. /\ outcome'.lost = ~arrives /\ outcome'.again = TRUE
        /\ outcome'.refused = (arrives /\ ~Taken(stamp))
    BY <2>1
  <2>5. QED
    BY <2>1, <2>2, <2>3, <2>4 DEF OutcomeInv
<1>6. CASE SenderRestarts
  BY <1>6 DEF SenderRestarts, OutcomeInv
<1>7. Graph => UNCHANGED <<outcome, reached>> /\ (gone => gone') /\ (overtaken => overtaken')
  BY DEF Graph
<1>8. Ends \/ StepOver \/ ReplayOver \/ ListenEnds \/ UNCHANGED senderVars
      => UNCHANGED <<outcome, reached, gone, overtaken>>
  BY DEF Ends, StepOver, ReplayOver, ListenEnds, senderVars, lineVars
<1>9. /\ \A d \in CLOCK_STEPS \cup {1} :
           WallClock(d) => UNCHANGED <<outcome, reached, gone, overtaken>>
      /\ ConnectionsCounted => UNCHANGED <<outcome, reached, gone, overtaken>>
      /\ \A heard_status \in BridgeReports, demand \in [armed : BOOLEAN, waiting : BOOLEAN] :
           MasterAnswers(heard_status, demand) => outcome' = None
  BY DEF WallClock, ConnectionsCounted, MasterAnswers, SenderType, lineVars
<1>10. outcome' = None => OutcomeInv'
  BY DEF OutcomeInv
<1>11. QED
  BY <1>1, <1>3, <1>4, <1>5, <1>6, <1>7, <1>8, <1>9, <1>10 DEF SenderNext

LEMMA EndStep ==
  ASSUME SenderType, EndInv, [SenderNext]_senderVars
  PROVE  EndInv'
<1>1. ERRAND["replay"].zeros = FALSE
  BY DEF ERRAND
<1>2. CASE UNCHANGED <<doing, errand, finished, outcome>>
  BY <1>2 DEF EndInv
<1>3. CASE StepSendsTwist
  BY <1>3 DEF StepSendsTwist, EndInv
<1>4. CASE SendAgain
  BY <1>4 DEF SendAgain, EndInv
<1>5. CASE SendZero
  BY <1>5 DEF SendZero, SendNext, SendStamp, EndInv
<1>6. CASE StepOver
  BY <1>1, <1>6 DEF StepOver, EndInv
<1>7. CASE ReplayOver
  BY <1>1, <1>7 DEF ReplayOver, EndInv
<1>8. CASE ListenEnds
  BY <1>8 DEF ListenEnds, EndInv
<1>9. CASE Ends
  BY <1>9 DEF Ends, EndInv
<1>10. CASE SenderRestarts
  BY <1>10 DEF SenderRestarts, EndInv
<1>11. CASE ConnectionsCounted
  BY <1>11 DEF ConnectionsCounted, EndInv
<1>12. /\ Graph \/ UNCHANGED senderVars => UNCHANGED <<doing, errand, finished, outcome>>
       /\ \A d \in CLOCK_STEPS \cup {1} :
            WallClock(d) => UNCHANGED <<doing, errand, finished, outcome>>
       /\ \A heard_status \in BridgeReports, demand \in [armed : BOOLEAN, waiting : BOOLEAN] :
            MasterAnswers(heard_status, demand) => UNCHANGED <<doing, errand, finished, outcome>>
  BY DEF Graph, WallClock, MasterAnswers, senderVars
<1>13. QED
  BY <1>2, <1>3, <1>4, <1>5, <1>6, <1>7, <1>8, <1>9, <1>10, <1>11, <1>12 DEF SenderNext

(* While the relay lives the bridge takes every command of a life but the  *)
(* replays, unless somebody registered between the two counts of the       *)
(* preflight, or an earlier life had stamped ahead: see SenderIsHeard.     *)
THEOREM SenderHeard == SenderSpec => []SenderIsHeard
<1> DEFINE Inv == SenderType /\ WiredInv /\ StampedInv /\ OutcomeInv /\ EndInv
<1>1. SenderInit => Inv
  <2> SUFFICES ASSUME SenderInit PROVE Inv
    OBVIOUS
  <2>1. SenderType /\ StampedInv
    BY DEF SenderInit, SenderType, StampedInv, Reading
  <2>2. WiredInv
    BY DEF SenderInit, WiredInv, Unheard, Subscribers
  <2>3. OutcomeInv /\ EndInv
    BY DEF SenderInit, OutcomeInv, EndInv
  <2>4. QED
    BY <2>1, <2>2, <2>3
<1>2. Inv /\ [SenderNext]_senderVars => Inv'
  BY WiredStep, StampStep, OutcomeStep, EndStep
<1>3. Inv => SenderIsHeard
  BY DEF OutcomeInv, EndInv, SenderIsHeard, Unheard
<1>4. QED
  BY <1>1, <1>2, <1>3, PTL DEF SenderSpec

-----------------------------------------------------------------------------
(* What is reported of a recorded run.  The robot walks one way along its  *)
(* command, but for the turn between two streams: what a window of samples *)
(* shows of it then bounds what it did.                                    *)

\* the smallest and the largest of a set of numbers
LEMMA Smallest ==
  ASSUME NEW S \in SUBSET Nat, S # {}
  PROVE  Min(S) \in S /\ \A x \in S : Min(S) <= x
<1>1. PICK m \in S : \A k \in S : ~(<<k, m>> \in OpToRel(<, Nat))
  BY NatLessThanWellFounded, WFMin
<1>2. \A k \in S : m <= k
  <2>1. SUFFICES ASSUME NEW k \in S PROVE m <= k
    OBVIOUS
  <2>2. k \in Nat /\ m \in Nat
    OBVIOUS
  <2>3. ~(k < m)
    <3>1. SUFFICES ASSUME k < m PROVE FALSE
      OBVIOUS
    <3>2. <<k, m>> \in OpToRel(<, Nat)
      BY <2>2, <3>1 DEF OpToRel
    <3>3. QED
      BY <1>1, <3>2
  <2>4. QED
    BY <2>2, <2>3
<1>3. QED
  BY <1>2 DEF Min

LEMMA Largest ==
  ASSUME NEW n \in Nat, NEW S \in SUBSET (0..n), S # {}
  PROVE  Max(S) \in S /\ \A x \in S : Max(S) >= x
<1> DEFINE T == {n - x : x \in S}
<1>1. T \in SUBSET Nat /\ T # {}
  <2>1. \A x \in S : n - x \in Nat
    OBVIOUS
  <2>2. PICK x \in S : TRUE
    OBVIOUS
  <2>3. n - x \in T
    OBVIOUS
  <2>4. QED
    BY <2>1, <2>3
<1>2. Min(T) \in T /\ \A x \in T : Min(T) <= x
  BY <1>1, Smallest
<1>3. PICK m \in S : Min(T) = n - m
  BY <1>2
<1>4. \A x \in S : m >= x
  <2>1. SUFFICES ASSUME NEW x \in S PROVE m >= x
    OBVIOUS
  <2>2. n - m <= n - x
    BY <1>2, <1>3
  <2>3. QED
    BY <2>2
<1>5. QED
  BY <1>4 DEF Max

\* the ticks of lo..hi before t
Ramp(lo, hi, t) == IF t <= lo THEN 0 ELSE IF t <= hi + 1 THEN t - lo ELSE hi + 1 - lo

\* counted, they are as many as the difference says
LEMMA RampCounts ==
  ASSUME NEW lo \in Nat, NEW hi \in Int, lo <= hi + 1, NEW t \in Int
  PROVE  Cardinality({u \in 0..(t - 1) : lo <= u /\ u <= hi}) = Ramp(lo, hi, t)
<1> DEFINE last == IF t - 1 <= hi THEN t - 1 ELSE hi
<1>1. {u \in 0..(t - 1) : lo <= u /\ u <= hi} = lo..last
  OBVIOUS
<1>0. lo \in Int /\ lo >= 0
  OBVIOUS
<1>3. last \in Int
  OBVIOUS
<1>4. Cardinality(lo..last) = IF lo > last THEN 0 ELSE last - lo + 1
  BY <1>3, FS_Interval
<1>5. (IF lo > last THEN 0 ELSE last - lo + 1) = Ramp(lo, hi, t)
  <2>1. CASE t <= lo
    BY <1>0, <2>1 DEF Ramp
  <2>2. CASE t > lo /\ t <= hi + 1
    BY <1>0, <2>2 DEF Ramp
  <2>3. CASE t > lo /\ t > hi + 1
    BY <1>0, <2>3 DEF Ramp
  <2>4. QED
    BY <2>1, <2>2, <2>3
<1> HIDE DEF last
<1>6. QED
  BY <1>1, <1>4, <1>5

-----------------------------------------------------------------------------
\* where the second stream begins
Second == STREAM + OVERTIME + PAUSE

\* how far along the command a robot would be that went with it
Way(c, t) ==
  CASE c.kind = "once" -> Ramp(0, c.coast, t)
    [] c.kind = "kill" -> Ramp(0, STREAM + c.coast, t)
    [] c.kind = "stream" -> Ramp(0, STREAM + OVERTIME + c.coast, t)
                            - Ramp(Second, Second + STREAM + OVERTIME + c.coast, t)

\* what a trial is
LEMMA Kinds ==
  ASSUME NEW c \in Trials
  PROVE  /\ c.kind \in {"once", "kill", "stream"} /\ c.coast \in Nat
         /\ c.sign \in {1, -1} /\ c.toward \in {1, 0, -1} /\ c.heading \in 0..3
         /\ c.lost_at \in Nat /\ c.lost \in Nat /\ c.missed \in {1, STREAM, END}
<1>1. /\ c.kind \in TRIALS /\ c.coast \in COASTS /\ c.lost_at \in 0..STOP_AT
      /\ c.lost \in GAPS /\ c.missed \in {1, STREAM, END}
      /\ c.sign \in {1, -1} /\ c.toward \in {1, 0, -1} /\ c.heading \in 0..3
  BY DEF Trials
<1>2. /\ TRIALS \subseteq {"once", "stream", "kill"}
      /\ COASTS \subseteq Nat /\ GAPS \subseteq Nat /\ STOP_AT \in Nat
  BY ReportAssumption
<1>3. c.kind \in {"once", "kill", "stream"}
  BY <1>1, <1>2
<1>4. c.coast \in Nat /\ c.lost \in Nat
  BY <1>1, <1>2
<1>5. c.lost_at \in Nat
  BY <1>1, <1>2
<1>6. QED
  BY <1>1, <1>3, <1>4, <1>5

\* the ticks of the two directions, counted, are the way
LEMMA WalkedIs ==
  ASSUME NEW c \in Trials, NEW t \in Int
  PROVE  Walked(c, c.sign, t) - Walked(c, -c.sign, t) = Way(c, t) /\ Way(c, t) \in Int
<1> DEFINE In(direction) ==
             {u \in 0..(t - 1) :
                \E s \in Streams(c) : s[3] = direction /\ s[1] <= u /\ u <= s[2] + c.coast}
<1>0. /\ c.sign \in Int /\ c.sign # -c.sign /\ c.coast \in Nat
      /\ STREAM \in Nat /\ OVERTIME \in Nat /\ PAUSE \in Nat /\ Cardinality({}) = 0
  <2>1. c.sign \in {1, -1} /\ c.coast \in Nat
    BY Kinds
  <2>2. c.sign \in Int /\ c.sign # -c.sign
    BY <2>1
  <2>3. STREAM \in Nat /\ OVERTIME \in Nat /\ PAUSE \in Nat
    BY ReportAssumption
  <2>4. QED
    BY <2>1, <2>2, <2>3, FS_EmptySet
<1>1. CASE c.kind = "once"
  <2>1. Streams(c) = {<<0, 0, c.sign>>}
    BY <1>1 DEF Streams
  <2>2. In(c.sign) = {u \in 0..(t - 1) : 0 <= u /\ u <= c.coast} /\ In(-c.sign) = {}
    BY <1>0, <2>1
  <2>3. Cardinality(In(c.sign)) = Ramp(0, c.coast, t)
    <3> DEFINE hi == c.coast
    <3>1. hi \in Int /\ 0 <= hi + 1 /\ 0 \in Nat
      BY <1>0
    <3> HIDE DEF hi
    <3>2. Cardinality({u \in 0..(t - 1) : 0 <= u /\ u <= hi}) = Ramp(0, hi, t)
      BY <3>1, RampCounts
    <3>3. QED
      BY <2>2, <3>2 DEF hi
  <2>4. QED
    BY <1>0, <1>1, <2>2, <2>3 DEF Walked, Way, Ramp
<1>2. CASE c.kind = "kill"
  <2>1. Streams(c) = {<<0, STREAM, c.sign>>}
    BY <1>2 DEF Streams
  <2>2. In(c.sign) = {u \in 0..(t - 1) : 0 <= u /\ u <= STREAM + c.coast} /\ In(-c.sign) = {}
    BY <1>0, <2>1
  <2>3. Cardinality(In(c.sign)) = Ramp(0, STREAM + c.coast, t)
    <3> DEFINE hi == STREAM + c.coast
    <3>1. hi \in Int /\ 0 <= hi + 1 /\ 0 \in Nat
      BY <1>0
    <3> HIDE DEF hi
    <3>2. Cardinality({u \in 0..(t - 1) : 0 <= u /\ u <= hi}) = Ramp(0, hi, t)
      BY <3>1, RampCounts
    <3>3. QED
      BY <2>2, <3>2 DEF hi
  <2>4. QED
    BY <1>0, <1>2, <2>2, <2>3 DEF Walked, Way, Ramp
<1>3. CASE c.kind = "stream"
  <2> DEFINE hi == STREAM + OVERTIME + c.coast
  <2>1. Streams(c) = {<<0, STREAM + OVERTIME, c.sign>>,
                      <<Second, Second + STREAM + OVERTIME, -c.sign>>}
    <3>1. Second + STREAM + OVERTIME = 2 * (STREAM + OVERTIME) + PAUSE
      BY <1>0 DEF Second
    <3>2. QED
      BY <1>3, <3>1 DEF Streams, Second
  <2>2. Second \in Nat /\ hi \in Nat
    BY <1>0 DEF Second
  <2>3. In(c.sign) = {u \in 0..(t - 1) : 0 <= u /\ u <= hi}
    BY <1>0, <2>1, <2>2
  <2>4. In(-c.sign) = {u \in 0..(t - 1) : Second <= u /\ u <= Second + hi}
    BY <1>0, <2>1, <2>2
  <2>5. Cardinality(In(c.sign)) = Ramp(0, hi, t)
    BY <2>2, <2>3, RampCounts
  <2>6. Cardinality(In(-c.sign)) = Ramp(Second, Second + hi, t)
    BY <2>2, <2>4, RampCounts
  <2>7. Way(c, t) = Ramp(0, hi, t) - Ramp(Second, Second + hi, t)
    <3>1. Second + STREAM + OVERTIME + c.coast = Second + hi
      BY <1>0, <2>2
    <3>2. QED
      BY <1>3, <3>1 DEF Way
  <2>8. Ramp(0, hi, t) \in Int /\ Ramp(Second, Second + hi, t) \in Int
    BY <2>2 DEF Ramp
  <2>9. QED
    BY <2>5, <2>6, <2>7, <2>8 DEF Walked
<1>4. QED
  BY <1>1, <1>2, <1>3, Kinds

\* the robot goes the way, or the other way, or not
Carried(c, x) == IF c.toward = 1 THEN x ELSE IF c.toward = -1 THEN -x ELSE 0

\* where the robot is, from the way
LEMMA AlongIs ==
  ASSUME NEW c \in Trials, NEW t \in Int
  PROVE  /\ Along(c, t) \in Int
         /\ Along(c, t) = IF c.sign = 1 THEN Carried(c, Way(c, t)) ELSE -Carried(c, Way(c, t))
<1> DEFINE with == Walked(c, 1, t)
           against == Walked(c, -1, t)
<1>1. c.sign \in {1, -1} /\ c.toward \in {1, 0, -1}
  BY Kinds
<1>2. with \in Nat /\ against \in Nat
  <2>1. ASSUME NEW d PROVE Walked(c, d, t) \in Nat
    <3> DEFINE S == {u \in 0..(t - 1) :
                 \E s \in Streams(c) : s[3] = d /\ s[1] <= u /\ u <= s[2] + c.coast}
    <3>1. IsFiniteSet(0..(t - 1)) /\ S \in SUBSET (0..(t - 1))
      <4>1. t - 1 \in Int
        OBVIOUS
      <4>2. QED
        BY <4>1, FS_Interval
    <3> HIDE DEF S
    <3>2. IsFiniteSet(S)
      BY <3>1, FS_Subset
    <3>3. Cardinality(S) \in Nat
      BY <3>2, FS_CardinalityType
    <3>4. QED
      BY <3>3 DEF Walked, S
  <2>2. QED
    BY <2>1
<1>3. with - against = IF c.sign = 1 THEN Way(c, t) ELSE -Way(c, t)
  <2>1. CASE c.sign = 1
    BY <2>1, WalkedIs
  <2>2. CASE c.sign = -1
    <3>0. -c.sign = 1
      <4>1. c.sign \in Int /\ c.sign + 1 = 0
        BY <2>2
      <4>2. QED
        BY <4>1
    <3>1. against - with = Way(c, t) /\ Way(c, t) \in Int
      BY <2>2, <3>0, WalkedIs
    <3>2. QED
      BY <1>2, <2>2, <3>1
  <2>3. QED
    BY <1>1, <2>1, <2>2
<1>4. Along(c, t) = c.toward * (with - against)
  BY DEF Along
<1> HIDE DEF with, against
<1>5. Way(c, t) \in Int
  BY WalkedIs
<1>6. QED
  BY <1>1, <1>2, <1>3, <1>4, <1>5 DEF Carried

-----------------------------------------------------------------------------
\* what the constants are, and how they lie
LEMMA Sizes ==
  /\ ONSET \in Nat /\ TAIL \in Nat /\ STOP_AT \in Nat /\ SEG_GAP \in Nat /\ EXTRA \in Nat
  /\ STREAM \in Nat /\ PAUSE \in Nat /\ OVERTIME \in Nat /\ END \in Nat
  /\ STOP_LIMIT \in Nat /\ KILL_LIMIT \in Nat /\ KILL_TIME \in Nat
  /\ SEG_GAP < PAUSE /\ EXTRA < PAUSE /\ SEG_GAP >= 2 /\ EXTRA >= 1
  /\ STREAM >= 2 /\ OVERTIME >= 1 /\ STREAM + KILL_TIME < END
  /\ Second \in Nat /\ Second = STREAM + OVERTIME + PAUSE
  /\ Second + STREAM + OVERTIME + EXTRA <= END
<1>1. /\ ONSET \in Nat /\ TAIL \in Nat /\ STOP_AT \in Nat /\ SEG_GAP \in Nat /\ EXTRA \in Nat
      /\ STREAM \in Nat /\ PAUSE \in Nat /\ OVERTIME \in Nat /\ END \in Nat
      /\ STOP_LIMIT \in Nat /\ KILL_LIMIT \in Nat /\ KILL_TIME \in Nat
  BY ReportAssumption
<1>2. /\ SEG_GAP < PAUSE /\ EXTRA < PAUSE /\ SEG_GAP >= 2 /\ EXTRA >= 1
      /\ STREAM >= 2 /\ OVERTIME >= 1 /\ STREAM + KILL_TIME < END
      /\ 2 * (STREAM + OVERTIME) + PAUSE + EXTRA <= END
  BY ReportAssumption
<1>3. QED
  BY <1>1, <1>2 DEF Second

\* the only largest, and the only smallest, element of a set
LEMMA MaxIs ==
  ASSUME NEW S \in SUBSET Int, NEW m \in S, \A x \in S : m >= x
  PROVE  Max(S) = m
<1>1. Max(S) \in S /\ \A x \in S : Max(S) >= x
  BY DEF Max
<1>2. m \in Int /\ Max(S) \in Int /\ m >= Max(S) /\ Max(S) >= m
  BY <1>1
<1>3. QED
  BY <1>2

LEMMA MinIs ==
  ASSUME NEW S \in SUBSET Int, NEW m \in S, \A x \in S : m <= x
  PROVE  Min(S) = m
<1>1. Min(S) \in S /\ \A x \in S : Min(S) <= x
  BY DEF Min
<1>2. m \in Int /\ Min(S) \in Int /\ m <= Min(S) /\ Min(S) <= m
  BY <1>1
<1>3. QED
  BY <1>2

\* a ramp never falls
LEMMA RampGrows ==
  ASSUME NEW lo \in Nat, NEW hi \in Int, lo <= hi + 1, NEW t \in Int, NEW u \in Int, t <= u
  PROVE  /\ Ramp(lo, hi, t) \in Nat /\ Ramp(lo, hi, u) \in Nat
         /\ Ramp(lo, hi, t) <= Ramp(lo, hi, u)
BY DEF Ramp

\* a robot goes one way only, but for the turn of a streamed run
LEMMA OneWay ==
  ASSUME NEW c \in Trials, NEW t \in Int, NEW u \in Int, t <= u
  PROVE  /\ c.kind # "stream" \/ u <= Second => Way(c, t) <= Way(c, u)
         /\ c.kind = "stream" /\ Second <= t => Way(c, u) <= Way(c, t)
<1>1. CASE c.kind = "once"
  <2> DEFINE hi == c.coast
  <2>1. hi \in Nat
    BY Kinds
  <2>2. \A x \in Int : Way(c, x) = Ramp(0, hi, x)
    BY <1>1 DEF Way
  <2> HIDE DEF hi
  <2>3. Ramp(0, hi, t) <= Ramp(0, hi, u)
    BY <2>1, RampGrows
  <2>4. QED
    BY <1>1, <2>2, <2>3
<1>2. CASE c.kind = "kill"
  <2> DEFINE hi == STREAM + c.coast
  <2>1. hi \in Nat
    BY Kinds, Sizes
  <2>2. \A x \in Int : Way(c, x) = Ramp(0, hi, x)
    BY <1>2 DEF Way
  <2> HIDE DEF hi
  <2>3. Ramp(0, hi, t) <= Ramp(0, hi, u)
    BY <2>1, RampGrows
  <2>4. QED
    BY <1>2, <2>2, <2>3
<1>3. CASE c.kind = "stream"
  <2> DEFINE hi == STREAM + OVERTIME + c.coast
  <2>1. hi \in Nat /\ Second \in Nat /\ Second + STREAM + OVERTIME + c.coast = Second + hi
    BY Kinds, Sizes
  <2>2. \A x \in Int : Way(c, x) = Ramp(0, hi, x) - Ramp(Second, Second + hi, x)
    BY <1>3, <2>1 DEF Way
  <2> HIDE DEF hi
  <2>3. ASSUME u <= Second
        PROVE  Way(c, t) <= Way(c, u)
    BY <2>1, <2>2, <2>3 DEF Ramp
  <2>4. ASSUME Second <= t
        PROVE  Way(c, u) <= Way(c, t)
    BY <2>1, <2>2, <2>4 DEF Ramp
  <2>5. QED
    BY <1>3, <2>3, <2>4
<1>4. QED
  BY <1>1, <1>2, <1>3, Kinds

\* _body_disp takes the heading out again
LEMMA BodyDispIs ==
  ASSUME NEW c \in Trials, NEW t \in Int, NEW u \in Int
  PROVE  BodyDisp(SportRow(c, t), SportRow(c, u)) = <<Along(c, u) - Along(c, t), 0>>
<1>1. Along(c, t) \in Int /\ Along(c, u) \in Int
  BY AlongIs
<1> DEFINE a == Along(c, t)
           b == Along(c, u)
           C == Cos(c.heading)
           S == Sin(c.heading)
           dx == C * b - C * a
           dy == S * b - S * a
<1>2. BodyDisp(SportRow(c, t), SportRow(c, u)) = <<C * dx + S * dy, C * dy - S * dx>>
  BY DEF BodyDisp, SportRow
<1>3. <<C, S>> \in {<<1, 0>>, <<0, 1>>, <<-1, 0>>, <<0, -1>>}
  <2>1. c.heading \in {0, 1, 2, 3}
    BY Kinds
  <2>2. QED
    BY <2>1 DEF Cos, Sin
<1> HIDE DEF a, b, C, S
<1>4. C * dx + S * dy = b - a /\ C * dy - S * dx = 0
  <2>0. a \in Int /\ b \in Int
    BY <1>1 DEF a, b
  <2>1. CASE C = 1 /\ S = 0
    BY <2>0, <2>1
  <2>2. CASE C = 0 /\ S = 1
    BY <2>0, <2>2
  <2>3. CASE C = -1 /\ S = 0
    BY <2>0, <2>3
  <2>4. CASE C = 0 /\ S = -1
    BY <2>0, <2>4
  <2>5. QED
    BY <1>3, <2>1, <2>2, <2>3, <2>4
<1>5. QED
  BY <1>2, <1>4 DEF a, b

\* how far it got is what it was carried, forward or back
LEMMA GainedIs ==
  ASSUME NEW c \in Trials, NEW t \in Int, NEW u \in Int
  PROVE  /\ Gained(c, t, u) = Carried(c, Way(c, u) - Way(c, t))
         /\ Gained(c, t, u) \in Int /\ Way(c, t) \in Int /\ Way(c, u) \in Int
<1>1. /\ Along(c, t) = IF c.sign = 1 THEN Carried(c, Way(c, t)) ELSE -Carried(c, Way(c, t))
      /\ Along(c, u) = IF c.sign = 1 THEN Carried(c, Way(c, u)) ELSE -Carried(c, Way(c, u))
  BY AlongIs
<1>2. Way(c, t) \in Int /\ Way(c, u) \in Int
  BY WalkedIs
<1>3. /\ Carried(c, Way(c, t)) \in Int /\ Carried(c, Way(c, u)) \in Int
      /\ Carried(c, Way(c, u) - Way(c, t)) = Carried(c, Way(c, u)) - Carried(c, Way(c, t))
  BY <1>2 DEF Carried
<1>4. CASE c.sign = 1
  BY <1>1, <1>2, <1>3, <1>4 DEF Gained
<1>5. CASE c.sign = -1
  BY <1>1, <1>2, <1>3, <1>5 DEF Gained
<1>6. QED
  BY <1>4, <1>5, Kinds

\* a distance, whichever way
Distance(x) == IF x < 0 THEN -x ELSE x

\* the distance of two rows is how far the robot got between them
LEMMA NormIs ==
  ASSUME NEW c \in Trials, NEW t \in Int, NEW u \in Int
  PROVE  Norm(BodyDisp(SportRow(c, t), SportRow(c, u))) = Distance(Gained(c, t, u))
<1> DEFINE d == Along(c, u) - Along(c, t)
<1>1. d \in Int
  BY AlongIs
<1>2. Norm(BodyDisp(SportRow(c, t), SportRow(c, u))) = Max({d, -d, 0, -0})
  <2>1. BodyDisp(SportRow(c, t), SportRow(c, u)) = <<d, 0>>
    BY BodyDispIs
  <2>2. Norm(<<d, 0>>) = Max({d, -d, 0, -0})
    BY DEF Norm
  <2>3. QED
    BY <2>1, <2>2
<1>3. Distance(Gained(c, t, u)) = Distance(d)
  <2>1. Gained(c, t, u) = c.sign * d
    BY DEF Gained
  <2> HIDE DEF d
  <2>2. CASE c.sign = 1
    BY <1>1, <2>1, <2>2 DEF Distance
  <2>3. CASE c.sign = -1
    BY <1>1, <2>1, <2>3 DEF Distance
  <2>4. QED
    BY <2>2, <2>3, Kinds
<1> HIDE DEF d
<1>4. Max({d, -d, 0, -0}) = Distance(d)
  <2>1. {d, -d, 0, -0} \in SUBSET Int /\ Distance(d) \in {d, -d, 0, -0}
    BY <1>1 DEF Distance
  <2>2. \A x \in {d, -d, 0, -0} : Distance(d) >= x
    BY <1>1 DEF Distance
  <2>3. QED
    BY <2>1, <2>2, MaxIs
<1>5. QED
  BY <1>2, <1>3, <1>4

LEMMA WentIs ==
  ASSUME NEW c \in Trials, NEW t \in Int
  PROVE  Went(c, t) = Distance(Gained(c, t, END))
<1> DEFINE g == Gained(c, t, END)
<1>1. g \in Int
  BY GainedIs, Sizes
<1>2. Went(c, t) = Max({g, -g})
  BY DEF Went
<1> HIDE DEF g
<1>3. /\ {g, -g} \in SUBSET Int /\ Distance(g) \in {g, -g}
      /\ \A x \in {g, -g} : Distance(g) >= x
  BY <1>1 DEF Distance
<1>4. Max({g, -g}) = Distance(g)
  BY <1>3, MaxIs
<1>5. QED
  BY <1>2, <1>4 DEF g

\* the first and the last of some samples
LEMMA Bounds ==
  ASSUME NEW S \in SUBSET (0..END), S # {}
  PROVE  /\ Min(S) \in S /\ Max(S) \in S /\ Min(S) \in 0..END /\ Max(S) \in 0..END
         /\ \A x \in S : x \in Int /\ Min(S) <= x /\ x <= Max(S)
<1>1. S \in SUBSET Nat /\ END \in Nat
  BY Sizes
<1>2. Min(S) \in S /\ \A x \in S : Min(S) <= x
  BY <1>1, Smallest
<1>3. Max(S) \in S /\ \A x \in S : Max(S) >= x
  BY <1>1, Largest
<1>4. Min(S) \in 0..END /\ Max(S) \in 0..END
  BY <1>2, <1>3
<1>5. QED
  BY <1>1, <1>2, <1>3, <1>4

\* the samples of a recording; none is lost if none is to be
LEMMA HeardIs == ASSUME NEW c
                 PROVE  /\ Heard(c) \in SUBSET (0..END)
                        /\ c \in Trials /\ c.lost = 0 => Heard(c) = 0..END
<1>1. Heard(c) \in SUBSET (0..END)
  BY DEF Heard
<1>2. ASSUME c \in Trials, c.lost = 0
      PROVE  Heard(c) = 0..END
  <2>1. c.lost_at \in Nat
    BY <1>2, Kinds
  <2>2. c.lost_at + c.lost = c.lost_at
    BY <1>2, <2>1
  <2>3. \A t \in 0..END : t < c.lost_at \/ c.lost_at <= t
    BY <2>1
  <2>4. QED
    BY <2>2, <2>3 DEF Heard
<1>3. QED
  BY <1>1, <1>2

\* two samples are enough
LEMMA Pair ==
  ASSUME NEW S, IsFiniteSet(S), NEW a \in S, NEW b \in S, a # b
  PROVE  Cardinality(S) >= 2
<1>1. IsFiniteSet({a}) /\ Cardinality({a}) = 1
  BY FS_Singleton
<1>2. Cardinality({a} \cup {b}) = 2
  BY <1>1, FS_AddElement
<1>3. {a} \cup {b} \in SUBSET S
  OBVIOUS
<1>4. Cardinality({a} \cup {b}) <= Cardinality(S)
  BY <1>3, FS_Subset
<1>5. Cardinality(S) \in Nat
  BY FS_CardinalityType
<1>6. QED
  BY <1>2, <1>4, <1>5

\* a longer time takes the robot further the same way
LEMMA Within ==
  ASSUME NEW c \in Trials, NEW t \in Int, NEW u \in Int, NEW v \in Int, NEW w \in Int,
         t <= u, u <= v, v <= w, c.kind # "stream" \/ w <= Second \/ Second <= t
  PROVE  /\ Distance(Gained(c, u, v)) <= Distance(Gained(c, t, w))
         /\ Gained(c, u, v) > 0 => Gained(c, t, w) >= Gained(c, u, v)
<1> DEFINE W(x) == Way(c, x)
<1>1. W(t) \in Int /\ W(u) \in Int /\ W(v) \in Int /\ W(w) \in Int
  BY GainedIs
<1>2. /\ Gained(c, u, v) = Carried(c, W(v) - W(u))
      /\ Gained(c, t, w) = Carried(c, W(w) - W(t))
  BY GainedIs
<1>3. \/ W(t) <= W(u) /\ W(u) <= W(v) /\ W(v) <= W(w)
      \/ W(t) >= W(u) /\ W(u) >= W(v) /\ W(v) >= W(w)
  <2>1. CASE c.kind # "stream" \/ w <= Second
    <3>1. Second \in Nat /\ (c.kind # "stream" \/ (u <= Second /\ v <= Second /\ w <= Second))
      BY <2>1, Sizes
    <3>2. QED
      BY <3>1, OneWay
  <2>2. CASE c.kind = "stream" /\ Second <= t
    <3>1. Second \in Nat /\ Second <= u /\ Second <= v
      BY <2>2, Sizes
    <3>2. W(u) <= W(t) /\ W(v) <= W(u) /\ W(w) <= W(v)
      BY <2>2, <3>1, OneWay
    <3>3. QED
      BY <1>1, <3>2
  <2>3. QED
    BY <2>1, <2>2
<1> HIDE DEF W
<1>4. QED
  BY <1>1, <1>2, <1>3 DEF Carried, Distance

-----------------------------------------------------------------------------
\* the verdict on a single Move
LEMMA PersistsIsTrue ==
  ASSUME NEW c \in Trials, c.kind = "once",
         NEW pm3, pm3 = Persists(c, 0, Min(Stops(c))),
         NEW g, g = Gained(c, STOP_AT - TAIL, STOP_AT)
  PROVE  /\ pm3 = "PERSISTS" => g > ONSET
         /\ {0, STOP_AT - TAIL, STOP_AT} \subseteq Heard(c) =>
              /\ g > ONSET => pm3 = "PERSISTS"
              /\ pm3 = "NO CONCLUSION" <=> \A t \in 0..STOP_AT : Gained(c, 0, t) <= ONSET
<1> DEFINE rows == Heard(c) \cap 0..STOP_AT
           first == Min(rows)
           seg(t) == MoveSign(c) * BodyDisp(SportRow(c, first), SportRow(c, t))[1]
           last == {t \in rows : t >= STOP_AT - TAIL}
<1>0. /\ STOP_AT \in Nat /\ TAIL \in Nat /\ ONSET \in Nat /\ c.kind # "stream"
      /\ g \in Int /\ g = Gained(c, STOP_AT - TAIL, STOP_AT)
  BY Sizes, GainedIs
<1>1. Min(Stops(c)) = STOP_AT
  <2>1. Stops(c) = {STOP_AT}
    BY DEF Stops
  <2>2. QED
    BY <1>0, <2>1, MinIs
<1>2. pm3 = IF rows = {} THEN None
            ELSE IF \A t \in rows : seg(t) <= ONSET THEN "NO CONCLUSION"
            ELSE IF Cardinality(last) >= 2 /\ seg(Max(last)) - seg(Min(last)) > ONSET
                 THEN "PERSISTS"
            ELSE "does NOT persist"
  BY <1>1 DEF Persists
<1>3. ASSUME rows # {}, NEW t \in Int
      PROVE  seg(t) = Gained(c, first, t)
  <2>1. first \in Int
    BY <1>3, HeardIs, Bounds
  <2>2. BodyDisp(SportRow(c, first), SportRow(c, t)) = <<Along(c, t) - Along(c, first), 0>>
    BY <2>1, BodyDispIs
  <2>3. QED
    BY <2>2 DEF Gained, MoveSign
<1>4. rows \in SUBSET (0..END) /\ last \in SUBSET (0..END) /\ last \subseteq rows
  BY HeardIs
<1> HIDE DEF seg
<1>5. ASSUME pm3 = "PERSISTS"
      PROVE  g > ONSET
  <2>1. rows # {} /\ Cardinality(last) >= 2 /\ seg(Max(last)) - seg(Min(last)) > ONSET
    BY <1>2, <1>5, ReportAssumption
  <2>2. last # {}
    <3>1. SUFFICES ASSUME last = {} PROVE FALSE
      OBVIOUS
    <3>2. Cardinality(last) = 0
      BY <3>1, FS_EmptySet
    <3>3. QED
      BY <2>1, <3>2
  <2> DEFINE a == Min(last)
             b == Max(last)
  <2>3. /\ a \in Int /\ b \in Int /\ a <= b /\ STOP_AT - TAIL <= a /\ b <= STOP_AT
        /\ first \in Int
    <3>1. a \in last /\ b \in last /\ a \in Int /\ b \in Int /\ a <= b
      BY <1>4, <2>2, Bounds
    <3>2. first \in Int
      BY <1>4, <2>1, Bounds
    <3>3. QED
      BY <3>1, <3>2
  <2> HIDE DEF a, b
  <2>4. Gained(c, first, b) - Gained(c, first, a) > ONSET
    BY <1>3, <2>1, <2>3 DEF a, b
  <2>5. Gained(c, first, b) - Gained(c, first, a) = Gained(c, a, b)
    <3> HIDE DEF first
    <3>1. /\ Gained(c, first, b) = Carried(c, Way(c, b) - Way(c, first))
          /\ Gained(c, first, a) = Carried(c, Way(c, a) - Way(c, first))
          /\ Gained(c, a, b) = Carried(c, Way(c, b) - Way(c, a))
          /\ Way(c, a) \in Int /\ Way(c, b) \in Int /\ Way(c, first) \in Int
      BY <2>3, GainedIs
    <3>2. QED
      BY <3>1 DEF Carried
  <2>6. Gained(c, a, b) > 0 /\ Gained(c, a, b) > ONSET /\ Gained(c, a, b) \in Int
    <3>1. Gained(c, a, b) \in Int
      BY <2>3, GainedIs
    <3>2. QED
      BY <1>0, <2>4, <2>5, <3>1
  <2>7. Gained(c, STOP_AT - TAIL, STOP_AT) >= Gained(c, a, b)
    BY <1>0, <2>3, <2>6, Within
  <2>8. Gained(c, STOP_AT - TAIL, STOP_AT) \in Int
    BY <1>0, GainedIs
  <2>9. QED
    BY <1>0, <2>6, <2>7, <2>8
<1>6. ASSUME {0, STOP_AT - TAIL, STOP_AT} \subseteq Heard(c)
      PROVE  /\ g > ONSET => pm3 = "PERSISTS"
             /\ pm3 = "NO CONCLUSION" <=> \A t \in 0..STOP_AT : Gained(c, 0, t) <= ONSET
  <2>1. 0 \in rows /\ STOP_AT \in rows /\ STOP_AT - TAIL \in rows
    <3>1. STOP_AT - TAIL >= 0
      BY <1>6, HeardIs
    <3>2. QED
      BY <1>0, <1>6, <3>1
  <2>2. first = 0
    <3>1. rows \in SUBSET Int /\ \A x \in rows : 0 <= x
      BY <1>4
    <3> HIDE DEF rows
    <3>2. QED
      BY <2>1, <3>1, MinIs
  <2>3. \A t \in rows : seg(t) = Gained(c, 0, t) /\ Gained(c, 0, t) \in Int
    BY <1>3, <2>1, <2>2, GainedIs
  <2>4. ASSUME g > ONSET
        PROVE  pm3 = "PERSISTS"
    <3>1. Gained(c, STOP_AT - TAIL, STOP_AT) > 0
      <4>1. Gained(c, STOP_AT - TAIL, STOP_AT) \in Int
        BY <1>0, GainedIs
      <4>2. QED
        BY <1>0, <2>4, <4>1
    <3>2. Gained(c, 0, STOP_AT) >= Gained(c, STOP_AT - TAIL, STOP_AT)
      <4>1. 0 <= STOP_AT - TAIL
        BY <2>1
      <4>2. QED
        BY <1>0, <3>1, <4>1, Within
    <3>3. ~(\A t \in rows : seg(t) <= ONSET)
      <4>1. Gained(c, STOP_AT - TAIL, STOP_AT) \in Int /\ Gained(c, 0, STOP_AT) \in Int
        BY <1>0, GainedIs
      <4>2. Gained(c, 0, STOP_AT) > ONSET
        BY <1>0, <2>4, <3>2, <4>1
      <4>3. seg(STOP_AT) > ONSET /\ seg(STOP_AT) \in Int
        BY <2>1, <2>3, <4>1, <4>2
      <4>4. QED
        BY <1>0, <2>1, <4>3
    <3>4. Max(last) = STOP_AT /\ Min(last) = STOP_AT - TAIL
      <4>1. STOP_AT \in last /\ STOP_AT - TAIL \in last
        BY <1>0, <2>1
      <4>2. last \in SUBSET Int /\ \A x \in last : x <= STOP_AT /\ STOP_AT - TAIL <= x
        BY <1>0
      <4> HIDE DEF last
      <4>3. QED
        BY <4>1, <4>2, MaxIs, MinIs
    <3>5. Cardinality(last) >= 2
      <4>1. STOP_AT \in last /\ STOP_AT - TAIL \in last
        BY <1>0, <2>1
      <4>2. STOP_AT # STOP_AT - TAIL
        <5>1. SUFFICES ASSUME STOP_AT = STOP_AT - TAIL PROVE FALSE
          OBVIOUS
        <5>2. Gained(c, STOP_AT, STOP_AT) = 0
          <6>1. Way(c, STOP_AT) \in Int
            BY <1>0, GainedIs
          <6>2. Gained(c, STOP_AT, STOP_AT) = Carried(c, Way(c, STOP_AT) - Way(c, STOP_AT))
            BY <1>0, GainedIs
          <6>3. QED
            BY <6>1, <6>2 DEF Carried
        <5>3. QED
          BY <3>1, <5>1, <5>2
      <4>3. IsFiniteSet(last)
        <5>1. IsFiniteSet(0..END)
          BY Sizes, FS_Interval
        <5>2. QED
          BY <1>4, <5>1, FS_Subset
      <4>4. QED
        BY <4>1, <4>2, <4>3, Pair
    <3>6. seg(Max(last)) - seg(Min(last)) > ONSET
      <4> DEFINE z == STOP_AT - TAIL
      <4>1. seg(Max(last)) = Gained(c, 0, STOP_AT) /\ seg(Min(last)) = Gained(c, 0, z)
        BY <2>1, <2>3, <3>4
      <4>2. z \in Int /\ Gained(c, z, STOP_AT) > ONSET
        BY <1>0, <2>4
      <4> HIDE DEF z
      <4>3. /\ Gained(c, 0, STOP_AT) = Carried(c, Way(c, STOP_AT) - Way(c, 0))
            /\ Gained(c, 0, z) = Carried(c, Way(c, z) - Way(c, 0))
            /\ Gained(c, z, STOP_AT) = Carried(c, Way(c, STOP_AT) - Way(c, z))
            /\ Way(c, 0) \in Int /\ Way(c, z) \in Int /\ Way(c, STOP_AT) \in Int
        BY <1>0, <4>2, GainedIs
      <4>4. QED
        BY <1>0, <4>1, <4>2, <4>3 DEF Carried
    <3>7. QED
      BY <1>2, <2>1, <3>3, <3>5, <3>6
  <2>5. (\A t \in rows : seg(t) <= ONSET) <=> \A t \in 0..STOP_AT : Gained(c, 0, t) <= ONSET
    <3>1. ASSUME \A t \in rows : seg(t) <= ONSET, NEW t \in 0..STOP_AT
          PROVE  Gained(c, 0, t) <= ONSET
      <4>1. Gained(c, 0, STOP_AT) <= ONSET
        BY <2>1, <2>3, <3>1
      <4>2. t \in Int /\ 0 <= t /\ t <= STOP_AT
        BY <1>0
      <4>3. Gained(c, 0, t) > 0 => Gained(c, 0, STOP_AT) >= Gained(c, 0, t)
        BY <1>0, <4>2, Within
      <4>4. Gained(c, 0, t) \in Int /\ Gained(c, 0, STOP_AT) \in Int
        BY <1>0, <4>2, GainedIs
      <4>5. QED
        BY <1>0, <4>1, <4>3, <4>4
    <3>2. ASSUME \A t \in 0..STOP_AT : Gained(c, 0, t) <= ONSET, NEW t \in rows
          PROVE  seg(t) <= ONSET
      BY <2>3, <3>2
    <3>3. QED
      BY <3>1, <3>2
  <2>6. pm3 = "NO CONCLUSION" <=> \A t \in rows : seg(t) <= ONSET
    BY <1>2, <2>1
  <2>7. QED
    BY <2>4, <2>5, <2>6
<1>7. QED
  BY <1>5, <1>6

-----------------------------------------------------------------------------
\* Moves no further than SEG_GAP apart, each stream with a parameter of its own
LEMMA SegmentPerStream ==
  ASSUME NEW Q, NEW lo \in [Q -> Nat], NEW hi \in [Q -> Nat], NEW moves \in SUBSET (Nat \X Q),
         \A q \in Q : <<lo[q], q>> \in moves /\ <<hi[q], q>> \in moves,
         \A e \in moves : lo[e[2]] <= e[1] /\ e[1] <= hi[e[2]],
         \A e \in moves : \/ e[1] = lo[e[2]]
                          \/ \E m \in moves : m[1] < e[1] /\ e[1] - m[1] <= SEG_GAP /\ m[2] = e[2]
  PROVE  Segments(moves) = {<<lo[q], hi[q], q>> : q \in Q}
<1> DEFINE joins(m, e) == m[1] < e[1] /\ e[1] - m[1] <= SEG_GAP /\ m[2] = e[2]
           firsts == {e \in moves : ~\E m \in moves : joins(m, e)}
           of(f) == {e \in moves : /\ e[1] >= f[1] /\ e[2] = f[2]
                                   /\ ~\E g \in firsts : g[2] = f[2] /\ f[1] < g[1] /\ g[1] <= e[1]}
<1>0. \A e \in moves : e = <<e[1], e[2]>> /\ e[1] \in Nat /\ e[2] \in Q
  OBVIOUS
<1>1. firsts = {<<lo[q], q>> : q \in Q}
  <2>1. ASSUME NEW e \in firsts
        PROVE  e \in {<<lo[q], q>> : q \in Q}
    <3>1. e \in moves /\ e[1] = lo[e[2]]
      BY <2>1
    <3>2. QED
      BY <1>0, <3>1
  <2>2. ASSUME NEW q \in Q
        PROVE  <<lo[q], q>> \in firsts
    <3>1. <<lo[q], q>> \in moves /\ lo[q] \in Nat
      OBVIOUS
    <3>2. ASSUME NEW m \in moves, joins(m, <<lo[q], q>>)
          PROVE  FALSE
      <4>1. m[2] = q /\ m[1] < lo[q] /\ m[1] \in Nat
        BY <1>0, <3>2
      <4>2. lo[q] <= m[1]
        BY <4>1
      <4>3. QED
        BY <3>1, <4>1, <4>2
    <3>3. QED
      BY <3>1, <3>2
  <2>3. QED
    BY <2>1, <2>2
<1>2. Segments(moves) = {<<f[1], Max({e[1] : e \in of(f)}), f[2]>> : f \in firsts}
  BY DEF Segments
<1>3. ASSUME NEW q \in Q
      PROVE  Max({e[1] : e \in of(<<lo[q], q>>)}) = hi[q]
  <2> DEFINE f == <<lo[q], q>>
  <2>1. ~\E g \in firsts : g[2] = f[2] /\ f[1] < g[1]
    BY <1>1
  <2>2. of(f) = {e \in moves : e[1] >= lo[q] /\ e[2] = q}
    BY <2>1
  <2> DEFINE lasts == {e[1] : e \in of(f)}
  <2>3. hi[q] \in lasts
    <3>1. <<hi[q], q>> \in moves /\ lo[q] <= hi[q]
      OBVIOUS
    <3>2. <<hi[q], q>> \in of(f) /\ <<hi[q], q>>[1] = hi[q]
      BY <2>2, <3>1
    <3>3. QED
      BY <3>2
  <2>4. lasts \in SUBSET Int /\ \A x \in lasts : hi[q] >= x
    BY <1>0, <2>2
  <2> HIDE DEF lasts, of
  <2>5. Max(lasts) = hi[q]
    BY <2>3, <2>4, MaxIs
  <2>6. QED
    BY <2>5 DEF lasts
<1> DEFINE Last(f) == Max({e[1] : e \in of(f)})
<1>4. /\ Segments(moves) = {<<f[1], Last(f), f[2]>> : f \in firsts}
      /\ \A q \in Q : Last(<<lo[q], q>>) = hi[q]
  BY <1>2, <1>3
<1> HIDE DEF firsts, Last
<1>5. ASSUME NEW f \in firsts
      PROVE  <<f[1], Last(f), f[2]>> \in {<<lo[q], hi[q], q>> : q \in Q}
  <2>1. PICK q \in Q : f = <<lo[q], q>>
    BY <1>1
  <2>2. f[1] = lo[q] /\ f[2] = q /\ Last(f) = hi[q]
    BY <1>4, <2>1
  <2>3. QED
    BY <2>2
<1>6. ASSUME NEW q \in Q
      PROVE  \E f \in firsts : <<lo[q], hi[q], q>> = <<f[1], Last(f), f[2]>>
  <2>1. <<lo[q], q>> \in firsts
    BY <1>1
  <2>2. QED
    BY <1>4, <2>1
<1>7. QED
  BY <1>4, <1>5, <1>6

\* the last Move that is heard before the bridge is killed
KillEnd(c) == IF c.missed = STREAM THEN STREAM - 1 ELSE STREAM

\* a bridge that is killed leaves one segment, and no Move after the last Twist
LEMMA KillSegment ==
  ASSUME NEW c \in Trials, c.kind = "kill"
  PROVE  /\ Segments(MovesHeard(c)) = {<<0, KillEnd(c), c.sign>>}
         /\ LastMove(c) = KillEnd(c) /\ LastTwist(c) = STREAM
         /\ {m \in MovesHeard(c) : m[1] > LastTwist(c)} = {}
<1> DEFINE moves == MovesHeard(c)
<1>0. /\ STREAM \in Nat /\ END \in Nat /\ STREAM >= 2 /\ STREAM < END /\ SEG_GAP \in Nat
      /\ SEG_GAP >= 2 /\ c.missed \in {1, STREAM, END}
  BY Sizes, Kinds
<1>1. Streams(c) = {<<0, STREAM, c.sign>>}
  BY DEF Streams
<1>2. moves = {<<t, c.sign>> : t \in (0..STREAM) \ {c.missed}}
  <2>1. moves = {<<t, c.sign>> : t \in (0..STREAM) \ {0 + c.missed}}
    BY <1>1 DEF MovesHeard
  <2>2. 0 + c.missed = c.missed
    BY <1>0
  <2>3. QED
    BY <2>1, <2>2
<1>3. /\ KillEnd(c) \in (0..STREAM) \ {c.missed} /\ KillEnd(c) \in Nat /\ KillEnd(c) <= STREAM
      /\ \A t \in (0..STREAM) \ {c.missed} : t <= KillEnd(c)
      /\ 0 \in (0..STREAM) \ {c.missed}
  BY <1>0 DEF KillEnd
<1> DEFINE Q == {c.sign}
           lo == [q \in Q |-> 0]
           hi == [q \in Q |-> KillEnd(c)]
<1>4. Segments(moves) = {<<lo[q], hi[q], q>> : q \in Q}
  <2>1. lo \in [Q -> Nat] /\ hi \in [Q -> Nat] /\ moves \in SUBSET (Nat \X Q)
    BY <1>0, <1>2, <1>3
  <2>2. \A q \in Q : <<lo[q], q>> \in moves /\ <<hi[q], q>> \in moves
    BY <1>2, <1>3
  <2>3. \A e \in moves : lo[e[2]] <= e[1] /\ e[1] <= hi[e[2]]
    BY <1>0, <1>2, <1>3
  <2>4. ASSUME NEW e \in moves, e[1] # lo[e[2]]
        PROVE  \E m \in moves : m[1] < e[1] /\ e[1] - m[1] <= SEG_GAP /\ m[2] = e[2]
    <3>1. PICK t \in (0..STREAM) \ {c.missed} : e = <<t, c.sign>>
      BY <1>2
    <3>2. t # 0
      BY <2>4, <3>1
    <3>3. PICK u \in (0..STREAM) \ {c.missed} : u < t /\ t - u <= 2
      <4>1. CASE t - 1 # c.missed
        <5>1. t - 1 \in (0..STREAM) \ {c.missed}
          BY <1>0, <3>2, <4>1
        <5>2. QED
          BY <1>0, <5>1
      <4>2. CASE t - 1 = c.missed
        <5>1. t - 2 \in (0..STREAM) \ {c.missed}
          BY <1>0, <3>2, <4>2
        <5>2. QED
          BY <1>0, <5>1
      <4>3. QED
        BY <4>1, <4>2
    <3>4. <<u, c.sign>> \in moves
      BY <1>2
    <3>5. t - u <= SEG_GAP
      BY <1>0, <3>3
    <3>6. QED
      BY <3>1, <3>3, <3>4, <3>5
  <2> HIDE DEF Q, lo, hi, moves
  <2>5. QED
    BY <2>1, <2>2, <2>3, <2>4, SegmentPerStream
<1>5. Segments(moves) = {<<0, KillEnd(c), c.sign>>}
  BY <1>4
<1>6. LastMove(c) = KillEnd(c)
  <2> DEFINE T == (0..STREAM) \ {c.missed}
  <2>1. {m[1] : m \in moves} = T
    <3>1. \A m \in moves : m[1] \in T
      BY <1>2
    <3>2. \A t \in T : <<t, c.sign>> \in moves /\ <<t, c.sign>>[1] = t
      BY <1>2
    <3> HIDE DEF T, moves
    <3>3. QED
      BY <3>1, <3>2
  <2>2. Max((0..STREAM) \ {c.missed}) = KillEnd(c)
    <3>1. (0..STREAM) \ {c.missed} \in SUBSET Int
      OBVIOUS
    <3>2. QED
      BY <1>3, <3>1, MaxIs
  <2>3. QED
    BY <2>1, <2>2 DEF LastMove
<1>7. LastTwist(c) = STREAM
  <2>1. {s[2] : s \in Streams(c)} = {STREAM}
    BY <1>1
  <2>2. Max({STREAM}) = STREAM
    BY <1>0, MaxIs
  <2>3. LastTwist(c) = STREAM - 0
    BY <2>1, <2>2 DEF LastTwist
  <2>4. QED
    BY <1>0, <2>3
<1>8. {m \in moves : m[1] > STREAM} = {}
  BY <1>0, <1>2
<1>9. QED
  BY <1>5, <1>6, <1>7, <1>8

\* the two streams of a streamed run, by the parameter of their Moves
Begins(c, q) == IF q = c.sign THEN 0 ELSE Second

\* where they begin and end
LEMMA TwoStreams ==
  ASSUME NEW c \in Trials, c.kind = "stream", NEW L, L = STREAM + OVERTIME
  PROVE  /\ c.sign # -c.sign /\ c.sign \in Int /\ L \in Nat /\ L > STREAM
         /\ Begins(c, c.sign) = 0 /\ Begins(c, -c.sign) = Second
         /\ \A q \in {c.sign, -c.sign} : Begins(c, q) \in Nat /\ Begins(c, q) + L <= Second + L
         /\ Streams(c) = {<<0, L, c.sign>>, <<Second, Second + L, -c.sign>>}
         /\ Streams(c) = {<<Begins(c, q), Begins(c, q) + L, q>> : q \in {c.sign, -c.sign}}
<1>1. c.sign # -c.sign /\ c.sign \in Int
  BY Kinds
<1>2. L \in Nat /\ L > STREAM /\ Second \in Nat /\ STREAM \in Nat /\ OVERTIME \in Nat
  BY Sizes
<1>3. Begins(c, c.sign) = 0 /\ Begins(c, -c.sign) = Second
  BY <1>1 DEF Begins
<1>4. Streams(c) = {<<0, L, c.sign>>, <<Second, Second + L, -c.sign>>}
  <2>1. Second = L + PAUSE /\ 2 * L + PAUSE = Second + L
    BY Sizes
  <2>2. Streams(c) = {<<0, L, c.sign>>, <<L + PAUSE, 2 * L + PAUSE, -c.sign>>}
    BY DEF Streams
  <2>3. QED
    BY <2>1, <2>2
<1>5. {<<Begins(c, q), Begins(c, q) + L, q>> : q \in {c.sign, -c.sign}} =
        {<<0, 0 + L, c.sign>>, <<Second, Second + L, -c.sign>>}
  BY <1>3
<1>6. QED
  BY <1>1, <1>2, <1>3, <1>4, <1>5

\* _segments finds them, whichever Move of each is missed
LEMMA TwoSegments ==
  ASSUME NEW c \in Trials, c.kind = "stream"
  PROVE  Segments(MovesHeard(c)) = Streams(c)
<1> DEFINE moves == MovesHeard(c)
           L == STREAM + OVERTIME
           Q == {c.sign, -c.sign}
           lo == [q \in Q |-> Begins(c, q)]
           hi == [q \in Q |-> Begins(c, q) + L]
           T(q) == (lo[q]..hi[q]) \ {lo[q] + c.missed}
<1>1. /\ STREAM >= 2 /\ STREAM < L /\ SEG_GAP >= 2 /\ c.missed \in {1, STREAM, END}
      /\ L < END /\ {STREAM, SEG_GAP, L, END} \subseteq Nat
  BY Sizes, Kinds
<1>2. Streams(c) = {<<Begins(c, q), Begins(c, q) + L, q>> : q \in Q}
  BY TwoStreams
<1>3. lo \in [Q -> Nat] /\ hi \in [Q -> Nat] /\ \A q \in Q : hi[q] = lo[q] + L
  BY TwoStreams
<1>4. moves = UNION {{<<t, q>> : t \in T(q)} : q \in Q}
  <2>1. Streams(c) = {<<lo[q], hi[q], q>> : q \in Q}
    BY <1>2
  <2> DEFINE of(s) == {<<t, s[3]>> : t \in (s[1]..s[2]) \ {s[1] + c.missed}}
  <2>2. moves = UNION {of(s) : s \in Streams(c)}
    BY DEF MovesHeard
  <2>3. \A q \in Q : of(<<lo[q], hi[q], q>>) = {<<t, q>> : t \in T(q)}
    OBVIOUS
  <2> DEFINE run(q) == <<lo[q], hi[q], q>>
             heard(q) == {<<t, q>> : t \in T(q)}
  <2>4. /\ moves = UNION {of(s) : s \in {run(q) : q \in Q}}
        /\ \A q \in Q : of(run(q)) = heard(q)
    BY <2>1, <2>2, <2>3
  <2> HIDE DEF lo, hi, moves, of, T, Q, run, heard
  <2>5. {of(s) : s \in {run(q) : q \in Q}} = {heard(q) : q \in Q}
    BY <2>4
  <2>6. moves = UNION {heard(q) : q \in Q}
    BY <2>4, <2>5
  <2>7. QED
    BY <2>6 DEF heard
<1> HIDE DEF lo, hi, moves, Q, L
<1>5. \A q \in Q : lo[q] \in T(q) /\ hi[q] \in T(q) /\ lo[q] \in Nat
  BY <1>1, <1>3
<1>6. moves \in SUBSET (Nat \X Q)
  BY <1>3, <1>4
<1>7. \A q \in Q : <<lo[q], q>> \in moves /\ <<hi[q], q>> \in moves
  BY <1>4, <1>5
<1>8. \A e \in moves : lo[e[2]] <= e[1] /\ e[1] <= hi[e[2]]
  BY <1>3, <1>4
<1>9. ASSUME NEW e \in moves, e[1] # lo[e[2]]
      PROVE  \E m \in moves : m[1] < e[1] /\ e[1] - m[1] <= SEG_GAP /\ m[2] = e[2]
  <2>0. PICK q \in Q : \E t \in T(q) : e = <<t, q>>
    BY <1>4
  <2>1. PICK t \in T(q) : e = <<t, q>>
    BY <2>0
  <2>2. t # lo[q] /\ lo[q] \in Nat
    BY <1>3, <1>9, <2>1
  <2>3. PICK u \in T(q) : u < t /\ t - u <= 2
    <3>1. CASE t - 1 # lo[q] + c.missed
      <4>1. t - 1 \in T(q)
        BY <1>1, <1>3, <2>2, <3>1
      <4>2. QED
        BY <1>3, <4>1
    <3>2. CASE t - 1 = lo[q] + c.missed
      <4>1. t - 2 \in T(q)
        BY <1>1, <1>3, <2>2, <3>2
      <4>2. QED
        BY <1>3, <4>1
    <3>3. QED
      BY <3>1, <3>2
  <2>4. <<u, q>> \in moves
    BY <1>4
  <2>5. t - u <= SEG_GAP
    BY <1>1, <1>3, <2>3
  <2>6. QED
    BY <2>1, <2>3, <2>4, <2>5
<1>10. Segments(moves) = {<<lo[q], hi[q], q>> : q \in Q}
  BY <1>3, <1>6, <1>7, <1>8, <1>9, SegmentPerStream
<1>11. QED
  BY <1>2, <1>10 DEF lo, hi, moves

\* the last Twist of a streamed run, and the watchdog's StopMove
LEMMA StreamTimes ==
  ASSUME NEW c \in Trials, c.kind = "stream"
  PROVE  /\ LastTwist(c) = Second + STREAM
         /\ ToldToStop(c) = Second + STREAM + OVERTIME + 1
<1> DEFINE L == STREAM + OVERTIME
<1>0. {STREAM, OVERTIME, L, Second} \subseteq Nat /\ STREAM >= 2 /\ Second >= L
  BY Sizes
<1>1. Streams(c) = {<<0, L, c.sign>>, <<Second, Second + L, -c.sign>>}
  BY TwoStreams
<1>2. LastTwist(c) = Second + STREAM
  <2>1. {s[2] : s \in Streams(c)} = {L, Second + L}
    BY <1>1
  <2>2. {L, Second + L} \in SUBSET Int /\ \A x \in {L, Second + L} : Second + L >= x
    BY <1>0
  <2>3. Max({L, Second + L}) = Second + L
    BY <2>2, MaxIs
  <2>4. LastTwist(c) = (Second + L) - OVERTIME
    <3>1. LastTwist(c) = Max({s[2] : s \in Streams(c)}) - OVERTIME
      BY DEF LastTwist
    <3>2. QED
      BY <2>1, <2>3, <3>1
  <2>5. QED
    BY <1>0, <2>4
<1>3. ToldToStop(c) = Second + L + 1
  <2>1. Stops(c) = {L + 1, Second + L + 1}
    BY <1>1 DEF Stops
  <2>2. ~(L + 1 > Second + STREAM) /\ Second + L + 1 > Second + STREAM
    BY <1>0
  <2>3. {t \in Stops(c) : t > LastTwist(c)} = {Second + L + 1}
    BY <1>2, <2>1, <2>2
  <2> DEFINE z == Second + L + 1
  <2>4. Min({z}) = z
    <3>1. z \in Int
      BY <1>0
    <3> HIDE DEF z
    <3>2. QED
      BY <3>1, MinIs
  <2>5. QED
    BY <2>3, <2>4 DEF ToldToStop
<1>4. QED
  BY <1>0, <1>2, <1>3

\* the Moves that the bridge sends between the two
LEMMA Overtime ==
  ASSUME NEW c \in Trials, c.kind = "stream"
  PROVE  Cardinality({m \in MovesHeard(c) : m[1] > LastTwist(c)}) = OVERTIME
<1> DEFINE L == STREAM + OVERTIME
           T == (Second + STREAM + 1)..(Second + L)
           after == {m \in MovesHeard(c) : m[1] > LastTwist(c)}
<1>1. /\ STREAM >= 2 /\ STREAM < L /\ c.missed \in {1, STREAM, END} /\ Second > L
      /\ L < END /\ STREAM \in Nat /\ OVERTIME \in Nat /\ L \in Nat /\ END \in Nat
      /\ Second \in Nat
  BY Sizes, Kinds
<1>2. MovesHeard(c) = {<<t, c.sign>> : t \in (0..L) \ {0 + c.missed}}
                      \cup {<<t, -c.sign>> : t \in (Second..(Second + L)) \ {Second + c.missed}}
  <2>1. Streams(c) = {<<0, L, c.sign>>, <<Second, Second + L, -c.sign>>}
    BY TwoStreams
  <2>2. QED
    BY <2>1 DEF MovesHeard
<1>3. after = {<<t, -c.sign>> : t \in T}
  <2>1. LastTwist(c) = Second + STREAM
    BY StreamTimes
  <2>2. T \subseteq (Second..(Second + L)) \ {Second + c.missed}
    BY <1>1
  <2>3. \A t \in T : t > Second + STREAM
    BY <1>1
  <2>4. \A t \in 0..L : ~(t > Second + STREAM)
    BY <1>1
  <2>5. \A t \in Second..(Second + L) : t > Second + STREAM => t \in T
    BY <1>1
  <2>6. ASSUME NEW m \in after
        PROVE  m \in {<<t, -c.sign>> : t \in T}
    <3>1. m[1] > Second + STREAM
      BY <2>1
    <3>2. PICK t \in (Second..(Second + L)) \ {Second + c.missed} : m = <<t, -c.sign>>
      BY <1>2, <2>4, <3>1
    <3>3. QED
      BY <2>5, <3>1, <3>2
  <2>7. ASSUME NEW t \in T
        PROVE  <<t, -c.sign>> \in after
    BY <1>2, <2>1, <2>2, <2>3
  <2>8. QED
    BY <2>6, <2>7
<1>4. IsFiniteSet(T) /\ Cardinality(T) = OVERTIME
  BY <1>1, FS_Interval
<1> DEFINE f == [t \in T |-> <<t, -c.sign>>]
<1> HIDE DEF T, after
<1>5. f \in Bijection(T, after)
  BY <1>3 DEF Bijection, Injection, Surjection, IsInjective
<1>6. ExistsBijection(T, after)
  BY <1>5 DEF ExistsBijection
<1>7. Cardinality(after) = Cardinality(T)
  BY <1>4, <1>6, FS_Bijection
<1>8. QED
  BY <1>4, <1>7 DEF after

-----------------------------------------------------------------------------
\* how far a stopped robot went on
LEMMA TravelIsTrue ==
  ASSUME NEW c \in Trials, NEW t0 \in Nat, NEW limit \in Nat, NEW time \in Nat,
         c.kind # "stream" \/ Second <= t0, NEW v, v = Travel(c, t0, limit, time)
  PROVE  /\ v \in {None, "PASS", "FAIL"}
         /\ v = "FAIL" /\ END <= time => Went(c, t0) > limit
         /\ v = "PASS" /\ {t0, END} \subseteq Heard(c) => Went(c, t0) <= limit
         /\ v = "PASS" /\ c.lost = 0 /\ t0 + time + 1 <= END => Went(c, t0 + time + 1) <= 1
<1> DEFINE rows == {t \in Heard(c) : t >= t0}
           first == Min(rows)
           final == Max(rows)
           moving == {t \in rows : Norm(BodyDisp(SportRow(c, t), SportRow(c, final))) > 1}
           stopped == IF moving = {} THEN 0 ELSE Max(moving) - t0
           travelled == Norm(BodyDisp(SportRow(c, first), SportRow(c, final)))
<1>0. END \in Nat /\ None \notin {"PASS", "FAIL"}
  BY Sizes, ReportAssumption
<1>1. v = IF Cardinality(rows) < 2 THEN None
          ELSE IF travelled <= limit /\ stopped <= time THEN "PASS" ELSE "FAIL"
  BY DEF Travel
<1>2. rows \in SUBSET (0..END) /\ moving \in SUBSET rows /\ moving \in SUBSET (0..END)
  BY HeardIs
<1> HIDE DEF travelled, stopped, moving
<1>3. ASSUME v # None
      PROVE  rows # {}
  <2>1. SUFFICES ASSUME rows = {} PROVE FALSE
    OBVIOUS
  <2>2. Cardinality(rows) = 0
    BY <2>1, FS_EmptySet
  <2>3. QED
    BY <1>1, <1>3, <2>2
<1>4. ASSUME rows # {}
      PROVE  /\ first \in 0..END /\ final \in 0..END /\ t0 <= first /\ first <= final
             /\ \A t \in rows : t <= final
             /\ travelled = Distance(Gained(c, first, final)) /\ travelled \in Nat
  <2>1. /\ first \in rows /\ final \in rows /\ first \in 0..END /\ final \in 0..END
        /\ \A t \in rows : first <= t /\ t <= final
    BY <1>2, <1>4, Bounds
  <2>2. t0 <= first /\ first <= final
    BY <2>1
  <2> HIDE DEF rows, first, final
  <2>3. travelled = Distance(Gained(c, first, final))
    BY <2>1, NormIs DEF travelled
  <2>4. Gained(c, first, final) \in Int
    BY <2>1, GainedIs
  <2>5. QED
    BY <2>1, <2>2, <2>3, <2>4 DEF Distance
<1>5. ASSUME v = "FAIL", END <= time
      PROVE  Went(c, t0) > limit
  <2>1. rows # {}
    BY <1>0, <1>3, <1>5
  <2>2. stopped <= time
    <3>1. CASE moving = {}
      BY <3>1 DEF stopped
    <3>2. CASE moving # {}
      <4>1. Max(moving) \in 0..END
        BY <1>2, <3>2, Bounds
      <4>2. QED
        BY <1>0, <1>5, <3>2, <4>1 DEF stopped
    <3>3. QED
      BY <3>1, <3>2
  <2>3. travelled > limit
    BY <1>0, <1>1, <1>4, <1>5, <2>1, <2>2
  <2> HIDE DEF rows, first, final
  <2>4. /\ first \in Int /\ final \in Int /\ t0 <= first /\ first <= final /\ final <= END
        /\ END \in Int /\ t0 \in Int
    BY <1>0, <1>4, <2>1
  <2>5. Distance(Gained(c, first, final)) <= Distance(Gained(c, t0, END))
    BY <2>4, Within
  <2>6. Distance(Gained(c, t0, END)) \in Int
    <3>1. Gained(c, t0, END) \in Int
      BY <2>4, GainedIs
    <3>2. QED
      BY <3>1 DEF Distance
  <2>7. Went(c, t0) = Distance(Gained(c, t0, END))
    BY <2>4, WentIs
  <2>8. QED
    BY <1>4, <2>1, <2>3, <2>5, <2>6, <2>7
<1>6. ASSUME v = "PASS", {t0, END} \subseteq Heard(c)
      PROVE  Went(c, t0) <= limit
  <2>1. travelled <= limit
    BY <1>0, <1>1, <1>6
  <2>2. t0 \in rows /\ END \in rows
    <3>1. t0 <= END
      BY <1>6, HeardIs
    <3>2. QED
      BY <1>0, <1>6, <3>1
  <2>3. rows \in SUBSET Int /\ (\A t \in rows : t0 <= t) /\ (\A t \in rows : END >= t)
    BY <1>2
  <2>4. first = t0 /\ final = END
    <3> HIDE DEF rows
    <3>1. QED
      BY <2>2, <2>3, MinIs, MaxIs
  <2>5. travelled = Distance(Gained(c, t0, END))
    BY <1>4, <2>2, <2>4
  <2>6. QED
    BY <2>1, <2>5, WentIs
<1>7. ASSUME v = "PASS", c.lost = 0, t0 + time + 1 <= END
      PROVE  Went(c, t0 + time + 1) <= 1
  <2> DEFINE t1 == t0 + time + 1
  <2>1. stopped <= time
    BY <1>0, <1>1, <1>7
  <2>2. Heard(c) = 0..END
    BY <1>7, HeardIs
  <2>3. t1 \in rows /\ END \in rows /\ t1 \in Int
    BY <1>0, <1>7, <2>2
  <2>4. final = END
    <3>1. rows \in SUBSET Int /\ \A t \in rows : END >= t
      BY <1>2
    <3> HIDE DEF rows
    <3>2. QED
      BY <2>3, <3>1, MaxIs
  <2>5. t1 \notin moving
    <3>1. SUFFICES ASSUME t1 \in moving PROVE FALSE
      OBVIOUS
    <3>2. Max(moving) \in 0..END /\ t1 <= Max(moving)
      BY <1>2, <3>1, Bounds
    <3>3. stopped = Max(moving) - t0
      BY <3>1 DEF stopped
    <3>4. QED
      BY <1>0, <2>1, <2>3, <3>2, <3>3
  <2>6. Norm(BodyDisp(SportRow(c, t1), SportRow(c, END))) = Distance(Gained(c, t1, END))
    BY <1>0, <2>3, NormIs
  <2>7. ~(Distance(Gained(c, t1, END)) > 1)
    BY <2>3, <2>4, <2>5, <2>6 DEF moving
  <2>8. Distance(Gained(c, t1, END)) \in Int
    <3>1. Gained(c, t1, END) \in Int
      BY <1>0, <2>3, GainedIs
    <3>2. QED
      BY <3>1 DEF Distance
  <2>9. Went(c, t1) = Distance(Gained(c, t1, END))
    BY <2>3, WentIs
  <2>10. QED
    BY <2>7, <2>8, <2>9
<1>8. v \in {None, "PASS", "FAIL"}
  BY <1>1
<1>9. QED
  BY <1>5, <1>6, <1>7, <1>8

-----------------------------------------------------------------------------
\* how far the robot went in the window of one segment
LEMMA WindowIs ==
  ASSUME NEW c \in Trials, NEW lo \in 0..END, NEW hi \in Nat,
         Heard(c) \cap lo..hi # {},
         NEW ext, ext = {t \in Heard(c) : lo <= t /\ t <= hi + EXTRA},
         NEW disp, disp = BodyDisp(SportRow(c, Min(ext)), SportRow(c, Max(ext)))
  PROVE  /\ disp = <<c.sign * Gained(c, Min(ext), Max(ext)), 0>>
         /\ Min(ext) \in Int /\ Max(ext) \in Int
         /\ lo <= Min(ext) /\ Min(ext) <= Max(ext) /\ Max(ext) <= hi + EXTRA
         /\ c.lost = 0 /\ hi + EXTRA <= END => Min(ext) = lo /\ Max(ext) = hi + EXTRA
<1>0. EXTRA \in Nat /\ END \in Nat
  BY Sizes
<1>1. ext \in SUBSET (0..END) /\ ext # {}
  <2>1. PICK t \in Heard(c) : lo <= t /\ t <= hi
    BY HeardIs
  <2>2. t \in ext
    BY <1>0, <2>1, HeardIs
  <2>3. QED
    BY <2>2, HeardIs
<1>2. /\ Min(ext) \in ext /\ Max(ext) \in ext /\ Min(ext) \in 0..END /\ Max(ext) \in 0..END
      /\ Min(ext) <= Max(ext)
  BY <1>1, Bounds
<1>3. /\ Min(ext) \in Int /\ Max(ext) \in Int /\ Min(ext) <= Max(ext)
      /\ lo <= Min(ext) /\ Max(ext) <= hi + EXTRA
  BY <1>2
<1>4. disp = <<c.sign * Gained(c, Min(ext), Max(ext)), 0>>
  <2> DEFINE a == Min(ext)
             b == Max(ext)
             d == Along(c, b) - Along(c, a)
  <2>1. d \in Int
    BY <1>3, AlongIs
  <2>2. disp = <<d, 0>>
    BY <1>3, BodyDispIs
  <2>3. Gained(c, a, b) = c.sign * d
    BY DEF Gained
  <2> HIDE DEF d, a, b
  <2>4. c.sign * Gained(c, a, b) = d
    <3>1. CASE c.sign = 1
      BY <2>1, <2>3, <3>1
    <3>2. CASE c.sign = -1
      BY <2>1, <2>3, <3>2
    <3>3. QED
      BY <3>1, <3>2, Kinds
  <2>5. QED
    BY <2>2, <2>4 DEF a, b
<1>5. ASSUME c.lost = 0, hi + EXTRA <= END
      PROVE  Min(ext) = lo /\ Max(ext) = hi + EXTRA
  <2>1. Heard(c) = 0..END
    BY <1>5, HeardIs
  <2>2. lo <= hi
    BY HeardIs
  <2>3. lo \in ext /\ hi + EXTRA \in ext /\ \A t \in ext : lo <= t /\ t <= hi + EXTRA
    BY <1>0, <1>5, <2>1, <2>2
  <2>4. ext \in SUBSET Int
    BY <1>1
  <2>5. QED
    BY <2>3, <2>4, MinIs, MaxIs
<1>6. QED
  BY <1>3, <1>4, <1>5

\* the way of each stream is that of its Moves
LEMMA StreamGains ==
  ASSUME NEW c \in Trials, c.kind # "once", NEW seg \in Segments(MovesHeard(c))
  PROVE  /\ seg = <<seg[1], seg[2], seg[3]>> /\ seg[1] \in 0..END /\ seg[2] \in Nat
         /\ seg[2] + EXTRA <= END /\ seg[3] \in {c.sign, -c.sign}
         /\ \A t, u \in Int : seg[1] <= t /\ t <= u /\ u <= seg[2] + EXTRA =>
              IF seg[3] = c.sign THEN Way(c, t) <= Way(c, u) ELSE Way(c, u) <= Way(c, t)
         /\ c.coast < STREAM + OVERTIME + PAUSE => Way(c, seg[1]) # Way(c, seg[2] + EXTRA)
<1>0. /\ STREAM \in Nat /\ OVERTIME \in Nat /\ PAUSE \in Nat /\ EXTRA \in Nat /\ END \in Nat
      /\ c.coast \in Nat /\ STREAM >= 2 /\ EXTRA >= 1 /\ EXTRA < PAUSE /\ OVERTIME >= 1
      /\ Second \in Nat /\ Second = STREAM + OVERTIME + PAUSE
      /\ Second + STREAM + OVERTIME + EXTRA <= END
  BY Sizes, Kinds
<1>1. c.sign \in Int /\ c.sign # -c.sign
  <2>1. c.sign \in {1, -1}
    BY Kinds
  <2>2. QED
    BY <2>1
<1>2. CASE c.kind = "kill"
  <2>1. seg = <<0, KillEnd(c), c.sign>>
    BY <1>2, KillSegment
  <2>2. KillEnd(c) \in Nat /\ KillEnd(c) >= 1 /\ KillEnd(c) <= STREAM
    BY <1>0 DEF KillEnd
  <2>3. \A t, u \in Int : t <= u => Way(c, t) <= Way(c, u)
    BY <1>2, OneWay
  <2>4. Way(c, 0) # Way(c, KillEnd(c) + EXTRA)
    <3> DEFINE hi == STREAM + c.coast
               e == KillEnd(c) + EXTRA
    <3>1. Way(c, 0) = Ramp(0, hi, 0) /\ Way(c, e) = Ramp(0, hi, e)
      BY <1>2 DEF Way
    <3>2. hi \in Nat /\ e \in Int /\ e > 0 /\ hi + 1 > 0
      BY <1>0, <2>2
    <3> HIDE DEF hi, e
    <3>3. Way(c, 0) # Way(c, e)
      BY <3>1, <3>2 DEF Ramp
    <3>4. QED
      BY <3>3 DEF e
  <2>5. /\ seg[1] = 0 /\ seg[2] = KillEnd(c) /\ seg[3] = c.sign /\ 0 \in 0..END
        /\ KillEnd(c) + EXTRA <= END
    BY <1>0, <2>1, <2>2
  <2>6. QED
    BY <2>1, <2>2, <2>3, <2>4, <2>5
<1>3. CASE c.kind = "stream"
  <2> DEFINE L == STREAM + OVERTIME
             hi == L + c.coast
  <2>1. seg \in {<<0, L, c.sign>>, <<Second, Second + L, -c.sign>>}
    BY <1>3, TwoSegments, TwoStreams
  <2>2. \A t \in Int : Way(c, t) = Ramp(0, hi, t) - Ramp(Second, Second + hi, t)
    <3>1. Second + STREAM + OVERTIME + c.coast = Second + hi
      BY <1>0
    <3>2. QED
      BY <1>3, <3>1 DEF Way
  <2>3. /\ L \in Nat /\ hi \in Nat /\ hi >= L /\ L >= 2 /\ L + EXTRA < Second
        /\ Second + L + EXTRA <= END
        /\ c.coast < STREAM + OVERTIME + PAUSE => hi < Second + L
    BY <1>0
  <2> HIDE DEF L, hi
  <2>4. CASE seg = <<0, L, c.sign>>
    <3>1. \A t, u \in Int : 0 <= t /\ t <= u /\ u <= L + EXTRA => Way(c, t) <= Way(c, u)
      <4>1. SUFFICES ASSUME NEW t \in Int, NEW u \in Int, t <= u, u <= L + EXTRA
                     PROVE  Way(c, t) <= Way(c, u)
        OBVIOUS
      <4>2. u <= Second
        BY <1>0, <2>3, <4>1
      <4>3. QED
        BY <4>1, <4>2, OneWay
    <3>2. Way(c, 0) # Way(c, L + EXTRA)
      BY <1>0, <2>2, <2>3 DEF Ramp
    <3>3. seg[1] = 0 /\ seg[2] = L /\ seg[3] = c.sign /\ 0 \in 0..END /\ L + EXTRA <= END
      BY <1>0, <2>3, <2>4
    <3>4. QED
      BY <2>3, <2>4, <3>1, <3>2, <3>3
  <2>5. CASE seg = <<Second, Second + L, -c.sign>>
    <3>1. \A t, u \in Int : Second <= t /\ t <= u => Way(c, u) <= Way(c, t)
      BY <1>3, OneWay
    <3>2. ASSUME c.coast < STREAM + OVERTIME + PAUSE
          PROVE  Way(c, Second) # Way(c, Second + L + EXTRA)
      <4> DEFINE e == Second + L + EXTRA
      <4>1. hi < Second + L /\ e \in Int /\ e > Second + L /\ e = Second + L + EXTRA
        BY <1>0, <2>3, <3>2
      <4>2. /\ Way(c, Second) = Ramp(0, hi, Second) - Ramp(Second, Second + hi, Second)
            /\ Way(c, e) = Ramp(0, hi, e) - Ramp(Second, Second + hi, e)
        BY <1>0, <2>2, <4>1
      <4> HIDE DEF e
      <4>3. Ramp(Second, Second + hi, Second) = 0 /\ Ramp(Second, Second + hi, e) > L
        BY <1>0, <2>3, <4>1 DEF Ramp
      <4>4. Ramp(0, hi, e) - Ramp(0, hi, Second) <= L
        BY <1>0, <2>3, <4>1 DEF Ramp
      <4>5. Way(c, Second) # Way(c, e)
        <5>1. /\ Ramp(0, hi, e) \in Int /\ Ramp(0, hi, Second) \in Int
              /\ Ramp(Second, Second + hi, e) \in Int
          BY <1>0, <2>3, <4>1 DEF Ramp
        <5>2. QED
          BY <2>3, <4>2, <4>3, <4>4, <5>1
      <4>6. QED
        BY <4>5 DEF e
    <3>3. /\ seg[1] = Second /\ seg[2] = Second + L /\ seg[3] = -c.sign
          /\ Second \in 0..END /\ Second + L \in Nat
      BY <1>0, <2>3, <2>5
    <3>4. (Second + L) + EXTRA = Second + L + EXTRA
      OBVIOUS
    <3>5. QED
      BY <1>1, <2>3, <2>5, <3>1, <3>2, <3>3, <3>4
  <2>6. QED
    BY <2>1, <2>4, <2>5
<1>4. QED
  BY <1>2, <1>3, Kinds

\* how far each streamed Move carried the robot
LEMMA DisplacedIsTrue ==
  ASSUME NEW c \in Trials, c.kind # "once"
  PROVE  /\ \A p \in Displaced(c) :
              /\ p.disp[2] = 0
              /\ p.disp[1] * c.toward * p.seg[3] >= 0
              /\ c.lost = 0 /\ c.toward # 0 /\ c.coast < STREAM + OVERTIME + PAUSE =>
                   p.disp[1] # 0
         /\ {p.seg : p \in Displaced(c)} =
              {s \in Segments(MovesHeard(c)) : Heard(c) \cap s[1]..s[2] # {}}
<1> DEFINE Segs == {s \in Segments(MovesHeard(c)) : Heard(c) \cap s[1]..s[2] # {}}
           ext(seg) == {t \in Heard(c) : seg[1] <= t /\ t <= seg[2] + EXTRA}
           disp(seg) == BodyDisp(SportRow(c, Min(ext(seg))), SportRow(c, Max(ext(seg))))
<1>1. Displaced(c) = {[seg |-> seg, disp |-> disp(seg)] : seg \in Segs}
  BY DEF Displaced
<1>2. ASSUME NEW seg \in Segs
      PROVE  /\ disp(seg)[2] = 0
             /\ disp(seg)[1] * c.toward * seg[3] >= 0
             /\ c.lost = 0 /\ c.toward # 0 /\ c.coast < STREAM + OVERTIME + PAUSE =>
                  disp(seg)[1] # 0
  <2> DEFINE a == Min(ext(seg))
             b == Max(ext(seg))
             g == Gained(c, a, b)
  <2>1. /\ seg[1] \in 0..END /\ seg[2] \in Nat /\ seg[2] + EXTRA <= END
        /\ seg[3] \in {c.sign, -c.sign}
        /\ \A t, u \in Int : seg[1] <= t /\ t <= u /\ u <= seg[2] + EXTRA =>
              IF seg[3] = c.sign THEN Way(c, t) <= Way(c, u) ELSE Way(c, u) <= Way(c, t)
        /\ c.coast < STREAM + OVERTIME + PAUSE => Way(c, seg[1]) # Way(c, seg[2] + EXTRA)
    BY StreamGains
  <2>2. /\ disp(seg) = <<c.sign * g, 0>> /\ a \in Int /\ b \in Int
        /\ seg[1] <= a /\ a <= b /\ b <= seg[2] + EXTRA
        /\ c.lost = 0 => a = seg[1] /\ b = seg[2] + EXTRA
    BY <2>1, WindowIs
  <2>3. g = Carried(c, Way(c, b) - Way(c, a)) /\ Way(c, a) \in Int /\ Way(c, b) \in Int
    BY <2>2, GainedIs
  <2>4. IF seg[3] = c.sign THEN Way(c, a) <= Way(c, b) ELSE Way(c, b) <= Way(c, a)
    BY <2>1, <2>2
  <2>5. c.sign \in {1, -1} /\ c.toward \in {1, 0, -1}
    BY Kinds
  <2> DEFINE x == Way(c, a)
             y == Way(c, b)
  <2>6. ASSUME c.lost = 0, c.coast < STREAM + OVERTIME + PAUSE
        PROVE  x # y
    BY <2>1, <2>2, <2>6
  <2> HIDE DEF a, b, disp
  <2>7. /\ g = Carried(c, y - x) /\ x \in Int /\ y \in Int
        /\ IF seg[3] = c.sign THEN x <= y ELSE y <= x
    BY <2>3, <2>4
  <2> HIDE DEF g, x, y
  <2>8. disp(seg)[1] = c.sign * g /\ disp(seg)[2] = 0
    BY <2>2
  <2>9. c.sign * g * c.toward * seg[3] >= 0
    <3>1. CASE c.sign = 1 /\ seg[3] = 1
      BY <2>5, <2>7, <3>1 DEF Carried
    <3>2. CASE c.sign = 1 /\ seg[3] = -1
      BY <2>5, <2>7, <3>2 DEF Carried
    <3>3. CASE c.sign = -1 /\ seg[3] = 1
      BY <2>5, <2>7, <3>3 DEF Carried
    <3>4. CASE c.sign = -1 /\ seg[3] = -1
      BY <2>5, <2>7, <3>4 DEF Carried
    <3>5. c.sign = -1 => -c.sign = 1
      <4>1. ASSUME c.sign = -1
            PROVE  c.sign \in Int /\ c.sign + 1 = 0
        BY <4>1
      <4>2. c.sign \in Int /\ c.sign + 1 = 0 => -c.sign = 1
        OBVIOUS
      <4>3. QED
        BY <4>1, <4>2
    <3>6. c.sign = 1 => -c.sign = -1
      OBVIOUS
    <3>7. QED
      BY <2>1, <2>5, <3>1, <3>2, <3>3, <3>4, <3>5, <3>6
  <2>10. ASSUME c.lost = 0, c.toward # 0, c.coast < STREAM + OVERTIME + PAUSE
         PROVE  c.sign * g # 0
    <3>1. x # y
      BY <2>6, <2>10
    <3>2. g # 0 /\ g \in Int
      BY <2>5, <2>7, <2>10, <3>1 DEF Carried
    <3>3. CASE c.sign = 1
      BY <3>2, <3>3
    <3>4. CASE c.sign = -1
      BY <3>2, <3>4
    <3>5. QED
      BY <2>5, <3>3, <3>4
  <2>11. QED
    BY <2>8, <2>9, <2>10
<1> HIDE DEF disp, Segs
<1>3. ASSUME NEW p \in Displaced(c)
      PROVE  /\ p.disp[2] = 0
             /\ p.disp[1] * c.toward * p.seg[3] >= 0
             /\ c.lost = 0 /\ c.toward # 0 /\ c.coast < STREAM + OVERTIME + PAUSE =>
                  p.disp[1] # 0
  <2>1. PICK seg \in Segs : p = [seg |-> seg, disp |-> disp(seg)]
    BY <1>1
  <2>2. p.seg = seg /\ p.disp = disp(seg)
    BY <2>1
  <2>3. QED
    BY <1>2, <2>2
<1>4. {p.seg : p \in Displaced(c)} = Segs
  <2>1. ASSUME NEW p \in Displaced(c)
        PROVE  p.seg \in Segs
    BY <1>1
  <2>2. ASSUME NEW seg \in Segs
        PROVE  \E p \in Displaced(c) : seg = p.seg
    <3>1. [seg |-> seg, disp |-> disp(seg)] \in Displaced(c)
      BY <1>1
    <3>2. [seg |-> seg, disp |-> disp(seg)].seg = seg
      OBVIOUS
    <3>3. QED
      BY <3>1, <3>2
  <2>3. QED
    BY <2>1, <2>2
<1>5. QED
  BY <1>3, <1>4 DEF Segs

\* what ReportIsTrue says of one trial
LEMMA ReportOf ==
  ASSUME trial \in Trials, report = Report(trial)
  PROVE  ReportIsTrue
<1> DEFINE c == trial
<1> DEFINE tail == Gained(c, STOP_AT - TAIL, STOP_AT) > ONSET
<1>0. None \notin {"PERSISTS", "NO CONCLUSION", "PASS", "FAIL"}
  BY ReportAssumption
<1>1. /\ report.pm3 = IF c.kind = "once" THEN Persists(c, 0, Min(Stops(c))) ELSE None
      /\ report.pm4 = IF c.kind # "once" THEN Displaced(c) ELSE {}
      /\ report.overtime = IF c.kind = "once" THEN None
                           ELSE Cardinality({m \in MovesHeard(c) : m[1] > LastTwist(c)})
      /\ report.pv3 = IF c.kind = "stream" THEN Travel(c, ToldToStop(c), STOP_LIMIT, END)
                      ELSE None
      /\ report.pv4 = IF c.kind = "kill" THEN Travel(c, LastMove(c), KILL_LIMIT, KILL_TIME)
                      ELSE None
  BY DEF Report
<1>2. /\ report.pm3 = "PERSISTS" => tail
      /\ c.kind = "once" /\ {0, STOP_AT - TAIL, STOP_AT} \subseteq Heard(c) =>
           /\ tail => report.pm3 = "PERSISTS"
           /\ report.pm3 = "NO CONCLUSION" <=> \A t \in 0..STOP_AT : Gained(c, 0, t) <= ONSET
  <2>1. CASE c.kind = "once"
    <3>1. report.pm3 = Persists(c, 0, Min(Stops(c)))
      BY <1>1, <2>1
    <3>2. QED
      BY <2>1, <3>1, PersistsIsTrue
  <2>2. CASE c.kind # "once"
    BY <1>0, <1>1, <2>2
  <2>3. QED
    BY <2>1, <2>2
<1>3. \A p \in report.pm4 :
        /\ p.disp[2] = 0
        /\ p.disp[1] * c.toward * p.seg[3] >= 0
        /\ c.lost = 0 /\ c.toward # 0 /\ c.coast < STREAM + OVERTIME + PAUSE => p.disp[1] # 0
  BY <1>1, DisplacedIsTrue
<1>4. c.kind = "stream" =>
        {p.seg : p \in report.pm4} = {s \in Streams(c) : Heard(c) \cap s[1]..s[2] # {}}
  BY <1>1, DisplacedIsTrue, TwoSegments
<1>5. /\ report.pv3 = "FAIL" => Went(c, ToldToStop(c)) > STOP_LIMIT
      /\ report.pv3 = "PASS" /\ {ToldToStop(c), END} \subseteq Heard(c) =>
           Went(c, ToldToStop(c)) <= STOP_LIMIT
  <2>1. CASE c.kind = "stream"
    <3>1. ToldToStop(c) = Second + STREAM + OVERTIME + 1
      BY <2>1, StreamTimes
    <3>2. ToldToStop(c) \in Nat /\ Second <= ToldToStop(c)
      BY <3>1, Sizes
    <3>3. report.pv3 = Travel(c, ToldToStop(c), STOP_LIMIT, END)
      BY <1>1, <2>1
    <3>4. STOP_LIMIT \in Nat /\ END \in Nat /\ END <= END
      BY Sizes
    <3>5. QED
      BY <3>2, <3>3, <3>4, TravelIsTrue
  <2>2. CASE c.kind # "stream"
    BY <1>0, <1>1, <2>2
  <2>3. QED
    BY <2>1, <2>2
<1>6. /\ report.pv4 = "PASS" /\ {LastMove(c), END} \subseteq Heard(c) =>
           Went(c, LastMove(c)) <= KILL_LIMIT
      /\ report.pv4 = "PASS" /\ c.lost = 0 => Went(c, LastMove(c) + KILL_TIME + 1) <= 1
  <2>1. CASE c.kind = "kill"
    <3>1. LastMove(c) \in Nat /\ LastMove(c) + KILL_TIME + 1 <= END
      <4>1. LastMove(c) = KillEnd(c)
        BY <2>1, KillSegment
      <4>2. KillEnd(c) \in {STREAM - 1, STREAM}
        BY DEF KillEnd
      <4>3. QED
        BY <4>1, <4>2, Sizes
    <3>2. report.pv4 = Travel(c, LastMove(c), KILL_LIMIT, KILL_TIME)
      BY <1>1, <2>1
    <3>3. QED
      BY <2>1, <3>1, <3>2, Sizes, TravelIsTrue
  <2>2. CASE c.kind # "kill"
    BY <1>0, <1>1, <2>2
  <2>3. QED
    BY <2>1, <2>2
<1>7. report.overtime # None =>
        report.overtime = IF c.kind = "stream" THEN OVERTIME ELSE 0
  <2>1. CASE c.kind = "once"
    BY <1>1, <2>1
  <2>2. CASE c.kind = "kill"
    BY <1>1, <2>2, KillSegment, FS_EmptySet
  <2>3. CASE c.kind = "stream"
    BY <1>1, <2>3, Overtime
  <2>4. QED
    BY <2>1, <2>2, <2>3, Kinds
<1>8. QED
  BY <1>2, <1>3, <1>4, <1>5, <1>6, <1>7 DEF ReportIsTrue

(* Whatever samples were lost, a reported persistence and a reported       *)
(* overrun are true of the robot, and so is each stream's direction; a     *)
(* reported stop is, of a recording that kept the samples its window       *)
(* starts and ends with.  For every heading, length of a stream and        *)
(* coasting (analyse, analyse_bridge, cmd_vel_profile).                    *)
THEOREM ReportCorrect == MotionSpec => []ReportIsTrue
<1> DEFINE Inv == trial \in Trials /\ report \in {None, Report(trial)}
<1>1. MotionInit => Inv
  BY DEF MotionInit
<1>2. Inv /\ [AnalyseRun]_<<trial, report>> => Inv'
  BY DEF AnalyseRun
<1>3. Inv => ReportIsTrue
  <2>1. report = None => ReportIsTrue
    BY DEF ReportIsTrue
  <2>2. QED
    BY <2>1, ReportOf
<1>4. QED
  BY <1>1, <1>2, <1>3, PTL DEF MotionSpec
==============================================================================
