----------------------------- MODULE RelayProofs ------------------------------
(***************************************************************************)
(* The relays beside the bridges: the adapter for any window, threshold,   *)
(* period and timeout, the ROS 1 arbitration for any limits, timeouts and  *)
(* sticks, and however the clocks step.  A property is the distance an age *)
(* of a clock and the true age of the same event can have, which is what   *)
(* the clock stepped; the first rests on the estimator's own counter.      *)
(***************************************************************************)
EXTENDS Adapter, Arbiter, AgesProofs, TLAPS

USE DEF Age

TrueAge == Nat \cup {None}

LEMMA LaterTrue ==
  ASSUME NEW age \in TrueAge, NEW t \in Nat
  PROVE  Later(age, t) \in TrueAge
BY AgeAssumption DEF Later, TrueAge

-----------------------------------------------------------------------------
(* The adapter.                                                            *)
AdapterType ==
  /\ clock \in {"CONVERGING", "CONVERGED", "FAULTED"}
  /\ n_deltas \in Nat /\ least \in Age /\ offset \in Age /\ bad_run \in Nat
  /\ last_pub \in Age /\ slot \in Age /\ before \in Age /\ last_msg \in Age
  /\ quiet \in TrueAge /\ silent \in TrueAge /\ unsaid \in TrueAge
  /\ link_ok \in BOOLEAN
  /\ true_offset \in Int
  /\ wrong \in Nat
  /\ stepped \in Nat /\ stepped <= MAX_BACK

\* the estimator counts at least the wrong stamps it lets out, but the first
StampInv ==
  /\ clock # "CONVERGING" => offset \in Int
  /\ clock = "CONVERGING" => wrong = 0 /\ bad_run = 0
  /\ clock = "CONVERGED" => wrong <= bad_run + 1 /\ bad_run < STEP_CONSECUTIVE
  /\ clock = "FAULTED" => wrong <= STEP_CONSECUTIVE

\* between two wall ages only what caps them changes the difference
PaceInv ==
  /\ last_pub # None => last_pub <= FORGET
  /\ quiet # None => quiet <= FORGET
  /\ quiet = None <=> last_pub = None
  /\ before # None => last_pub # None
  /\ node \notin {"clock_offset", "lidar", "state"} => quiet = None
  /\ node = "lidar" /\ quiet # None => quiet <= last_pub + stepped
  /\ node = "state" => (slot = None <=> last_pub = None)
  /\ node = "state" /\ slot # None =>
       slot + quiet <= PERIOD + stepped /\ last_pub + slot >= 0
  /\ node = "lidar" /\ before # None =>
       before >= FORGET - stepped \/ before >= last_pub + PERIOD
  /\ node = "state" /\ before # None =>
       before >= FORGET - stepped \/ before + slot >= PERIOD

LinkInv ==
  /\ silent # None => silent <= FORGET
  /\ last_msg # None => silent # None /\ silent <= last_msg + stepped
  /\ link_ok => /\ silent # None /\ unsaid # None
                /\ silent <= STALE_TIMEOUT + unsaid + stepped

-----------------------------------------------------------------------------
LEMMA AddType ==
  ASSUME AdapterType, NEW delta \in Int, Add(delta)
  PROVE  /\ clock' \in {"CONVERGING", "CONVERGED", "FAULTED"}
         /\ n_deltas' \in Nat /\ least' \in Age /\ offset' \in Age /\ bad_run' \in Nat
BY AgeAssumption, ClockAssumption
   DEF AdapterType, Add, Collect, Freeze, Watch, Deaf, Least, clockVars

LEMMA AdapterTyped == AdapterSpec => []AdapterType
<1> USE AgeAssumption, AdapterAssumption, ClockAssumption
<1>1. AdapterInit => AdapterType
  <2>1. AdapterInit => link_ok \in BOOLEAN
    BY DEF AdapterInit
  <2>2. AdapterInit => stepped <= MAX_BACK
    BY DEF AdapterInit
  <2>3. QED
    BY <2>1, <2>2 DEF AdapterInit, ClockInit, AdapterType, TrueAge
<1>2. AdapterType /\ [AdapterNext]_adapterVars => AdapterType'
  <2> SUFFICES ASSUME AdapterType, [AdapterNext]_adapterVars PROVE AdapterType'
    OBVIOUS
  <2>1. ASSUME NEW delay \in 0..MAX_DELAY, Sample(delay) PROVE AdapterType'
    <3>1. true_offset + delay \in Int
      BY DEF AdapterType
    <3>2. /\ clock' \in {"CONVERGING", "CONVERGED", "FAULTED"}
          /\ n_deltas' \in Nat /\ least' \in Age /\ offset' \in Age /\ bad_run' \in Nat
      BY <2>1, <3>1, AddType DEF Sample
    <3>3. CASE Publish
      BY <2>1, <3>2, <3>3 DEF AdapterType, Sample, Publish, NextSlot, TrueAge, linkVars, worldVars
    <3>4. CASE Drop
      BY <2>1, <3>2, <3>4 DEF AdapterType, Sample, Drop, TrueAge, linkVars, worldVars
    <3>5. QED
      BY <2>1, <3>3, <3>4 DEF Sample
  <2>2. CASE OnMsg
    BY <2>2 DEF AdapterType, OnMsg, TrueAge, relayVars, clockVars, worldVars
  <2>3. CASE LinkTick
    BY <2>3 DEF AdapterType, LinkTick, Alive, TrueAge, relayVars, clockVars, worldVars
  <2>4. CASE NodeRestarts
    BY <2>4 DEF AdapterType, NodeRestarts, ClockReset, TrueAge
  <2>5. CASE TimePasses
    BY <2>5, LaterType, SoonerType, LaterTrue
       DEF AdapterType, TimePasses, WallElapse, clockVars, worldVars
  <2>6. ASSUME NEW d \in Steps, HostSteps(d) PROVE AdapterType'
    <3>1. d \in Int
      OBVIOUS
    <3>2. stepped' \in Nat /\ stepped' <= MAX_BACK
      BY <2>6, <3>1 DEF HostSteps, AdapterType
    <3>3. QED
      BY <2>6, <3>1, <3>2, LaterType, SoonerType DEF AdapterType, HostSteps, WallElapse, clockVars
  <2>7. ASSUME NEW d \in Steps, RobotSteps(d) PROVE AdapterType'
    BY <2>7 DEF AdapterType, RobotSteps, relayVars, linkVars, clockVars
  <2>8. CASE UNCHANGED adapterVars
    BY <2>8 DEF AdapterType, adapterVars, relayVars, linkVars, worldVars, clockVars
  <2>9. QED
    BY <2>1, <2>2, <2>3, <2>4, <2>5, <2>6, <2>7, <2>8 DEF AdapterNext
<1>3. QED
  BY <1>1, <1>2, PTL DEF AdapterSpec

-----------------------------------------------------------------------------
\* a sample after which the offset is wrong disagrees with the offset
LEMMA WrongDisagrees ==
  ASSUME AdapterType, NEW delay \in 0..MAX_DELAY, offset \in Int, Wrong
  PROVE  Stepped(true_offset + delay)
BY AdapterAssumption, ClockAssumption DEF AdapterType, Wrong, Stepped

LEMMA SampleStamps ==
  ASSUME AdapterType, StampInv, NEW delay \in 0..MAX_DELAY, Sample(delay)
  PROVE  StampInv'
<1> USE AgeAssumption, AdapterAssumption, ClockAssumption
<1> DEFINE delta == true_offset + delay
<1>1. delta \in Int /\ true_offset' = true_offset /\ true_offset \in Int /\ wrong \in Nat /\ bad_run \in Nat
  BY DEF AdapterType, Sample, worldVars
<1>2. wrong' = (IF Wrong' THEN (IF clock' = "CONVERGED" THEN wrong + 1 ELSE wrong) ELSE 0)
      \/ wrong' = (IF Wrong' THEN wrong ELSE 0)
  BY DEF Sample, Publish, Drop
<1>3. wrong' \in Nat /\ wrong' <= wrong + 1 /\ (clock' # "CONVERGED" => wrong' <= wrong)
      /\ (~Wrong' => wrong' = 0)
  BY <1>1, <1>2
<1>4. CASE Collect(delta)
  <2>1. clock' = "CONVERGING" /\ bad_run' = bad_run /\ clock = "CONVERGING"
    BY <1>4 DEF Collect
  <2>2. ~Wrong'
    BY <2>1 DEF Wrong
  <2>3. QED
    BY <1>3, <2>1, <2>2 DEF StampInv
<1>5. CASE Freeze(delta)
  <2>1. clock = "CONVERGING" /\ clock' = "CONVERGED" /\ bad_run' = bad_run /\ offset' = Least(delta)
    BY <1>5 DEF Freeze
  <2>2. offset' \in Int
    BY <1>1, <2>1 DEF Least, AdapterType
  <2>3. QED
    BY <1>3, <2>1, <2>2 DEF StampInv
<1>6. CASE Watch(delta)
  <2>1. /\ clock = "CONVERGED" /\ offset' = offset /\ offset \in Int
        /\ bad_run' = IF Stepped(delta) THEN bad_run + 1 ELSE 0
        /\ clock' = IF bad_run' >= STEP_CONSECUTIVE THEN "FAULTED" ELSE clock
    BY <1>6 DEF Watch, StampInv
  <2>2. Wrong' => Wrong
    BY <1>1, <2>1 DEF Wrong
  <2>3. Wrong' => bad_run' = bad_run + 1
    BY <2>1, <2>2, WrongDisagrees
  <2>4. wrong <= bad_run + 1 /\ bad_run < STEP_CONSECUTIVE
    BY <2>1 DEF StampInv
  <2>5. bad_run' \in Nat
    BY <1>1, <2>1
  <2>6. CASE Wrong'
    BY <1>1, <1>3, <2>1, <2>3, <2>4, <2>5, <2>6 DEF StampInv
  <2>7. CASE ~Wrong'
    BY <1>1, <1>3, <2>1, <2>4, <2>5, <2>7 DEF StampInv
  <2>8. QED
    BY <2>6, <2>7
<1>7. CASE Deaf
  BY <1>1, <1>3, <1>7 DEF Deaf, clockVars, StampInv
<1>8. QED
  BY <1>4, <1>5, <1>6, <1>7 DEF Sample, Add

(* However often the two clocks step, at most STEP_CONSECUTIVE stamps in a *)
(* row are wrong (ClockOffsetEstimator.add).                               *)
THEOREM FewWrongStamps == AdapterSpec => []WrongStampsAreFew
<1> USE AgeAssumption, AdapterAssumption, ClockAssumption
<1>1. AdapterInit => StampInv
  BY DEF AdapterInit, ClockInit, StampInv
<1>2. AdapterType /\ StampInv /\ [AdapterNext]_adapterVars => StampInv'
  <2> SUFFICES ASSUME AdapterType, StampInv, [AdapterNext]_adapterVars PROVE StampInv'
    OBVIOUS
  <2>1. ASSUME NEW delay \in 0..MAX_DELAY, Sample(delay) PROVE StampInv'
    BY <2>1, SampleStamps
  <2>2. CASE NodeRestarts
    BY <2>2 DEF NodeRestarts, ClockReset, StampInv
  <2>3. CASE UNCHANGED <<clockVars, wrong>>
    BY <2>3 DEF StampInv, clockVars
  <2>4. OnMsg \/ LinkTick \/ TimePasses \/ UNCHANGED adapterVars => UNCHANGED <<clockVars, wrong>>
    BY DEF OnMsg, LinkTick, TimePasses, adapterVars, relayVars
  <2>5. ASSUME NEW d \in Steps, HostSteps(d) \/ RobotSteps(d) PROVE UNCHANGED <<clockVars, wrong>>
    BY <2>5 DEF HostSteps, RobotSteps, relayVars
  <2>6. QED
    BY <2>1, <2>2, <2>3, <2>4, <2>5 DEF AdapterNext
<1>3. AdapterType /\ StampInv => WrongStampsAreFew
  BY DEF AdapterType, StampInv, WrongStampsAreFew
<1>4. QED
  BY <1>1, <1>2, <1>3, AdapterTyped, PTL DEF AdapterSpec

-----------------------------------------------------------------------------
LEMMA SamplePaces ==
  ASSUME AdapterType, PaceInv, NEW delay \in 0..MAX_DELAY, Sample(delay)
  PROVE  PaceInv'
<1> USE AgeAssumption, AdapterAssumption
<1>1. node' = node /\ stepped' = stepped
  BY DEF Sample, worldVars
<1>2. CASE Drop
  BY <1>1, <1>2 DEF Drop, PaceInv
<1>3. CASE Publish
  <2>1. /\ last_pub' = 0 /\ quiet' = 0 /\ before' = last_pub
        /\ slot' = IF node = "state" THEN NextSlot ELSE slot
        /\ Allows
    BY <1>3 DEF Publish
  <2>2. CASE node = "lidar"
    BY <1>1, <2>1, <2>2 DEF PaceInv, AdapterType, Allows, GapOver
  <2>3. CASE node = "state"
    <3>1. SlotOpen /\ slot' = NextSlot
      BY <2>1, <2>3 DEF Allows
    <3>2. slot' \in Int /\ 0 <= slot' /\ slot' <= PERIOD
      BY <3>1 DEF NextSlot, SlotOpen, AdapterType
    <3>3. last_pub # None => last_pub + slot' >= PERIOD
      BY <2>3, <3>1 DEF NextSlot, SlotOpen, AdapterType, PaceInv
    <3>4. QED
      BY <1>1, <2>1, <2>3, <3>2, <3>3 DEF PaceInv, AdapterType
  <2>4. CASE node \notin {"lidar", "state"}
    BY <1>1, <2>1, <2>4 DEF PaceInv, AdapterType, Allows
  <2>5. QED
    BY <2>2, <2>3, <2>4
<1>4. QED
  BY <1>2, <1>3 DEF Sample

\* what a clock does to the ages: t of true time, d of the wall clock
LEMMA TimePaces ==
  ASSUME AdapterType, AdapterType', PaceInv, NEW d \in Int, NEW t \in {0, 1},
         last_pub' = Later(last_pub, d), before' = Later(before, d),
         slot' = Sooner(slot, d), quiet' = Later(quiet, t),
         t <= d \/ stepped' = stepped + t - d, stepped' >= stepped, node' = node
  PROVE  PaceInv'
<1> USE AgeAssumption, AdapterAssumption
<1>1. /\ last_pub' = None <=> last_pub = None
      /\ before' = None <=> before = None
      /\ slot' = None <=> slot = None
      /\ quiet' = None <=> quiet = None
      /\ last_pub' # None => last_pub' <= FORGET
      /\ quiet' # None => quiet' <= FORGET
  BY DEF AdapterType, TrueAge, Later, Sooner
<1>2. ASSUME node = "lidar", quiet # None PROVE quiet' <= last_pub' + stepped'
  BY <1>1, <1>2 DEF AdapterType, PaceInv, TrueAge, Later
<1>3. ASSUME node = "state", slot # None
      PROVE  slot' + quiet' <= PERIOD + stepped' /\ last_pub' + slot' >= 0
  <2>1. quiet # None /\ last_pub # None
    BY <1>3 DEF PaceInv
  <2>2. slot + quiet <= PERIOD + stepped /\ last_pub + slot >= 0
    BY <1>3 DEF PaceInv
  <2>3. slot' + quiet' <= PERIOD + stepped'
    BY <1>3, <2>1, <2>2 DEF AdapterType, TrueAge, Later, Sooner
  <2>4. last_pub' + slot' >= 0
    BY <1>3, <2>1, <2>2 DEF AdapterType, Later, Sooner
  <2>5. QED
    BY <2>3, <2>4
<1>4. ASSUME node = "lidar", before # None
      PROVE  before' >= FORGET - stepped' \/ before' >= last_pub' + PERIOD
  <2>1. last_pub # None /\ (before >= FORGET - stepped \/ before >= last_pub + PERIOD)
    BY <1>4 DEF PaceInv
  <2>2. QED
    BY <1>4, <2>1 DEF AdapterType, Later
<1>5. ASSUME node = "state", before # None
      PROVE  before' >= FORGET - stepped' \/ before' + slot' >= PERIOD
  <2>1. slot # None /\ (before >= FORGET - stepped \/ before + slot >= PERIOD)
    BY <1>5 DEF PaceInv
  <2>2. QED
    BY <1>5, <2>1 DEF AdapterType, Later, Sooner
<1>6. QED
  BY <1>1, <1>2, <1>3, <1>4, <1>5 DEF PaceInv

(* A throttle refuses no longer than its period and what the wall clock    *)
(* was stepped back, and never catches up (_on_cloud, Throttle.allow).     *)
THEOREM ThrottlesPace == AdapterSpec => []ThrottlePaces
<1> USE AgeAssumption, AdapterAssumption
<1>1. AdapterInit => PaceInv
  BY DEF AdapterInit, PaceInv
<1>2. AdapterType /\ AdapterType' /\ PaceInv /\ [AdapterNext]_adapterVars => PaceInv'
  <2> SUFFICES ASSUME AdapterType, AdapterType', PaceInv, [AdapterNext]_adapterVars
               PROVE  PaceInv'
    OBVIOUS
  <2> DEFINE pace == <<node, last_pub, slot, before, quiet, stepped>>
  <2>1. ASSUME NEW delay \in 0..MAX_DELAY, Sample(delay) PROVE PaceInv'
    BY <2>1, SamplePaces
  <2>2. CASE NodeRestarts
    BY <2>2 DEF NodeRestarts, PaceInv
  <2>3. CASE TimePasses
    <3>1. /\ last_pub' = Later(last_pub, 1) /\ before' = Later(before, 1)
          /\ slot' = Sooner(slot, 1) /\ quiet' = Later(quiet, 1)
          /\ stepped' = stepped /\ node' = node
      BY <2>3 DEF TimePasses, WallElapse, worldVars
    <3>2. stepped' >= stepped
      BY <3>1 DEF AdapterType
    <3>3. QED
      BY <3>1, <3>2, TimePaces
  <2>4. ASSUME NEW d \in Steps, HostSteps(d) PROVE PaceInv'
    <3>1. /\ last_pub' = Later(last_pub, d) /\ before' = Later(before, d)
          /\ slot' = Sooner(slot, d) /\ node' = node /\ quiet' = quiet
          /\ stepped' = IF d < 0 THEN stepped - d ELSE stepped
      BY <2>4 DEF HostSteps, WallElapse
    <3>2. d \in Int /\ stepped' >= stepped /\ (0 <= d \/ stepped' = stepped + 0 - d)
      BY <3>1 DEF AdapterType
    <3>3. quiet' = Later(quiet, 0)
      BY <3>1 DEF Later, AdapterType, TrueAge, PaceInv
    <3>4. QED
      BY <3>1, <3>2, <3>3, TimePaces
  <2>5. CASE UNCHANGED pace
    BY <2>5 DEF PaceInv
  <2>6. OnMsg \/ LinkTick \/ UNCHANGED adapterVars => UNCHANGED pace
    BY DEF OnMsg, LinkTick, adapterVars, relayVars, worldVars
  <2>7. ASSUME NEW d \in Steps, RobotSteps(d) PROVE UNCHANGED pace
    BY <2>7 DEF RobotSteps, relayVars
  <2>8. QED
    BY <2>1, <2>2, <2>3, <2>4, <2>5, <2>6, <2>7 DEF AdapterNext
<1>3. AdapterType /\ PaceInv => ThrottlePaces
  <2> SUFFICES ASSUME AdapterType, PaceInv PROVE ThrottlePaces
    OBVIOUS
  <2>1. ASSUME quiet # None, ~Allows PROVE quiet < PERIOD + stepped
    BY <2>1 DEF PaceInv, AdapterType, Allows, GapOver, SlotOpen, TrueAge
  <2>2. ASSUME node # "clock_offset", Allows, before # None PROVE before >= PERIOD
    <3>1. last_pub # None /\ FORGET - stepped >= PERIOD
      BY <2>2 DEF PaceInv, AdapterType
    <3>2. CASE node = "lidar"
      BY <2>2, <3>1, <3>2 DEF PaceInv, AdapterType, Allows, GapOver
    <3>3. CASE node = "state"
      BY <2>2, <3>1, <3>3 DEF PaceInv, AdapterType, Allows, SlotOpen
    <3>4. QED
      BY <2>2, <3>2, <3>3 DEF Allows
  <2>3. QED
    BY <2>1, <2>2 DEF ThrottlePaces
<1>4. QED
  BY <1>1, <1>2, <1>3, AdapterTyped, PTL DEF AdapterSpec

-----------------------------------------------------------------------------
\* what a clock does to the watchdog's ages
LEMMA TimeLinks ==
  ASSUME AdapterType, LinkInv, NEW d \in Int, NEW t \in {0, 1},
         last_msg' = Later(last_msg, d), silent' = Later(silent, t),
         unsaid' = Later(unsaid, t), link_ok' = link_ok,
         t <= d \/ stepped' = stepped + t - d, stepped' >= stepped, stepped' \in Nat
  PROVE  LinkInv'
<1> USE AgeAssumption, AdapterAssumption
<1>1. silent' # None => silent' <= FORGET
  BY DEF AdapterType, TrueAge, Later
<1>2. ASSUME last_msg' # None PROVE silent' # None /\ silent' <= last_msg' + stepped'
  <2>1. last_msg # None
    BY <1>2 DEF Later
  <2>2. silent # None /\ silent <= last_msg + stepped
    BY <2>1 DEF LinkInv
  <2>3. last_msg \in Int /\ silent \in Nat /\ stepped \in Nat
    BY <2>1, <2>2 DEF AdapterType, TrueAge
  <2>4. silent' # None /\ silent' <= FORGET /\ silent' <= silent + t /\ silent' \in Int
    BY <2>2, <2>3 DEF Later
  <2>5. last_msg' = FORGET \/ last_msg' = last_msg + d
    BY <2>1 DEF Later
  <2>6. QED
    BY <2>2, <2>3, <2>4, <2>5
<1>3. ASSUME link_ok'
      PROVE  silent' # None /\ unsaid' # None /\ silent' <= STALE_TIMEOUT + unsaid' + stepped'
  <2>1. silent # None /\ unsaid # None /\ silent <= STALE_TIMEOUT + unsaid + stepped
    BY <1>3 DEF LinkInv
  <2>2. QED
    BY <2>1 DEF AdapterType, TrueAge, Later
<1>4. QED
  BY <1>1, <1>2, <1>3 DEF LinkInv

(* link_ok is TRUE no longer after the last message than the timeout, the  *)
(* time since it was said and what the wall clock was stepped back         *)
(* (LinkWatchdogNode._tick).                                               *)
THEOREM LinkLossNoticed == AdapterSpec => []LinkLossIsNoticed
<1> USE AgeAssumption, AdapterAssumption
<1>1. AdapterInit => LinkInv
  BY DEF AdapterInit, LinkInv
<1>2. AdapterType /\ AdapterType' /\ LinkInv /\ [AdapterNext]_adapterVars => LinkInv'
  <2> SUFFICES ASSUME AdapterType, AdapterType', LinkInv, [AdapterNext]_adapterVars
               PROVE  LinkInv'
    OBVIOUS
  <2> DEFINE link == <<linkVars, stepped>>
  <2>1. CASE OnMsg
    <3>1. /\ last_msg' = 0 /\ silent' = 0 /\ link_ok' = link_ok /\ unsaid' = unsaid
          /\ stepped' = stepped /\ stepped \in Nat /\ silent' \in Nat
      BY <2>1 DEF OnMsg, worldVars, AdapterType
    <3>2. ASSUME link_ok PROVE unsaid # None /\ silent' <= STALE_TIMEOUT + unsaid + stepped
      <4>1. unsaid \in Nat
        BY <3>2 DEF LinkInv, AdapterType, TrueAge
      <4>2. QED
        BY <3>1, <4>1
    <3>3. 0 <= FORGET /\ 0 <= 0 + stepped
      BY <3>1
    <3>4. QED
      BY <3>1, <3>2, <3>3 DEF LinkInv
  <2>2. CASE LinkTick
    <3>1. /\ link_ok' = Alive /\ unsaid' = 0 /\ last_msg' = last_msg /\ silent' = silent
          /\ stepped' = stepped
      BY <2>2 DEF LinkTick, worldVars
    <3>2. ASSUME link_ok' PROVE silent # None /\ silent <= STALE_TIMEOUT + 0 + stepped
      <4>1. last_msg # None /\ last_msg <= STALE_TIMEOUT
        BY <3>1, <3>2 DEF Alive
      <4>2. silent # None /\ silent <= last_msg + stepped
        BY <4>1 DEF LinkInv
      <4>3. last_msg \in Int /\ silent \in Nat /\ stepped \in Nat
        BY <4>1, <4>2 DEF AdapterType, TrueAge
      <4>4. QED
        BY <4>1, <4>2, <4>3
    <3>3. QED
      BY <3>1, <3>2 DEF LinkInv
  <2>3. CASE NodeRestarts
    BY <2>3 DEF NodeRestarts, LinkInv
  <2>4. CASE TimePasses
    <3>1. /\ last_msg' = Later(last_msg, 1) /\ silent' = Later(silent, 1)
          /\ unsaid' = Later(unsaid, 1) /\ link_ok' = link_ok /\ stepped' = stepped
      BY <2>4 DEF TimePasses, WallElapse, worldVars
    <3>2. stepped' >= stepped /\ stepped' \in Nat
      BY <3>1 DEF AdapterType
    <3>3. QED
      BY <3>1, <3>2, TimeLinks
  <2>5. ASSUME NEW d \in Steps, HostSteps(d) PROVE LinkInv'
    <3>1. /\ last_msg' = Later(last_msg, d) /\ link_ok' = link_ok
          /\ silent' = silent /\ unsaid' = unsaid
          /\ stepped' = IF d < 0 THEN stepped - d ELSE stepped
      BY <2>5 DEF HostSteps, WallElapse
    <3>2. d \in Int /\ stepped \in Nat /\ stepped' \in Nat /\ stepped' >= stepped
      BY <3>1 DEF AdapterType
    <3>3. ASSUME last_msg' # None PROVE silent # None /\ silent <= last_msg' + stepped'
      <4>1. last_msg # None /\ last_msg \in Int /\ last_msg' = Later(last_msg, d)
        BY <3>1, <3>3 DEF Later, AdapterType
      <4>2. silent # None /\ silent <= last_msg + stepped /\ silent <= FORGET /\ silent \in Int
        BY <4>1 DEF LinkInv, AdapterType, TrueAge
      <4>3. silent <= last_msg' + stepped'
        BY <3>1, <3>2, <4>1, <4>2 DEF Later
      <4>4. QED
        BY <4>2, <4>3
    <3>4. ASSUME link_ok' PROVE silent <= STALE_TIMEOUT + unsaid + stepped'
      BY <3>1, <3>2, <3>4 DEF LinkInv, AdapterType, TrueAge
    <3>5. QED
      BY <3>1, <3>3, <3>4 DEF LinkInv
  <2>6. CASE UNCHANGED link
    BY <2>6 DEF LinkInv, linkVars
  <2>7. ASSUME NEW delay \in 0..MAX_DELAY, Sample(delay) PROVE UNCHANGED link
    BY <2>7 DEF Sample, worldVars
  <2>8. ASSUME NEW d \in Steps, RobotSteps(d) PROVE UNCHANGED link
    BY <2>8 DEF RobotSteps
  <2>9. UNCHANGED adapterVars => UNCHANGED link
    BY DEF adapterVars, worldVars
  <2>10. QED
    BY <2>1, <2>2, <2>3, <2>4, <2>5, <2>6, <2>7, <2>8, <2>9 DEF AdapterNext
<1>3. LinkInv => LinkLossIsNoticed
  BY DEF LinkInv, LinkLossIsNoticed
<1>4. QED
  BY <1>1, <1>2, <1>3, AdapterTyped, PTL DEF AdapterSpec

-----------------------------------------------------------------------------
(* The arbitration.                                                        *)
ArbiterType ==
  /\ last_stamp \in Age /\ raw_true \in TrueAge
  /\ copied \in [cmd : Int \cup {NonFinite}, stamp : Age, true : TrueAge] \cup {None}
  /\ last_cmd \in Int \cup {NonFinite}
  /\ joy_stamp \in Int /\ stick_true \in Nat
  /\ ahead \in Nat /\ behind \in Nat

\* a true age exceeds the code's by what the clock was stepped back
Aged(stamp, true) ==
  /\ true # None => true <= FORGET
  /\ stamp # None => true # None /\ true <= stamp + behind

GuardInv ==
  /\ Aged(last_stamp, raw_true)
  /\ copied # None => Aged(copied.stamp, copied.true)

\* the code's exceeds the true age by what it was stepped ahead
StickInv == joy_stamp <= stick_true + ahead /\ joy_stamp <= FORGET

-----------------------------------------------------------------------------
LEMMA CopyType ==
  ASSUME ArbiterType, NEW d \in Int, NEW t \in Nat, CopyMoves(d, t)
  PROVE  copied' \in [cmd : Int \cup {NonFinite}, stamp : Age, true : TrueAge] \cup {None}
<1>1. CASE copied = None
  BY <1>1 DEF CopyMoves
<1>2. CASE copied # None
  <2>1. copied \in [cmd : Int \cup {NonFinite}, stamp : Age, true : TrueAge]
    BY <1>2 DEF ArbiterType
  <2>2. Later(copied.stamp, d) \in Age /\ Later(copied.true, t) \in TrueAge
    BY <2>1, LaterType, LaterTrue
  <2>3. copied' = [copied EXCEPT !.stamp = Later(copied.stamp, d), !.true = Later(copied.true, t)]
    BY <1>2 DEF CopyMoves
  <2>4. QED
    BY <2>1, <2>2, <2>3
<1>3. QED
  BY <1>1, <1>2

LEMMA ArbiterTyped == ArbiterSpec => []ArbiterType
<1> USE AgeAssumption, ArbiterAssumption
<1>1. ArbiterInit => ArbiterType
  BY DEF ArbiterInit, ArbiterType, TrueAge
<1>2. ArbiterType /\ [ArbiterNext]_arbiterVars => ArbiterType'
  <2> SUFFICES ASSUME ArbiterType, [ArbiterNext]_arbiterVars PROVE ArbiterType'
    OBVIOUS
  <2>1. ASSUME NEW twist \in Raws, OnRawCmd(twist) PROVE ArbiterType'
    BY <2>1 DEF ArbiterType, OnRawCmd, TrueAge, stickVars, jumpVars
  <2>2. ASSUME NEW twist \in Sticks, OnStick(twist) PROVE ArbiterType'
    BY <2>2 DEF ArbiterType, OnStick, Squelch, guardVars, jumpVars
  <2>3. CASE GuardDisabled
    BY <2>3 DEF ArbiterType, GuardDisabled, guardVars, stickVars, jumpVars
  <2>4. CASE GuardCopies
    BY <2>4 DEF ArbiterType, GuardCopies, stickVars, jumpVars
  <2>5. CASE GuardPublishes
    BY <2>5 DEF ArbiterType, GuardPublishes, stickVars, jumpVars
  <2>6. ASSUME NEW locked \in BOOLEAN, EstopLock(locked) PROVE ArbiterType'
    BY <2>6 DEF ArbiterType, EstopLock, guardVars, stickVars, jumpVars
  <2>7. CASE RosTimeRuns
    <3>1. /\ last_stamp' \in Age /\ raw_true' \in TrueAge
          /\ copied' \in [cmd : Int \cup {NonFinite}, stamp : Age, true : TrueAge] \cup {None}
      BY <2>7, LaterType, LaterTrue, CopyType DEF RosTimeRuns, AgesMove, ArbiterType
    <3>2. joy_stamp' \in Int /\ stick_true' \in Nat
      BY <2>7 DEF RosTimeRuns, AgesMove, ArbiterType, Later
    <3>3. QED
      BY <2>7, <3>1, <3>2 DEF RosTimeRuns, ArbiterType, jumpVars
  <2>8. ASSUME NEW d \in JUMPS, RosTimeSteps(d) PROVE ArbiterType'
    <3>1. d \in Int
      OBVIOUS
    <3>2. /\ last_stamp' \in Age
          /\ copied' \in [cmd : Int \cup {NonFinite}, stamp : Age, true : TrueAge] \cup {None}
      BY <2>8, <3>1, LaterType, CopyType DEF RosTimeSteps, AgesMove, ArbiterType
    <3>3. joy_stamp' \in Int
      BY <2>8, <3>1 DEF RosTimeSteps, AgesMove, ArbiterType, Later
    <3>4. ahead' \in Nat /\ behind' \in Nat
      BY <2>8, <3>1 DEF RosTimeSteps, ArbiterType
    <3>5. QED
      BY <2>8, <3>2, <3>3, <3>4 DEF RosTimeSteps, ArbiterType
  <2>9. CASE UNCHANGED arbiterVars
    BY <2>9 DEF ArbiterType, arbiterVars, guardVars, stickVars, jumpVars
  <2>10. QED
    BY <2>1, <2>2, <2>3, <2>4, <2>5, <2>6, <2>7, <2>8, <2>9 DEF ArbiterNext
<1>3. QED
  BY <1>1, <1>2, PTL DEF ArbiterSpec

-----------------------------------------------------------------------------
\* t of true time and d of ROS wall time keep an aged pair aged
LEMMA AgedMoves ==
  ASSUME NEW stamp \in Age, NEW true \in TrueAge, NEW d \in Int, NEW t \in {0, 1},
         behind \in Nat, behind' \in Nat, Aged(stamp, true),
         behind' >= behind, t <= d \/ behind' = behind + t - d
  PROVE  /\ Later(true, t) # None => Later(true, t) <= FORGET
         /\ Later(stamp, d) # None =>
              Later(true, t) # None /\ Later(true, t) <= Later(stamp, d) + behind'
<1>1. Later(true, t) # None => Later(true, t) <= FORGET
  BY LaterType DEF TrueAge
<1>2. ASSUME Later(stamp, d) # None
      PROVE  Later(true, t) # None /\ Later(true, t) <= Later(stamp, d) + behind'
  <2>1. stamp # None
    BY <1>2 DEF Later
  <2>2. stamp \in Int /\ true \in Nat /\ true <= stamp + behind
    BY <2>1 DEF Aged, TrueAge
  <2>3. /\ Later(true, t) # None /\ Later(true, t) \in Int
        /\ Later(true, t) <= FORGET /\ Later(true, t) <= true + t
    BY <2>2, AgeAssumption DEF Later
  <2>4. Later(stamp, d) = FORGET \/ Later(stamp, d) = stamp + d
    BY <2>1 DEF Later
  <2>5. QED
    BY <2>2, <2>3, <2>4, AgeAssumption
<1>3. QED
  BY <1>1, <1>2

\* a move of the clocks keeps the guard's pairs aged
LEMMA GuardMoves ==
  ASSUME ArbiterType, ArbiterType', GuardInv, NEW d \in Int, NEW t \in {0, 1},
         last_stamp' = Later(last_stamp, d), raw_true' = Later(raw_true, t), CopyMoves(d, t),
         behind' >= behind, t <= d \/ behind' = behind + t - d
  PROVE  GuardInv'
<1>1. behind \in Nat /\ behind' \in Nat
  BY DEF ArbiterType
<1>2. Aged(last_stamp, raw_true)'
  <2>1. last_stamp \in Age /\ raw_true \in TrueAge /\ Aged(last_stamp, raw_true)
    BY DEF ArbiterType, GuardInv
  <2>2. QED
    BY <1>1, <2>1, AgedMoves DEF Aged
<1>3. ASSUME copied' # None PROVE Aged(copied.stamp, copied.true)'
  <2>1. copied # None
    BY <1>3 DEF CopyMoves
  <2>2. copied \in [cmd : Int \cup {NonFinite}, stamp : Age, true : TrueAge]
    BY <2>1 DEF ArbiterType
  <2>3. copied.stamp \in Age /\ copied.true \in TrueAge /\ Aged(copied.stamp, copied.true)
    BY <2>1, <2>2 DEF GuardInv
  <2>4. copied'.stamp = Later(copied.stamp, d) /\ copied'.true = Later(copied.true, t)
    BY <2>1, <2>2 DEF CopyMoves
  <2>5. QED
    BY <1>1, <2>3, <2>4, AgedMoves DEF Aged
<1>4. QED
  BY <1>2, <1>3 DEF GuardInv

(* cmd_guard drives only on a command that is younger than its watchdog    *)
(* and what ROS wall time was stepped back, although it decides on a copy  *)
(* and later commands may overtake it (_build_safe_cmd).                   *)
THEOREM GuardedFresh == ArbiterSpec => []GuardedIsFresh
<1> USE AgeAssumption, ArbiterAssumption
<1>1. ArbiterInit => GuardInv
  BY DEF ArbiterInit, GuardInv, Aged
<1>2. ArbiterType /\ ArbiterType' /\ GuardInv /\ [ArbiterNext]_arbiterVars => GuardInv'
  <2> SUFFICES ASSUME ArbiterType, ArbiterType', GuardInv, [ArbiterNext]_arbiterVars
               PROVE  GuardInv'
    OBVIOUS
  <2> DEFINE guard == <<last_stamp, raw_true, copied, behind>>
  <2>1. ASSUME NEW twist \in Raws, OnRawCmd(twist) PROVE GuardInv'
    <3>1. /\ last_stamp' = 0 /\ raw_true' = 0 /\ copied' = copied /\ behind' = behind
          /\ behind \in Nat
      BY <2>1 DEF OnRawCmd, jumpVars, ArbiterType
    <3>2. QED
      BY <3>1 DEF GuardInv, Aged
  <2>2. CASE GuardCopies
    <3>1. /\ copied'.stamp = last_stamp /\ copied'.true = raw_true
          /\ UNCHANGED <<last_stamp, raw_true, behind>>
      BY <2>2 DEF GuardCopies, jumpVars
    <3>2. QED
      BY <3>1 DEF GuardInv, Aged
  <2>3. CASE GuardPublishes
    BY <2>3 DEF GuardPublishes, GuardInv, Aged, jumpVars
  <2>4. CASE RosTimeRuns
    <3>1. /\ last_stamp' = Later(last_stamp, 1) /\ raw_true' = Later(raw_true, 1)
          /\ CopyMoves(1, 1) /\ behind' = behind
      BY <2>4 DEF RosTimeRuns, AgesMove, jumpVars
    <3>2. behind' >= behind
      BY <3>1 DEF ArbiterType
    <3>3. QED
      BY <3>1, <3>2, GuardMoves
  <2>5. ASSUME NEW d \in JUMPS, RosTimeSteps(d) PROVE GuardInv'
    <3>1. /\ last_stamp' = Later(last_stamp, d) /\ raw_true' = raw_true /\ CopyMoves(d, 0)
          /\ behind' = IF d < 0 THEN behind - d ELSE behind
      BY <2>5 DEF RosTimeSteps, AgesMove
    <3>2. d \in Int /\ behind \in Nat
      BY DEF ArbiterType
    <3>3. behind' >= behind /\ (0 <= d \/ behind' = behind + 0 - d)
      BY <3>1, <3>2
    <3>4. raw_true' = Later(raw_true, 0)
      <4>1. CASE raw_true = None
        BY <3>1, <4>1 DEF Later
      <4>2. CASE raw_true # None
        <5>1. raw_true \in Nat /\ raw_true <= FORGET
          BY <4>2 DEF ArbiterType, TrueAge, GuardInv, Aged
        <5>2. QED
          BY <3>1, <5>1 DEF Later
      <4>3. QED
        BY <4>1, <4>2
    <3>5. QED
      BY <3>1, <3>2, <3>3, <3>4, GuardMoves
  <2>6. CASE UNCHANGED guard
    BY <2>6 DEF GuardInv, Aged
  <2>7. GuardDisabled \/ UNCHANGED arbiterVars => UNCHANGED guard
    BY DEF GuardDisabled, arbiterVars, guardVars, jumpVars
  <2>8. ASSUME NEW twist \in Sticks, OnStick(twist) PROVE UNCHANGED guard
    BY <2>8 DEF OnStick, guardVars, jumpVars
  <2>9. ASSUME NEW locked \in BOOLEAN, EstopLock(locked) PROVE UNCHANGED guard
    BY <2>9 DEF EstopLock, guardVars, jumpVars
  <2>10. QED
    BY <2>1, <2>2, <2>3, <2>4, <2>5, <2>6, <2>7, <2>8, <2>9 DEF ArbiterNext
<1>3. ArbiterType /\ GuardInv => GuardedIsFresh
  <2> SUFFICES ASSUME ArbiterType, GuardInv, copied # None, SafeCmd # 0
               PROVE  copied.true <= WATCHDOG_TIMEOUT + behind
    BY DEF GuardedIsFresh
  <2>1. copied \in [cmd : Int \cup {NonFinite}, stamp : Age, true : TrueAge]
    BY DEF ArbiterType
  <2>2. copied.stamp # None /\ ~(copied.stamp > WATCHDOG_TIMEOUT)
    BY DEF SafeCmd
  <2>3. copied.stamp \in Int /\ copied.true \in Nat /\ copied.true <= copied.stamp + behind
    BY <2>1, <2>2 DEF GuardInv, Aged, TrueAge
  <2>4. QED
    BY <2>2, <2>3 DEF ArbiterType
<1>4. QED
  BY <1>1, <1>2, <1>3, ArbiterTyped, PTL DEF ArbiterSpec

-----------------------------------------------------------------------------
(* The ROS 2 path has priority only when the stick was at rest for the     *)
(* mux's timeout, less what ROS wall time was stepped ahead (cb).          *)
THEOREM StickObeyed == ArbiterSpec => []StickIsObeyed
<1> USE AgeAssumption, ArbiterAssumption
<1>1. ArbiterInit => StickInv
  BY DEF ArbiterInit, StickInv
<1>2. ArbiterType /\ StickInv /\ [ArbiterNext]_arbiterVars => StickInv'
  <2> SUFFICES ASSUME ArbiterType, StickInv, [ArbiterNext]_arbiterVars PROVE StickInv'
    OBVIOUS
  <2> DEFINE stick == <<joy_stamp, stick_true, ahead>>
  <2>1. ASSUME NEW twist \in Sticks, OnStick(twist) PROVE StickInv'
    <3>1. Deflected(twist) => IsNonzero(twist)
      BY DEF Deflected, IsNonzero
    <3>2. ahead' = ahead /\ stick_true' = IF Deflected(twist) THEN 0 ELSE stick_true
      BY <2>1 DEF OnStick, jumpVars
    <3>3. joy_stamp' = IF Forwards(twist) THEN 0 ELSE joy_stamp
      BY <2>1 DEF OnStick, Squelch
    <3>4. CASE Deflected(twist)
      BY <3>1, <3>2, <3>3, <3>4 DEF Forwards, StickInv, ArbiterType
    <3>5. CASE ~Deflected(twist)
      BY <3>2, <3>3, <3>5 DEF StickInv, ArbiterType
    <3>6. QED
      BY <3>4, <3>5
  <2>2. CASE RosTimeRuns
    <3>1. joy_stamp' = Later(joy_stamp, 1) /\ stick_true' = Later(stick_true, 1) /\ ahead' = ahead
      BY <2>2 DEF RosTimeRuns, AgesMove, jumpVars
    <3>2. QED
      BY <3>1 DEF StickInv, ArbiterType, Later
  <2>3. ASSUME NEW d \in JUMPS, RosTimeSteps(d) PROVE StickInv'
    <3>1. /\ joy_stamp' = Later(joy_stamp, d) /\ stick_true' = stick_true
          /\ ahead' = IF d > 0 THEN ahead + d ELSE ahead
      BY <2>3 DEF RosTimeSteps, AgesMove
    <3>2. d \in Int
      OBVIOUS
    <3>3. QED
      BY <3>1, <3>2 DEF StickInv, ArbiterType, Later
  <2>4. CASE UNCHANGED stick
    BY <2>4 DEF StickInv
  <2>5. GuardDisabled \/ GuardCopies \/ GuardPublishes \/ UNCHANGED arbiterVars => UNCHANGED stick
    BY DEF GuardDisabled, GuardCopies, GuardPublishes, arbiterVars, stickVars, jumpVars
  <2>6. ASSUME NEW twist \in Raws, OnRawCmd(twist) PROVE UNCHANGED stick
    BY <2>6 DEF OnRawCmd, stickVars, jumpVars
  <2>7. ASSUME NEW locked \in BOOLEAN, EstopLock(locked) PROVE UNCHANGED stick
    BY <2>7 DEF EstopLock, stickVars, jumpVars
  <2>8. QED
    BY <2>1, <2>2, <2>3, <2>4, <2>5, <2>6, <2>7 DEF ArbiterNext
<1>3. ArbiterType /\ StickInv => StickIsObeyed
  BY DEF ArbiterType, StickInv, StickIsObeyed, HasPriority
<1>4. QED
  BY <1>1, <1>2, <1>3, ArbiterTyped, PTL DEF ArbiterSpec
=============================================================================
