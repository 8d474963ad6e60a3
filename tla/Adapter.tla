------------------------------- MODULE Adapter --------------------------------
(***************************************************************************)
(* The nodes of go2_adapter that turn the robot's stream into one on this  *)
(* host's clock, and the one that says whether the link is alive:          *)
(* clock_offset_node, lidar_adapter_node, the odom and imu paths of        *)
(* go2_state_node, and link_watchdog_node.  They share nothing but the two *)
(* clocks, so a behaviour follows one of them.  Samples arrive after a     *)
(* delay or not at all; the robot's clock and the host's wall clock step   *)
(* (a power cycle, drift, NTP).                                            *)
(***************************************************************************)
EXTENDS ClockOffset

CONSTANTS
  Nodes,            \* within {"clock_offset", "lidar", "state", "watchdog"}
  PERIOD,           \* min_period_s, or that of a Throttle
  STALE_TIMEOUT,    \* of the watchdog
  MAX_DELAY,        \* of a sample on its way
  Steps,            \* by how much a clock may step
  MAX_STEPS, MAX_BACK, MAX_RESTARTS

ASSUME AdapterAssumption ==
  /\ PERIOD \in Nat \ {0}
  /\ {STALE_TIMEOUT, MAX_DELAY, MAX_STEPS, MAX_BACK, MAX_RESTARTS} \subseteq Nat
  /\ Steps \subseteq Int
  /\ FORGET >= PERIOD + MAX_BACK

VARIABLES
  node,
  last_pub,         \* age of _last_pub_s: this node's last publication
  slot,             \* what is left until Throttle.next_t
  last_msg,         \* age of the watchdog's _last_msg_s
  link_ok,          \* what the watchdog last published
  true_offset,      \* host's clock minus the robot's
  steps, stepped,   \* how often clocks stepped; how far the host's went back
  restarts,
  wrong,            \* observer: wrong stamps sent since a sample showed the offset right
  before,           \* observer: wall age of the publication before the last
  quiet,            \* observer: true time since the last publication
  silent,           \* observer: true time since the watchdog's last message
  unsaid            \* observer: true time since link_ok was published

relayVars == <<clockVars, last_pub, slot, wrong, before, quiet>>
linkVars == <<last_msg, link_ok, silent, unsaid>>
worldVars == <<node, true_offset, steps, stepped, restarts>>
adapterVars == <<relayVars, linkVars, worldVars>>

AdapterInit ==
  /\ node \in Nodes
  /\ ClockInit
  /\ last_pub = None /\ slot = None
  /\ last_msg = None /\ link_ok = FALSE
  /\ true_offset = 0
  /\ steps = 0 /\ stepped = 0 /\ restarts = 0
  /\ wrong = 0 /\ before = None /\ quiet = None /\ silent = None /\ unsaid = None

-----------------------------------------------------------------------------
(* A sample of the node's stream.                                          *)
GapOver == last_pub # None => last_pub >= PERIOD

SlotOpen == slot # None => slot <= 0

\* fell behind by more than a period: resynchronise, do not catch up
NextSlot_mutant == IF slot = None THEN PERIOD ELSE slot + PERIOD

NextSlot == IF slot = None \/ -slot > PERIOD THEN PERIOD ELSE slot + PERIOD

Allows ==
  \/ node = "clock_offset"
  \/ node = "lidar" /\ GapOver
  \/ node = "state" /\ SlotOpen

\* the stamp published would be off by more than the estimator can tell
Wrong ==
  clock # "CONVERGING" /\ \/ offset - true_offset > STEP_THRESHOLD + MAX_DELAY
                          \/ true_offset - offset > STEP_THRESHOLD + MAX_DELAY

Publish ==
  /\ clock' = "CONVERGED" /\ Allows
  /\ last_pub' = 0
  /\ slot' = IF node = "state" THEN NextSlot ELSE slot
  /\ before' = last_pub /\ quiet' = 0
  /\ wrong' = IF Wrong' THEN wrong + 1 ELSE 0

\* the time is taken before the throttle is asked
Drop_mutant ==
  /\ clock' # "CONVERGED" \/ ~Allows
  /\ last_pub' = 0
  /\ wrong' = IF Wrong' THEN wrong ELSE 0
  /\ UNCHANGED <<slot, before, quiet>>

Drop ==
  /\ clock' # "CONVERGED" \/ ~Allows
  /\ wrong' = IF Wrong' THEN wrong ELSE 0
  /\ UNCHANGED <<last_pub, slot, before, quiet>>

Sample(delay) ==
  /\ node # "watchdog"
  /\ Add(true_offset + delay)
  /\ UNCHANGED <<linkVars, worldVars>>
  /\ Publish \/ Drop

-----------------------------------------------------------------------------
(* The watchdog.                                                           *)
OnMsg ==
  /\ node = "watchdog"
  /\ last_msg' = 0 /\ silent' = 0
  /\ UNCHANGED <<relayVars, worldVars, link_ok, unsaid>>

Alive_mutant == last_msg # None

Alive == last_msg # None /\ last_msg <= STALE_TIMEOUT

LinkTick ==
  /\ node = "watchdog"
  /\ link_ok' = Alive /\ unsaid' = 0
  /\ UNCHANGED <<relayVars, worldVars, last_msg, silent>>

-----------------------------------------------------------------------------
(* Processes and clocks.                                                   *)
NodeRestarts ==
  /\ restarts < MAX_RESTARTS
  /\ restarts' = restarts + 1
  /\ ClockReset
  /\ last_pub' = None /\ slot' = None
  /\ last_msg' = None /\ link_ok' = FALSE
  /\ wrong' = 0 /\ before' = None /\ quiet' = None /\ silent' = None /\ unsaid' = None
  /\ UNCHANGED <<node, true_offset, steps, stepped>>

WallElapse(d) ==
  /\ last_pub' = Later(last_pub, d)
  /\ before' = Later(before, d)
  /\ slot' = Sooner(slot, d)
  /\ last_msg' = Later(last_msg, d)

TimePasses ==
  /\ WallElapse(1)
  /\ quiet' = Later(quiet, 1) /\ silent' = Later(silent, 1) /\ unsaid' = Later(unsaid, 1)
  /\ UNCHANGED <<clockVars, link_ok, wrong, worldVars>>

HostSteps(d) ==
  /\ steps < MAX_STEPS
  /\ steps' = steps + 1
  /\ stepped' = IF d < 0 THEN stepped - d ELSE stepped
  /\ stepped' <= MAX_BACK
  /\ true_offset' = true_offset + d
  /\ WallElapse(d)
  /\ UNCHANGED <<clockVars, node, link_ok, restarts, wrong, quiet, silent, unsaid>>

RobotSteps(d) ==    \* a power cycle, or drift
  /\ steps < MAX_STEPS
  /\ steps' = steps + 1
  /\ true_offset' = true_offset - d
  /\ UNCHANGED <<relayVars, linkVars, node, stepped, restarts>>

AdapterNext ==
  \/ \E delay \in 0..MAX_DELAY : Sample(delay)
  \/ OnMsg \/ LinkTick \/ NodeRestarts \/ TimePasses
  \/ \E d \in Steps : HostSteps(d) \/ RobotSteps(d)

AdapterSpec == AdapterInit /\ [][AdapterNext]_adapterVars

-----------------------------------------------------------------------------
(* However the clocks step, the window of a converging estimator included, *)
(* a node sends at most STEP_CONSECUTIVE stamps that are wrong by more     *)
(* than the threshold and a delay before it faults and falls silent, or    *)
(* the offset is right again (ClockOffsetEstimator.add).                   *)
WrongStampsAreFew == wrong <= STEP_CONSECUTIVE

(* A throttle refuses samples no longer than its period and what the wall  *)
(* clock was stepped back, so it cannot silence a stream for good; and it  *)
(* does not catch up after a gap: when it lets a sample through, the       *)
(* publication before the last is a period old (_on_cloud, Throttle.allow).*)
ThrottlePaces ==
  /\ quiet # None /\ ~Allows => quiet < PERIOD + stepped
  /\ node # "clock_offset" /\ Allows /\ before # None => before >= PERIOD

(* link_ok is TRUE no longer after the last message than the timeout, the  *)
(* time since it was published and what the wall clock was stepped back    *)
(* (_on_msg, _tick).                                                       *)
LinkLossIsNoticed ==
  link_ok => silent # None /\ silent <= STALE_TIMEOUT + unsaid + stepped
=============================================================================
