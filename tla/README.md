# hexapod_bridge_go2: formal models, checks and proofs

The repository drives a Unitree Go2 from a hexapod. Commands cross from ROS 1 to
ROS 2, a *bridge* turns them into requests of the robot's sport service, and a
feedback channel carries the robot's state back. A mistake here makes a robot
walk, so the code is built from small pure cores wrapped in thin ROS nodes. The
modules of this directory model those cores and the nodes around them.

## 1. Inventory

| Component | State it keeps | Operations | Talks to |
|---|---|---|---|
| `go2_cmd_bridge` (`bridge_core.py`, `bridge_node.py`) | state, engaged, geofence origin, last command with arrival and stamp, telemetry with arrivals, guards, StandDown deadline | seven subscriptions' callbacks, 10 Hz `tick`, `route`, `stop_on_exit` | `/go2/cmd_vel[_stamped]`, telemetry, handset in; `/api/sport/request`, status out |
| `go2_action_bridge` (`action_core.py`, `action_node.py`) | state, telemetry, handset and foreign activity, the dance watch (sent, began, ended), `n_sends`, is the other bridge up? | callbacks, `on_trigger`, 10 Hz `tick` | `/go2/action` and telemetry in; one DANCE1 request out |
| `go2_adapter` clock and lidar (`clock_offset.py`, `clock_offset_node.py`, `lidar_adapter_node.py`) | sample window, frozen offset, run of bad samples, last publish | `add`, `rearm`, `_on_cloud` | robot clouds in, re-stamped clouds out |
| `go2_adapter` watchdog (`link_watchdog_node.py`) | last arrival | `_on_msg`, `_tick` | pose in, `/go2/link_ok` out |
| `go2_adapter` state node (`state_core.py`, `go2_state_node.py`) | last sport/low/bridge input with arrivals, motion history and debounce, two throttles, two offsets | callbacks, 5 Hz `status` | telemetry and the bridge's status in; `/go2/robot_status`, odom, imu out |
| hexapod feedback checker (`go2_feedback_core.py`, `go2_feedback_check.py`) | sent stamps, newest stamp, last status | `next_stamp`, `send`, `on_status`, `evaluate`, `preflight` | sends `/go2/cmd_vel_stamped`, reads `/go2/robot_status` |
| `go2_teleop` | keys down, pending releases, orphan releases, zero burst, latch | `press`, `release`, `stop`, `tick` | X11 keys and the bridge's status in; `/go2/cmd_vel` out |
| hexapod arbitration (`cmd_guard`, `cmd_vel_squelch`, external twist_mux) | last command and arrival; last activity | callbacks and a 20 Hz loop | joystick and ROS 2 commands in, `/cmd_vel` out |
| `cmd_vel_profile` | script position, latched bridge status, signal flag | preflight, a Twist per step, abort with three zeros | the bridge's status in; `/go2/cmd_vel` out |
| `go2_sport_probe` | stage position, telemetry, handset, recovery | preflight, plan, guards, abort and recovery, report | telemetry in; `/api/sport/request` out |
| `go2_thermal_watch`, `go2_dance_capture` | newest sample with its arrival, time of the last line | callbacks, one line per interval | telemetry in; an operator reads |
| `go2_unload_probe`, `go2_torque_probe` | recorded samples | capture, analysis, verdict | telemetry in; exit code |

Other recorders, offline analyses, test rigs, container and network scripts keep no
state the running system reads. They are listed in PROJECT.json and not modelled.

**What is hard.** The nodes are single-threaded executors: callbacks and timers
never overlap, but come in any order. The two rospy nodes, `cmd_guard` and
`go2_feedback_check`, have their callbacks in a second thread; the guard takes a lock,
the checker has none. What a unit test hardly reaches is what
lies between callbacks: a command that outlives its source; stamps duplicated or
out of order; telemetry that stops without any event; a timed StandDown pending
while a human takes over; a process killed while the robot walks; a subscriber
that disappears as the one StopMove is sent; a wall clock stepped by NTP, back or
ahead (every age in the code is a difference of `time.time()`); a status that crosses
two hosts and arrives late, or while the last one is being read; a Ctrl+C between a
request and the flag that records it.

**What makes each component correct.**
- velocity bridge: moves only on a fresh, finite, clamped command, inside the
  fence, with live telemetry; hands the robot over with a StopMove or for a known
  reason; once latched only ever completes its own take-down.
- action bridge: at most `max_sends` dances, each accounted for before the next,
  the lockout between two, less what the wall clock was stepped ahead; silent once
  latched.
- adapter: never publishes an unexplained wrong stamp; a fault latches.
- state node and feedback checker: RECEIVED and MOVING/STOPPED are true of the
  recent past; a dead link reads UNKNOWN.
- teleop: motion only while a key is held; after a stop only a new key press moves.
- arbitration: the joystick wins; whatever reaches `/cmd_vel` is clamped and fresh.
- scripted tools: a stage that stood the robot up sends it down again, unless the
  operator took over, and then sends nothing; a stream that is cut short ends in a
  zero; the hexapod's sender is heard by the bridge.
- probes and reports: a verdict is true of what was done to the robot, whatever
  samples were lost; a watch never shows a dead stream as the robot's state.

## 2. Modules

| Module | Models | Role |
|---|---|---|
| `Ages` | clock readings | `now - t` as an age, `None` for a reading never taken; `Later`, `Sooner` |
| `BridgeCore` | `bridge_core.BridgeCore` | one action per callback, one per exit of `tick()` |
| `CmdBridge` | `bridge_node.py` around the core | executor, `route`, exit, kill, restart, discovery, clock; the properties |
| `MotionAuthority` | abstract | what the velocity bridge promises the robot |
| `BridgeView` | abstract | what the feedback loop sees of the velocity bridge |
| `MCCmdBridge` | | values for TLC (a command is a pair, which a .cfg cannot write) |
| `AgesProofs`, `CmdBridgeProofs` | | lemmas on ages; the theorems |
| `ActionBridge` | `action_core.py`, `action_node.py` | callbacks, trigger, the cascade of `tick()`, process, clock |
| `OneShot` | abstract | what the action bridge promises |
| `ActionBridgeProofs` | | the theorems |
| `MotionDetector` | `state_core.MotionDetector` | one action per sample, over the candidate it yields |
| `Go2State` | `state_core.Go2StateCore`, `go2_state_node.py` | the inputs and the composed status |
| `FeedbackChecker` | `hexapod/go2_feedback_core.py` | sends, acceptance of statuses, the reading |
| `Feedback` | both hosts and the link | composes the two with the bridge's report; the properties |
| `FeedbackProofs` | | the theorems |
| `Teleop` | `go2_teleop.py` with the operator and the X server | key state, the window's handlers and poll; the properties |
| `TeleopProofs` | | the theorems |
| `ClockOffset` | `clock_offset.ClockOffsetEstimator` | window, frozen offset, latched fault |
| `Adapter` | the nodes of `go2_adapter` around it, their throttles, `link_watchdog_node` | samples, publications, two clocks that step, restarts; the properties |
| `Arbiter` | `cmd_guard_node`, `cmd_vel_squelch`, twist_mux (external) with the configuration in the repository | the guard's own thread, the stick, the mux, ROS time |
| `RosEnv` | `check_env` | the environment every tool checks first |
| `Profile` | `cmd_vel_profile.run_live` | preflight, stream, signals, abort |
| `SportProbe` | `go2_sport_probe.run_live` | every stage, with guards and recovery |
| `Sender` | `go2_feedback_check --send` | preflight, profiles, stamps, restarts, the relay |
| `LiveWatch` | `go2_thermal_watch`, `go2_dance_capture` | callbacks, the timed line, clock steps |
| `MotionReport` | `analyse` of `go2_sport_probe` and `cmd_vel_profile` | PM3, PM4, PV3, PV4 over a run with lost samples |
| `UnloadProbe`, `TorqueProbe` | the two probes | capture and verdict |
| `MCHelpers` | | one run for these parts, a part per behaviour |
| `RelayProofs`, `OperatorProofs`, `ProbeProofs` | | the theorems about adapter and arbitration, tools, watches and reports, probes |

`CmdBridge` EXTENDS `BridgeCore`: each node action runs one core action, routes
what it returned (`out`) onto the robot's topic (`wire`) and updates observers.

**Time.** The code keeps a clock reading per input and compares `now - t` with a
limit. The modules keep that difference. `ClockRuns` adds one to every age;
`ClockStepsBack` subtracts one (NTP or chrony stepping the host's wall clock)
and leaves the true-time observers (`newest_age`, `rested`) alone; `ActionBridge`
also has `ClockStepsAhead`, which adds one and counts it in `ahead`. An age stops
at `FORGET`, which the assumptions place beyond every limit it is compared with.
A step of the model is a callback, so any number of callbacks fit in one unit.

**Correspondence, velocity bridge.** `sport_t`, `low_t`, `cmd_t`, `standdown_at`
are `sport_age`, `low_age`, `cmd_age`, `standdown_in`; `pos_xy` is one coordinate and the hips their
maximum, since the code compares only the distance and the maximum; each
`SustainedGuard` is an entry of `over` with a shared `trip`; `reason` is wording
and left out. Moves keep both velocities. `armed` and `matched` stand for the
robot publisher's existence and its subscription count.

**Correspondence, action bridge.** `sent_t`, `dance_t`, `end_t` are `sent_age`,
`dance_age`, `end_age`; `tick` falls through SENT, DANCING, LOCKOUT in one call,
which `TickGoes` states as one disjunct per outcome.

**Correspondence, feedback.** `sport_t`, `low_t`, `bridge_t` and `status_t` are
`sample_age`, `low_age`, `bridge_age` and `status_age`. A status keeps only what
the hexapod decides by: the echo, the motion, and whether the fault list has an
item of `BLIND_FAULTS` (`blind`) or any other (`hard`). The header stamp of a
status is kept as its age on the Go2 side's clock, which is how "newer" survives
that clock being stepped back. The position history of the motion detector is
reduced to the candidate it yields; of a history of one sample it must be
STOPPED. Commands and statuses cross the link in sets, from which anything may be
taken late, twice, in any order, or never; the age of a status under way is
bounded by `MAX_TRANSIT`, which the properties name. The bridge is reduced to
what the loop sees of it (echo, latch, death): `Feedback` is built from the actions of
`BridgeView`, which `CmdBridge`, its full model, implements (`ImplementsView`).
`on_status` runs in rospy's thread while the main thread evaluates, and neither takes a
lock. It is two steps: `Dates` accepts a status and sets `status_t`, `Fills` sets the
values, and `filling` with `incoming` is what lies between, for at most `MAX_FILL` of
time. `evaluate` is one step: it takes the values first and the date after, so that an
`on_status` which cuts into it gives the old values a new date, and that is what an
evaluation between `Dates` and `Fills` gives, too.

**Correspondence, teleop.** `down` and `down_t` are `down_age`; `pending` keeps the X
time and what is left of the debounce; `orphan_rel` is `orphan`; a Twist is its two
signs, since the speeds are constants. `last_pub_t` is `pub_left`, the time until a
Twist is due. A key event, Space and FocusOut wait in `queue` (FIFO, as X delivers
them) until `Handle` runs their handler; signals and quit keys set `quit`; `Poll` is
`poll()` with the status it read, the whole of `tick()` and the publication; `Crash`
is any other end of the main loop, with its `finally`. Auto-repeat appends a release
and a press that share an X time; handlers, polls and stops may fall between the
two, but no time passes there: the halves were measured to come within 0.25 ms, and
the debounce is 20 ms. The code also admits a debounce of 0, which the model excludes
(`TeleopAssumption`): there, a poll between the halves ends a hold. An event's X time
is unlike any other the window still remembers, as milliseconds are.

**Correspondence, relays.** `_deltas` of the estimator is its length and minimum. A
stamp is right or wrong: `wrong` counts those off by more than the threshold and a
delay since a sample showed the offset right. `_last_pub_s`, `_last_msg_s` and
`Throttle.next_t` are ages of the host's wall clock; `quiet`, `silent`, `unsaid` are
true time. The two clocks step by the numbers in `Steps`, at most `MAX_STEPS` times.
The guard of the hexapod runs its loop in the main thread and its callback in
rospy's: `copied` is what `_build_safe_cmd` took under the lock, and the next command
may arrive before it is published. A twist is one velocity.

**Correspondence, tools.** Each is one thread. `at`, `phase`, `doing` and `stage` are
where its script stands; a callback is an action that may fall into any spin; a
signal only sets a flag, and is an action that may come anywhere. In `SportProbe` a
wait ends after any number of spins; `harm` says that the recovery itself failed, or
that a Ctrl+C came after the publish of a motion and before `motion_sent` was set;
`risen` says that a sample read standing since the StandUp.
`Sender` keeps the ROS 1 graph as who is registered at the master and who is
connected, since its preflight compares these two, in two steps: `n_reg` is what the
master answered, before the connections are counted. `LiveWatch`, `MotionReport` and
the probes keep what an operator is told together with what is true; of a row of the
dance capture that is its age and the age of the /lowstate it copied (`true_hips`).
`remains` is what is left of the duration of a watch, by its wall clock. `TorqueProbe`
numbers the motors in two pairs of legs of `PAIR` each and `SPARES` entries of the array
that no motor has; `seen` says of each sample whether the robot did stand, and whether
its rear reported, which may cease in the middle of a capture.

## 3. Runs

| Run | Question | Bounds |
|---|---|---|
| `cmd_bridge` | Does every order of stamped commands, telemetry, handset, ticks, exits, kills and a restart keep the deadman, the fence and the hand-over, never raise in tick, and implement `MotionAuthority` and `BridgeView`? | every limit 1 unit; stamps 0, 1, 2 and a malformed one; a NaN and an over-limit command; positions 0, 1 and 2 against a fence of 1; matched or not; two lives |
| `cmd_bridge_clock` | Do driving, aborts and silent telemetry resolve, with the clock stepped back once? | one life, one step back, zero commands, a cold and a hot hip, one sustained guard, fair ticks and time |
| `deadman_true_time` | (finding) is the deadman 0.4 s whatever the clock does? | as above |
| `action_bridge` | Does the lockout hold, less what the clock was stepped ahead? Does the bridge refine `OneShot`? | two dances, two lives, one clock step back and one ahead |
| `action_bridge_live` | Is every send resolved? | one dance, one life, the other bridge coming and going |
| `never_run_both` | (finding) is a dance ever sent beside the other bridge? | as above |
| `feedback_echo` | Is RECEIVED true of the recent past, and does the echo go forward only? | two stamps; two statuses under way; one restart of bridge or state node; one unit of time within `on_status`; no telemetry |
| `feedback_body` | Is a dead feed or a latched bridge always noticed in time? | both streams, one status under way, one clock step, no commands; a bridge that dies is left to the theorem, since to the loop it only stops reporting |
| `feedback_motion` | Does the motion state change only after a sustained disagreement? | a window of 2, both streams, motor faults, clock faults, one step, one restart and no statuses |
| `teleop` | Does only a hand move the robot, and does it always end in zeros? | two opposite keys, three X times, two events queued, holds of at most 2, a burst of 2 |
| `helpers` | Do the relays, the arbitration, the scripted tools, the watches, the probes and the reports keep what each promises? | one part per behaviour (`PARTS`), clock steps of -2, -1 and 2, one restart, up to two signals; the bounds of each part are in the .cfg under its module's constants |
| `probe_handset` | (finding) does a stage send anything after the handset was touched? | the stage `stand` |

**Why these bounds.** Every limit is only compared with an age, so one unit
below, at and above it exercise every branch: limits are 1 and ages reach 2 or 3
(`FORGET`); the lockout is 2 where the clock can step, so that a step is smaller
than the lockout. Three stamps allow newer, equal and older. Two lives are the
least in which a restart can forget. The theorems hold for every value. Positions 0,
1 and 2 are the fewest with which a fence can both creep by steps it allows and be
left. In `cmd_bridge` the hips stay cold, no guard is sustained and no command is a
zero; `cmd_bridge_clock` has all three. The band between the temperature that
refuses arming and the one that aborts is in no instance, but in the theorems.

The hexapod may evaluate between the two steps of `on_status` in every feedback run; time
may pass there in `feedback_echo` only (`MAX_FILL`), since the properties of the others
except what is read there. The theorems hold for any `MAX_FILL`.

The parts of `helpers` share no state, so a behaviour follows one of them and the
others stay as they started: one run instead of nine, with the same states. The unload
probe's windows are scaled down in proportion, and no further than its assumption lets
them: a hold of 23 samples is the least with a lag of 2, a settling time of 2, a
median of 5, a gap of 2 that PU0 lets pass and a warm-up of 6; a loss is within that
gap, between it and the warm-up, or longer than both; a spike falls before, on and
behind each step and far from both, and the tick wraps in the capture. A watch lasts 4,
so that a clock step can end it early. Four
properties of the bridges' and windows' types are not run but proved
(`TypeCorrect`, `ActionTypeCorrect`, `FeedbackTypeCorrect`, `TeleopTypeCorrect`).

**Fairness.** Only the timer (`OnTick`) and time (`ClockRuns`) are fair: the
executor spins with a 50 ms timeout and the timers are periodic. No message need
ever arrive, no subscriber match, no process be restarted. `CHECK_DEADLOCK FALSE`
is set because a process may be down for good after its last modelled life. The
feedback runs assume no fairness at all: their properties bound how old the
evidence of a reading is, and hold however little arrives. In `teleop`, `Handle`,
`Poll` and the clock are fair: Tk serves its queue and its timer as long as the
window is open. That poll() schedules itself again is assumed; if it raises, the
window publishes nothing more and the bridge's deadman stops the robot. In `helpers` only
the arbiter has a liveness property; `ArbiterFairness` says that the loop of the
guard runs at its rate and that time passes. Centred messages of the stick may
keep coming for ever or stop, and no command need arrive: the property holds either way.

Opposite keys are the interesting pair of the teleop run: together they cancel to a
zero command while both are down, so a burst of zeros runs out while keys are held.
Two queued events hold one auto-repeat pair or a release and a stop, the orders in
which the two halves can be separated; three X times are one remembered, one of a
pair under way and one new.

The three feedback runs divide one specification: `Streams`, `Samples`, `Faults`
and `Stamps` say which inputs a run enumerates, because the properties of each do
not depend on the inputs of the others. In `feedback_body` one status under way is
enough: a second one could only be refused, or be accepted as the first would.
`MotionIsSustained` is stated for MOVING and STOPPED only, because leaving UNKNOWN
needs no agreement among samples: every candidate disagrees with UNKNOWN, so the
debounce counts alternating samples too and ends with whatever the last one says.

## 4. Findings

- `deadman_true_time`: the 0.4 s deadman is documented as how long Moves go on
  after the source falls silent; measured on the wall clock, it is longer by
  whatever that clock is stepped back. `DeadmanHolds` proves the excess is no more.
- `never_run_both`: the action bridge's "never run both" uses a flag sampled by
  the last tick (FALSE before the first), so a dance can be sent while the
  velocity bridge is on the graph.
- `probe_handset`: the docstring of `go2_sport_probe` says that nothing more is
  published once the handset is touched. The recovery of an abort looks at the
  handset once, spins for a second without guards, and then sends its StandDown.
  `YieldsToHandset` checks the promise outside that second.

Where the code does not keep what it says, and a property of a run excepts just that case,
so that the run shows there is no other:

- The state table's lockout (src/ros2_ws/src/go2_action_bridge/go2_action_bridge/action_core.py:22)
  is measured on the wall clock, too, and a step ahead ends it early. `LockoutHolds` has
  it no shorter by more.
- "A dead link must never read as STOPPED" (src/hexapod/go2_feedback_core.py:16-17), but an
  evaluation that `on_status` cuts into gives the values from before an outage the date of
  the status that ends it. The next one is right again. `LossIsNoticed` and
  `SilenceIsNoticed` speak of the evaluations not cut into (`~filling`).
- The sender's preflight is to require that every subscriber the master knows of is
  connected (src/hexapod/go2_feedback_check.py:198-202), but asks the master first and counts
  its connections after: a probe that comes between the two stands in for the relay, and
  the commands are lost. `SenderIsHeard` excepts that (`overtaken`).
- "Ctrl+C, an exception -> StopMove, then StandDown if motion was commanded"
  (src/scripts/go2_sport_probe.py:49-50) goes by `motion_sent`, which is set after the
  publish: a Ctrl+C between the two leaves the robot up. `EndsLying` shows that this
  and a failed recovery are the only ways (`harm`).
- A row of the dance capture copies the newest /lowstate of any age, and its printing
  looks at the age of the newest one only (src/scripts/go2_dance_capture.py:242-243,
  280-281): once a silent stream is back, a row that was written in the silence shows
  the temperatures from before it as current. `WatchIsCurrent` excepts a row's
  temperatures when a newer /lowstate came.
- "Says 'NO CONCLUSION' rather than guess" (src/scripts/go2_sport_probe.py:330), but PM3
  says "does NOT persist" (PM3 PASS) when fewer than two samples of the last half second
  arrived, of a robot that walks on, too. `ReportIsTrue` says that no verdict claims a
  motion that was none, and that with those samples it misses none.

Observed while modelling, without a run: Ctrl+C in `go2_sport_probe` also reaches
rclpy, whose handler shuts the context down, so that the recovery may be unable to
publish (`RecoveryFails` covers it); the thermal watch prints nothing before its
first sample, although its self-test calls no sample at all STALE; the hexapod's
sender leaves a walk without zeros when rospy shuts down, and the deadman of the
bridge stops the robot; the torque probe's controls cannot tell, in a capture of
the robot lying, a dead rear read by a decoder that is off by a whole pair of legs: PT1
then finds the live front, and PT9 no live spare. Each fault alone is refused
(`ReadingIsSound` states the exception). A capture of a standing robot that the operator
labels lying is not refused either, which the help of `--posture` says ("a wrong label
here produces a confidently wrong verdict"): PT6 is falsified then, and only then, while
a robot that lay throughout, labelled standing, is refused (or PT9 falsified).

## 5. Theorems

Every property of a passing run is a theorem for all constants that satisfy the
modules' assumptions, except those listed as only model-checked below.

`CmdBridgeProofs` proves, under `AgeAssumption`, `NoneAssumption`,
`ParamsAssumption` and `InputsAssumption`: `TypeCorrect`, `TickIsSafe`,
`DeadmanCorrect`, `MoveAsked`, `HandoverCorrect`, `FenceCorrect`,
`AuthorityImplemented` (the refinement of `MotionAuthority`) and `ViewImplemented` (that
of `BridgeView`: what `FeedbackProofs` proves of the loop with the reduced bridge holds
of the loop with the whole one). None but the last is inductive alone. The deadman needs that the newest stamp ever given is the
accepted one's or was refused, and that `newest_age` is at most `cmd_age` plus what
the clock was stepped back; the hand-over needs that a last Move while not driving
has a recorded cause; the fence needs that the origin is set exactly when engaged;
that a Move was asked for needs that the latest command was (`CmdAsked`).
`ActionBridgeProofs` proves `ActionTypeCorrect`, `WatchCorrect`, `LockoutCorrect` and
`OneShotImplemented` in the same way; its strengthening orders the three ages of the
watch up to `stepped`, and bounds how much older than the true rest the end of the dance
may look by `ahead`.

`FeedbackProofs` proves, under `AgeAssumption` and `FeedbackAssumption`, everything
the three feedback runs check. The reading alone says nothing of the robot, so each
invariant carries the evidence along the way of a status:
- `LossNoticed`, `SilenceNoticed`: `ArrivalsTrack` (each arrival the state node keeps
  is as old as the truth, up to the clock steps), hence a clean status is `Backed`
  when it is composed (`StatusBacked`), while it is under way (`FlightBacked`) and
  after it was accepted (`ReadingBacked`, of `Latest`: the status dated last, whether or
  not its values are in place), each time by the time that passed. So they say nothing
  of an evaluation that `on_status` cuts into (section 4); the next two hold for
  such a one as well.
- `ReceivedRecent`: `EchoesKnown`, that an echo anywhere between the bridge and the
  reading was accepted once, and `SendsTrack`, that a remembered send is no younger
  than the first one of its stamp, which replays do not renew.
- `EchoForwardOnly`: `EchoesOrdered`, that of two statuses the newer stamped echoes
  nothing older. It holds until a restart or a step back of the clock
  (`Undisturbed`): a status stamped after such a step can be refused in favour of an
  older one, so the property is stated for that time only.
- `MotionSustained`: `StreakInv`, that while the state disagrees with the samples,
  all of them since the disagreement began were alike.

`TeleopProofs` proves all of the teleop run's properties but the liveness, under
`AgeAssumption` and `TeleopAssumption`: `TeleopTypeCorrect`, `KeyDownNeeded`,
`KeysSettle`, `LeavesZero`, `LatchFinal` and `HandObeyed`. That only a hand moves the
robot rests on the press half of a pair being recognised whatever came between:
`PairsInv` says that a press half waits right behind its release, or, once that was
handled, that its X time is still pending with the whole debounce left or is kept
as an orphan. `Settles` follows a key's last event through the queue; `OutInv` ties
the wire to the zeros owed; `FreshInv` says that no remembered release has the X time
of a press by hand.

`RelayProofs` (`AdapterAssumption`, the estimator's and the arbiter's): `FewWrongStamps`
from `StampInv`, that the estimator's own run of disagreements counts the wrong stamps
let out but the first; `ThrottlesPace` and `LinkLossNoticed` from `PaceInv` and
`LinkInv`, which bound how far an age of the wall clock and the true age of the same
event drift apart; `GuardedFresh` and `StickObeyed` from the same kind of bound
(`GuardInv` for the step back, `StickInv` for the step ahead).
`OperatorProofs`: `SignalEnds` (`ProfileInv`: a flag that is set stays set until the
abort that clears it), `WatchCurrent` (`HeardInv`, `MuteInv`, `LineInv`; of a row's
temperatures as long as no newer /lowstate came) and
`SenderHeard` (`WiredInv`: a profile runs only while the relay is connected, was
lost, or somebody registered between the preflight's two counts; `StampedInv`: what the
bridge took is behind the next stamp or is an earlier life's). `ReportCorrect` is of another kind: the run is one step, and the theorem says
that the algorithms of the report compute what the reference says, for every heading,
length of a stream, coasting and loss of samples that `ReportAssumption` allows: no
verdict claims a motion or an overrun that was none, and none misses one as long as the
samples at the ends of its window arrived. Its
lemmas count the ticks a robot walked (`WalkedIs`), take the heading out of a displacement
(`BodyDispIs`), show that the robot goes one way only but for the turn between two
streams (`OneWay`, `Within`: so the samples of a window bound what happened in it), and
that `_segments` finds the streams whichever Moves were missed (`SegmentPerStream`).

`ProbeProofs` (`ProbeAssumption`, `TorqueAssumption`, `UnloadAssumption`,
`LoadAssumption`) has the scripted probe, the torque probe and the unload probe. Of a stage's plan the proofs use its shape only (`PlanShape`: it begins
with a wait, and one that stands up ends in a StandDown), not its steps one by one; all
rest on `PlanInv`.
- `ProbeYields`: `HandsInv`, that a plan past its first wait and a recovery about to
  begin have not seen the handset touched, so whoever sends knows it was not, except
  the recovery that already spun.
- `ProbeEndsLying`: `LieInv`, that a plan with a motion not yet followed by a StandDown is
  before its own, that `motion_sent` and `made` then let the recovery run unless a Ctrl+C
  came before the flag was set (`harm` records that), and that a session ends up only
  with the handset touched, with that, or with the recovery broken off.
- `ProbeSendsPlan`: `SentInv`, that what was sent is what stands before the current step,
  or a beginning of the plan and what the recovery adds. `PlanRequests` joins sequences
  with a fold, over which no induction is available here; `SetInduction` (a set of
  numbers with 0 and every successor is all of them, since `<` is well-founded) gives
  the partial joins instead. A BalanceStand or a Move stands behind the StandUp and its
  wait in every plan, so the robot was seen standing (`risen`) before one is sent.
- `TorqueReadsRight`: `TorqueInv` keeps with each captured row what the robot did when it
  was taken, whether the rear reported, and which entry the decoder read. A reading
  labelled standing that no control refuses is true; labelled lying, PT6 is falsified
  when and only when the robot stood, with one exception that the theorem names: see the
  last observation of section 4.
- `VerdictCorrect`: the verdict is one step (`VerdictInductive`: it is the analysis of
  the capture at hand), so the work is in what the analysis computes, bottom up. A
  gap that PU0 does not see is small or lies in the warm-up, before the first step
  (`ContinuousLoss`), so that the two steps of the
  capture arrive far enough apart (`FirstArrived`, `TimedCapture`). A window most of
  which reads one level has that level as its median (`MajorityMedian`), and one half
  of which reads each of two has a median between them whatever its last sample is
  (`Middle`), so a smoothed series is still two steps, each sharp but for a sample
  (`SmoothedSteps`). Hence the levels read around a step are its own (`LevelsNear`),
  the detections over a lag are one group per step, whose steepest is near it
  (`GroupNear`), and the edges are those of the steps (`EdgesOf`, `EdgesKnown`). The
  edges of four legs make one event per step (`EventsAre`), the largest of an event is
  of a lifted leg and the others go the way PU2 expects (`EventMoves`), and the only pair
  of a leg is its lift and its return (`ReturnedIsTrue`).

  Its assumptions are where the method ends. `UnloadAssumption`: each state is held
  for `2 * LAG + 3 * SETTLE + MEDIAN_WIN + MAX_GAP + WARMUP` samples. In the code's that
  is 200 + 750 + 25 + 10, which are the "at least ~2 s" that the docstring of
  `levels_around` asks for (src/scripts/go2_unload_probe.py:193-208), and 250 for a loss
  that the warm-up hides; the protocol says 5 s. What is lost is of any length.
  `LoadAssumption`: a lifted leg reads in the dither band and loses more than any other
  takes over, even when it gets back only a part. The theorem fixes the
  manoeuvre (one lift and one return), and allows one loss and one spike anywhere.

Only model-checked: liveness (`DeadmanStops`, `AbortCompletes`, `SilenceLatches`,
`SendResolves`, `HandsOffStops`, `StickReleaseReturns`), which the prover cannot
reason about.

## 6. Not modelled

- Recorders that only write files, offline analyses of one test session each, test
  rigs, container and network scripts, QoS constants and the launch description.
- Of the modelled parts: wording (reasons, log lines), the numbers that are only
  reported (latency, skew, speeds, temperatures in the status), the CSV logs, PM0 to
  PM2 and the thermal summary of `go2_sport_probe`, PU6 and PU7 of the unload
  probe, PT3 of the torque probe, the preflight and recorder of the teleop.
- ROS itself: a topic is a step that may or may not happen, DDS discovery is the flag
  `matched`, `ros1_bridge` is part of the link; twist_mux is modelled by its
  documented rule over the configuration in the repository.
- Floating point is replaced by integers, with a separate value for a non-finite
  input.
- In `CmdBridge` and the feedback loop the wall clock steps back only. A step ahead there
  ages everything at once: commands, telemetry and readings expire early, and a pending
  StandDown and the debounce of the motion detector end early by as much, so that
  `MotionSustained` is a window of the wall clock. `Feedback` lets one `on_status` at a time cut
  into one evaluation; the thread that listens for another sender's commands
  (src/hexapod/go2_feedback_check.py:92, 131) is left out.
- Clock steps in `SportProbe` and `Profile`: both age their inputs by the wall clock
  too, over sessions of some seconds. `Sender` assumes that the relay is registered
  before statuses flow, and is not composed with `FeedbackChecker`: `Feedback` follows
  one life of the sender, `Sender` its restarts.

## 7. Plan

Done: the two bridges, the feedback loop and the teleop; the adapter, the
arbitration, the scripted tools, watches, probes and reports; and a theorem for every
safety property of them that a run checks. Still to come:

1. An abstract specification of the feedback channel ("a reading is a fact of the
   recent past") with `Feedback` shown to implement it.
2. `Sender` shown to implement the sends of `Feedback`, as `CmdBridge` does its bridge.
3. Clock steps in `SportProbe` and `Profile`.
4. The remaining predictions of the two probes, and `go2_motion_replay`, which runs the
   motion detector over a recording.
