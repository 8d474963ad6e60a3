------------------------------ MODULE CmdBridge -------------------------------
(***************************************************************************)
(* go2_cmd_bridge_node: the process around BridgeCore.  One single-threaded *)
(* executor runs the callbacks one at a time, in any order, until a signal *)
(* ends the loop; stop_on_exit then runs with no callback after it.  The   *)
(* process may also be killed, and started again with a new core.          *)
(*                                                                         *)
(* `wire` is what a step put on /api/sport/request AND had a subscriber to *)
(* receive it; `last` is the name of the last request that reached the     *)
(* robot, which survives the process.                                      *)
(***************************************************************************)
EXTENDS BridgeCore

CONSTANTS
  INPUT_TYPE,                                   \* "twist" or "twist_stamped"
  Twists, Stamps, ErrorCodes, Positions, Temps, \* what the inputs may carry
  ARMINGS,          \* values of the armed parameter
  MATCHINGS,        \* may the subscriber be there, be missing?
  MAX_BACK,         \* how far, in all, the wall clock is stepped backwards
  MAX_STARTS        \* how many times the process is started

ASSUME InputsAssumption ==
  /\ INPUT_TYPE \in {"twist", "twist_stamped"}
  /\ \A t \in Twists \ {NonFinite} : t \in Int \X Int
  /\ Stamps \ {BadStamp} \subseteq Nat
  /\ ErrorCodes \subseteq Int /\ Positions \subseteq Int /\ Temps \subseteq Int
  /\ ARMINGS \subseteq BOOLEAN /\ MATCHINGS \subseteq BOOLEAN
  /\ MAX_BACK \in Nat /\ MAX_STARTS \in Nat
  /\ \A t \in {CMD_TIMEOUT, STALE, STANDDOWN_DELAY, SUSTAIN} : t + MAX_BACK < FORGET

VARIABLES
  proc,             \* "spinning", "closing" (after stop_on_exit) or "down"
  armed,            \* was the robot publisher created?
  matched,          \* does /api/sport/request have a subscriber?
  wire,
  starts, stepped,  \* process starts, and backward clock movement, so far
  last,
  lapse,            \* why driving last ended without a request on the wire
  newest,           \* the highest stamp this process has been given
  newest_age        \* true time since the newest command first arrived

nodeVars == <<proc, armed, matched, wire, starts, stepped>>
observed == <<last, lapse, newest, newest_age>>
vars == <<coreVars, nodeVars, observed>>

Init ==
  /\ CoreInit
  /\ proc = "spinning"
  /\ armed \in ARMINGS
  /\ matched \in MATCHINGS
  /\ wire = None
  /\ starts = 1 /\ stepped = 0
  /\ last = None /\ lapse = "none"
  /\ newest = None /\ newest_age = None

-----------------------------------------------------------------------------
(* The observer: no action's guard reads what it records.                  *)
Driving == proc = "spinning" /\ state = "DRIVING"

\* Note what reached the robot, and the cause when driving ends in silence.
Note(cause) ==
  /\ last' = IF wire' = None THEN last ELSE wire'.name
  /\ lapse' = IF wire' # None THEN "none"
              ELSE IF Driving /\ ~Driving' THEN cause ELSE lapse

Quiet == wire' = None

\* every step of the process that leaves the process itself alone
SameProcess == UNCHANGED <<proc, armed, matched, starts, stepped>>

-----------------------------------------------------------------------------
(* The subscription callbacks.                                             *)
Twist(t) ==
  /\ proc = "spinning"
  /\ INPUT_TYPE = "twist"
  /\ OnTwist(t)
  /\ Quiet /\ SameProcess /\ Note("none")
  /\ newest_age' = 0
  /\ UNCHANGED newest

TwistStamped(stamp, t) ==
  /\ proc = "spinning"
  /\ INPUT_TYPE = "twist_stamped"
  /\ OnTwistStamped(stamp, t)
  /\ Quiet /\ SameProcess /\ Note("none")
  /\ IF newest = None \/ stamp > newest
     THEN newest' = stamp /\ newest_age' = 0
     ELSE UNCHANGED <<newest, newest_age>>

Sport(code, p, fast) ==
  /\ proc = "spinning"
  /\ OnSport(code, p, fast)
  /\ Quiet /\ SameProcess /\ Note("none")
  /\ UNCHANGED <<newest, newest_age>>

Low(t) ==
  /\ proc = "spinning"
  /\ OnLow(t)
  /\ Quiet /\ SameProcess /\ Note("none")
  /\ UNCHANGED <<newest, newest_age>>

Handset ==
  /\ proc = "spinning"
  /\ OnHandset
  /\ Quiet /\ SameProcess /\ Note("handset")
  /\ UNCHANGED <<newest, newest_age>>

-----------------------------------------------------------------------------
(* The timer, and route(): dry, dropped for want of a subscriber, or sent. *)
Routed(req) == IF req # None /\ armed /\ matched THEN req ELSE None

OnTick ==
  /\ proc = "spinning"
  /\ Tick
  /\ wire' = Routed(out')
  /\ SameProcess
  /\ Note(IF ~(armed /\ matched) THEN "unrouted"
          ELSE IF WaitReason THEN "precondition" ELSE "silent")
  /\ UNCHANGED <<newest, newest_age>>

-----------------------------------------------------------------------------
(* The life of the process.                                                *)

\* SIGINT or SIGTERM ended the loop.  The publish may raise when the context
\* is gone already; it is not checked for a subscriber.
StopOnExit(alive) ==
  /\ proc = "spinning"
  /\ proc' = "closing"
  /\ wire' = IF armed /\ state = "DRIVING" /\ alive /\ matched THEN StopMove ELSE None
  /\ Note(IF armed /\ matched /\ alive THEN "silent" ELSE "unrouted")
  /\ UNCHANGED <<coreVars, armed, matched, starts, stepped, newest, newest_age>>

Destroy ==
  /\ proc = "closing"
  /\ proc' = "down"
  /\ Quiet /\ Note("none")
  /\ UNCHANGED <<coreVars, armed, matched, starts, stepped, newest, newest_age>>

\* SIGKILL, a crash, or power: stop_on_exit does not run
Kill ==
  /\ proc \in {"spinning", "closing"}
  /\ proc' = "down"
  /\ Quiet /\ Note("killed")
  /\ UNCHANGED <<coreVars, armed, matched, starts, stepped, newest, newest_age>>

Start ==
  /\ proc = "down"
  /\ starts < MAX_STARTS
  /\ CoreReset
  /\ proc' = "spinning"
  /\ armed' \in ARMINGS
  /\ starts' = starts + 1
  /\ Quiet
  /\ newest' = None /\ newest_age' = None
  /\ UNCHANGED <<matched, stepped, last, lapse>>

-----------------------------------------------------------------------------
(* The environment.                                                        *)
Discovery ==      \* the sport server's subscription comes or goes
  /\ matched' \in MATCHINGS \ {matched}
  /\ Quiet
  /\ UNCHANGED <<coreVars, proc, armed, starts, stepped, observed>>

ClockRuns ==
  /\ Elapse(1)
  /\ newest_age' = Later(newest_age, 1)
  /\ Quiet
  /\ UNCHANGED <<proc, armed, matched, starts, stepped, last, lapse, newest>>

ClockStepsBack ==
  /\ stepped < MAX_BACK
  /\ stepped' = stepped + 1
  /\ Elapse(-1)
  /\ Quiet
  /\ UNCHANGED <<proc, armed, matched, starts, observed>>

Next ==
  \/ \E t \in Twists : Twist(t)
  \/ \E s \in Stamps, t \in Twists : TwistStamped(s, t)
  \/ \E code \in ErrorCodes, p \in Positions, fast \in SUBSET Guards : Sport(code, p, fast)
  \/ \E t \in Temps : Low(t)
  \/ Handset
  \/ OnTick
  \/ \E alive \in BOOLEAN : StopOnExit(alive)
  \/ Destroy \/ Kill \/ Start
  \/ Discovery
  \/ ClockRuns \/ ClockStepsBack

Spec == Init /\ [][Next]_vars

(***************************************************************************)
(* The executor spins with a 50 ms timeout and the timer is periodic, so a *)
(* live process keeps ticking, and time passes.  Nothing else is fair: no  *)
(* message need ever arrive, and no subscriber need ever be matched.       *)
(***************************************************************************)
Fairness == WF_vars(OnTick) /\ WF_vars(ClockRuns)

FairSpec == Spec /\ Fairness

-----------------------------------------------------------------------------
TypeOK ==
  /\ CoreTypeOK
  /\ proc \in {"spinning", "closing", "down"}
  /\ {armed, matched} \subseteq BOOLEAN
  /\ wire \in Requests \cup {None}
  /\ {starts, stepped} \subseteq Nat
  /\ last \in {"MOVE", "STOPMOVE", "STANDDOWN", None}
  /\ lapse \in {"none", "handset", "precondition", "unrouted", "killed", "silent"}
  /\ {newest, newest_age} \subseteq Int \cup {None}

(* tick() compares ages, the hips and the position without looking for     *)
(* None: the engaged branch of _abort_reason and the arm limit of          *)
(* _wait_reason would raise TypeError.  They never see a None.             *)
TickNeverRaises ==
  /\ engaged => None \notin {sport_age, low_age, pos, origin}
  /\ sport_age # None => pos # None
  /\ low_age # None => hips # None
  /\ cmd_age # None => cmd # None

(* The deadman, in true time: a Move reaches the robot only within         *)
(* CMD_TIMEOUT of the FIRST arrival of the newest command, so neither a    *)
(* duplicate nor a replayed older stamp keeps the robot walking.  The wall *)
(* clock is the code's only clock, so each unit it is stepped back adds a  *)
(* unit (cmd_t, on_twist_stamped, tick).                                   *)
DeadmanHolds ==
  wire # None /\ wire.name = "MOVE" =>
    newest_age # None /\ newest_age <= CMD_TIMEOUT + stepped

(* The deadman as its comment states it: no Move later than CMD_TIMEOUT    *)
(* after the source went silent, whatever the wall clock does.             *)
DeadmanInTrueTime ==
  wire # None /\ wire.name = "MOVE" => newest_age # None /\ newest_age <= CMD_TIMEOUT

(* A robot whose last request is a Move is being driven right now, or was  *)
(* let go for one of the reasons the code accepts: the handset took over,  *)
(* a precondition broke, the StopMove had nowhere to go, or the process    *)
(* was killed (tick, stop_on_exit, on_handset).                            *)
NoSilentHandover ==
  last = "MOVE" => Driving \/ lapse \in {"handset", "precondition", "unrouted", "killed"}

(* The geofence cannot creep: its centre is the place where this process   *)
(* first became ready, and no Move is sent when the latest position is     *)
(* outside it, however often the bridge waits and becomes ready again.     *)
FenceHolds ==
  [][/\ engaged /\ starts' = starts => engaged' /\ origin' = origin
     /\ wire' # None /\ wire'.name = "MOVE" => Distance(pos', origin') <= GEOFENCE]_vars

(* Every Move that reaches the robot is inside the limits and is what some *)
(* finite Twist asked for, clipped: a NaN never becomes a velocity         *)
(* (max(-lim, min(lim, nan)) would be full speed).                         *)
MoveWasAsked ==
  wire # None /\ wire.name = "MOVE" =>
    wire.vel \in Velocities /\ \E t \in Twists \ {NonFinite} : wire.vel = Clipped(t)

(* The bridge implements MotionAuthority: a latched bridge never drives    *)
(* again, StandDown comes at most once and only after an abort, a yield or *)
(* an exit ends everything, a pending StandDown included.                  *)
phase ==
  CASE proc # "spinning" \/ state = "YIELDED" -> "over"
    [] proc = "spinning" /\ state = "ABORTED" ->
         IF standdown_in = None THEN "over" ELSE "aborted"
    [] proc = "spinning" /\ state = "DRIVING" -> "moving"
    [] OTHER -> "idle"

Authority == INSTANCE MotionAuthority
  WITH phase <- phase, wire <- IF wire = None THEN None ELSE wire.name

ImplementsAuthority == Authority!Spec

(* The bridge is what the feedback loop takes it for (BridgeView): in one  *)
(* life its echo only goes to newer stamps and its latch stays, whatever   *)
(* ends the life; the next begins with neither (on_twist_stamped, tick,    *)
(* on_handset, main).                                                      *)
View == INSTANCE BridgeView
  WITH Stamps <- Stamps \ {BadStamp, 0},
       up <- proc = "spinning", latched <- state \in Latched, echo <- cmd_stamp

ImplementsView == View!BridgeSpec

-----------------------------------------------------------------------------
(* When no new command arrives any more, driving ends: the deadman does    *)
(* not only allow a stop, it brings one.                                   *)
DeadmanStops == (<>[](newest_age # 0)) => []<>~Driving

(* A process that stays up finishes an abort it began: the StandDown is    *)
(* sent, unless the handset takes over first.                              *)
AbortCompletes ==
  standdown_in # None ~> standdown_in = None \/ state = "YIELDED" \/ proc # "spinning"

(* When one of the two telemetry streams falls silent for good, an engaged *)
(* bridge that stays up latches.                                           *)
SilenceLatches ==
  /\ <>[](engaged /\ proc = "spinning")
  /\ (<>[](sport_age # 0)) \/ (<>[](low_age # 0))
  => <>(state \in Latched)
=============================================================================
