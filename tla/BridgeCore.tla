------------------------------ MODULE BridgeCore ------------------------------
(***************************************************************************)
(* The decision logic of the Go2 velocity bridge, bridge_core.BridgeCore:  *)
(* one action per input callback and per exit of tick().                   *)
(*                                                                         *)
(* Time.  Every stored time.time() reading is kept as its age (see Ages);  *)
(* Elapse moves the ages with the clock, which may also be stepped back.   *)
(***************************************************************************)
EXTENDS Ages

CONSTANTS
  NonFinite,        \* a Twist with a NaN or an infinity in it
  BadStamp,         \* a header stamp whose nanosec field is not in 0..10^9-1
  CMD_TIMEOUT, STALE, STANDDOWN_DELAY, SUSTAIN,   \* in units of the clock
  VX_MAX, VYAW_MAX, GEOFENCE, HIP_ABORT, HIP_ARM_MAX,
  BALANCE_STAND,    \* the error_code Move is validated in
  Guards            \* the sustained-speed guards, {"speed", "yaw"}

\* the forward speeds and yaw rates that _clip leaves
Velocities == (-VX_MAX..VX_MAX) \X (-VYAW_MAX..VYAW_MAX)

(* build_request: the allowlist.                                           *)
Requests == [name : {"MOVE"}, vel : Velocities] \cup [name : {"STOPMOVE", "STANDDOWN"}]

ASSUME NoneAssumption ==
  /\ None \notin {"MOVE", "STOPMOVE", "STANDDOWN"}
  /\ None \notin Int \X Int
  /\ None \notin Requests
  /\ BadStamp # None

(* validate_params: what a configuration must satisfy to be accepted.      *)
ASSUME ParamsAssumption ==
  /\ {CMD_TIMEOUT, STALE, STANDDOWN_DELAY, SUSTAIN} \subseteq Nat \ {0}
  /\ {VX_MAX, VYAW_MAX, GEOFENCE} \subseteq Nat \ {0}
  /\ {HIP_ABORT, HIP_ARM_MAX} \subseteq Nat \ {0} /\ HIP_ARM_MAX < HIP_ABORT

VARIABLES
  state,            \* "WAITING", "IDLE", "DRIVING", "ABORTED" or "YIELDED"
  engaged,          \* has the core ever been IDLE or DRIVING?
  origin,           \* the position when first engaged: the geofence centre
  cmd, cmd_age,     \* the latest accepted command <<vx, vyaw>>
  cmd_stamp,        \* the stamp of the last accepted stamped command
  sport_age, error_code, pos,
  low_age, hips,    \* hips: the hotter of the two rear hips
  over,             \* over[g]: for how long guard g has been over its limit
  trip,             \* has a guard tripped?
  standdown_in,     \* time left until the StandDown of an abort is due
  out               \* the request the last tick returned

coreVars == <<state, engaged, origin, cmd, cmd_age, cmd_stamp, sport_age, error_code,
              pos, low_age, hips, over, trip, standdown_in, out>>

Latched == {"ABORTED", "YIELDED"}
States == {"WAITING", "IDLE", "DRIVING"} \cup Latched

Move(v) == [name |-> "MOVE", vel |-> v]
StopMove == [name |-> "STOPMOVE"]
StandDown == [name |-> "STANDDOWN"]

CoreInit ==
  /\ state = "WAITING"
  /\ engaged = FALSE
  /\ trip = FALSE
  /\ over = [g \in Guards |-> None]
  /\ origin = None /\ cmd = None /\ cmd_age = None /\ cmd_stamp = None
  /\ sport_age = None /\ error_code = None /\ pos = None
  /\ low_age = None /\ hips = None
  /\ standdown_in = None /\ out = None

CoreReset ==      \* a new process constructs a new core
  /\ state' = "WAITING"
  /\ engaged' = FALSE
  /\ trip' = FALSE
  /\ over' = [g \in Guards |-> None]
  /\ origin' = None /\ cmd' = None /\ cmd_age' = None /\ cmd_stamp' = None
  /\ sport_age' = None /\ error_code' = None /\ pos' = None
  /\ low_age' = None /\ hips' = None
  /\ standdown_in' = None /\ out' = None

-----------------------------------------------------------------------------
(* The clock: `now` moves by d, backwards when the wall clock is stepped.  *)
Elapse(d) ==
  /\ cmd_age' = Later(cmd_age, d)
  /\ sport_age' = Later(sport_age, d)
  /\ low_age' = Later(low_age, d)
  /\ over' = [g \in Guards |-> Later(over[g], d)]
  /\ standdown_in' = Sooner(standdown_in, d)
  /\ out' = None
  /\ UNCHANGED <<state, engaged, origin, cmd, cmd_stamp, error_code, pos, hips, trip>>

-----------------------------------------------------------------------------
(* The input callbacks.                                                    *)
Clip(v, lim) == IF v > lim THEN lim ELSE IF v < -lim THEN -lim ELSE v

Clipped(twist) == <<Clip(twist[1], VX_MAX), Clip(twist[2], VYAW_MAX)>>

AcceptTwist_mutant(twist) ==     \* max(-lim, min(lim, nan)) is lim
  /\ cmd' = IF twist = NonFinite THEN <<VX_MAX, VYAW_MAX>> ELSE Clipped(twist)
  /\ cmd_age' = 0

AcceptTwist(twist) ==
  /\ twist # NonFinite
  /\ cmd' = Clipped(twist)
  /\ cmd_age' = 0

OnTwist(twist) ==
  /\ AcceptTwist(twist)
  /\ out' = None
  /\ UNCHANGED <<state, engaged, origin, cmd_stamp, sport_age, error_code, pos, low_age,
                 hips, over, trip, standdown_in>>

Newer_mutant(stamp) == stamp # BadStamp /\ stamp # 0

\* stamp 0 is the unfilled header (0, 0)
Newer(stamp) ==
  /\ stamp # BadStamp
  /\ stamp # 0
  /\ cmd_stamp # None => stamp > cmd_stamp

OnTwistStamped(stamp, twist) ==
  /\ Newer(stamp)
  /\ AcceptTwist(twist)
  /\ cmd_stamp' = stamp
  /\ out' = None
  /\ UNCHANGED <<state, engaged, origin, sport_age, error_code, pos, low_age, hips, over,
                 trip, standdown_in>>

\* SustainedGuard.update on a sample that is, or is not, over the limit
Sustained(since, isOver) ==
  IF ~isOver THEN None ELSE IF since = None THEN 0 ELSE since

OnSport(code, p, fast) ==
  /\ sport_age' = 0
  /\ error_code' = code
  /\ pos' = p
  /\ over' = [g \in Guards |-> Sustained(over[g], g \in fast)]
  /\ trip' = (trip \/ \E g \in fast : over[g] # None /\ over[g] >= SUSTAIN)
  /\ out' = None
  /\ UNCHANGED <<state, engaged, origin, cmd, cmd_age, cmd_stamp, low_age, hips, standdown_in>>

OnLow(t) ==
  /\ low_age' = 0
  /\ hips' = t
  /\ out' = None
  /\ UNCHANGED <<state, engaged, origin, cmd, cmd_age, cmd_stamp, sport_age, error_code,
                 pos, over, trip, standdown_in>>

\* a sample with a key down or a stick out of its dead band, in any state
OnHandset ==
  /\ state' = "YIELDED"
  /\ out' = None
  /\ UNCHANGED <<engaged, origin, cmd, cmd_age, cmd_stamp, sport_age, error_code, pos,
                 low_age, hips, over, trip, standdown_in>>

-----------------------------------------------------------------------------
(* tick(): each return of the function is an action.                       *)
Stale(age) == age # None => age > STALE

Distance(p, q) == IF p > q THEN p - q ELSE q - p

AbortReason_mutant ==
  \/ trip
  \/ hips # None /\ hips >= HIP_ABORT
  \/ engaged /\ Stale(sport_age)
  \/ engaged /\ origin # None /\ pos # None /\ Distance(pos, origin) > GEOFENCE

AbortReason ==
  \/ trip
  \/ hips # None /\ hips >= HIP_ABORT
  \/ engaged /\ (Stale(sport_age) \/ Stale(low_age))
  \/ engaged /\ origin # None /\ pos # None /\ Distance(pos, origin) > GEOFENCE

WaitReason_mutant ==
  \/ Stale(sport_age)
  \/ error_code # BALANCE_STAND
  \/ ~engaged /\ hips # None /\ hips >= HIP_ARM_MAX

WaitReason ==
  \/ Stale(sport_age)
  \/ Stale(low_age)
  \/ error_code # BALANCE_STAND
  \/ ~engaged /\ hips # None /\ hips >= HIP_ARM_MAX

Fresh_mutant == cmd_age # None

Fresh == cmd_age # None /\ cmd_age <= CMD_TIMEOUT

Moving == Fresh /\ cmd # <<0, 0>>

StandDownYielded_mutant == standdown_in # None /\ standdown_in <= 0

StandDownOnTime_mutant == state = "ABORTED" /\ standdown_in = 0

StandDownDue == state = "ABORTED" /\ standdown_in # None /\ standdown_in <= 0

inputVars == <<cmd, cmd_age, cmd_stamp, sport_age, error_code, pos, low_age, hips, over, trip>>

TickLatched ==
  /\ state \in Latched
  /\ ~StandDownDue
  /\ out' = None
  /\ UNCHANGED <<state, engaged, origin, standdown_in, inputVars>>

TickStandDown ==
  /\ StandDownDue
  /\ standdown_in' = None
  /\ out' = StandDown
  /\ UNCHANGED <<state, engaged, origin, inputVars>>

TickAbort ==
  /\ state \notin Latched
  /\ AbortReason
  /\ state' = "ABORTED"
  /\ standdown_in' = IF engaged THEN STANDDOWN_DELAY ELSE standdown_in
  /\ out' = IF engaged THEN StopMove ELSE None
  /\ UNCHANGED <<engaged, origin, inputVars>>

TickWait ==
  /\ state \notin Latched
  /\ ~AbortReason
  /\ WaitReason
  /\ state' = "WAITING"
  /\ out' = None
  /\ UNCHANGED <<engaged, origin, standdown_in, inputVars>>

Centre_mutant == pos

\* the geofence is anchored where the core first becomes ready
Centre == IF engaged THEN origin ELSE pos

ReadyRequest_mutant == IF Moving THEN Move(cmd) ELSE None

ReadyRequest ==
  IF Moving THEN Move(cmd) ELSE IF state = "DRIVING" THEN StopMove ELSE None

TickReady ==
  /\ state \notin Latched
  /\ ~AbortReason
  /\ ~WaitReason
  /\ engaged' = TRUE
  /\ origin' = Centre
  /\ state' = IF Moving THEN "DRIVING" ELSE "IDLE"
  /\ out' = ReadyRequest
  /\ UNCHANGED <<standdown_in, inputVars>>

Tick == TickLatched \/ TickStandDown \/ TickAbort \/ TickWait \/ TickReady

-----------------------------------------------------------------------------
CoreTypeOK ==
  /\ state \in States
  /\ {engaged, trip} \subseteq BOOLEAN
  /\ {origin, pos, error_code, hips, cmd_stamp} \subseteq Int \cup {None}
  /\ {cmd_age, sport_age, low_age, standdown_in} \subseteq Age
  /\ cmd \in Velocities \cup {None}
  /\ over \in [Guards -> Age]
  /\ out \in Requests \cup {None}
=============================================================================
