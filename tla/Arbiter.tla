------------------------------- MODULE Arbiter --------------------------------
(***************************************************************************)
(* The ROS 1 side of the hexapod: cmd_guard, which clamps and times out    *)
(* the commands that come over the ROS 2 bridge and publishes at a fixed   *)
(* rate from a thread of its own; cmd_vel_squelch, which lets the stick    *)
(* through while it is deflected and shortly after; and twist_mux, an      *)
(* external node, which gives the stick priority until it has been silent  *)
(* for a time.  A twist is one velocity.                                   *)
(***************************************************************************)
EXTENDS Ages

CONSTANTS
  NonFinite,                    \* a NaN
  LIMIT, WATCHDOG_TIMEOUT,      \* cmd_guard: max_linear_x, watchdog_timeout
  DEADBAND, HOLD_OVER,          \* cmd_vel_squelch
  MUX_TIMEOUT,                  \* of twist_mux's joystick input
  Raws, Sticks,                 \* velocities on /cmd_vel_ros2_raw and /cmd_vel_joy_raw
  JUMPS, MAX_AHEAD, MAX_BEHIND  \* of ROS wall time: sizes of a step, and in all

ASSUME ArbiterAssumption ==
  /\ NonFinite \notin Int \cup {None}
  /\ {LIMIT, WATCHDOG_TIMEOUT, DEADBAND, HOLD_OVER, MUX_TIMEOUT} \subseteq Nat
  /\ {MAX_AHEAD, MAX_BEHIND} \subseteq Nat
  /\ Raws \cup Sticks \subseteq Int \cup {NonFinite}
  /\ JUMPS \subseteq Int
  /\ FORGET > MUX_TIMEOUT + MAX_BEHIND
  /\ FORGET > HOLD_OVER + MAX_BEHIND

VARIABLES
  enabled,                  \* cmd_guard's switch
  last_cmd, last_stamp,     \* _last_cmd and the age of _last_stamp
  copied,                   \* the two as the publish loop copied them, or None
  last_active,              \* age of the squelch's last_active
  joy_stamp,                \* age of twist_mux's last joystick input
  estop,                    \* the lock of twist_mux
  out,                      \* twist_mux's last output: who from, what
  ahead, behind,            \* by how much ROS wall time stepped in all
  raw_true, stick_true      \* observers: true age of last_cmd; of the last deflection

guardVars == <<enabled, last_cmd, last_stamp, copied, raw_true>>
stickVars == <<last_active, joy_stamp, stick_true>>
jumpVars == <<ahead, behind>>
arbiterVars == <<guardVars, stickVars, estop, out, jumpVars>>

ArbiterInit ==
  /\ enabled \in BOOLEAN
  /\ last_cmd = 0 /\ last_stamp = None /\ copied = None
  /\ last_active = FORGET /\ joy_stamp = FORGET         \* rospy.Time(0)
  /\ estop = FALSE
  /\ out = [from |-> None, twist |-> 0]
  /\ ahead = 0 /\ behind = 0
  /\ raw_true = None /\ stick_true = FORGET

-----------------------------------------------------------------------------
(* twist_mux publishes an input as it arrives, unless a lock or a live     *)
(* input of higher priority masks it.                                      *)
HasPriority(source) == ~estop /\ (source = "ros2_bridge" => joy_stamp > MUX_TIMEOUT)

Mux(source, twist) ==
  out' = IF HasPriority(source) THEN [from |-> source, twist |-> twist] ELSE out

EstopLock(locked) == estop' = locked /\ UNCHANGED <<guardVars, stickVars, out, jumpVars>>

-----------------------------------------------------------------------------
(* cmd_guard.                                                              *)
Clamp(value, limit) ==
  CASE value = NonFinite -> value
    [] value # NonFinite -> IF value > limit THEN limit
                            ELSE IF value < -limit THEN -limit ELSE value

OnRawCmd(twist) ==
  /\ last_cmd' = twist /\ last_stamp' = 0 /\ raw_true' = 0
  /\ UNCHANGED <<enabled, copied, stickVars, estop, out, jumpVars>>

\* the stamp is read again, after the lock
SafeCmd_mutant ==
  IF copied.stamp = None \/ last_stamp > WATCHDOG_TIMEOUT THEN 0
  ELSE Clamp(copied.cmd, LIMIT)

SafeCmd ==
  IF copied.stamp = None \/ copied.stamp > WATCHDOG_TIMEOUT THEN 0
  ELSE Clamp(copied.cmd, LIMIT)

GuardDisabled ==
  /\ ~enabled
  /\ Mux("ros2_bridge", 0)
  /\ UNCHANGED <<guardVars, stickVars, estop, jumpVars>>

GuardCopies ==
  /\ enabled /\ copied = None
  /\ copied' = [cmd |-> last_cmd, stamp |-> last_stamp, true |-> raw_true]
  /\ UNCHANGED <<enabled, last_cmd, last_stamp, raw_true, stickVars, estop, out, jumpVars>>

GuardPublishes ==
  /\ copied # None
  /\ Mux("ros2_bridge", SafeCmd)
  /\ copied' = None
  /\ UNCHANGED <<enabled, last_cmd, last_stamp, raw_true, stickVars, estop, jumpVars>>

-----------------------------------------------------------------------------
(* cmd_vel_squelch.                                                        *)
IsNonzero_mutant(twist) == twist # NonFinite /\ twist > DEADBAND

IsNonzero(twist) == twist # NonFinite /\ (twist > DEADBAND \/ -twist > DEADBAND)

\* zeros are forwarded whenever they come
Forwards_mutant(twist) == TRUE

Forwards(twist) == IsNonzero(twist) \/ last_active < HOLD_OVER

Squelch(twist) ==
  /\ last_active' = IF IsNonzero(twist) THEN 0 ELSE last_active
  /\ IF Forwards(twist) THEN joy_stamp' = 0 /\ Mux("joystick", twist)
     ELSE UNCHANGED <<joy_stamp, out>>

Deflected(twist) == twist # NonFinite /\ twist \notin -DEADBAND..DEADBAND

OnStick(twist) ==
  /\ Squelch(twist)
  /\ stick_true' = IF Deflected(twist) THEN 0 ELSE stick_true
  /\ UNCHANGED <<guardVars, estop, jumpVars>>

-----------------------------------------------------------------------------
(* ROS wall time runs, and steps.                                          *)
AgesMove(d) ==
  /\ last_stamp' = Later(last_stamp, d)
  /\ last_active' = Later(last_active, d)
  /\ joy_stamp' = Later(joy_stamp, d)

CopyMoves(d, t) ==
  copied' = IF copied = None THEN None
            ELSE [copied EXCEPT !.stamp = Later(@, d), !.true = Later(@, t)]

RosTimeRuns ==
  /\ AgesMove(1) /\ CopyMoves(1, 1)
  /\ raw_true' = Later(raw_true, 1) /\ stick_true' = Later(stick_true, 1)
  /\ UNCHANGED <<enabled, last_cmd, estop, out, jumpVars>>

RosTimeSteps(d) ==
  /\ AgesMove(d) /\ CopyMoves(d, 0)
  /\ ahead' = IF d > 0 THEN ahead + d ELSE ahead
  /\ behind' = IF d < 0 THEN behind - d ELSE behind
  /\ ahead' <= MAX_AHEAD /\ behind' <= MAX_BEHIND
  /\ UNCHANGED <<enabled, last_cmd, raw_true, stick_true, estop, out>>

ArbiterNext ==
  \/ \E twist \in Raws : OnRawCmd(twist)
  \/ \E twist \in Sticks : OnStick(twist)
  \/ GuardDisabled \/ GuardCopies \/ GuardPublishes
  \/ \E locked \in BOOLEAN : EstopLock(locked)
  \/ RosTimeRuns \/ \E d \in JUMPS : RosTimeSteps(d)

ArbiterSpec == ArbiterInit /\ [][ArbiterNext]_arbiterVars

\* the guard's loop runs at its rate and time passes
ArbiterFairness ==
  /\ WF_arbiterVars(GuardDisabled) /\ WF_arbiterVars(GuardCopies)
  /\ WF_arbiterVars(GuardPublishes)
  /\ WF_arbiterVars(RosTimeRuns)

-----------------------------------------------------------------------------
(* cmd_guard drives only on a command that arrived within its watchdog,    *)
(* plus what ROS wall time was stepped back, although the next command may *)
(* arrive while its loop decides (_build_safe_cmd, _on_raw_cmd).           *)
GuardedIsFresh ==
  copied # None /\ SafeCmd # 0 => copied.true <= WATCHDOG_TIMEOUT + behind

(* The ROS 2 path gets through to the hexapod only when the stick was not  *)
(* deflected for the mux's timeout, less what ROS wall time was stepped    *)
(* ahead (cb, cmd_vel_arbiter_topics.yaml).                                *)
StickIsObeyed == HasPriority("ros2_bridge") => stick_true + ahead > MUX_TIMEOUT

(* "release stick -> ROS 2 resumes": once the stick has been at rest for   *)
(* long, its centred messages still coming, the ROS 2 path drives again    *)
(* (cb).                                                                   *)
Released == stick_true = FORGET /\ ~estop

ReleaseReturns == Released ~> (out.from = "ros2_bridge" \/ ~Released)
=============================================================================
