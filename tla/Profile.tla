------------------------------- MODULE Profile --------------------------------
(***************************************************************************)
(* cmd_vel_profile: a scripted stream of Twists to the velocity bridge.    *)
(* One thread; callbacks run inside spin_once and a signal only sets a     *)
(* flag, which spin_for reads before each spin.  The bridge is its status. *)
(***************************************************************************)
EXTENDS Ages, RosEnv, Sequences

CONSTANTS
  PROFILES_RUN,     \* the profiles run: within DOMAIN PROFILES
  TWISTS,           \* Twists of one stream
  BridgeStates,     \* what a status may say
  MAX_SIGNALS

ASSUME ProfileAssumption == TWISTS \in Nat \ {0} /\ MAX_SIGNALS \in Nat

VARIABLES
  profile, expected,        \* the command line: armed, and the state required
  at,                       \* where run_live is
  pstep, n_twists,          \* step of the profile; Twists of its stream
  may_twist,                \* the spin after the last Twist is over
  status, telemetry,        \* st: the last status; whether both streams came
  sig,                      \* a signal's flag is set
  signals,                  \* how many came
  streamed, code,
  flushed,                  \* zeros sent by an abort
  last_twist,               \* observer: what was last published
  late                      \* observer: streamed Twists since the first signal

profileVars == <<profile, expected, at, pstep, n_twists, may_twist, status, telemetry,
                 sig, signals, streamed, code, flushed, last_twist, late>>

PROFILES == [
  listen       |-> <<"wait">>,
  walk_03      |-> <<"wait", "stream", "wait">>,
  walk_03_kill |-> <<"wait", "stream", "kill_bridge", "wait">>,
  turn_10      |-> <<"wait", "stream", "wait", "stream", "wait">>]

\* validate_profile(), less the numbers
Valid(name) ==
  /\ PROFILES[name][Len(PROFILES[name])] = "wait"
  /\ "kill_bridge" \in {PROFILES[name][i] : i \in DOMAIN PROFILES[name]} => name = "walk_03_kill"

StepNow == PROFILES[profile][pstep]
Latched == {"ABORTED", "YIELDED"}

ProfileInit ==
  /\ profile \in {p \in PROFILES_RUN : Valid(p)}
  /\ expected \in [armed : BOOLEAN, state : {"IDLE", "WAITING"}]
  /\ at = "preflight" /\ pstep = 1 /\ n_twists = 0 /\ may_twist = TRUE
  /\ status = None /\ telemetry = FALSE
  /\ sig = FALSE /\ signals = 0
  /\ streamed = FALSE /\ code = 0 /\ flushed = 0
  /\ last_twist = None /\ late = 0

-----------------------------------------------------------------------------
OnStatus(s) == status' = s /\ UNCHANGED telemetry
OnTelemetry == telemetry' = TRUE /\ UNCHANGED status

ProfileCallback ==
  \/ \E a \in BOOLEAN, b \in BridgeStates : OnStatus([armed |-> a, state |-> b])
  \/ OnTelemetry
  \/ UNCHANGED <<status, telemetry>>

OnSignal ==
  /\ at # "over" /\ signals < MAX_SIGNALS
  /\ sig' = TRUE /\ signals' = signals + 1
  /\ UNCHANGED <<profile, expected, at, pstep, n_twists, may_twist, status, telemetry,
                 streamed, code, flushed, last_twist, late>>

\* the preflight does not look at the flag
AwaitStatus ==
  /\ at = "preflight" /\ (status = None \/ ~telemetry)
  /\ ProfileCallback
  /\ UNCHANGED <<profile, expected, at, pstep, n_twists, may_twist, sig, signals,
                 streamed, code, flushed, last_twist, late>>

PreflightOk(env) == EnvOk(env) /\ telemetry /\ status = expected

PreflightVerdict(env) ==
  /\ at = "preflight"
  /\ IF PreflightOk(env) THEN at' = "steps" /\ UNCHANGED code ELSE at' = "over" /\ code' = 2
  /\ UNCHANGED <<profile, expected, pstep, n_twists, may_twist, status, telemetry, sig, signals,
                 streamed, flushed, last_twist, late>>

-----------------------------------------------------------------------------
(* The steps.                                                              *)
Stepping == at = "steps" /\ pstep <= Len(PROFILES[profile])

\* a KeyboardInterrupt is no Exception
Aborted_mutant == at' = "over" /\ code' = 1 /\ UNCHANGED sig

Aborted ==
  /\ code' = 1
  /\ IF streamed THEN at' = "flush" /\ sig' = FALSE ELSE at' = "over" /\ UNCHANGED sig

SpinSignalled_mutant == StepNow = "wait" /\ sig

SpinSignalled == sig

\* spin_for, of a wait or after a Twist: a signal, a callback, or its end
InSpin == Stepping /\ (StepNow = "wait" \/ (StepNow = "stream" /\ ~may_twist))

ProfileSpin ==
  /\ InSpin
  /\ IF SpinSignalled
     THEN Aborted /\ UNCHANGED <<pstep, may_twist, status, telemetry>>
     ELSE /\ ProfileCallback
          /\ UNCHANGED <<at, code, sig>>
          /\ IF StepNow = "wait"
             THEN pstep' \in {pstep, pstep + 1} /\ UNCHANGED may_twist
             ELSE may_twist' \in BOOLEAN /\ UNCHANGED pstep
  /\ UNCHANGED <<profile, expected, n_twists, signals, streamed, flushed, last_twist, late>>

StreamTwist ==
  /\ Stepping /\ StepNow = "stream" /\ may_twist
  /\ n_twists < TWISTS /\ status.state \notin Latched
  /\ streamed' = TRUE
  /\ n_twists' = n_twists + 1 /\ may_twist' = FALSE
  /\ last_twist' = 1
  /\ late' = IF signals > 0 THEN late + 1 ELSE late
  /\ UNCHANGED <<profile, expected, at, pstep, status, telemetry, sig, signals, code, flushed>>

\* all sent, or stopped because the bridge is latched
StreamEnds ==
  /\ Stepping /\ StepNow = "stream" /\ may_twist
  /\ n_twists = TWISTS \/ status.state \in Latched
  /\ streamed' = TRUE
  /\ pstep' = pstep + 1 /\ n_twists' = 0
  /\ UNCHANGED <<profile, expected, at, may_twist, status, telemetry, sig, signals, code,
                 flushed, last_twist, late>>

KillBridge ==
  /\ Stepping /\ StepNow = "kill_bridge"
  /\ pstep' = pstep + 1
  /\ UNCHANGED <<profile, expected, at, n_twists, may_twist, status, telemetry, sig, signals,
                 streamed, code, flushed, last_twist, late>>

ProfileDone ==
  /\ at = "steps" /\ pstep > Len(PROFILES[profile])
  /\ at' = "over"
  /\ UNCHANGED <<profile, expected, pstep, n_twists, may_twist, status, telemetry, sig, signals,
                 streamed, code, flushed, last_twist, late>>

\* a callback raises: a status that is no JSON
BadStatus ==
  /\ at = "preflight" \/ InSpin
  /\ Aborted
  /\ UNCHANGED <<profile, expected, pstep, n_twists, may_twist, status, telemetry, signals,
                 streamed, flushed, last_twist, late>>

-----------------------------------------------------------------------------
(* An abort ends in three zeros; what happens in the spin after one of     *)
(* them leaves the handler.                                                *)
FlushZero ==
  /\ at = "flush" /\ flushed < 3
  /\ last_twist' = 0
  /\ flushed' = flushed + 1
  /\ UNCHANGED <<profile, expected, at, pstep, n_twists, may_twist, status, telemetry, sig,
                 signals, streamed, code, late>>

FlushEnds ==
  /\ at = "flush" /\ flushed > 0
  /\ at' = "over"
  /\ UNCHANGED <<profile, expected, pstep, n_twists, may_twist, status, telemetry, sig, signals,
                 streamed, code, flushed, last_twist, late>>

ProfileNext ==
  \/ OnSignal \/ AwaitStatus \/ (\E env \in Environments : PreflightVerdict(env))
  \/ ProfileSpin \/ StreamTwist \/ StreamEnds \/ KillBridge \/ ProfileDone \/ BadStatus
  \/ FlushZero \/ FlushEnds

ProfileSpec == ProfileInit /\ [][ProfileNext]_profileVars

-----------------------------------------------------------------------------
(* However many signals come and whenever they do, in the middle of the    *)
(* zeros too: at most one more Twist of a stream is published after the    *)
(* first of them, though it only sets a flag, and a run that is cut short  *)
(* after it streamed ends in a zero Twist (on_signal, spin_for, run_live). *)
SignalEndsStream ==
  /\ late <= 1
  /\ at = "over" /\ code = 1 /\ streamed => last_twist = 0
=============================================================================
