------------------------------- MODULE Go2State --------------------------------
(***************************************************************************)
(* state_core.Go2StateCore, the Go2 side of the feedback channel: it keeps *)
(* the latest input of each stream with its arrival, and composes          *)
(* /go2/robot_status from them on a timer.  Arrivals are readings of the   *)
(* host's wall clock.  A status is what the hexapod reads of it: the echo, *)
(* the motion, and whether the fault list has a hard or a blind item;      *)
(* warnings, levels and numbers for people are left out.                   *)
(***************************************************************************)
EXTENDS MotionDetector

CONSTANTS SPORT_STALE, LOW_STALE, BRIDGE_STALE

VARIABLES
  low_age, unwell,      \* unwell: a motor mode is not 1 or a rear hip is hot
  bridge_age, bridge,   \* the bridge's last status: [latched, echo]
  clock_stepped         \* has a clock estimator of this node FAULTED?

\* the sport stream's arrival is the detector's last sample
stateVars == <<motionVars, low_age, unwell, bridge_age, bridge, clock_stepped>>

StateInit ==
  /\ DetectorInit
  /\ low_age = None /\ unwell = FALSE
  /\ bridge_age = None /\ bridge = None
  /\ clock_stepped = FALSE

StateReset ==
  /\ motion' = "UNKNOWN" /\ since' = None /\ sample_age' = None
  /\ low_age' = None /\ unwell' = FALSE
  /\ bridge_age' = None /\ bridge' = None
  /\ clock_stepped' = FALSE

OnSport(cand) ==
  /\ Update(cand)
  /\ UNCHANGED <<low_age, unwell, bridge_age, bridge, clock_stepped>>

OnLow(bad) ==
  /\ low_age' = 0 /\ unwell' = bad
  /\ UNCHANGED <<motionVars, bridge_age, bridge, clock_stepped>>

OnBridge(status) ==
  /\ bridge_age' = 0 /\ bridge' = status
  /\ UNCHANGED <<motionVars, low_age, unwell, clock_stepped>>

\* on_clock, with an estimator that saw a step: FAULTED is latched
OnClockStep ==
  /\ clock_stepped' = TRUE
  /\ UNCHANGED <<motionVars, low_age, unwell, bridge_age, bridge>>

Fresh(age, limit) == age # None /\ age <= limit

SportFresh == Fresh(sample_age, SPORT_STALE)
LowFresh == Fresh(low_age, LOW_STALE)

BridgeFresh_mutant == bridge_age # None

BridgeFresh == Fresh(bridge_age, BRIDGE_STALE)

Hard ==
  \/ ~BridgeFresh
  \/ BridgeFresh /\ bridge.latched
  \/ LowFresh /\ unwell
  \/ clock_stepped

Blind_mutant == ~SportFresh

Blind == ~SportFresh \/ ~LowFresh

MotionShown == IF SportFresh THEN motion ELSE "UNKNOWN"

Status ==
  [echo |-> IF BridgeFresh THEN bridge.echo ELSE None,
   motion |-> MotionShown, hard |-> Hard, blind |-> Blind]

StateElapse(d) ==
  /\ DetectorElapse(d)
  /\ low_age' = Later(low_age, d)
  /\ bridge_age' = Later(bridge_age, d)
  /\ UNCHANGED <<unwell, bridge, clock_stepped>>
=============================================================================
