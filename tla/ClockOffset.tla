----------------------------- MODULE ClockOffset ------------------------------
(***************************************************************************)
(* clock_offset.ClockOffsetEstimator: the offset of a robot's stamps to    *)
(* this host's clock, frozen at the least difference of a first window of  *)
(* samples, and a fault, latched, once enough samples in a row disagree.   *)
(* The window is kept as its length and its minimum.                       *)
(***************************************************************************)
EXTENDS Ages

CONSTANTS SAMPLES, STEP_THRESHOLD, STEP_CONSECUTIVE    \* window, step_*

ASSUME ClockAssumption ==
  /\ {SAMPLES, STEP_CONSECUTIVE} \subseteq Nat \ {0}
  /\ STEP_THRESHOLD \in Nat

VARIABLES
  clock,            \* _state
  n_deltas, least,  \* _deltas
  offset,           \* _offset
  bad_run

clockVars == <<clock, n_deltas, least, offset, bad_run>>

ClockInit ==
  /\ clock = "CONVERGING"
  /\ n_deltas = 0 /\ least = None
  /\ offset = None
  /\ bad_run = 0

ClockReset ==
  /\ clock' = "CONVERGING"
  /\ n_deltas' = 0 /\ least' = None
  /\ offset' = None
  /\ bad_run' = 0

Least(delta) == IF least = None \/ delta < least THEN delta ELSE least

Collect(delta) ==
  /\ clock = "CONVERGING" /\ n_deltas + 1 < SAMPLES
  /\ n_deltas' = n_deltas + 1
  /\ least' = Least(delta)
  /\ UNCHANGED <<clock, offset, bad_run>>

Freeze(delta) ==
  /\ clock = "CONVERGING" /\ n_deltas + 1 >= SAMPLES
  /\ clock' = "CONVERGED"
  /\ offset' = Least(delta)
  /\ n_deltas' = 0 /\ least' = None
  /\ UNCHANGED bad_run

Stepped_mutant(delta) == delta - offset > STEP_THRESHOLD

Stepped(delta) == delta - offset > STEP_THRESHOLD \/ offset - delta > STEP_THRESHOLD

Watch(delta) ==
  /\ clock = "CONVERGED"
  /\ bad_run' = IF Stepped(delta) THEN bad_run + 1 ELSE 0
  /\ clock' = IF bad_run' >= STEP_CONSECUTIVE THEN "FAULTED" ELSE clock
  /\ UNCHANGED <<n_deltas, least, offset>>

Deaf == clock = "FAULTED" /\ UNCHANGED clockVars

\* add(): a sample that arrived delta after its stamp
Add(delta) == Collect(delta) \/ Freeze(delta) \/ Watch(delta) \/ Deaf
=============================================================================
