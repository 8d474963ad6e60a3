---------------------------- MODULE MotionDetector -----------------------------
(***************************************************************************)
(* state_core.MotionDetector: is the body moving?  A sample's candidate    *)
(* (velocity and displacement over the window agree, or not) becomes the   *)
(* state once it has disagreed with the state for WINDOW.  The history of  *)
(* positions is abstracted to what it decides, the candidate; of a history *)
(* that holds one sample the displacement is nil, so it is STOPPED.        *)
(***************************************************************************)
EXTENDS Ages

CONSTANT WINDOW     \* window_s

VARIABLES
  motion,           \* "MOVING", "STOPPED" or "UNKNOWN"
  since,            \* age of the sample at which the candidate began to disagree
  sample_age        \* age of the last sample

motionVars == <<motion, since, sample_age>>

Candidates == {"MOVING", "STOPPED"}

DetectorInit == motion = "UNKNOWN" /\ since = None /\ sample_age = None

\* longer than the window since the last sample: reset() before it is used
Gap == sample_age # None /\ sample_age > WINDOW

Single == sample_age = None \/ Gap

Held == IF Gap THEN "UNKNOWN" ELSE motion

Disagreed == IF Gap THEN None ELSE since

Sustained_mutant(cand) == cand # Held /\ Disagreed # None

Sustained(cand) == cand # Held /\ Disagreed # None /\ Disagreed >= WINDOW

Update(cand) ==
  /\ Single => cand = "STOPPED"
  /\ sample_age' = 0
  /\ motion' = IF Sustained(cand) THEN cand ELSE Held
  /\ since' = IF cand = Held \/ Sustained(cand) THEN None
              ELSE IF Disagreed = None THEN 0 ELSE Disagreed

DetectorElapse(d) ==
  /\ since' = Later(since, d)
  /\ sample_age' = Later(sample_age, d)
  /\ UNCHANGED motion
=============================================================================
