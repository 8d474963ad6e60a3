----------------------------- MODULE TorqueProbe ------------------------------
(***************************************************************************)
(* go2_torque_probe: a capture of what the motors report, judged against   *)
(* the posture the operator says the robot had, by controls that make the  *)
(* result void when they fail.  A frame has an entry per motor and spare   *)
(* entries; a decoder whose layout is off by some entries bleeds the       *)
(* motors into the spares.  Torques are in counts of a joint's step.       *)
(***************************************************************************)
EXTENDS Ages, FiniteSetsExt, SequencesExt

CONSTANTS
  PAIR, SPARES,         \* motors of a pair of legs, and entries for no motor
  LOADED_COUNTS, DITHER_COUNTS,
  HEAVY,                \* a loaded joint's torque
  WANT                  \* samples asked for

ASSUME TorqueAssumption ==
  /\ PAIR \in Nat \ {0} /\ SPARES \in Nat
  /\ {LOADED_COUNTS, DITHER_COUNTS, HEAVY, WANT} \subseteq Nat \ {0}
  /\ DITHER_COUNTS < LOADED_COUNTS /\ LOADED_COUNTS <= HEAVY

VARIABLES
  robot,      \* up: it stands; reports: the rear's torques; live: the rear's entries
  shift,      \* by how many entries the decoder is off
  posture,    \* --posture
  captured,   \* node.low
  seen,       \* observer: what the robot was at each sample
  result      \* what main printed and returned, or None

torqueVars == <<robot, shift, posture, captured, seen, result>>

FRONT == 0..PAIR - 1
REAR == PAIR..2 * PAIR - 1
SPARE == 2 * PAIR..2 * PAIR + SPARES - 1
Motors == FRONT \cup REAR
Magnitude(x) == IF x < 0 THEN -x ELSE x

-----------------------------------------------------------------------------
(* per_motor_stats and modal_sign_fraction, over a capture.                *)
Taus(low, i) == [k \in DOMAIN low |-> low[k][i].tau]

CAbsMax(low, i) == Max({Magnitude(Taus(low, i)[k]) : k \in DOMAIN low})

Loaded(low, i) == CAbsMax(low, i) >= LOADED_COUNTS

\* of the samples that are not zero, at least 95 in a hundred have one sign
SteadySign(low, i) ==
  LET up == Cardinality({k \in DOMAIN low : Taus(low, i)[k] > 0})
      down == Cardinality({k \in DOMAIN low : Taus(low, i)[k] < 0})
  IN 100 * Max({up, down}) >= 95 * (up + down)

-----------------------------------------------------------------------------
(* evaluate: the predictions that hold, fail or do not apply (None).       *)
\* the warmest rear sample instead of the coldest
RearAlive_mutant(low) ==
  \E i \in REAR, k \in DOMAIN low : low[k][i].q > 0 /\ low[k][i].temp > 0

RearAlive(low) ==
  /\ \E i \in REAR, k \in DOMAIN low : low[k][i].q > 0
  /\ \A i \in REAR, k \in DOMAIN low : low[k][i].temp > 0

SpareLive(low) == \E i \in SPARE, k \in DOMAIN low : low[k][i].q # 0 \/ low[k][i].tau # 0

Evaluate(low, standing) ==
  [PT1 |-> RearAlive(low),
   PT2 |-> IF standing THEN \E i \in REAR : Loaded(low, i) ELSE None,
   PT4 |-> IF standing THEN \E i \in FRONT : Loaded(low, i) ELSE None,
   PT5 |-> IF \E i \in Motors : Loaded(low, i)
           THEN \A i \in Motors : Loaded(low, i) => SteadySign(low, i) ELSE None,
   PT6 |-> IF standing THEN None ELSE \A i \in Motors : CAbsMax(low, i) <= DITHER_COUNTS,
   PT9 |-> ~SpareLive(low)]

CriticalFor(label) == IF label = "standing" THEN {"PT1", "PT4"} ELSE {"PT1"}

FailedCritical(rows, label) == {p \in CriticalFor(label) : rows[p] # TRUE}
Falsified(rows, label) == {p \in DOMAIN rows \ CriticalFor(label) : rows[p] = FALSE}

\* main: what is read from the capture, valid or not
Reading(low, label) ==
  CASE label # "standing" -> "baseline"
    [] label = "standing" ->
         IF ~\E i \in FRONT : Loaded(low, i) THEN "neither responds"
         ELSE IF \E i \in REAR : Loaded(low, i) THEN "rear responds" ELSE "rear not reported"

Judge(low, label) ==
  LET rows == Evaluate(low, label = "standing")
  IN IF low = <<>> THEN [code |-> 2, reading |-> None, falsified |-> {}]
     ELSE [code |-> IF FailedCritical(rows, label) = {} THEN 0 ELSE 1,
           reading |-> Reading(low, label),
           falsified |-> Falsified(rows, label)]

-----------------------------------------------------------------------------
(* The robot and the capture.  Dither has either sign.                     *)
Robots == [up : BOOLEAN, reports : BOOLEAN, live : BOOLEAN]

TorqueInit ==
  /\ robot \in Robots
  /\ shift \in 0..SPARES
  /\ posture \in {"standing", "lying"}
  /\ captured = <<>> /\ seen = <<>>
  /\ result = None

Entry(i, dither) ==
  LET dead == [tau |-> 0, q |-> 0, temp |-> 0]
      tau == IF i \in REAR /\ ~robot.reports THEN 0 ELSE IF robot.up THEN HEAVY ELSE dither
  IN IF i \notin Motors \/ (i \in REAR /\ ~robot.live) THEN dead
     ELSE [tau |-> tau, q |-> 1, temp |-> 30]

OnLowState(dither) ==
  /\ result = None /\ Len(captured) < WANT
  /\ captured' = Append(captured,
       [i \in Motors \cup SPARE |-> Entry(i - shift, dither)])
  /\ seen' = Append(seen, robot)
  /\ UNCHANGED <<robot, shift, posture, result>>

\* the operator makes it stand up or lie down
ChangePosture ==
  /\ result = None
  /\ robot' = [robot EXCEPT !.up = ~@]
  /\ UNCHANGED <<shift, posture, captured, seen, result>>

\* the rear falls silent, in its torques or altogether, or comes back
RearChanges(reports, live) ==
  /\ result = None
  /\ robot' = [robot EXCEPT !.reports = reports, !.live = live]
  /\ UNCHANGED <<shift, posture, captured, seen, result>>

\* all came, or the timeout
CollectionEnds ==
  /\ result = None
  /\ result' = Judge(captured, posture)
  /\ UNCHANGED <<robot, shift, posture, captured, seen>>

TorqueNext ==
  \/ \E dither \in {-DITHER_COUNTS, 0, 1} : OnLowState(dither)
  \/ ChangePosture \/ CollectionEnds
  \/ \E reports, live \in BOOLEAN : RearChanges(reports, live)

TorqueSpec == TorqueInit /\ [][TorqueNext]_torqueVars

-----------------------------------------------------------------------------
Stood == \E k \in DOMAIN seen : seen[k].up
RearLive == \A k \in DOMAIN seen : seen[k].live
RearLoaded == \E k \in DOMAIN seen : seen[k].up /\ seen[k].reports

(* What a result that is called valid is worth, in a frame whose spares    *)
(* were inert.  Labelled "standing" it is read right: the robot did stand, *)
(* every sample had the rear's entries, and "rear responds" is said when   *)
(* and only when they reported torque at a sample at which it stood.       *)
(* Labelled "lying" a robot that stood is not refused; it shows in PT6     *)
(* falsified, and only then, so there a wrong label does give the wrong    *)
(* verdict that --posture's help speaks of.  One compound fault passes     *)
(* both guards of a lying capture: a dead rear read by a decoder that is   *)
(* off by a whole pair takes the front for the rear, and nothing reaches   *)
(* the spares (main, evaluate's PT1, PT4, PT6 and PT9).                    *)
ReadingIsSound ==
  result # None /\ result.code = 0 /\ "PT9" \notin result.falsified =>
    /\ RearLive \/ (posture = "lying" /\ shift = PAIR)
    /\ posture = "standing" =>
         /\ Stood
         /\ result.reading = IF RearLoaded THEN "rear responds" ELSE "rear not reported"
    /\ posture = "lying" => ("PT6" \in result.falsified <=> Stood)
=============================================================================
