---------------------------- MODULE MotionReport -----------------------------
(***************************************************************************)
(* What go2_sport_probe and cmd_vel_profile report of a recorded run: did  *)
(* a single Move persist (PM3), which way did each streamed Move carry the *)
(* robot (PM4), how far did it go once it was told to stop (PV3) or lost   *)
(* its bridge (PV4).  Positions are whole numbers on the two axes of the   *)
(* odometry; a heading is a number of quarter turns.  Samples may be lost. *)
(***************************************************************************)
EXTENDS Ages, FiniteSetsExt

CONSTANTS
  TRIALS,                   \* within {"once", "stream", "kill"}
  ONSET, TAIL,              \* PM3_ONSET_M, PM3_TAIL_S
  STOP_AT,                  \* when move_once sends its StopMove
  SEG_GAP, EXTRA,           \* three periods of a stream; the 1.5 s after it
  STREAM, PAUSE,            \* length of a stream; and of the wait between two
  OVERTIME,                 \* the Moves a bridge sends after the last Twist
  STOP_LIMIT, KILL_LIMIT, KILL_TIME,
  COASTS, GAPS,             \* how long the robot goes on; samples lost at once
  END                       \* of the recording

ASSUME ReportAssumption ==
  /\ {ONSET, TAIL, STOP_AT, SEG_GAP, EXTRA, STREAM, PAUSE, OVERTIME, STOP_LIMIT,
      KILL_LIMIT, KILL_TIME, END} \subseteq Nat
  /\ COASTS \cup GAPS \subseteq Nat
  /\ TRIALS \subseteq {"once", "stream", "kill"}
  /\ SEG_GAP < PAUSE /\ EXTRA < PAUSE       \* the waits of PLANS and PROFILES
  /\ SEG_GAP >= 2 /\ EXTRA >= 1 /\ STREAM >= 2 /\ OVERTIME >= 1
  \* the recording goes on after the last stream, and after the time a stop is given
  /\ 2 * (STREAM + OVERTIME) + PAUSE + EXTRA <= END /\ STREAM + KILL_TIME < END
  /\ None \notin {"PERSISTS", "NO CONCLUSION", "PASS", "FAIL"}

VARIABLES
  trial,                    \* what was run, and what the robot did
  report                    \* what is printed, or None

-----------------------------------------------------------------------------
(* The run.  toward: with the command, against it, or refused.             *)
Trials ==
  [kind : TRIALS, sign : {1, -1}, heading : 0..3, toward : {1, 0, -1}, coast : COASTS,
   lost_at : 0..STOP_AT, lost : GAPS, missed : {1, STREAM, END}]

\* the streams <<first, last, direction>> of Moves
Streams(c) ==
  CASE c.kind = "once" -> {<<0, 0, c.sign>>}
    [] c.kind = "kill" -> {<<0, STREAM, c.sign>>}
    [] c.kind = "stream" -> {<<0, STREAM + OVERTIME, c.sign>>,
                             <<STREAM + OVERTIME + PAUSE, 2 * (STREAM + OVERTIME) + PAUSE, -c.sign>>}

\* the Moves heard, and the parameter of each; of each stream one is missed
MovesHeard(c) ==
  UNION {{<<t, s[3]>> : t \in (s[1]..s[2]) \ {s[1] + c.missed}} : s \in Streams(c)}

Stops(c) ==
  CASE c.kind = "once" -> {STOP_AT}
    [] c.kind = "kill" -> {}
    [] c.kind = "stream" -> {s[2] + 1 : s \in Streams(c)}

\* the ticks before t for which a stream of that direction moves the robot
Walked(c, direction, t) ==
  Cardinality({u \in 0..(t - 1) :
                 \E s \in Streams(c) : s[3] = direction /\ s[1] <= u /\ u <= s[2] + c.coast})

\* where on the axis of the command the robot is: a unit a tick
Along(c, t) == c.toward * (Walked(c, 1, t) - Walked(c, -1, t))

Cos(q) == CASE q = 0 -> 1 [] q = 2 -> -1 [] OTHER -> 0
Sin(q) == CASE q = 1 -> 1 [] q = 3 -> -1 [] OTHER -> 0

SportRow(c, t) == [px |-> Cos(c.heading) * Along(c, t), py |-> Sin(c.heading) * Along(c, t),
                 yaw |-> c.heading]

Heard(c) == {t \in 0..END : t < c.lost_at \/ c.lost_at + c.lost <= t}

-----------------------------------------------------------------------------
(* _body_disp: forward and left of the heading at the first of two rows.   *)
BodyDisp_mutant(r0, r1) == <<r1.px - r0.px, r1.py - r0.py>>

BodyDisp(r0, r1) ==
  LET dx == r1.px - r0.px
      dy == r1.py - r0.py
  IN <<Cos(r0.yaw) * dx + Sin(r0.yaw) * dy, Cos(r0.yaw) * dy - Sin(r0.yaw) * dx>>

\* of a displacement along one axis
Norm(disp) == Max({disp[1], -disp[1], disp[2], -disp[2]})

\* the sign of the vx the Move was logged with
MoveSign(c) == c.sign

\* PM3; no sample in the tail, or one, makes `advance` a NaN
Persists(c, moved, ts) ==
  LET rows == Heard(c) \cap moved..ts
      seg(t) == MoveSign(c) * BodyDisp(SportRow(c, Min(rows)), SportRow(c, t))[1]
      last == {t \in rows : t >= ts - TAIL}
  IN IF rows = {} THEN None
     ELSE IF \A t \in rows : seg(t) <= ONSET THEN "NO CONCLUSION"
     ELSE IF Cardinality(last) >= 2 /\ seg(Max(last)) - seg(Min(last)) > ONSET THEN "PERSISTS"
     ELSE "does NOT persist"

\* _segments: each <<first, last, parameter>>
Segments(moves) ==
  LET joins(m, e) == m[1] < e[1] /\ e[1] - m[1] <= SEG_GAP /\ m[2] = e[2]
      firsts == {e \in moves : ~\E m \in moves : joins(m, e)}
      of(f) == {e \in moves : /\ e[1] >= f[1] /\ e[2] = f[2]
                              /\ ~\E g \in firsts : g[2] = f[2] /\ f[1] < g[1] /\ g[1] <= e[1]}
  IN {<<f[1], Max({e[1] : e \in of(f)}), f[2]>> : f \in firsts}

\* PM4: how far each streamed Move went; "NO DATA" without a sample in it
Displaced(c) ==
  {LET ext == {t \in Heard(c) : seg[1] <= t /\ t <= seg[2] + EXTRA}
   IN [seg |-> seg, disp |-> BodyDisp(SportRow(c, Min(ext)), SportRow(c, Max(ext)))] :
     seg \in {s \in Segments(MovesHeard(c)) : Heard(c) \cap s[1]..s[2] # {}}}

\* _travel_after: "stopped" is within one unit of where it ended
Travel(c, t0, limit, time) ==
  LET rows == {t \in Heard(c) : t >= t0}
      end == SportRow(c, Max(rows))
      moving == {t \in rows : Norm(BodyDisp(SportRow(c, t), end)) > 1}
      stopped == IF moving = {} THEN 0 ELSE Max(moving) - t0
  IN IF Cardinality(rows) < 2 THEN None
     ELSE IF Norm(BodyDisp(SportRow(c, Min(rows)), end)) <= limit /\ stopped <= time THEN "PASS"
     ELSE "FAIL"

\* when the last Twist was published, in a run of cmd_vel_profile
LastTwist(c) == Max({s[2] : s \in Streams(c)}) - (IF c.kind = "stream" THEN OVERTIME ELSE 0)

\* the watchdog's StopMove; the last Move that was sent before the kill
ToldToStop(c) == Min({t \in Stops(c) : t > LastTwist(c)})
LastMove(c) == Max({m[1] : m \in MovesHeard(c)})

Report(c) ==
  [pm3 |-> IF c.kind = "once" THEN Persists(c, 0, Min(Stops(c))) ELSE None,
   pm4 |-> IF c.kind # "once" THEN Displaced(c) ELSE {},
   overtime |-> IF c.kind = "once" THEN None
                ELSE Cardinality({m \in MovesHeard(c) : m[1] > LastTwist(c)}),
   pv3 |-> IF c.kind = "stream" THEN Travel(c, ToldToStop(c), STOP_LIMIT, END) ELSE None,
   pv4 |-> IF c.kind = "kill" THEN Travel(c, LastMove(c), KILL_LIMIT, KILL_TIME) ELSE None]

MotionInit == trial \in Trials /\ report = None

AnalyseRun == report = None /\ report' = Report(trial) /\ UNCHANGED trial

MotionSpec == MotionInit /\ [][AnalyseRun]_<<trial, report>>

-----------------------------------------------------------------------------
\* how far along the command the robot got, between two times
Gained(c, t, u) == c.sign * (Along(c, u) - Along(c, t))
Went(c, t) == Max({Gained(c, t, END), -Gained(c, t, END)})

(* The report says what the robot did, whichever way it faced and whatever *)
(* samples were lost: it never says that a Move persisted, or a stop was   *)
(* overrun, of a robot that did not; and with the samples that bound the   *)
(* window it never says the opposite either.  A robot that walked against  *)
(* its command is reported as such, each stream by itself, and one that    *)
(* walked at all never as at rest, unless it coasts through all of the     *)
(* next stream (analyse, analyse_bridge, _body_disp, _segments,            *)
(* _travel_after).                                                         *)
ReportIsTrue ==
  report # None =>
    LET c == trial
        tail == Gained(c, STOP_AT - TAIL, STOP_AT) > ONSET
    IN
    /\ report.pm3 = "PERSISTS" => tail
    /\ c.kind = "once" /\ {0, STOP_AT - TAIL, STOP_AT} \subseteq Heard(c) =>
         /\ tail => report.pm3 = "PERSISTS"
         /\ report.pm3 = "NO CONCLUSION" <=> \A t \in 0..STOP_AT : Gained(c, 0, t) <= ONSET
    /\ \A p \in report.pm4 :
         /\ p.disp[2] = 0
         /\ p.disp[1] * c.toward * p.seg[3] >= 0
         /\ c.lost = 0 /\ c.toward # 0 /\ c.coast < STREAM + OVERTIME + PAUSE => p.disp[1] # 0
    /\ c.kind = "stream" =>
         {p.seg : p \in report.pm4} = {s \in Streams(c) : Heard(c) \cap s[1]..s[2] # {}}
    /\ report.pv3 = "FAIL" => Went(c, ToldToStop(c)) > STOP_LIMIT
    /\ report.pv3 = "PASS" /\ {ToldToStop(c), END} \subseteq Heard(c) =>
         Went(c, ToldToStop(c)) <= STOP_LIMIT
    /\ report.pv4 = "PASS" /\ {LastMove(c), END} \subseteq Heard(c) =>
         Went(c, LastMove(c)) <= KILL_LIMIT
    /\ report.pv4 = "PASS" /\ c.lost = 0 => Went(c, LastMove(c) + KILL_TIME + 1) <= 1
    /\ report.overtime # None => report.overtime = IF c.kind = "stream" THEN OVERTIME ELSE 0
=============================================================================
