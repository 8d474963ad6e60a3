----------------------------- MODULE UnloadProbe ------------------------------
(***************************************************************************)
(* The analysis of go2_unload_probe: edges in the load of each leg, from   *)
(* samples that may be lost on the way, and what they say of what was done *)
(* to the robot by hand.  A series is a function on 0..n-1.  What was done *)
(* is a capture: nothing, one leg or the whole robot lifted and put back.  *)
(***************************************************************************)
EXTENDS Ages, FiniteSetsExt, SequencesExt

CONSTANTS
  MEDIAN_WIN, LAG, SETTLE,      \* in samples
  EDGE_COUNTS, MOVE,            \* in counts
  TICK_MOD, MAX_GAP,            \* of the robot's tick: 2 ** 32, and 20
  WARMUP,                       \* WARMUP_S, in ticks
  HOLD, HOLDS,                  \* the protocol holds each state at least HOLD
  STAND, LIFT, SHIFTS,          \* load: standing, lost when lifted, taken by the others
  SPIKE, SPIKED_AT,             \* of one sample; when
  LOST_AT, LOST,                \* samples lost on the way: where, how many
  DITHER_LOAD                   \* an unloaded leg shows no more

\* a state is held so long that no window reaches over two steps (levels_around
\* asks for "at least ~2 s") even if the warm-up hid a gap as long as itself in
\* the first; the tick takes longer to come round
ASSUME UnloadAssumption ==
  /\ {MEDIAN_WIN, LAG, SETTLE, EDGE_COUNTS, MOVE, MAX_GAP, WARMUP, HOLD, TICK_MOD} \subseteq Nat \ {0}
  /\ MEDIAN_WIN >= 4 /\ LAG % 2 = 0 /\ SETTLE >= 2 /\ MOVE <= EDGE_COUNTS
  /\ 2 * LAG + 3 * SETTLE + MEDIAN_WIN + MAX_GAP + WARMUP <= HOLD /\ 5 * HOLD <= TICK_MOD
  /\ HOLDS \subseteq Nat /\ \A held \in HOLDS : HOLD <= held
  /\ SPIKE \in Int /\ SPIKED_AT \subseteq Nat
  /\ LOST_AT \subseteq 1..3 * HOLD /\ LOST \subseteq 0..2 * HOLD

\* a lifted leg keeps less than the dither band, and a lift that is not put
\* back whole is still an edge, and more than the other legs take over
ASSUME LoadAssumption ==
  /\ {STAND, LIFT, DITHER_LOAD} \cup SHIFTS \subseteq Nat
  /\ LIFT <= STAND /\ STAND - LIFT <= DITHER_LOAD
  /\ EDGE_COUNTS <= 2 * LIFT - STAND
  /\ \A taken \in SHIFTS : MOVE <= taken /\ taken < 2 * LIFT - STAND

VARIABLES
  capture,                      \* what was done, and what was lost on the way
  verdict                       \* what analyse says of it, or None

Legs == 0..3
Size(x) == IF x < 0 THEN -x ELSE x

-----------------------------------------------------------------------------
(* median_filter, level and levels_around.                                 *)
AtRank(xs, S, r) ==     \* the value of rank r among xs over S
  CHOOSE v \in {xs[i] : i \in S} :
    /\ Cardinality({i \in S : xs[i] < v}) <= r
    /\ Cardinality({i \in S : xs[i] <= v}) > r

Median(xs, S) ==
  LET c == Cardinality(S) IN (AtRank(xs, S, (c - 1) \div 2) + AtRank(xs, S, c \div 2)) \div 2

Window(xs, k) == {i \in DOMAIN xs : k - MEDIAN_WIN \div 2 <= i /\ i <= k + MEDIAN_WIN \div 2}

\* a mean
Smoothed_mutant(xs) ==
  [k \in DOMAIN xs |-> MapThenSumSet(LAMBDA i : xs[i], Window(xs, k)) \div Cardinality(Window(xs, k))]

Smoothed(xs) == [k \in DOMAIN xs |-> Median(xs, Window(xs, k))]

Level(xs, lo, hi) ==
  LET S == {i \in DOMAIN xs : i >= lo /\ (i < hi \/ (hi < 1 /\ i = 0))}
  IN IF S = {} THEN 0 ELSE Median(xs, S)

LevelsAround(xs, k) ==
  <<Level(xs, k - LAG \div 2 - 3 * SETTLE, k - LAG \div 2 - 2 * SETTLE),
    Level(xs, k + LAG \div 2 + 2 * SETTLE, k + LAG \div 2 + 3 * SETTLE)>>

-----------------------------------------------------------------------------
(* find_edges.                                                             *)
Difference(xs, k) == xs[k + LAG] - xs[k]

Raw(xs) == {k \in DOMAIN xs : k + LAG \in DOMAIN xs /\ Size(Difference(xs, k)) >= EDGE_COUNTS}

\* detections no more than a lag apart are one edge
FirstOfGroup(raw) == {k \in raw : raw \cap (k - LAG)..(k - 1) = {}}
GroupFrom(raw, first) ==
  {k \in raw : k >= first /\ FirstOfGroup(raw) \cap (first + 1)..k = {}}

Steepest(xs, group) ==
  Min({k \in group : \A j \in group : Size(Difference(xs, j)) <= Size(Difference(xs, k))})

\* the samples between 10 and 90 percent of the way
Crossed(xs, k, before, delta) ==
  {j \in DOMAIN xs :
     /\ k - (LAG + SETTLE) <= j /\ j < k + LAG + SETTLE
     /\ LET way == 10 * (xs[j] - before)
        IN \/ delta <= way /\ way <= 9 * delta
           \/ 9 * delta <= way /\ way <= delta}

EdgeAt(xs, k) ==
  LET l == LevelsAround(xs, k)
  IN [i |-> k, before |-> l[1], after |-> l[2], delta |-> l[2] - l[1],
      crossed |-> Crossed(xs, k, l[1], l[2] - l[1])]

FindEdges(xs) ==
  IF Cardinality(DOMAIN xs) < LAG + 6 * SETTLE THEN {}
  ELSE LET raw == Raw(xs)
           found == {EdgeAt(xs, Steepest(xs, GroupFrom(raw, k)) + LAG \div 2) :
                       k \in FirstOfGroup(raw)}
       IN {e \in found : Size(e.delta) >= EDGE_COUNTS}

-----------------------------------------------------------------------------
(* analyse: PU0 and PU2 to PU5, over the ticks and the four smoothed series. *)
Gaps(tick, t) ==
  {k \in DOMAIN tick \ {0} : (tick[k] - tick[k - 1]) % TICK_MOD > MAX_GAP /\ t[k] - t[0] >= WARMUP}

AllEdges(s) ==
  UNION {{[leg |-> leg, edge |-> e] : e \in FindEdges(s[leg])} : leg \in Legs}

\* an event: edges each within SETTLE of the one before
EventStarts(edges) == {e.edge.i : e \in edges} \
  {k \in {e.edge.i : e \in edges} : \E e \in edges : e.edge.i < k /\ k - e.edge.i <= SETTLE}
EventOf(edges, start) ==
  {e \in edges : e.edge.i >= start /\ EventStarts(edges) \cap (start + 1)..e.edge.i = {}}

Dominant(event) ==
  CHOOSE e \in event : \A f \in event : Size(f.edge.delta) <= Size(e.edge.delta)

Others(s, e) ==
  [leg \in Legs \ {e.leg} |->
     LET l == LevelsAround(s[leg], e.edge.i) IN l[2] - l[1]]

OthersMoving(s, e, sign) ==
  Cardinality({leg \in Legs \ {e.leg} :
                 LET d == Others(s, e)[leg]
                 IN sign * d * e.edge.delta > 0 /\ Size(d) >= MOVE})

\* PU2: the predicate depends on what the operator says was done
Redistributed(s, step, edges) ==
  \A start \in EventStarts(edges) :
    LET e == Dominant(EventOf(edges, start))
    IN IF step = "wholebody" THEN OthersMoving(s, e, 1) = 3 ELSE OthersMoving(s, e, -1) >= 2

\* down, then up, on one leg, and nothing between
Pairs(edges) ==
  {p \in edges \X edges :
     /\ p[1].leg = p[2].leg /\ p[1].edge.i < p[2].edge.i
     /\ p[1].edge.delta < 0 /\ p[2].edge.delta > 0
     /\ ~\E e \in edges : /\ e.leg = p[1].leg
                         /\ p[1].edge.i < e.edge.i /\ e.edge.i < p[2].edge.i}

Change(p) == Size(p[2].edge.after - p[1].edge.before)

\* PU5: the pair that changed most is back within a tenth
NoHysteresis(edges) ==
  LET worst == CHOOSE p \in Pairs(edges) : \A q \in Pairs(edges) : Change(q) <= Change(p)
  IN worst[1].edge.before # 0 /\ 10 * Change(worst) <= Size(worst[1].edge.before)

\* PU3: how long the edges took that took more than a sample
Rises(t, edges) ==
  {t[Max(e.edge.crossed)] - t[Min(e.edge.crossed)] :
     e \in {f \in edges : Cardinality(f.edge.crossed) >= 2}}

Mark(ok) == IF ok THEN "PASS" ELSE "FAIL"

\* PU2, PU4 and PU5 are None without the edges they are about
AnalyseCapture(tick, t, s, step) ==
  LET edges == AllEdges(s)
      downs == {e \in edges : e.edge.delta < 0}
  IN [continuous |-> Gaps(tick, t) = {},
      edges |-> {[leg |-> e.leg, i |-> e.edge.i, delta |-> e.edge.delta] : e \in edges},
      bottomed |-> IF downs = {} THEN None ELSE Mark(\E e \in downs : e.edge.after <= DITHER_LOAD),
      redistributed |-> IF edges = {} \/ step = "baseline" THEN None
                        ELSE Mark(Redistributed(s, step, edges)),
      rises |-> Rises(t, edges),
      returned |-> IF Pairs(edges) = {} THEN None ELSE Mark(NoHysteresis(edges))]

-----------------------------------------------------------------------------
(* What is done to the robot, tick by tick, and what of it arrives.        *)
Captures ==
  [did : {"singleleg", "wholebody", "baseline"}, label : {"singleleg", "wholebody", "baseline"},
   lifted : HOLDS, held : HOLDS, kept : {0, STAND - LIFT}, shift : SHIFTS,
   spiked : SPIKED_AT, lost_at : LOST_AT, lost : LOST]

Returned(c) == c.lifted + c.held
Lifts(c, leg) == c.did = "wholebody" \/ (c.did = "singleleg" /\ leg = 2)

Load(c, leg, tick) ==
  LET up == c.did # "baseline" /\ c.lifted <= tick /\ tick < Returned(c)
      back == c.did # "baseline" /\ Returned(c) <= tick
      lost == IF Lifts(c, leg) THEN (IF up THEN LIFT ELSE IF back THEN c.kept ELSE 0)
              ELSE IF up THEN -c.shift ELSE 0
  IN STAND - lost + (IF tick = c.spiked /\ leg = 1 THEN SPIKE ELSE 0)

TickOf(c, k) == IF k >= c.lost_at THEN k + c.lost ELSE k
Rows(c) == 0..(Returned(c) + HOLD)

Arrived(c) == [k \in Rows(c) |-> TickOf(c, k)]
Tick(c) == [k \in Rows(c) |-> (TICK_MOD - 2 + TickOf(c, k)) % TICK_MOD]
Series(c) == [leg \in Legs |-> Smoothed([k \in Rows(c) |-> Load(c, leg, TickOf(c, k))])]

UnloadInit == capture \in Captures /\ verdict = None

Analyse ==
  /\ verdict = None
  /\ verdict' = AnalyseCapture(Tick(capture), Arrived(capture), Series(capture), capture.label)
  /\ UNCHANGED capture

UnloadSpec == UnloadInit /\ [][Analyse]_<<capture, verdict>>

-----------------------------------------------------------------------------
\* the steps of a leg's load no smaller than the threshold, as <<tick, delta>>
TrueSteps(c, leg) ==
  LET down == IF Lifts(c, leg) THEN -LIFT ELSE c.shift
      again == IF Lifts(c, leg) THEN LIFT - c.kept ELSE -c.shift
  IN {step \in {<<c.lifted, down>>, <<Returned(c), again>>} :
        c.did # "baseline" /\ Size(step[2]) >= EDGE_COUNTS}

(* A capture that passes the continuity control, whatever it lost that the *)
(* control lets pass (less than MAX_GAP, or a gap that is over before the  *)
(* warm-up) and whatever sample was a spike: there is an edge for every    *)
(* step of a leg's load, with its size, and for nothing else, and a sharp  *)
(* step is not reported as a slow one; nothing is concluded of a robot to  *)
(* which nothing was done; of another, PU2 passes exactly when the         *)
(* operator did what the label says, PU4 passes, and PU5 does exactly when *)
(* the load returned to a tenth (analyse, find_edges).                     *)
VerdictIsTrue ==
  verdict # None /\ verdict.continuous =>
    /\ \A leg \in Legs :
         LET edges == {e \in verdict.edges : e.leg = leg}
             near(e, step) == Size(TickOf(capture, e.i) - step[1]) <= LAG + MAX_GAP
         IN /\ \A e \in edges : \E step \in TrueSteps(capture, leg) :
                 e.delta = step[2] /\ near(e, step)
            /\ \A step \in TrueSteps(capture, leg) : \E e \in edges :
                 e.delta = step[2] /\ near(e, step)
    /\ verdict.rises = {}
    /\ capture.did = "baseline" =>
         verdict.redistributed = None /\ verdict.bottomed = None /\ verdict.returned = None
    /\ capture.did # "baseline" =>
         /\ verdict.redistributed =
              IF capture.label = "baseline" THEN None ELSE Mark(capture.did = capture.label)
         /\ verdict.bottomed = "PASS"
         /\ verdict.returned = Mark(10 * capture.kept <= STAND)
=============================================================================
