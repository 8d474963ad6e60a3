----------------------------- MODULE FeedbackProofs -----------------------------
(***************************************************************************)
(* The feedback loop for every value of the constants: the types, and that *)
(* MOVING or STOPPED rests on recent telemetry and on a bridge that was    *)
(* recently there, however statuses are lost, late, overtaken or repeated  *)
(* and however the Go2 side's wall clock is stepped back.                  *)
(***************************************************************************)
EXTENDS Feedback, AgesProofs, TLAPS

USE DEF Age

Clean(status) == ~status.hard /\ ~status.blind

\* the evidence for a clean status, t after it was composed
Backed(status, t) ==
  Clean(status) =>
    /\ silent["sport"] # None /\ silent["sport"] <= SPORT_STALE + t + stepped
    /\ silent["low"] # None /\ silent["low"] <= LOW_STALE + t + stepped
    /\ lost # None => lost <= BRIDGE_STALE + t + stepped

\* an arrival on the host's clock is as old as the truth, but for the steps
Tracks(true_age, age) ==
  age # None => age + stepped >= 0 /\ true_age # None
                /\ (true_age <= age + stepped \/ age + stepped >= FORGET)

ObserverOK ==
  /\ silent \in [{"sport", "low"} -> Age]
  /\ lost \in Age
  /\ status_age # None => status_age >= 0

ArrivalsTrack ==
  /\ Tracks(silent["sport"], sample_age)
  /\ Tracks(silent["low"], low_age)
  /\ bridge_age # None => bridge_age + stepped >= 0
  /\ bridge_age # None /\ ~bridge.latched /\ lost # None =>
       lost <= bridge_age + stepped \/ bridge_age + stepped >= FORGET
  /\ up /\ ~latched => lost = None

FlightBacked == \A m \in flight : Backed(m.status, m.transit)

\* the status that was dated last
Latest == IF filling THEN incoming ELSE values

ReadingBacked == StatusFresh => Backed(Latest, carried + status_age)

IInv == TypeOK /\ ObserverOK /\ ArrivalsTrack /\ FlightBacked /\ ReadingBacked

LEMMA TypedStatus ==
  ASSUME TypeOK
  PROVE  Status \in Statuses
<1>1. MotionShown \in Candidates \cup {"UNKNOWN"}
  BY DEF MotionShown, TypeOK
<1>2. (IF BridgeFresh THEN bridge.echo ELSE None) \in Stamps \cup {None}
  BY DEF TypeOK, BridgeFresh, Fresh
<1>3. Hard \in BOOLEAN
  BY DEF Hard, TypeOK
<1>4. Blind \in BOOLEAN
  BY DEF Blind
<1>5. QED
  BY <1>1, <1>2, <1>3, <1>4 DEF Status, Statuses

LEMMA TypeInit == Init => TypeOK
<1> SUFFICES ASSUME Init PROVE TypeOK
  OBVIOUS
<1> USE DEF Init, BridgeInit, StateInit, DetectorInit, CheckerInit
<1>1. DOMAIN sent = {}
  OBVIOUS
<1>2. stepped \in 0..MAX_BACK
  BY FeedbackAssumption
<1>3. Blank \in Statuses
  BY DEF Blank, Statuses
<1>4. QED
  BY <1>1, <1>2, <1>3 DEF TypeOK

LEMMA TypedAges ==
  ASSUME TypeOK, NEW d \in {1, -1}, StateElapse(d)
  PROVE  /\ {since', sample_age', low_age', bridge_age'} \subseteq Age
         /\ bridge_age' = None <=> bridge_age = None
<1>1. /\ since' = Later(since, d) /\ sample_age' = Later(sample_age, d)
      /\ low_age' = Later(low_age, d) /\ bridge_age' = Later(bridge_age, d)
  BY DEF StateElapse, DetectorElapse
<1>2. since \in Age /\ sample_age \in Age /\ low_age \in Age /\ bridge_age \in Age
  BY DEF TypeOK
<1>3. \A a \in Age : Later(a, d) \in Age /\ (Later(a, d) = None <=> a = None)
  BY AgeAssumption DEF Later
<1>4. QED
  BY <1>1, <1>2, <1>3

LEMMA TypeStep == TypeOK /\ [Next]_vars => TypeOK'
<1> SUFFICES ASSUME TypeOK, [Next]_vars PROVE TypeOK'
  OBVIOUS
<1> USE FeedbackAssumption, AgeAssumption
    DEF TypeOK, bridgeVars, observed, stateVars, motionVars, sendVars, readVars
<1>1. ASSUME NEW s \in Stamps, Send(s) \/ Replay(s)
      PROVE  TypeOK'
  <2>1. /\ max_sent' \in Stamps \cup {None} /\ last_send_replay' \in BOOLEAN
        /\ cmds' \subseteq Stamps
    <3>1. IsReplay(s) \in BOOLEAN
      BY DEF IsReplay
    <3>2. QED
      BY <1>1, <3>1 DEF Send, Replay, OnSent
  <2>2. DOMAIN sent' \subseteq Stamps /\ \A r \in DOMAIN sent' : sent'[r] \in Int
    <3>1. CASE sent' = sent
      BY <3>1
    <3>2. CASE sent' = [r \in Remembered(DOMAIN sent \cup {s}) |-> IF r = s THEN 0 ELSE sent[r]]
      BY <3>2 DEF Remembered
    <3>3. QED
      BY <1>1, <3>1, <3>2 DEF Send, Replay, OnSent
  <2>3. UNCHANGED <<stateVars, readVars, bridgeVars, flight, stepped, accepted, carried>>
    BY <1>1 DEF Send, Replay, OnSent
  <2>4. QED
    BY <2>1, <2>2, <2>3
<1>2. ASSUME NEW s \in Stamps, CmdLost(s)
      PROVE  TypeOK'
  BY <1>2 DEF CmdLost
<1>3. ASSUME NEW s \in Stamps, NEW again \in BOOLEAN, CmdArrives(s, again)
      PROVE  TypeOK'
  BY <1>3 DEF CmdArrives, Accept
<1>4. CASE BridgeReports
  BY <1>4 DEF BridgeReports, OnBridge
<1>5. CASE BridgeLatches
  BY <1>5 DEF BridgeLatches, Latch
<1>6. CASE BridgeDies
  BY <1>6 DEF BridgeDies, Die
<1>7. CASE BridgeStarts
  BY <1>7 DEF BridgeStarts, Begin
<1>8. ASSUME NEW cand \in Samples, Sport(cand)
      PROVE  TypeOK'
  BY <1>8 DEF Sport, OnSport, Update, Held, Disagreed
<1>9. ASSUME NEW bad \in BOOLEAN, Low(bad)
      PROVE  TypeOK'
  BY <1>9 DEF Low, OnLow
<1>10. CASE ClockFaults
  BY <1>10 DEF ClockFaults, OnClockStep
<1>11. CASE StatusTick
  BY <1>11, TypedStatus DEF StatusTick
<1>12. CASE StateNodeStarts
  BY <1>12 DEF StateNodeStarts, StateReset
<1>13. ASSUME NEW m \in flight, NEW again \in BOOLEAN, StatusArrives(m, again)
       PROVE  TypeOK'
  <2>1. m \in [age : Int, transit : 0..MAX_TRANSIT, status : Statuses]
    OBVIOUS
  <2>2. QED BY <1>13, <2>1 DEF StatusArrives, Dates
<1>14. ASSUME NEW m \in flight, StatusLost(m)
       PROVE  TypeOK'
  BY <1>14 DEF StatusLost
<1>b. CASE StatusFills
  <2>1. Blank \in Statuses
    BY DEF Blank, Statuses
  <2>2. {values', incoming'} \subseteq Statuses /\ filling' \in BOOLEAN
    BY <1>b, <2>1 DEF StatusFills, Fills
  <2>3. UNCHANGED <<stateVars, bridgeVars, sendVars, status_age, status_stamp, cmds,
                    flight, stepped, accepted, carried>>
    BY <1>b DEF StatusFills, Fills
  <2>4. QED
    BY <2>2, <2>3
<1>15. CASE ClockRuns
  <2>1. {since', sample_age', low_age', bridge_age'} \subseteq Age
    BY <1>15, TypedAges DEF ClockRuns
  <2>2. status_age' \in Age /\ status_stamp' \in Age
    BY <1>15 DEF ClockRuns, Later
  <2>a. bridge_age' = None <=> bridge_age = None
    BY <1>15, TypedAges DEF ClockRuns
  <2>b. status_age' = None <=> status_age = None
    BY <1>15 DEF ClockRuns, Later
  <2>3. DOMAIN sent' \subseteq Stamps /\ \A s \in DOMAIN sent' : sent'[s] \in Int
    <3>1. sent' = [s \in DOMAIN sent |-> Later(sent[s], 1)]
      BY <1>15 DEF ClockRuns
    <3>2. \A a \in Int : Later(a, 1) \in Int
      BY DEF Later
    <3>3. QED
      BY <3>1, <3>2
  <2>4. flight' \subseteq [age : Int, transit : 0..MAX_TRANSIT, status : Statuses]
    <3>1. flight' = {Carried(m, 1, 1) : m \in {n \in flight : n.transit < MAX_TRANSIT}}
      BY <1>15 DEF ClockRuns
    <3>2. ASSUME NEW m \in flight, m.transit < MAX_TRANSIT
          PROVE  Carried(m, 1, 1) \in [age : Int, transit : 0..MAX_TRANSIT, status : Statuses]
      BY <3>2 DEF Carried
    <3>3. QED
      BY <3>1, <3>2
  <2>5. UNCHANGED <<motion, bridge, unwell, clock_stepped, max_sent, last_send_replay,
                    values, filling, incoming, cmds, bridgeVars, stepped, accepted, carried>>
    BY <1>15 DEF ClockRuns, StateElapse, DetectorElapse
  <2>6. QED
    BY <2>1, <2>2, <2>a, <2>b, <2>3, <2>4, <2>5
<1>16. CASE ClockStepsBack
  <2>1. flight' \subseteq [age : Int, transit : 0..MAX_TRANSIT, status : Statuses]
    <3>1. flight' = {Carried(m, -1, 0) : m \in flight}
      BY <1>16 DEF ClockStepsBack
    <3>2. ASSUME NEW m \in flight
          PROVE  Carried(m, -1, 0) \in [age : Int, transit : 0..MAX_TRANSIT, status : Statuses]
      BY DEF Carried
    <3>3. QED
      BY <3>1, <3>2
  <2>2. /\ {since', sample_age', low_age', bridge_age'} \subseteq Age
        /\ bridge_age' = None <=> bridge_age = None
    BY <1>16, TypedAges DEF ClockStepsBack
  <2>a. status_stamp' \in Age
    BY <1>16 DEF ClockStepsBack, Later
  <2>3. stepped' \in 0..MAX_BACK
    BY <1>16 DEF ClockStepsBack
  <2>4. UNCHANGED <<motion, bridge, unwell, clock_stepped, sendVars, status_age, values,
                    filling, incoming, cmds, bridgeVars, accepted, carried>>
    BY <1>16 DEF ClockStepsBack, StateElapse, DetectorElapse
  <2>5. QED
    BY <2>1, <2>2, <2>a, <2>3, <2>4
<1>17. CASE UNCHANGED vars
  BY <1>17 DEF vars
<1>18. QED
  BY <1>1, <1>2, <1>3, <1>4, <1>5, <1>6, <1>7, <1>8, <1>9, <1>10, <1>11, <1>12,
     <1>13, <1>14, <1>15, <1>16, <1>17, <1>b DEF Next

-----------------------------------------------------------------------------
(* How the evidence of a status ages: by the time that passes, no faster.  *)
Steady(d) ==
  /\ stepped' \in Nat /\ stepped' >= stepped
  /\ \A s \in {"sport", "low"} : silent[s] # None =>
       silent'[s] \in Int /\ (silent'[s] = 0 \/ silent'[s] <= silent[s] + d)
  /\ lost' # None =>
       lost' \in Int /\ (lost' = 0 \/ (lost # None /\ lost' <= lost + d))

LEMMA ObserverInit == Init => ObserverOK
BY DEF Init, CheckerInit, ObserverOK

LEMMA ObserverStep ==
  ASSUME TypeOK, ObserverOK, [Next]_vars
  PROVE  ObserverOK' /\ (ClockRuns => Steady(1)) /\ (~ClockRuns => Steady(0))
<1> USE FeedbackAssumption, AgeAssumption DEF ObserverOK, Steady
<1>0. stepped \in Nat
  BY DEF TypeOK
<1>a. silent["sport"] \in Age /\ silent["low"] \in Age /\ lost \in Age
  OBVIOUS
<1>1. CASE ClockRuns
  <2>1. /\ silent' = [s \in DOMAIN silent |-> Observed(silent[s])]
        /\ lost' = Observed(lost) /\ stepped' = stepped
        /\ status_age' = Later(status_age, 1)
    BY <1>1 DEF ClockRuns
  <2>2. \A a \in Age : /\ Observed(a) \in Age
                       /\ Observed(a) = None <=> a = None
                       /\ a # None => Observed(a) <= a + 1
    BY DEF Observed
  <2>3. ObserverOK'
    <3>1. silent' \in [{"sport", "low"} -> Age] /\ lost' \in Age
      BY <2>1, <2>2, <1>a
    <3>2. status_age' # None => status_age' >= 0
      BY <2>1 DEF Later, TypeOK
    <3>3. QED
      BY <3>1, <3>2
  <2>4. QED
    BY <1>0, <1>1, <1>a, <2>1, <2>2, <2>3
<1>2. CASE ClockStepsBack
  <2>1. stepped' = stepped + 1 /\ UNCHANGED <<silent, lost, status_age>>
    BY <1>2 DEF ClockStepsBack, observed
  <2>2. ObserverOK' /\ Steady(0) /\ Steady(1)
    BY <1>0, <1>a, <2>1
  <2>3. QED
    BY <2>2
<1>3. CASE ~ClockRuns /\ ~ClockStepsBack
  <2>1. stepped' = stepped
    BY <1>3 DEF Next, vars, Send, Replay, CmdLost, CmdArrives, Accept, BridgeReports,
      BridgeLatches, Latch, BridgeDies, Die, BridgeStarts, Begin, Sport, Low, ClockFaults,
      StatusTick, StateNodeStarts, StatusArrives, StatusLost, StatusFills, Fills
  <2>2. \/ silent' = silent
        \/ \E s \in {"sport", "low"} : silent' = [silent EXCEPT ![s] = 0]
    BY <1>3 DEF Next, vars, Send, Replay, CmdLost, CmdArrives, Accept, BridgeReports,
      BridgeLatches, Latch, BridgeDies, Die, BridgeStarts, Begin, Sport, Low, ClockFaults,
      StatusTick, StateNodeStarts, StatusArrives, StatusLost, StatusFills, Fills, observed
  <2>3. lost' \in {lost, 0, None}
    BY <1>3 DEF Next, vars, Send, Replay, CmdLost, CmdArrives, Accept, BridgeReports,
      BridgeLatches, Latch, BridgeDies, Die, BridgeStarts, Begin, Sport, Low, ClockFaults,
      StatusTick, StateNodeStarts, StatusArrives, StatusLost, StatusFills, Fills, observed
  <2>4. status_age' \in {status_age, 0}
    BY <1>3 DEF Next, vars, Send, Replay, CmdLost, CmdArrives, Accept, BridgeReports,
      BridgeLatches, Latch, BridgeDies, Die, BridgeStarts, Begin, Sport, Low, ClockFaults,
      StatusTick, OnSent, StateNodeStarts, StatusArrives, StatusLost, StatusFills,
      Fills, Dates, sendVars, readVars
  <2>5. silent' \in [{"sport", "low"} -> Age] /\ lost' \in Age
    BY <1>a, <2>2, <2>3
  <2>6. \A s \in {"sport", "low"} : silent'[s] \in {silent[s], 0}
    BY <2>2
  <2>7. Steady(0)
    <3>1. \A s \in {"sport", "low"} : silent[s] # None =>
            silent'[s] \in Int /\ (silent'[s] = 0 \/ silent'[s] <= silent[s] + 0)
      BY <1>a, <2>5, <2>6
    <3>2. lost' # None => lost' \in Int /\ (lost' = 0 \/ (lost # None /\ lost' <= lost + 0))
      BY <1>a, <2>3
    <3>3. QED
      BY <1>0, <2>1, <3>1, <3>2
  <2>8. QED
    BY <1>3, <2>4, <2>5, <2>7
<1>4. QED
  BY <1>1, <1>2, <1>3

LEMMA BackedKept ==
  ASSUME TypeOK, ObserverOK, NEW d \in {0, 1}, Steady(d),
         NEW status, NEW t \in Nat, Backed(status, t)
  PROVE  Backed(status, t + d)'
<1>1. CASE Clean(status)
  <2>1. /\ silent["sport"] \in Int /\ silent["sport"] <= SPORT_STALE + t + stepped
        /\ silent["low"] \in Int /\ silent["low"] <= LOW_STALE + t + stepped
        /\ lost # None => lost \in Int /\ lost <= BRIDGE_STALE + t + stepped
    BY <1>1 DEF Backed, ObserverOK
  <2>2. {SPORT_STALE, LOW_STALE, BRIDGE_STALE, stepped} \subseteq Nat
    BY FeedbackAssumption DEF TypeOK
  <2>3. \A s \in {"sport", "low"} : silent'[s] \in Int
          /\ (silent'[s] = 0 \/ silent'[s] <= silent[s] + d)
    BY <2>1, AgeAssumption DEF Steady
  <2>4. /\ silent'["sport"] # None /\ silent'["sport"] <= SPORT_STALE + (t + d) + stepped'
        /\ silent'["low"] # None /\ silent'["low"] <= LOW_STALE + (t + d) + stepped'
    BY <2>1, <2>2, <2>3, AgeAssumption DEF Steady
  <2>5. lost' # None => lost' <= BRIDGE_STALE + (t + d) + stepped'
    BY <2>1, <2>2, AgeAssumption DEF Steady
  <2>6. QED
    BY <2>4, <2>5 DEF Backed
<1>2. CASE ~Clean(status)
  BY <1>2 DEF Backed, Clean
<1>3. QED
  BY <1>1, <1>2

LEMMA StatusBacked ==
  ASSUME TypeOK, ObserverOK, ArrivalsTrack
  PROVE  Backed(Status, 0)
<1> SUFFICES ASSUME ~Hard, ~Blind PROVE
      /\ silent["sport"] # None /\ silent["sport"] <= SPORT_STALE + stepped
      /\ silent["low"] # None /\ silent["low"] <= LOW_STALE + stepped
      /\ lost # None => lost <= BRIDGE_STALE + stepped
  <2>1. Status.hard = Hard /\ Status.blind = Blind
    BY DEF Status
  <2>2. stepped \in Nat /\ {SPORT_STALE, LOW_STALE, BRIDGE_STALE} \subseteq Nat
    BY FeedbackAssumption DEF TypeOK
  <2>3. QED
    BY <2>1, <2>2 DEF Backed, Clean
<1>1. /\ sample_age # None /\ sample_age <= SPORT_STALE
      /\ low_age # None /\ low_age <= LOW_STALE
      /\ bridge_age # None /\ bridge_age <= BRIDGE_STALE /\ ~bridge.latched
  BY DEF Hard, Blind, SportFresh, LowFresh, BridgeFresh, Fresh
<1>2. /\ stepped \in Nat /\ stepped <= MAX_BACK /\ MAX_BACK \in Nat /\ FORGET \in Nat
      /\ \A t \in {SPORT_STALE, LOW_STALE, BRIDGE_STALE} : t \in Nat /\ t + MAX_BACK < FORGET
  BY FeedbackAssumption, AgeAssumption DEF TypeOK
<1>3. {sample_age, low_age, bridge_age} \subseteq Int
  BY <1>1 DEF TypeOK
<1>4. silent["sport"] # None => silent["sport"] \in Int
  BY DEF ObserverOK
<1>5. silent["low"] # None => silent["low"] \in Int
  BY DEF ObserverOK
<1>6. lost # None => lost \in Int
  BY DEF ObserverOK
<1>7. silent["sport"] # None /\ silent["sport"] <= SPORT_STALE + stepped
  BY <1>1, <1>2, <1>3, <1>4 DEF ArrivalsTrack, Tracks
<1>8. silent["low"] # None /\ silent["low"] <= LOW_STALE + stepped
  BY <1>1, <1>2, <1>3, <1>5 DEF ArrivalsTrack, Tracks
<1>9. lost # None => lost <= BRIDGE_STALE + stepped
  BY <1>1, <1>2, <1>3, <1>6 DEF ArrivalsTrack
<1>10. QED
  BY <1>7, <1>8, <1>9

LEMMA ArrivalsInit == Init => ArrivalsTrack
BY DEF Init, StateInit, DetectorInit, ArrivalsTrack, Tracks

LEMMA ArrivalsStep ==
  ASSUME TypeOK, ObserverOK, ArrivalsTrack, [Next]_vars
  PROVE  ArrivalsTrack'
<1> USE FeedbackAssumption, AgeAssumption DEF ArrivalsTrack, Tracks
<1>0. stepped \in Nat /\ MAX_BACK \in Nat
  BY DEF TypeOK
<1>a. /\ sample_age \in Age /\ low_age \in Age /\ bridge_age \in Age
      /\ silent["sport"] \in Age /\ silent["low"] \in Age /\ lost \in Age
  BY DEF TypeOK, ObserverOK
<1>1. CASE ClockRuns
  <2>1. /\ silent' = [s \in DOMAIN silent |-> Observed(silent[s])]
        /\ lost' = Observed(lost)
        /\ sample_age' = Later(sample_age, 1) /\ low_age' = Later(low_age, 1)
        /\ bridge_age' = Later(bridge_age, 1)
        /\ UNCHANGED <<bridge, up, latched, stepped>>
    BY <1>1 DEF ClockRuns, StateElapse, DetectorElapse, bridgeVars
  <2>2. silent'["sport"] = Observed(silent["sport"]) /\ silent'["low"] = Observed(silent["low"])
    BY <2>1 DEF ObserverOK
  <2>3. ASSUME NEW true_age \in Age, NEW age \in Age, Tracks(true_age, age)
        PROVE  Tracks(Observed(true_age), Later(age, 1))
    BY <1>0, <2>3 DEF Observed, Later
  <2>4. Tracks(silent'["sport"], sample_age') /\ Tracks(silent'["low"], low_age')
    BY <1>a, <2>1, <2>2, <2>3
  <2>5. bridge_age' # None => bridge_age' + stepped' >= 0
    BY <1>0, <1>a, <2>1 DEF Later
  <2>6. bridge_age' # None /\ ~bridge'.latched /\ lost' # None =>
          lost' <= bridge_age' + stepped' \/ bridge_age' + stepped' >= FORGET
    BY <1>0, <1>a, <2>1 DEF Later, Observed
  <2>7. up' /\ ~latched' => lost' = None
    BY <2>1 DEF Observed
  <2>8. QED
    BY <2>1, <2>4, <2>5, <2>6, <2>7
<1>2. CASE ClockStepsBack
  <2>1. /\ stepped' = stepped + 1
        /\ sample_age' = Later(sample_age, -1) /\ low_age' = Later(low_age, -1)
        /\ bridge_age' = Later(bridge_age, -1)
        /\ UNCHANGED <<silent, lost, bridge, up, latched>>
    BY <1>2 DEF ClockStepsBack, StateElapse, DetectorElapse, bridgeVars, observed
  <2>2. ASSUME NEW age \in Age, age # None
        PROVE  /\ Later(age, -1) # None
               /\ Later(age, -1) + (stepped + 1) = age + stepped
                    \/ Later(age, -1) + (stepped + 1) >= FORGET
               /\ age + stepped >= FORGET => Later(age, -1) + (stepped + 1) >= FORGET
    BY <1>0, <2>2 DEF Later
  <2>3. QED
    BY <1>0, <1>a, <2>1, <2>2 DEF Later
<1>3. CASE BridgeReports
  <2>1. /\ bridge_age' = 0 /\ bridge' = [latched |-> latched, echo |-> echo]
        /\ up /\ UNCHANGED <<sample_age, low_age, silent, lost, up, latched, stepped>>
    BY <1>3 DEF BridgeReports, OnBridge, motionVars, bridgeVars, observed
  <2>2. QED
    BY <1>0, <2>1
<1>4. CASE BridgeLatches \/ BridgeDies \/ BridgeStarts
  <2>1. /\ UNCHANGED <<sample_age, low_age, bridge_age, bridge, silent, stepped>>
        /\ \/ lost' = 0 /\ (latched' \/ ~up')
           \/ lost' = lost /\ ~up'
           \/ lost' = None
    BY <1>4 DEF BridgeLatches, Latch, BridgeDies, Die, BridgeStarts, Begin, stateVars,
      motionVars, bridgeVars, observed
  <2>2. QED
    BY <1>0, <1>a, <2>1
<1>5. ASSUME NEW cand \in Samples, Sport(cand)
      PROVE  ArrivalsTrack'
  <2>1. /\ sample_age' = 0 /\ silent' = [silent EXCEPT !["sport"] = 0]
        /\ UNCHANGED <<low_age, bridge_age, bridge, lost, up, latched, stepped>>
    BY <1>5 DEF Sport, OnSport, Update, bridgeVars
  <2>2. silent'["sport"] = 0 /\ silent'["low"] = silent["low"]
    BY <2>1 DEF ObserverOK
  <2>3. QED
    BY <1>0, <2>1, <2>2
<1>6. ASSUME NEW bad \in BOOLEAN, Low(bad)
      PROVE  ArrivalsTrack'
  <2>1. /\ low_age' = 0 /\ silent' = [silent EXCEPT !["low"] = 0]
        /\ UNCHANGED <<sample_age, bridge_age, bridge, lost, up, latched, stepped>>
    BY <1>6 DEF Low, OnLow, motionVars, bridgeVars
  <2>2. silent'["low"] = 0 /\ silent'["sport"] = silent["sport"]
    BY <2>1 DEF ObserverOK
  <2>3. QED
    BY <1>0, <2>1, <2>2
<1>7. CASE StateNodeStarts
  <2>1. /\ sample_age' = None /\ low_age' = None /\ bridge_age' = None
        /\ UNCHANGED <<silent, lost, up, latched, stepped>>
    BY <1>7 DEF StateNodeStarts, StateReset, bridgeVars, observed
  <2>2. QED
    BY <2>1
<1>8. CASE /\ ~ClockRuns /\ ~ClockStepsBack /\ ~BridgeReports /\ ~StateNodeStarts
           /\ ~(BridgeLatches \/ BridgeDies \/ BridgeStarts)
           /\ ~\E cand \in Samples : Sport(cand)
           /\ ~\E bad \in BOOLEAN : Low(bad)
  <2>1. UNCHANGED <<sample_age, low_age, bridge_age, bridge, silent, lost, up, latched,
                    stepped>>
    BY <1>8 DEF Next, vars, Send, Replay, CmdLost, CmdArrives, Accept, ClockFaults,
      OnClockStep, StatusTick, StatusArrives, StatusLost, StatusFills, Fills, stateVars,
      motionVars, bridgeVars, observed
  <2>2. QED
    BY <2>1
<1>9. QED
  BY <1>1, <1>2, <1>3, <1>4, <1>5, <1>6, <1>7, <1>8

LEMMA FlightInit == Init => FlightBacked
BY DEF Init, FlightBacked

LEMMA FlightStep ==
  ASSUME TypeOK, ObserverOK, ArrivalsTrack, FlightBacked, [Next]_vars
  PROVE  FlightBacked'
<1>1. \A m \in flight : /\ Backed(m.status, m.transit) /\ m.transit \in Nat
                        /\ m \in [age : Int, transit : 0..MAX_TRANSIT, status : Statuses]
  BY FeedbackAssumption DEF FlightBacked, TypeOK
<1>2. CASE ClockRuns
  <2>1. flight' = {Carried(m, 1, 1) : m \in {n \in flight : n.transit < MAX_TRANSIT}}
    BY <1>2 DEF ClockRuns
  <2>2. ASSUME NEW m \in flight
        PROVE  Backed(m.status, m.transit + 1)'
    BY <1>1, <1>2, ObserverStep, BackedKept
  <2>3. ASSUME NEW n \in flight'
        PROVE  Backed(n.status, n.transit)'
    <3>1. PICK m \in flight : n = Carried(m, 1, 1)
      BY <2>1
    <3>2. n.status = m.status /\ n.transit = m.transit + 1
      BY <1>1, <3>1 DEF Carried
    <3>3. QED
      BY <2>2, <3>2
  <2>4. QED
    BY <2>3 DEF FlightBacked
<1>3. CASE ~ClockRuns
  <2>1. ASSUME NEW m \in flight
        PROVE  Backed(m.status, m.transit)'
    <3>1. Backed(m.status, m.transit + 0)'
      BY <1>1, <1>3, ObserverStep, BackedKept
    <3>2. m.transit + 0 = m.transit
      BY <1>1
    <3>3. QED
      BY <3>1, <3>2
  <2>2. CASE ClockStepsBack
    <3>1. flight' = {Carried(m, -1, 0) : m \in flight}
      BY <2>2 DEF ClockStepsBack
    <3>2. ASSUME NEW n \in flight'
          PROVE  Backed(n.status, n.transit)'
      <4>1. PICK m \in flight : n = Carried(m, -1, 0)
        BY <3>1
      <4>2. n.status = m.status /\ n.transit = m.transit
        BY <1>1, <4>1 DEF Carried
      <4>3. QED
        BY <2>1, <4>2
    <3>3. QED
      BY <3>2 DEF FlightBacked
  <2>3. CASE StatusTick
    <3>1. /\ flight' = flight \cup {[age |-> 0, transit |-> 0, status |-> Status]}
          /\ UNCHANGED <<silent, lost, stepped>>
      BY <2>3 DEF StatusTick, observed
    <3>2. Backed(Status, 0)
      BY StatusBacked
    <3>3. ASSUME NEW x, x = Status
          PROVE  Backed(x, 0)'
      BY <3>1, <3>2, <3>3 DEF Backed
    <3>4. ASSUME NEW n \in flight', n \notin flight
          PROVE  Backed(n.status, n.transit)'
      <4>1. n.status = Status /\ n.transit = 0
        BY <3>1, <3>4
      <4>2. QED
        BY <3>3, <4>1
    <3>5. QED
      BY <2>1, <3>4 DEF FlightBacked
  <2>4. CASE ~ClockStepsBack /\ ~StatusTick
    <3>1. flight' \subseteq flight
      BY <1>3, <2>4 DEF Next, vars, Send, Replay, CmdLost, CmdArrives, Accept,
        BridgeReports, BridgeLatches, Latch, BridgeDies, Die, BridgeStarts, Begin,
        Sport, Low, ClockFaults, StateNodeStarts, StatusArrives, StatusLost,
        StatusFills, Fills
    <3>2. QED
      BY <2>1, <3>1 DEF FlightBacked
  <2>5. QED
    BY <2>2, <2>3, <2>4
<1>4. QED
  BY <1>2, <1>3

LEMMA ReadingInit == Init => ReadingBacked
BY DEF Init, CheckerInit, ReadingBacked, StatusFresh

\* only a status that arrives is dated; filling it in changes the values alone
LEMMA LatestKept ==
  ASSUME [Next]_vars, ~\E m \in flight, again \in BOOLEAN : StatusArrives(m, again)
  PROVE  /\ Latest' = Latest /\ carried' = carried
         /\ ~ClockRuns => status_age' = status_age
<1>1. CASE StatusFills
  BY <1>1 DEF StatusFills, Fills, Latest, observed
<1>2. CASE ~StatusFills
  <2>1. /\ UNCHANGED <<values, filling, incoming, carried>>
        /\ ~ClockRuns => status_age' = status_age
    BY <1>2 DEF Next, vars, Send, Replay, CmdLost, CmdArrives, Accept, BridgeReports,
      BridgeLatches, Latch, BridgeDies, Die, BridgeStarts, Begin, Sport, Low, ClockFaults,
      StatusTick, OnSent, StateNodeStarts, ClockRuns, ClockStepsBack, StatusLost,
      sendVars, readVars, observed
  <2>2. QED
    BY <2>1 DEF Latest
<1>3. QED
  BY <1>1, <1>2

LEMMA ReadingStep ==
  ASSUME TypeOK, ObserverOK, FlightBacked, ReadingBacked, [Next]_vars
  PROVE  ReadingBacked'
<1> SUFFICES ASSUME StatusFresh' PROVE Backed(Latest, carried + status_age)'
  BY DEF ReadingBacked
<1> USE FeedbackAssumption
<1>1. CASE ClockRuns
  <2>1. status_age' = Later(status_age, 1) /\ Latest' = Latest /\ carried' = carried
    BY <1>1 DEF ClockRuns, Latest
  <2>2. /\ status_age \in Int /\ status_age >= 0 /\ status_age' = status_age + 1
        /\ StatusFresh
    <3>1. STALE \in Nat /\ STALE < FORGET
      BY AgeAssumption
    <3>2. status_age \in Age /\ (status_age # None => status_age >= 0)
      BY DEF TypeOK, ObserverOK
    <3>3. status_age' # None /\ status_age' <= STALE
      BY DEF StatusFresh
    <3>4. QED
      BY <2>1, <3>1, <3>2, <3>3, AgeAssumption DEF StatusFresh, Later
  <2>3. carried \in Nat
    BY <2>2 DEF TypeOK, StatusFresh
  <2>4. Backed(Latest, carried + status_age)
    BY <2>2 DEF ReadingBacked
  <2>5. ASSUME NEW x, NEW t \in Nat, Backed(x, t)
        PROVE  Backed(x, t + 1)'
    BY <1>1, <2>5, ObserverStep, BackedKept
  <2>6. PICK t \in Nat : t = carried + status_age /\ Backed(Latest, t)
    BY <2>2, <2>3, <2>4
  <2>7. PICK x : x = Latest
    OBVIOUS
  <2>8. Backed(x, t + 1)'
    BY <2>5, <2>6, <2>7
  <2>9. Latest' = x /\ carried' + status_age' = t + 1
    BY <2>1, <2>2, <2>3, <2>6, <2>7
  <2>10. QED
    BY <2>8, <2>9 DEF Backed
<1>2. ASSUME ~ClockRuns, NEW m \in flight, NEW again \in BOOLEAN, StatusArrives(m, again)
      PROVE  Backed(Latest, carried + status_age)'
  <2>1. /\ Latest' = m.status /\ carried' = m.transit /\ status_age' = 0
        /\ UNCHANGED <<silent, lost, stepped>>
    BY <1>2 DEF StatusArrives, Dates, Latest
  <2>2. m.transit \in Nat /\ Backed(m.status, m.transit)
    BY DEF TypeOK, FlightBacked
  <2>3. carried' + status_age' = m.transit
    BY <2>1, <2>2
  <2>4. QED
    BY <2>1, <2>2, <2>3 DEF Backed
<1>3. CASE ~ClockRuns /\ ~\E m \in flight, again \in BOOLEAN : StatusArrives(m, again)
  <2>1. Latest' = Latest /\ carried' = carried /\ status_age' = status_age
    BY <1>3, LatestKept
  <2>2. StatusFresh /\ status_age \in Nat /\ carried \in Nat
    BY <2>1 DEF StatusFresh, TypeOK, ObserverOK
  <2>3. ASSUME NEW x, NEW t \in Nat, Backed(x, t)
        PROVE  Backed(x, t + 0)'
    BY <1>3, <2>3, ObserverStep, BackedKept
  <2>4. PICK t \in Nat : t = carried + status_age /\ Backed(Latest, t)
    BY <2>2 DEF ReadingBacked
  <2>5. PICK x : x = Latest
    OBVIOUS
  <2>6. Backed(x, t + 0)' /\ t + 0 = t
    BY <2>3, <2>4, <2>5
  <2>7. QED
    BY <2>1, <2>4, <2>5, <2>6 DEF Backed
<1>4. QED
  BY <1>1, <1>2, <1>3

-----------------------------------------------------------------------------
(* The feedback loop keeps its types, and its statuses their evidence.     *)
THEOREM FeedbackInvariant == Spec => []IInv
<1>1. Init => IInv
  BY TypeInit, ObserverInit, ArrivalsInit, FlightInit, ReadingInit DEF IInv
<1>2. IInv /\ [Next]_vars => IInv'
  BY TypeStep, ObserverStep, ArrivalsStep, FlightStep, ReadingStep DEF IInv
<1>3. QED
  BY <1>1, <1>2, PTL DEF Spec

(* Every variable keeps its type: in particular every status that the      *)
(* state node composes is well formed, whatever it has heard.              *)
THEOREM FeedbackTypeCorrect == Spec => []TypeOK
<1>1. IInv => TypeOK
  BY DEF IInv
<1>2. QED
  BY <1>1, FeedbackInvariant, PTL

LEMMA MovesIsBacked ==
  ASSUME IInv, Moves, ~filling
  PROVE  /\ StatusFresh /\ Clean(values)
         /\ Backed(values, carried + status_age)
         /\ carried + status_age \in Nat
<1>1. StatusFresh
  BY DEF Moves, Class
<1>2. values \in Statuses /\ carried \in Nat /\ status_age \in Nat
  BY <1>1, FeedbackAssumption DEF IInv, TypeOK, ObserverOK, StatusFresh
<1>3. ~values.hard /\ ~values.blind
  BY <1>1, <1>2 DEF Moves, Class, Statuses
<1>4. QED
  BY <1>1, <1>2, <1>3 DEF IInv, ReadingBacked, Latest, Clean

(* A bridge that aborted, yielded or died is noticed in bounded time,      *)
(* whichever reports and statuses are lost, late or repeated.              *)
THEOREM LossNoticed == Spec => []LossIsNoticed
<1>1. IInv => LossIsNoticed
  <2> SUFFICES ASSUME IInv, Moves, ~filling, lost # None
               PROVE  lost <= BRIDGE_STALE + carried + status_age + stepped
    BY DEF LossIsNoticed
  <2>1. lost <= BRIDGE_STALE + (carried + status_age) + stepped
    BY MovesIsBacked DEF Backed
  <2>2. carried \in Nat /\ status_age \in Nat
    BY MovesIsBacked, FeedbackAssumption DEF IInv, TypeOK, ObserverOK, StatusFresh
  <2>3. BRIDGE_STALE \in Nat
    BY FeedbackAssumption
  <2>4. QED
    BY <2>1, <2>2, <2>3
<1>2. QED
  BY <1>1, FeedbackInvariant, PTL

(* A dead telemetry feed never reads as a calm robot.                      *)
THEOREM SilenceNoticed == Spec => []SilenceIsNoticed
<1>1. IInv => SilenceIsNoticed
  <2> SUFFICES ASSUME IInv, Moves, ~filling
               PROVE  /\ silent["sport"] # None
                      /\ silent["sport"] <= SPORT_STALE + carried + status_age + stepped
                      /\ silent["low"] # None
                      /\ silent["low"] <= LOW_STALE + carried + status_age + stepped
    BY DEF SilenceIsNoticed
  <2>1. /\ silent["sport"] # None
        /\ silent["sport"] <= SPORT_STALE + (carried + status_age) + stepped
        /\ silent["low"] # None
        /\ silent["low"] <= LOW_STALE + (carried + status_age) + stepped
    BY MovesIsBacked DEF Backed
  <2>2. carried \in Nat /\ status_age \in Nat
    BY MovesIsBacked, FeedbackAssumption DEF IInv, TypeOK, ObserverOK, StatusFresh
  <2>3. SPORT_STALE \in Nat /\ LOW_STALE \in Nat
    BY FeedbackAssumption
  <2>4. QED
    BY <2>1, <2>2, <2>3
<1>2. QED
  BY <1>1, FeedbackInvariant, PTL

-----------------------------------------------------------------------------
(* Where an echo comes from: only stamps that a bridge accepted are ever   *)
(* reported, composed, carried or read.                                    *)
Known(e) == e = None \/ e \in accepted

EchoesKnown ==
  /\ Known(echo)
  /\ bridge_age # None => Known(bridge.echo)
  /\ \A m \in flight : Known(m.status.echo)
  /\ Known(Latest.echo) /\ Known(values.echo)

\* a remembered send is no younger than the first send of that stamp
SendsTrack ==
  \A s \in DOMAIN sent : first_sent[s] \in Int /\ first_sent[s] <= sent[s]

ReceivedInv == EchoesKnown /\ SendsTrack /\ first_sent \in [Stamps -> Age]

\* the values change only when a status is filled in
LEMMA ValuesKept ==
  ASSUME [Next]_vars, ~StatusFills
  PROVE  values' = values
BY DEF Next, vars, Send, Replay, CmdLost, CmdArrives, Accept, BridgeReports, BridgeLatches,
  Latch, BridgeDies, Die, BridgeStarts, Begin, Sport, Low, ClockFaults, StatusTick,
  OnSent, StateNodeStarts, StatusArrives, Dates, ClockRuns, ClockStepsBack, StatusLost,
  sendVars, readVars, observed

LEMMA EchoesKnownStep ==
  ASSUME TypeOK, EchoesKnown, [Next]_vars
  PROVE  EchoesKnown'
<1> USE FeedbackAssumption
<1>1. \A e : Known(e) => (e = None \/ e \in accepted')
  BY DEF Next, vars, observed, Known, Send, Replay, CmdLost, CmdArrives, Accept,
    BridgeReports, BridgeLatches, Latch, BridgeDies, Die, BridgeStarts, Begin, Sport,
    Low, ClockFaults, StateNodeStarts, StatusArrives, StatusLost, StatusFills, Fills,
    StatusTick, ClockRuns, ClockStepsBack
<1>2. Known(echo)'
  BY <1>1 DEF EchoesKnown, Next, vars, observed, bridgeVars, Known, Send, Replay, CmdLost,
    CmdArrives, Accept, BridgeReports, BridgeLatches, Latch, BridgeDies, Die,
    BridgeStarts, Begin, Sport, Low, ClockFaults, StateNodeStarts, StatusArrives,
    StatusLost, StatusFills, Fills, StatusTick, ClockRuns, ClockStepsBack
<1>3. (bridge_age # None => Known(bridge.echo))'
  <2>1. CASE BridgeReports
    BY <1>1, <2>1 DEF BridgeReports, OnBridge, EchoesKnown, Known
  <2>2. CASE StateNodeStarts
    BY <2>2 DEF StateNodeStarts, StateReset
  <2>3. CASE ClockRuns \/ ClockStepsBack
    <3>1. (bridge_age' = None <=> bridge_age = None) /\ bridge' = bridge
      BY <2>3, TypedAges DEF ClockRuns, ClockStepsBack, StateElapse
    <3>2. QED BY <1>1, <3>1 DEF EchoesKnown, Known
  <2>4. CASE ~BridgeReports /\ ~StateNodeStarts /\ ~ClockRuns /\ ~ClockStepsBack
    <3>1. UNCHANGED <<bridge_age, bridge>>
      BY <2>4 DEF Next, vars, stateVars, Send, Replay, CmdLost, CmdArrives, Accept,
        BridgeLatches, Latch, BridgeDies, Die, BridgeStarts, Begin, Sport, Low,
        ClockFaults, OnSport, OnLow, OnClockStep, StatusArrives, StatusLost,
        StatusFills, Fills, StatusTick
    <3>2. QED BY <1>1, <3>1 DEF EchoesKnown, Known
  <2>5. QED BY <2>1, <2>2, <2>3, <2>4
<1>4. (\A m \in flight : Known(m.status.echo))'
  <2>1. CASE ClockRuns
    BY <1>1, <2>1 DEF ClockRuns, Carried, EchoesKnown, Known
  <2>2. CASE ClockStepsBack
    BY <1>1, <2>2 DEF ClockStepsBack, Carried, EchoesKnown, Known
  <2>3. CASE StatusTick
    <3>1. Known(Status.echo)
      BY DEF Status, BridgeFresh, Fresh, EchoesKnown, Known
    <3>2. flight' = flight \cup {[age |-> 0, transit |-> 0, status |-> Status]}
      BY <2>3 DEF StatusTick
    <3>3. ASSUME NEW n \in flight', n \notin flight PROVE n.status.echo = Status.echo
      BY <3>2, <3>3
    <3>4. QED BY <1>1, <3>1, <3>3 DEF EchoesKnown, Known
  <2>4. CASE ~ClockRuns /\ ~ClockStepsBack /\ ~StatusTick
    <3>1. flight' \subseteq flight
      BY <2>4 DEF Next, vars, Send, Replay, CmdLost, CmdArrives, Accept, BridgeReports,
        BridgeLatches, Latch, BridgeDies, Die, BridgeStarts, Begin, Sport, Low,
        ClockFaults, StateNodeStarts, StatusArrives, StatusLost, StatusFills, Fills
    <3>2. QED BY <1>1, <3>1 DEF EchoesKnown, Known
  <2>5. QED BY <2>1, <2>2, <2>3, <2>4
<1>5. Known(Latest.echo)'
  <2>1. ASSUME NEW m \in flight, NEW again \in BOOLEAN, StatusArrives(m, again)
        PROVE  Known(Latest.echo)'
    BY <1>1, <2>1 DEF StatusArrives, Dates, EchoesKnown, Known, Latest
  <2>2. CASE ~\E m \in flight, again \in BOOLEAN : StatusArrives(m, again)
    <3>1. Latest' = Latest
      BY <2>2, LatestKept
    <3>2. QED BY <1>1, <3>1 DEF EchoesKnown, Known
  <2>3. QED BY <2>1, <2>2
<1>7. Known(values.echo)'
  <2>1. CASE StatusFills
    BY <1>1, <2>1 DEF StatusFills, Fills, EchoesKnown, Known, Latest
  <2>2. CASE ~StatusFills
    <3>1. values' = values
      BY <2>2, ValuesKept
    <3>2. QED BY <1>1, <3>1 DEF EchoesKnown, Known
  <2>3. QED BY <2>1, <2>2
<1>6. QED
  BY <1>2, <1>3, <1>4, <1>5, <1>7 DEF EchoesKnown

LEMMA SendsStep ==
  ASSUME TypeOK, SendsTrack, first_sent \in [Stamps -> Age], [Next]_vars
  PROVE  SendsTrack' /\ first_sent' \in [Stamps -> Age]
<1>1. DOMAIN sent \subseteq Stamps /\ \A s \in DOMAIN sent : sent[s] \in Int
  BY DEF TypeOK
<1>2. ASSUME NEW s \in Stamps, Send(s) PROVE SendsTrack' /\ first_sent' \in [Stamps -> Age]
  <2>1. first_sent' = [first_sent EXCEPT ![s] = 0]
    BY <1>2 DEF Send
  <2>2. ~IsReplay(s)
    <3>1. max_sent # None => max_sent \in Nat
      BY FeedbackAssumption DEF TypeOK
    <3>2. s \in Nat /\ (max_sent # None => s > max_sent)
      BY <1>2, FeedbackAssumption DEF Send
    <3>3. QED BY <3>1, <3>2 DEF IsReplay
  <2>3. sent' = [r \in Remembered(DOMAIN sent \cup {s}) |-> IF r = s THEN 0 ELSE sent[r]]
    BY <1>2, <2>2 DEF Send, OnSent
  <2>4. Remembered(DOMAIN sent \cup {s}) \subseteq DOMAIN sent \cup {s}
    BY DEF Remembered
  <2>5. QED
    BY <1>1, <2>1, <2>3, <2>4 DEF SendsTrack
<1>3. ASSUME NEW s \in Stamps, Replay(s) PROVE UNCHANGED <<sent, first_sent>>
  BY <1>3 DEF Replay, OnSent, IsReplay, observed
<1>4. CASE ClockRuns
  <2>1. /\ sent' = [s \in DOMAIN sent |-> Later(sent[s], 1)]
        /\ first_sent' = [s \in Stamps |-> Later(first_sent[s], 1)]
    BY <1>4 DEF ClockRuns
  <2>2. \A a \in Int, b \in Int : a <= b => Later(a, 1) \in Int /\ Later(a, 1) <= Later(b, 1)
    BY AgeAssumption DEF Later
  <2>3. \A a \in Age : Later(a, 1) \in Age
    BY AgeAssumption DEF Later
  <2>4. QED
    BY <1>1, <2>1, <2>2, <2>3 DEF SendsTrack
<1>5. CASE UNCHANGED <<sent, first_sent>>
  BY <1>5 DEF SendsTrack
<1>6. CASE ~ClockRuns /\ ~\E s \in Stamps : Send(s) \/ Replay(s)
  BY <1>5, <1>6 DEF Next, vars, CmdLost, CmdArrives, Accept, BridgeReports, BridgeLatches,
    Latch, BridgeDies, Die, BridgeStarts, Begin, Sport, Low, ClockFaults, StatusTick,
    StateNodeStarts, ClockStepsBack, StatusArrives, Dates, StatusLost, StatusFills,
    Fills, sendVars, observed
<1>7. QED
  BY <1>2, <1>3, <1>4, <1>5, <1>6

(* RECEIVED is true of the recent past: see ReceivedIsRecent.              *)
THEOREM ReceivedRecent == Spec => []ReceivedIsRecent
<1>1. Init => ReceivedInv
  <2> SUFFICES ASSUME Init PROVE ReceivedInv
    OBVIOUS
  <2>1. DOMAIN sent = {} /\ first_sent = [s \in Stamps |-> None]
    BY DEF Init, CheckerInit
  <2>2. EchoesKnown
    BY DEF Init, BridgeInit, CheckerInit, StateInit, Blank, EchoesKnown, Known, Latest
  <2>3. QED
    BY <2>1, <2>2 DEF ReceivedInv, SendsTrack
<1>2. TypeOK /\ ReceivedInv /\ [Next]_vars => ReceivedInv'
  BY EchoesKnownStep, SendsStep DEF ReceivedInv
<1>3. TypeOK /\ ReceivedInv => ReceivedIsRecent
  <2> SUFFICES ASSUME TypeOK, ReceivedInv, Received
               PROVE  values.echo \in accepted /\ first_sent[values.echo] <= STALE
    BY DEF ReceivedIsRecent
  <2>1. values.echo \in DOMAIN sent /\ sent[values.echo] <= STALE /\ status_age # None
    BY DEF Received, RecentEcho, StatusFresh
  <2>2. values.echo \in Stamps /\ values.echo # None
    BY <2>1, FeedbackAssumption DEF TypeOK
  <2>3. values.echo \in accepted
    BY <2>2 DEF ReceivedInv, EchoesKnown, Known
  <2>4. first_sent[values.echo] \in Int /\ first_sent[values.echo] <= sent[values.echo]
        /\ sent[values.echo] \in Int /\ STALE \in Nat
    BY <2>1, FeedbackAssumption DEF ReceivedInv, SendsTrack, TypeOK
  <2>5. QED
    BY <2>1, <2>3, <2>4
<1>4. QED
  BY <1>1, <1>2, <1>3, FeedbackTypeCorrect, PTL DEF Spec
-----------------------------------------------------------------------------
(* The debounce: while a state disagrees with the samples, all of them     *)
(* since the disagreement began have been alike.                           *)
StreakInv ==
  /\ sample_age # None => streak \in Int /\ streak >= 0
  /\ since # None /\ motion # "UNKNOWN" =>
       /\ alike \in Candidates /\ alike # motion
       /\ sample_age # None
       /\ since <= streak

LEMMA StreakSample ==
  ASSUME TypeOK, StreakInv, NEW cand \in Samples, Sport(cand)
  PROVE  /\ StreakInv'
         /\ {motion, motion'} = {"MOVING", "STOPPED"} => streak' >= WINDOW
<1> USE AgeAssumption, FeedbackAssumption DEF Candidates
<1>1. /\ cand \in Candidates /\ motion \in Candidates \cup {"UNKNOWN"}
      /\ since \in Int \cup {None} /\ sample_age \in Int \cup {None} /\ WINDOW \in Nat
  BY DEF TypeOK
<1>2. /\ sample_age' = 0 /\ alike' = cand
      /\ motion' = IF Sustained(cand) THEN cand ELSE Held
      /\ since' = IF cand = Held \/ Sustained(cand) THEN None
                  ELSE IF Disagreed = None THEN 0 ELSE Disagreed
      /\ streak' = IF cand = alike /\ sample_age # None /\ sample_age <= WINDOW
                   THEN streak ELSE 0
  BY DEF Sport, OnSport, Update
<1>3. streak' \in Int /\ streak' >= 0
  BY <1>2 DEF StreakInv
<1>4. CASE Gap
  <2>1. Held = "UNKNOWN" /\ Disagreed = None /\ ~Sustained(cand)
    BY <1>4 DEF Held, Disagreed, Sustained
  <2>2. motion' = "UNKNOWN"
    BY <1>2, <2>1
  <2>3. QED BY <1>2, <1>3, <2>2 DEF StreakInv
<1>5. CASE ~Gap
  <2>1. Held = motion /\ Disagreed = since
    BY <1>5 DEF Held, Disagreed
  <2>2. CASE since # None /\ motion # "UNKNOWN" /\ cand # motion
    <3>1. cand = alike /\ sample_age # None /\ since <= streak
      BY <1>1, <2>2 DEF StreakInv
    <3>2. sample_age <= WINDOW
      BY <1>1, <1>5, <3>1 DEF Gap
    <3>3. streak' = streak
      BY <1>2, <3>1, <3>2
    <3>4. since' # None => since' = since
      BY <1>2, <2>1, <2>2
    <3>5. Sustained(cand) => since >= WINDOW
      BY <2>1 DEF Sustained
    <3>6. streak' >= since /\ (Sustained(cand) => streak' >= WINDOW)
      BY <1>1, <1>3, <2>2, <3>1, <3>3, <3>5
    <3>7. ~Sustained(cand) => motion' = motion
      BY <1>2, <2>1
    <3>8. motion' # motion => Sustained(cand) /\ since' = None
      BY <1>2, <3>7
    <3>9. QED
      BY <1>1, <1>2, <1>3, <2>2, <3>4, <3>6, <3>8 DEF StreakInv
  <2>3. CASE ~(since # None /\ motion # "UNKNOWN" /\ cand # motion)
    <3>1. motion # "UNKNOWN" => motion' = motion
      BY <1>2, <2>1, <2>3 DEF Sustained
    <3>2. motion = "UNKNOWN" => {motion, motion'} # {"MOVING", "STOPPED"}
      OBVIOUS
    <3>3. since' # None /\ motion' # "UNKNOWN" => motion' = motion /\ cand # motion /\ since' = 0
      BY <1>2, <2>1, <2>3 DEF Sustained
    <3>4. motion' = motion => {motion, motion'} # {"MOVING", "STOPPED"}
      OBVIOUS
    <3>5. QED
      BY <1>1, <1>2, <1>3, <3>1, <3>2, <3>3, <3>4 DEF StreakInv
  <2>4. QED BY <2>2, <2>3
<1>6. QED BY <1>4, <1>5

LEMMA StreakStep ==
  ASSUME TypeOK, StreakInv, [Next]_vars
  PROVE  /\ StreakInv'
         /\ {motion, motion'} = {"MOVING", "STOPPED"} => streak' >= WINDOW
<1>1. ASSUME NEW cand \in Samples, Sport(cand)
      PROVE  /\ StreakInv'
             /\ {motion, motion'} = {"MOVING", "STOPPED"} => streak' >= WINDOW
  BY <1>1, StreakSample
<1>2. motion' = motion => {motion, motion'} # {"MOVING", "STOPPED"}
  OBVIOUS
<1>3. since \in Int \cup {None} /\ sample_age \in Int \cup {None}
  BY DEF TypeOK
<1>4. CASE ClockRuns
  <2>1. /\ since' = Later(since, 1) /\ sample_age' = Later(sample_age, 1)
        /\ streak' = Later(streak, 1) /\ UNCHANGED <<motion, alike>>
    BY <1>4 DEF ClockRuns, StateElapse, DetectorElapse
  <2>2. QED
    BY <1>2, <1>3, <2>1, AgeAssumption DEF Later, StreakInv
<1>5. CASE ClockStepsBack
  <2>1. /\ since' = Later(since, -1) /\ sample_age' = Later(sample_age, -1)
        /\ UNCHANGED <<motion, alike, streak>>
    BY <1>5 DEF ClockStepsBack, StateElapse, DetectorElapse, observed
  <2>2. QED
    BY <1>2, <1>3, <2>1, AgeAssumption DEF Later, StreakInv
<1>6. CASE StateNodeStarts
  <2>1. motion' = "UNKNOWN" /\ since' = None /\ sample_age' = None
    BY <1>6 DEF StateNodeStarts, StateReset
  <2>2. QED
    BY <2>1 DEF StreakInv
<1>7. CASE UNCHANGED <<motionVars, streak, alike>>
  BY <1>2, <1>7 DEF StreakInv, motionVars
<1>8. CASE /\ ~ClockRuns /\ ~ClockStepsBack /\ ~StateNodeStarts
           /\ ~\E cand \in Samples : Sport(cand)
  BY <1>7, <1>8 DEF Next, vars, stateVars, Send, Replay, CmdLost, CmdArrives, Accept,
    BridgeReports, OnBridge, BridgeLatches, Latch, BridgeDies, Die, BridgeStarts, Begin,
    Low, OnLow, ClockFaults, OnClockStep, StatusTick, StatusArrives, StatusLost,
    StatusFills, Fills, observed
<1>9. QED
  BY <1>1, <1>4, <1>5, <1>6, <1>8

(* MOVING and STOPPED give way to one another only after a whole window of *)
(* samples that all said so: see MotionIsSustained.                        *)
THEOREM MotionSustained == Spec => MotionIsSustained
<1>1. Init => StreakInv
  BY DEF Init, StateInit, DetectorInit, StreakInv
<1>2. TypeOK /\ StreakInv /\ [Next]_vars => StreakInv'
  BY StreakStep
<1>3. TypeOK /\ StreakInv /\ [Next]_vars
        => [{motion, motion'} = {"MOVING", "STOPPED"} => streak' >= WINDOW]_vars
  BY StreakStep
<1>4. Spec => [][{motion, motion'} = {"MOVING", "STOPPED"} => streak' >= WINDOW]_vars
  BY <1>1, <1>2, <1>3, FeedbackTypeCorrect, PTL DEF Spec
<1>5. QED
  BY <1>4 DEF MotionIsSustained

-----------------------------------------------------------------------------
(* The order of the echoes, as long as nothing was restarted and the clock *)
(* was never stepped back: the newer a report, the newer its echo.         *)
Undisturbed == lives = 2 /\ stepped = 0

\* b echoes nothing, or something no older than a does
NoOlder(b, a) == a # None /\ b # None => a <= b

EchoesOrdered ==
  /\ bridge_age # None /\ bridge.echo # None => echo # None /\ bridge.echo <= echo
  /\ \A m \in flight :
       /\ m.age >= 0 /\ m.age <= m.transit
       /\ m.status.echo # None => /\ bridge_age # None /\ bridge.echo # None
                                  /\ m.status.echo <= bridge.echo
       /\ \A n \in flight : m.age < n.age => NoOlder(m.status.echo, n.status.echo)
       /\ Newer(m.age) => NoOlder(m.status.echo, Latest.echo)
  /\ Latest.echo # None => /\ status_stamp # None
                            /\ bridge_age # None /\ bridge.echo # None
                            /\ Latest.echo <= bridge.echo
  /\ NoOlder(Latest.echo, values.echo)

OrderInv ==
  /\ lives \in Nat /\ lives >= 2
  /\ Undisturbed => EchoesOrdered

\* the variables of the loop that echoes pass through
echoVars == <<echo, bridge_age, bridge, flight, status_stamp, values, filling, incoming>>

LEMMA EchoSteps ==
  ASSUME [Next]_vars
  PROVE  \/ UNCHANGED <<echoVars, lives, stepped>>
         \/ \E s \in Stamps, again \in BOOLEAN : CmdArrives(s, again)
         \/ BridgeReports \/ BridgeStarts \/ StateNodeStarts \/ StatusTick
         \/ \E m \in flight, again \in BOOLEAN : StatusArrives(m, again)
         \/ \E m \in flight : StatusLost(m)
         \/ StatusFills
         \/ ClockRuns \/ ClockStepsBack
  BY DEF Next, vars, stateVars, readVars, bridgeVars, echoVars, Send, Replay, OnSent,
    CmdLost, BridgeLatches, Latch, BridgeDies, Die, Sport, OnSport, Low, OnLow,
    ClockFaults, OnClockStep

LEMMA EchoTypes ==
  ASSUME TypeOK
  PROVE  /\ echo \in Nat \cup {None}
         /\ bridge_age # None => bridge.echo \in Nat \cup {None}
         /\ {values.echo, Latest.echo} \subseteq Nat \cup {None}
         /\ \A m \in flight : /\ m.age \in Int /\ m.transit \in 0..MAX_TRANSIT
                               /\ m.status.echo \in Nat \cup {None}
<1>1. \A e \in Stamps \cup {None} : e \in Nat \cup {None}
  BY FeedbackAssumption
<1>2. \A v \in Statuses : v.echo \in Stamps \cup {None}
  BY DEF Statuses
<1>3. \A m \in flight : m \in [age : Int, transit : 0..MAX_TRANSIT, status : Statuses]
  BY DEF TypeOK
<1>4. QED BY <1>1, <1>2, <1>3 DEF TypeOK, Latest

LEMMA OrderedReport ==
  ASSUME TypeOK, EchoesOrdered,
         BridgeReports \/ \E s \in Stamps, again \in BOOLEAN : CmdArrives(s, again)
  PROVE  EchoesOrdered'
<1>1. CASE BridgeReports
  <2>1. /\ bridge_age' = 0 /\ bridge'.echo = echo
        /\ UNCHANGED <<echo, flight, status_stamp, values, Latest>>
    BY <1>1 DEF BridgeReports, OnBridge, Latest, readVars, bridgeVars
  <2>2. bridge_age # None /\ bridge.echo # None =>
          echo \in Nat /\ echo # None /\ bridge.echo \in Nat /\ bridge.echo <= echo
    BY EchoTypes DEF EchoesOrdered
  <2>3. 0 # None /\ (echo # None => echo <= echo)
    BY AgeAssumption, EchoTypes
  <2>4. ASSUME NEW m \in flight, m.status.echo # None
        PROVE  echo # None /\ m.status.echo <= echo
    BY <2>2, <2>4, EchoTypes DEF EchoesOrdered
  <2>5. Latest.echo # None => echo # None /\ Latest.echo <= echo
    BY <2>2, EchoTypes DEF EchoesOrdered
  <2>6. QED
    BY <2>1, <2>3, <2>4, <2>5 DEF EchoesOrdered, Newer, NoOlder
<1>2. ASSUME NEW s \in Stamps, NEW again \in BOOLEAN, CmdArrives(s, again)
      PROVE  EchoesOrdered'
  <2>1. /\ echo' = IF Accepts(s) THEN s ELSE echo
        /\ UNCHANGED <<bridge_age, bridge, flight, status_stamp, values, Latest>>
    BY <1>2 DEF CmdArrives, Accept, Latest, bridgeVars, stateVars, readVars
  <2>2. s \in Nat /\ s # None
    BY FeedbackAssumption
  <2>3. bridge_age # None /\ bridge.echo # None => echo' # None /\ bridge.echo <= echo'
    BY <2>1, <2>2, EchoTypes DEF EchoesOrdered, Accepts
  <2>4. QED
    BY <2>1, <2>3 DEF EchoesOrdered, Newer, NoOlder
<1>3. QED BY <1>1, <1>2

LEMMA OrderedTick ==
  ASSUME TypeOK, EchoesOrdered, StatusTick
  PROVE  EchoesOrdered'
<1>1. UNCHANGED <<echo, bridge_age, bridge, status_stamp, values, Latest>>
  BY DEF StatusTick, Latest, stateVars, readVars, bridgeVars
<1>2. PICK new : new = [age |-> 0, transit |-> 0, status |-> Status]
  OBVIOUS
<1>3. /\ flight' = flight \cup {new} /\ new.age = 0 /\ new.transit = 0
      /\ new.status.echo = Status.echo
  BY <1>2 DEF StatusTick
<1>4. new.status.echo # None => bridge_age # None /\ new.status.echo = bridge.echo
  BY <1>3 DEF Status, BridgeFresh, Fresh
<1>5. ASSUME NEW n \in flight
      PROVE  /\ NoOlder(new.status.echo, n.status.echo)
             /\ ~(n.age < new.age)
  BY <1>3, <1>4, EchoTypes DEF EchoesOrdered, NoOlder
<1>6. NoOlder(new.status.echo, Latest.echo)
  BY <1>4 DEF EchoesOrdered, NoOlder
<1>7. new.status.echo # None => /\ bridge_age # None /\ bridge.echo # None
                               /\ new.status.echo <= bridge.echo
  BY <1>4, EchoTypes
<1>8. ASSUME NEW m \in flight'
      PROVE  /\ m.age >= 0 /\ m.age <= m.transit
             /\ m.status.echo # None => /\ bridge_age # None /\ bridge.echo # None
                                        /\ m.status.echo <= bridge.echo
             /\ \A n \in flight' : m.age < n.age => NoOlder(m.status.echo, n.status.echo)
             /\ Newer(m.age) => NoOlder(m.status.echo, Latest.echo)
  <2>1. CASE m \in flight
    BY <1>3, <1>5, <2>1 DEF EchoesOrdered
  <2>2. CASE m = new
    BY <1>3, <1>5, <1>6, <1>7, <2>2
  <2>3. QED BY <1>3, <2>1, <2>2
<1>9. QED
  BY <1>1, <1>8 DEF EchoesOrdered, Newer, NoOlder

LEMMA OrderedArrival ==
  ASSUME TypeOK, EchoesOrdered, NEW m \in flight, NEW again \in BOOLEAN,
  StatusArrives(m, again)
  PROVE  EchoesOrdered'
<1>1. /\ Newer(m.age) /\ status_stamp' = m.age
      /\ Latest = values /\ Latest' = m.status /\ values' = values
      /\ flight' \subseteq flight
      /\ UNCHANGED <<echo, bridge_age, bridge>>
  BY DEF StatusArrives, Dates, Latest, stateVars, bridgeVars, sendVars
<1>2. m.age \in Int /\ m.age # None
  BY EchoTypes, AgeAssumption
<1>3. ASSUME NEW n \in flight, (Newer(n.age))'
      PROVE  NoOlder(n.status.echo, m.status.echo)
  <2>1. n.age < m.age
    BY <1>1, <1>2, <1>3 DEF Newer
  <2>2. QED BY <2>1 DEF EchoesOrdered
<1>4. ASSUME NEW n \in flight'
      PROVE  (/\ n.age >= 0 /\ n.age <= n.transit
              /\ n.status.echo # None => /\ bridge_age # None /\ bridge.echo # None
                                         /\ n.status.echo <= bridge.echo)
  BY <1>1 DEF EchoesOrdered
<1>5. \A n \in flight', r \in flight' : n.age < r.age => NoOlder(n.status.echo, r.status.echo)
  BY <1>1 DEF EchoesOrdered
<1>6. \A n \in flight' : (Newer(n.age))' => NoOlder(n.status.echo, Latest'.echo)
  BY <1>1, <1>3
<1>7. Latest'.echo # None => /\ status_stamp' # None /\ bridge_age # None
                             /\ bridge.echo # None /\ Latest'.echo <= bridge.echo
  BY <1>1, <1>2 DEF EchoesOrdered
<1>8. NoOlder(Latest'.echo, values'.echo)
  BY <1>1 DEF EchoesOrdered
<1>9. QED
  BY <1>1, <1>4, <1>5, <1>6, <1>7, <1>8 DEF EchoesOrdered, Newer, NoOlder

LEMMA OrderedFill ==
  ASSUME TypeOK, EchoesOrdered, StatusFills
  PROVE  EchoesOrdered'
<1>1. /\ Latest' = Latest /\ values' = Latest
      /\ UNCHANGED <<echo, bridge_age, bridge, flight, status_stamp>>
  BY DEF StatusFills, Fills, Latest, stateVars, bridgeVars
<1>2. NoOlder(Latest.echo, Latest.echo)
  BY EchoTypes DEF NoOlder
<1>3. QED
  BY <1>1, <1>2 DEF EchoesOrdered, Newer, NoOlder

LEMMA OrderedClock ==
  ASSUME TypeOK, EchoesOrdered, ClockRuns
  PROVE  EchoesOrdered'
<1> USE AgeAssumption, FeedbackAssumption
<1>1. /\ UNCHANGED <<echo, bridge, values, Latest>>
      /\ bridge_age' = None <=> bridge_age = None
      /\ status_stamp' = None <=> status_stamp = None
  BY TypedAges DEF ClockRuns, StateElapse, Later, Latest, TypeOK, bridgeVars
<1>2. ASSUME NEW n \in flight'
      PROVE  \E m \in flight : /\ n.age = m.age + 1 /\ n.transit = m.transit + 1
                               /\ m.transit < MAX_TRANSIT /\ n.status = m.status
  BY DEF ClockRuns, Carried
<1>3. ASSUME NEW m \in flight, m.transit < MAX_TRANSIT, Latest.echo # None,
             (Newer(m.age + 1))'
      PROVE  Newer(m.age)
  <2>1. status_stamp \in Int /\ status_stamp' = Later(status_stamp, 1)
    BY <1>3 DEF EchoesOrdered, TypeOK, ClockRuns
  <2>2. m.age \in Int /\ m.age <= m.transit /\ m.transit \in Nat
    BY EchoTypes DEF EchoesOrdered
  <2>3. m.age + 1 < status_stamp'
    BY <1>1, <1>3, <2>1 DEF Newer
  <2>4. m.age < status_stamp
    BY <2>1, <2>2, <2>3 DEF Later
  <2>5. QED BY <2>4 DEF Newer
<1>4. ASSUME NEW n \in flight'
      PROVE  /\ n.age >= 0 /\ n.age <= n.transit
             /\ n.status.echo # None => /\ bridge_age # None /\ bridge.echo # None
                                        /\ n.status.echo <= bridge.echo
             /\ \A r \in flight' : n.age < r.age => NoOlder(n.status.echo, r.status.echo)
             /\ (Newer(n.age))' => NoOlder(n.status.echo, Latest.echo)
  <2>1. PICK m \in flight : /\ n.age = m.age + 1 /\ n.transit = m.transit + 1
                            /\ m.transit < MAX_TRANSIT /\ n.status = m.status
    BY <1>2
  <2>2. m.age \in Int /\ m.transit \in Nat
    BY EchoTypes
  <2>3. n.age >= 0 /\ n.age <= n.transit
    BY <2>1, <2>2 DEF EchoesOrdered
  <2>4. ASSUME NEW r \in flight', n.age < r.age PROVE NoOlder(n.status.echo, r.status.echo)
    <3>1. PICK q \in flight : r.age = q.age + 1 /\ r.status = q.status
      BY <1>2
    <3>2. m.age < q.age
      BY <2>1, <2>2, <2>4, <3>1, EchoTypes
    <3>3. QED BY <2>1, <3>1, <3>2 DEF EchoesOrdered
  <2>5. (Newer(n.age))' => NoOlder(n.status.echo, Latest.echo)
    <3>1. (Newer(n.age))' => (Newer(m.age + 1))'
      BY <2>1 DEF Newer
    <3>2. QED BY <1>3, <2>1, <3>1 DEF EchoesOrdered, NoOlder
  <2>6. QED BY <2>1, <2>3, <2>4, <2>5 DEF EchoesOrdered
<1>5. QED
  BY <1>1, <1>4 DEF EchoesOrdered, Newer, NoOlder

LEMMA OrderStep ==
  ASSUME TypeOK, OrderInv, [Next]_vars
  PROVE  OrderInv'
<1>1. stepped \in Nat /\ lives \in Nat /\ lives >= 2
  BY FeedbackAssumption DEF TypeOK, OrderInv
<1>2. lives' \in Nat /\ lives' >= 2
  <2>1. CASE BridgeStarts \/ StateNodeStarts
    BY <1>1, <2>1 DEF BridgeStarts, Begin, StateNodeStarts
  <2>2. CASE ~BridgeStarts /\ ~StateNodeStarts
    <3>1. lives' = lives
      BY <2>2 DEF Next, vars, Send, Replay, CmdLost, CmdArrives, Accept, BridgeReports,
        BridgeLatches, Latch, BridgeDies, Die, Sport, Low, ClockFaults, StatusTick,
        StatusArrives, StatusLost, StatusFills, Fills, ClockRuns, ClockStepsBack
    <3>2. QED BY <1>1, <3>1
  <2>3. QED BY <2>1, <2>2
<1>3. ASSUME Undisturbed' PROVE EchoesOrdered'
  <2>1. ~BridgeStarts /\ ~StateNodeStarts /\ ~ClockStepsBack
    BY <1>1, <1>3 DEF Undisturbed, BridgeStarts, Begin, StateNodeStarts, ClockStepsBack
  <2>2. lives' = lives /\ stepped' = stepped
    BY <2>1, EchoSteps DEF CmdArrives, Accept, BridgeReports, StatusTick, StatusArrives,
      StatusLost, StatusFills, Fills, ClockRuns
  <2>3. EchoesOrdered
    BY <1>3, <2>2 DEF Undisturbed, OrderInv
  <2>4. CASE UNCHANGED echoVars
    BY <2>3, <2>4 DEF EchoesOrdered, echoVars, Latest, Newer, NoOlder
  <2>5. ASSUME NEW m \in flight, StatusLost(m) PROVE EchoesOrdered'
    <3>1. flight' \subseteq flight
          /\ UNCHANGED <<echo, bridge_age, bridge, status_stamp, values, Latest>>
      BY <2>5 DEF StatusLost, Latest, stateVars, readVars, bridgeVars
    <3>2. QED BY <2>3, <3>1 DEF EchoesOrdered, Newer, NoOlder
  <2>6. QED
    BY <2>1, <2>3, <2>4, <2>5, EchoSteps, OrderedReport, OrderedTick, OrderedArrival,
      OrderedFill, OrderedClock
<1>4. QED BY <1>2, <1>3 DEF OrderInv

EchoForward ==
  /\ values.echo # None /\ values'.echo # None
  /\ lives' = 2 /\ stepped' = 0
  => values'.echo >= values.echo

LEMMA EchoStep ==
  ASSUME TypeOK, OrderInv, [Next]_vars
  PROVE  EchoForward
<1> SUFFICES ASSUME values.echo # None, values'.echo # None, lives' = 2, stepped' = 0
             PROVE  values'.echo >= values.echo
  BY DEF EchoForward
<1>1. {values.echo, Latest.echo} \subseteq Nat \cup {None}
  BY EchoTypes
<1>2. CASE ~StatusFills
  BY <1>1, <1>2, ValuesKept
<1>3. CASE StatusFills
  <2>1. values' = Latest /\ lives' = lives /\ stepped' = stepped
    BY <1>3 DEF StatusFills, Fills, Latest
  <2>2. NoOlder(Latest.echo, values.echo)
    BY <2>1 DEF OrderInv, Undisturbed, EchoesOrdered
  <2>3. QED BY <1>1, <2>1, <2>2 DEF NoOlder
<1>4. QED
  BY <1>2, <1>3

(* The echo the hexapod reads goes forward only: see EchoNeverGoesBack.    *)
THEOREM EchoForwardOnly == Spec => EchoNeverGoesBack
<1>1. Init => OrderInv
  BY DEF Init, BridgeInit, CheckerInit, StateInit, OrderInv, EchoesOrdered, Blank,
    Latest, NoOlder
<1>2. TypeOK /\ OrderInv /\ [Next]_vars => OrderInv'
  BY OrderStep
<1>3. TypeOK /\ OrderInv /\ [Next]_vars => [EchoForward]_vars
  BY EchoStep
<1>4. Spec => [][EchoForward]_vars
  BY <1>1, <1>2, <1>3, FeedbackTypeCorrect, PTL DEF Spec
<1>5. QED
  BY <1>4 DEF EchoNeverGoesBack, EchoForward
=============================================================================
