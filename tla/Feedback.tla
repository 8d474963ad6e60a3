------------------------------- MODULE Feedback --------------------------------
(***************************************************************************)
(* The feedback loop across both hosts: the hexapod stamps and sends       *)
(* commands, the velocity bridge accepts some and reports the newest, the  *)
(* Go2 state node composes that report with the robot's telemetry, and the *)
(* hexapod reads the status, in one thread, and concludes RECEIVED and a   *)
(* class, in another.                                                      *)
(*                                                                         *)
(* Commands and statuses cross the link in sets: any of them may be late,  *)
(* lost, overtaken or delivered twice, but a status still under way after  *)
(* MAX_TRANSIT is lost.  What stays on the Go2 side's host (telemetry, the *)
(* bridge's report) arrives at once or not at all.                         *)
(***************************************************************************)
EXTENDS Go2State, FeedbackChecker, BridgeView

CONSTANTS
  Streams,          \* the telemetry that may arrive, within {"sport", "low"}
  Samples,          \* the candidates that sport samples may give, within Candidates
  Faults,           \* what may go wrong, within {"motors", "clock", "latch", "death"}
  MAX_FLIGHT,       \* statuses under way at once
  MAX_TRANSIT,      \* how long a status may be under way
  MAX_FILL,         \* how long on_status may take from the date to the values
  MAX_BACK,         \* how far the Go2 side's wall clock is stepped back, in all
  MAX_LIVES,        \* how many lives the bridge and the state node have in all
  HORIZON           \* where the observer's ages stop

ASSUME FeedbackAssumption ==
  /\ {WINDOW, SPORT_STALE, LOW_STALE, BRIDGE_STALE, STALE, HISTORY} \subseteq Nat \ {0}
  /\ \A t \in {WINDOW, SPORT_STALE, LOW_STALE, BRIDGE_STALE, STALE, MAX_TRANSIT} :
       t + MAX_BACK < FORGET
  /\ Stamps \subseteq Nat /\ Samples \subseteq Candidates
  /\ None \notin Stamps /\ HORIZON \in Nat
  /\ {MAX_FLIGHT, MAX_TRANSIT, MAX_FILL, MAX_BACK, MAX_LIVES} \subseteq Nat
  /\ \A t \in {SPORT_STALE, LOW_STALE, BRIDGE_STALE} :
       t + MAX_TRANSIT + STALE + MAX_BACK < HORIZON

VARIABLES
  cmds,             \* stamps of the commands under way
  flight,           \* statuses under way: [age, transit, status]
  lives, stepped,
  first_sent,       \* observer: time since each stamp was first sent
  accepted,         \* observer: every stamp a bridge ever accepted
  silent,           \* observer: time since each stream's last sample
  lost,             \* observer: time since the bridge latched or died
  streak,           \* observer: how long all candidates have been alike
  alike,            \* observer: the candidate they have been
  carried           \* observer: how long the dated status was under way

observed == <<first_sent, accepted, silent, lost, streak, alike, carried>>
vars == <<stateVars, sendVars, readVars, cmds, bridgeVars, flight, lives, stepped, observed>>

Init ==
  /\ StateInit /\ CheckerInit /\ BridgeInit
  /\ cmds = {} /\ flight = {}
  /\ lives = 2 /\ stepped = 0
  /\ first_sent = [s \in Stamps |-> None] /\ accepted = {}
  /\ silent = [s \in {"sport", "low"} |-> None]
  /\ lost = None /\ streak = None /\ alike = None /\ carried = None

-----------------------------------------------------------------------------
(* The hexapod sends.                                                      *)
Send(s) ==
  /\ max_sent # None => s > max_sent
  /\ OnSent(s)
  /\ cmds' = cmds \cup {s}
  /\ first_sent' = [first_sent EXCEPT ![s] = 0]
  /\ UNCHANGED <<stateVars, bridgeVars, flight, lives, stepped, accepted, silent, lost,
                 streak, alike, carried>>

\* the replay second of run_profile: an older stamp of ours, sent again
Replay(s) ==
  /\ max_sent # None /\ s <= max_sent
  /\ first_sent[s] # None
  /\ OnSent(s)
  /\ cmds' = cmds \cup {s}
  /\ UNCHANGED <<stateVars, bridgeVars, flight, lives, stepped, observed>>

-----------------------------------------------------------------------------
(* The velocity bridge, as far as the loop sees it (BridgeView).           *)
CmdArrives(s, again) ==
  /\ s \in cmds
  /\ up
  /\ cmds' = IF again THEN cmds ELSE cmds \ {s}
  /\ IF Accepts(s) THEN Accept(s) ELSE UNCHANGED bridgeVars
  /\ accepted' = IF Accepts(s) THEN accepted \cup {s} ELSE accepted
  /\ UNCHANGED <<stateVars, sendVars, readVars, flight, lives, stepped,
                 first_sent, silent, lost, streak, alike, carried>>

CmdLost(s) ==
  /\ s \in cmds
  /\ cmds' = cmds \ {s}
  /\ UNCHANGED <<stateVars, sendVars, readVars, bridgeVars, flight, lives, stepped, observed>>

BridgeReports ==
  /\ up
  /\ OnBridge([latched |-> latched, echo |-> echo])
  /\ UNCHANGED <<sendVars, readVars, cmds, bridgeVars, flight, lives, stepped, observed>>

BridgeLatches ==
  /\ "latch" \in Faults
  /\ Latch
  /\ lost' = 0
  /\ UNCHANGED <<stateVars, sendVars, readVars, cmds, flight, lives, stepped,
                 first_sent, accepted, silent, streak, alike, carried>>

BridgeDies ==
  /\ "death" \in Faults
  /\ Die
  /\ lost' = IF latched THEN lost ELSE 0
  /\ UNCHANGED <<stateVars, sendVars, readVars, cmds, flight, lives, stepped,
                 first_sent, accepted, silent, streak, alike, carried>>

BridgeStarts ==
  /\ Begin
  /\ lives < MAX_LIVES
  /\ lives' = lives + 1
  /\ lost' = None
  /\ UNCHANGED <<stateVars, sendVars, readVars, cmds, flight, stepped,
                 first_sent, accepted, silent, streak, alike, carried>>

-----------------------------------------------------------------------------
(* The Go2 state node.                                                     *)
Sport(cand) ==
  /\ "sport" \in Streams
  /\ OnSport(cand)
  /\ silent' = [silent EXCEPT !["sport"] = 0]
  /\ alike' = cand
  /\ streak' = IF cand = alike /\ sample_age # None /\ sample_age <= WINDOW THEN streak ELSE 0
  /\ UNCHANGED <<sendVars, readVars, cmds, bridgeVars, flight, lives, stepped,
                 first_sent, accepted, lost, carried>>

Low(bad) ==
  /\ "low" \in Streams
  /\ bad => "motors" \in Faults
  /\ OnLow(bad)
  /\ silent' = [silent EXCEPT !["low"] = 0]
  /\ UNCHANGED <<sendVars, readVars, cmds, bridgeVars, flight, lives, stepped,
                 first_sent, accepted, lost, streak, alike, carried>>

ClockFaults ==
  /\ "clock" \in Faults
  /\ OnClockStep
  /\ UNCHANGED <<sendVars, readVars, cmds, bridgeVars, flight, lives, stepped, observed>>

StatusTick ==
  /\ Cardinality(flight) < MAX_FLIGHT
  /\ flight' = flight \cup {[age |-> 0, transit |-> 0, status |-> Status]}
  /\ UNCHANGED <<stateVars, sendVars, readVars, cmds, bridgeVars, lives, stepped, observed>>

StateNodeStarts ==      \* anew, after a stop or a crash
  /\ lives < MAX_LIVES
  /\ lives' = lives + 1
  /\ StateReset
  /\ UNCHANGED <<sendVars, readVars, cmds, bridgeVars, flight, stepped, observed>>

-----------------------------------------------------------------------------
(* The hexapod reads.                                                      *)
StatusArrives(m, again) ==
  /\ m \in flight
  /\ Dates(m.age, m.status)
  /\ flight' = IF again THEN flight ELSE flight \ {m}
  /\ carried' = m.transit
  /\ UNCHANGED <<stateVars, cmds, bridgeVars, lives, stepped,
                 first_sent, accepted, silent, lost, streak, alike>>

StatusFills ==
  /\ Fills
  /\ UNCHANGED <<stateVars, cmds, bridgeVars, flight, lives, stepped, observed>>

\* lost on the way, or refused as not newer
StatusLost(m) ==
  /\ m \in flight
  /\ flight' = flight \ {m}
  /\ UNCHANGED <<stateVars, sendVars, readVars, cmds, bridgeVars, lives, stepped, observed>>

-----------------------------------------------------------------------------
(* Time.  The Go2 side's wall clock ages arrivals and stamps there.        *)
Observed(age) == IF age = None THEN None ELSE IF age < HORIZON THEN age + 1 ELSE age

Carried(m, d, t) == [age |-> m.age + d, transit |-> m.transit + t, status |-> m.status]

ClockRuns ==
  /\ filling => status_age < MAX_FILL
  /\ StateElapse(1)
  /\ sent' = [s \in DOMAIN sent |-> Later(sent[s], 1)]
  /\ status_age' = Later(status_age, 1)
  /\ status_stamp' = Later(status_stamp, 1)
  /\ flight' = {Carried(m, 1, 1) : m \in {n \in flight : n.transit < MAX_TRANSIT}}
  /\ first_sent' = [s \in Stamps |-> Later(first_sent[s], 1)]
  /\ silent' = [s \in DOMAIN silent |-> Observed(silent[s])]
  /\ lost' = Observed(lost)
  /\ streak' = Later(streak, 1)
  /\ UNCHANGED <<max_sent, last_send_replay, values, filling, incoming, cmds, bridgeVars,
                 lives, stepped, accepted, alike, carried>>

ClockStepsBack ==
  /\ stepped < MAX_BACK
  /\ stepped' = stepped + 1
  /\ StateElapse(-1)
  /\ status_stamp' = Later(status_stamp, -1)
  /\ flight' = {Carried(m, -1, 0) : m \in flight}
  /\ UNCHANGED <<sendVars, status_age, values, filling, incoming, cmds, bridgeVars, lives,
                 observed>>

Next ==
  \/ \E s \in Stamps : Send(s) \/ Replay(s) \/ CmdLost(s)
  \/ \E s \in Stamps, again \in BOOLEAN : CmdArrives(s, again)
  \/ BridgeReports \/ BridgeLatches \/ BridgeDies \/ BridgeStarts
  \/ \E cand \in Samples : Sport(cand)
  \/ \E bad \in BOOLEAN : Low(bad)
  \/ ClockFaults \/ StatusTick \/ StateNodeStarts
  \/ \E m \in flight, again \in BOOLEAN : StatusArrives(m, again)
  \/ \E m \in flight : StatusLost(m)
  \/ StatusFills
  \/ ClockRuns \/ ClockStepsBack

Spec == Init /\ [][Next]_vars

-----------------------------------------------------------------------------
Statuses == [echo : Stamps \cup {None}, motion : Candidates \cup {"UNKNOWN"},
             hard : BOOLEAN, blind : BOOLEAN]

TypeOK ==
  /\ motion \in Candidates \cup {"UNKNOWN"}
  /\ {since, sample_age, low_age, bridge_age, status_age, status_stamp} \subseteq Age
  /\ bridge_age # None => bridge \in [latched : BOOLEAN, echo : Stamps \cup {None}]
  /\ status_age # None => carried \in 0..MAX_TRANSIT
  /\ {values, incoming} \subseteq Statuses /\ filling \in BOOLEAN
  /\ {unwell, clock_stepped, last_send_replay, up, latched} \subseteq BOOLEAN
  /\ {max_sent, echo} \subseteq Stamps \cup {None}
  /\ DOMAIN sent \subseteq Stamps /\ \A s \in DOMAIN sent : sent[s] \in Int
  /\ cmds \subseteq Stamps /\ accepted \subseteq Stamps
  /\ flight \subseteq [age : Int, transit : 0..MAX_TRANSIT, status : Statuses]
  /\ stepped \in 0..MAX_BACK

(* RECEIVED is true of the recent past: a bridge accepted that command,    *)
(* and we first sent it within STALE.  Neither a late echo of an old       *)
(* command nor a replay of it counts, even in a reading that on_status     *)
(* cuts into (on_sent, on_twist_stamped, status, evaluate).                *)
ReceivedIsRecent ==
  Received => /\ values.echo \in accepted
              /\ first_sent[values.echo] <= STALE

(* While neither the bridge nor the state node is restarted and the clock  *)
(* the statuses are stamped with is not stepped back, the echo the hexapod *)
(* reads never goes back to an older command, however statuses and         *)
(* commands overtake one another.                                          *)
EchoNeverGoesBack ==
  [][ /\ values.echo # None /\ values'.echo # None
      /\ lives' = 2 /\ stepped' = 0
      => values'.echo >= values.echo ]_vars

Moves == Class \in {"MOVING", "STOPPED"}

(* A bridge that aborted, yielded or died is noticed: the hexapod reads    *)
(* MOVING or STOPPED no longer than the bridge's report, the status under  *)
(* way and the status at hand may live, whichever of them are lost; but    *)
(* for a reading that on_status cuts into.                                 *)
LossIsNoticed ==
  Moves /\ ~filling /\ lost # None => lost <= BRIDGE_STALE + carried + status_age + stepped

(* A dead feed never reads as a calm robot: MOVING or STOPPED rests on a   *)
(* sample of each telemetry stream no older than its limit and the way the *)
(* status took; but for a reading that on_status cuts into.                *)
SilenceIsNoticed ==
  Moves /\ ~filling =>
    /\ silent["sport"] # None
    /\ silent["sport"] <= SPORT_STALE + carried + status_age + stepped
    /\ silent["low"] # None
    /\ silent["low"] <= LOW_STALE + carried + status_age + stepped

(* MOVING and STOPPED give way to one another only after every sample for  *)
(* a whole window, without a gap, said so (MotionDetector.update).         *)
MotionIsSustained ==
  [][ {motion, motion'} = {"MOVING", "STOPPED"} => streak' >= WINDOW ]_vars
=============================================================================
