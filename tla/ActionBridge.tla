----------------------------- MODULE ActionBridge -----------------------------
(***************************************************************************)
(* go2_action_bridge: ActionCore and the node around it.  A known word on  *)
(* /go2/action becomes one DANCE1 request, sent only from rest, and the    *)
(* dance is then watched.  The node is one single-threaded executor: its   *)
(* callbacks run one at a time, in any order.                              *)
(***************************************************************************)
EXTENDS Ages

CONSTANTS
  STALE, START_TIMEOUT, MAX_DANCE, LOCKOUT, HANDSET_QUIET, FOREIGN_QUIET, OWN_ECHO,
  HIP_ARM_MAX, MAX_SENDS,
  BALANCE_STAND, DANCE_CODE,            \* error codes
  ErrorCodes, Temps, MotorCounts,       \* what the telemetry may say
  ARMINGS, MATCHINGS, BRIDGINGS,        \* armed?  subscribed to?  is go2_cmd_bridge up?
  MAX_STARTS,
  MAX_BACK, MAX_AHEAD                   \* how far the wall clock is stepped

ASSUME ActionAssumption ==
  /\ None # "DANCE1"
  /\ {STALE, START_TIMEOUT, MAX_DANCE, OWN_ECHO} \subseteq Nat \ {0}
  /\ {LOCKOUT, HANDSET_QUIET, FOREIGN_QUIET} \subseteq Nat \ {0}
  /\ \A t \in {STALE, START_TIMEOUT, MAX_DANCE, OWN_ECHO} : t + MAX_BACK < FORGET
  /\ \A t \in {LOCKOUT, HANDSET_QUIET, FOREIGN_QUIET} : t + MAX_BACK <= FORGET
  /\ MAX_SENDS \in 1..3                 \* HARD_MAX_SENDS
  /\ HIP_ARM_MAX \in Int /\ Temps \subseteq Int
  /\ ErrorCodes \subseteq Int /\ MotorCounts \subseteq 0..12
  /\ {BALANCE_STAND, DANCE_CODE} \subseteq Int /\ BALANCE_STAND # DANCE_CODE
  /\ ARMINGS \subseteq BOOLEAN /\ MATCHINGS \subseteq BOOLEAN /\ BRIDGINGS \subseteq BOOLEAN
  /\ {MAX_STARTS, MAX_BACK, MAX_AHEAD} \subseteq Nat

VARIABLES
  state,
  sport_age, error_code,
  low_age, hips, motors_ok,
  handset_age,      \* since the last handset activity
  foreign_age,      \* since the last request somebody else sent
  cmd_bridge_present,
  sent_age,         \* since our last send; None: sent_api is None
  dance_age,        \* since the first DANCE_CODE after it
  end_age,          \* since the first other code after that
  n_sends,
  up, armed,
  matched,          \* does anybody else subscribe to /api/sport/request?
  bridging,         \* is go2_cmd_bridge on the graph?
  wire,             \* what this step gave the robot
  starts,
  stepped, ahead,   \* how far the wall clock was stepped back, and forward
  rested            \* observer: true time since the last dance was seen to end

telemetry == <<sport_age, error_code, low_age, hips, motors_ok, handset_age, foreign_age>>
dance == <<sent_age, dance_age, end_age, n_sends>>
world == <<up, armed, matched, bridging, starts, stepped, ahead>>
vars == <<state, telemetry, cmd_bridge_present, dance, world, wire, rested>>

Latches == {"NO_START", "OVERRUN", "REFUSED", "SPENT"}
States == {"WAITING", "READY", "SENT", "DANCING", "LOCKOUT"} \cup Latches

Init ==
  /\ state = "WAITING"
  /\ sport_age = None /\ error_code = None
  /\ low_age = None /\ hips = None /\ motors_ok = None
  /\ handset_age = None /\ foreign_age = None
  /\ cmd_bridge_present = FALSE
  /\ sent_age = None /\ dance_age = None /\ end_age = None /\ n_sends = 0
  /\ up = TRUE /\ armed \in ARMINGS /\ matched \in MATCHINGS /\ bridging \in BRIDGINGS
  /\ wire = None /\ starts = 1 /\ stepped = 0 /\ ahead = 0
  /\ rested = None

Quiet == wire' = None

-----------------------------------------------------------------------------
(* The subscription callbacks.                                             *)
Begins(code) == state = "SENT" /\ code = DANCE_CODE /\ dance_age = None

Ends_mutant(code) == code # DANCE_CODE /\ end_age = None

Ends(code) == state = "DANCING" /\ code # DANCE_CODE /\ end_age = None

OnSport(code) ==
  /\ up
  /\ sport_age' = 0
  /\ error_code' = code
  /\ dance_age' = IF Begins(code) THEN 0 ELSE dance_age
  /\ end_age' = IF Ends(code) THEN 0 ELSE end_age
  /\ rested' = IF Ends(code) THEN 0 ELSE rested
  /\ Quiet
  /\ UNCHANGED <<state, low_age, hips, motors_ok, handset_age, foreign_age,
                 cmd_bridge_present, sent_age, n_sends, world>>

OnLow(t, motors) ==
  /\ up
  /\ low_age' = 0 /\ hips' = t /\ motors_ok' = motors
  /\ Quiet
  /\ UNCHANGED <<state, sport_age, error_code, handset_age, foreign_age,
                 cmd_bridge_present, dance, world, rested>>

OnHandset ==        \* a sample with activity in it
  /\ up
  /\ handset_age' = 0
  /\ Quiet
  /\ UNCHANGED <<state, sport_age, error_code, low_age, hips, motors_ok, foreign_age,
                 cmd_bridge_present, dance, world, rested>>

\* any request on /api/sport/request; `dance1`: it has our api_id.  Within
\* OWN_ECHO of a send such a request is taken for our own.
OnRobotRequest(dance1) ==
  /\ up
  /\ foreign_age' = IF dance1 /\ sent_age # None /\ sent_age \in 0..OWN_ECHO
                    THEN foreign_age ELSE 0
  /\ Quiet
  /\ UNCHANGED <<state, sport_age, error_code, low_age, hips, motors_ok, handset_age,
                 cmd_bridge_present, dance, world, rested>>

OnRefusal ==        \* a response to our api_id with a non-zero code
  /\ up
  /\ sent_age # None
  /\ state \notin Latches
  /\ state' = "REFUSED"
  /\ Quiet
  /\ UNCHANGED <<telemetry, cmd_bridge_present, dance, world, rested>>

-----------------------------------------------------------------------------
(* _wait_reason, with what is known of go2_cmd_bridge when it is called.   *)
Stale(age) == age # None => age > STALE

Within(age, bound) == age # None /\ age < bound

WaitReason(present) ==
  \/ n_sends >= MAX_SENDS
  \/ present
  \/ Stale(sport_age)
  \/ Stale(low_age)
  \/ error_code # BALANCE_STAND
  \/ motors_ok # 12
  \/ hips # None /\ hips >= HIP_ARM_MAX
  \/ Within(handset_age, HANDSET_QUIET)
  \/ Within(foreign_age, FOREIGN_QUIET)

(* on_trigger on a known word, and the node's route().                     *)
Open_mutant == state \notin Latches

Open == state \in {"WAITING", "READY"}

\* a dry run has no publisher; a request nobody subscribes to is dropped
Routed == IF armed /\ matched THEN "DANCE1" ELSE None

TriggerIgnored ==
  /\ up
  /\ Open
  /\ WaitReason(cmd_bridge_present)
  /\ state' = "WAITING"
  /\ Quiet
  /\ UNCHANGED <<telemetry, cmd_bridge_present, dance, world, rested>>

TriggerSends ==
  /\ up
  /\ Open
  /\ ~WaitReason(cmd_bridge_present)
  /\ state' = "SENT"
  /\ sent_age' = 0 /\ dance_age' = None /\ end_age' = None
  /\ n_sends' = n_sends + 1
  /\ wire' = Routed
  /\ UNCHANGED <<telemetry, cmd_bridge_present, world, rested>>

-----------------------------------------------------------------------------
(* tick() falls from SENT through DANCING and LOCKOUT to the preconditions *)
(* when each stage is over.                                                *)
Danced == state = "DANCING" \/ (state = "SENT" /\ dance_age # None)
Ended == state = "LOCKOUT" \/ (Danced /\ end_age # None)
Rested_mutant == Open \/ (Ended /\ n_sends < MAX_SENDS)

Rested == Open \/ (Ended /\ end_age >= LOCKOUT /\ n_sends < MAX_SENDS)

NoStart_mutant == FALSE

NoStart == sent_age > START_TIMEOUT

Overrun == dance_age > MAX_DANCE

TickGoes(to) ==
  \/ state \in Latches /\ to = state
  \/ state = "SENT" /\ ~Danced /\ to = IF NoStart THEN "NO_START" ELSE "SENT"
  \/ Danced /\ ~Ended /\ to = IF Overrun THEN "OVERRUN" ELSE "DANCING"
  \/ Ended /\ end_age < LOCKOUT /\ to = "LOCKOUT"
  \/ Ended /\ end_age >= LOCKOUT /\ n_sends >= MAX_SENDS /\ to = "SPENT"
  \/ Rested /\ to = IF WaitReason(bridging) THEN "WAITING" ELSE "READY"

OnTick ==
  /\ up
  /\ cmd_bridge_present' = bridging
  /\ state' \in {to \in States : TickGoes(to)}
  /\ Quiet
  /\ UNCHANGED <<telemetry, dance, world, rested>>

-----------------------------------------------------------------------------
(* The process, which sends nothing on exit, and the environment.          *)
Stop ==
  /\ up
  /\ up' = FALSE
  /\ Quiet
  /\ UNCHANGED <<state, telemetry, cmd_bridge_present, dance, armed, matched, bridging,
                 starts, stepped, ahead, rested>>

Start ==
  /\ ~up
  /\ starts < MAX_STARTS
  /\ starts' = starts + 1
  /\ up' = TRUE /\ armed' \in ARMINGS
  /\ state' = "WAITING"
  /\ sport_age' = None /\ error_code' = None
  /\ low_age' = None /\ hips' = None /\ motors_ok' = None
  /\ handset_age' = None /\ foreign_age' = None
  /\ cmd_bridge_present' = FALSE
  /\ sent_age' = None /\ dance_age' = None /\ end_age' = None /\ n_sends' = 0
  /\ rested' = None
  /\ Quiet
  /\ UNCHANGED <<matched, bridging, stepped, ahead>>

Discovery ==
  /\ \/ matched' \in MATCHINGS \ {matched} /\ UNCHANGED bridging
     \/ bridging' \in BRIDGINGS \ {bridging} /\ UNCHANGED matched
  /\ Quiet
  /\ UNCHANGED <<state, telemetry, cmd_bridge_present, dance, up, armed, starts, stepped,
                 ahead, rested>>

Elapse(d) ==
  /\ sport_age' = Later(sport_age, d)
  /\ low_age' = Later(low_age, d)
  /\ handset_age' = Later(handset_age, d)
  /\ foreign_age' = Later(foreign_age, d)
  /\ sent_age' = Later(sent_age, d)
  /\ dance_age' = Later(dance_age, d)
  /\ end_age' = Later(end_age, d)
  /\ Quiet
  /\ UNCHANGED <<state, error_code, hips, motors_ok, cmd_bridge_present, n_sends, up, armed,
                 matched, bridging, starts>>

ClockRuns ==
  /\ Elapse(1)
  /\ rested' = Later(rested, 1)
  /\ UNCHANGED <<stepped, ahead>>

ClockStepsBack ==
  /\ stepped < MAX_BACK
  /\ Elapse(-1)
  /\ stepped' = stepped + 1
  /\ UNCHANGED <<rested, ahead>>

ClockStepsAhead ==
  /\ ahead < MAX_AHEAD
  /\ Elapse(1)
  /\ ahead' = ahead + 1
  /\ UNCHANGED <<rested, stepped>>

Next ==
  \/ \E code \in ErrorCodes : OnSport(code)
  \/ \E t \in Temps, m \in MotorCounts : OnLow(t, m)
  \/ OnHandset
  \/ \E dance1 \in BOOLEAN : OnRobotRequest(dance1)
  \/ OnRefusal
  \/ TriggerIgnored \/ TriggerSends
  \/ OnTick
  \/ Stop \/ Start \/ Discovery
  \/ ClockRuns \/ ClockStepsBack \/ ClockStepsAhead

Spec == Init /\ [][Next]_vars

(* The timer of a live node keeps firing and time passes; no message ever  *)
(* has to arrive.                                                          *)
FairSpec == Spec /\ WF_vars(OnTick) /\ WF_vars(ClockRuns)
-----------------------------------------------------------------------------
TypeOK ==
  /\ state \in States
  /\ {sport_age, low_age, handset_age, foreign_age} \subseteq Age
  /\ {sent_age, dance_age, end_age, rested} \subseteq Age
  /\ {error_code, hips} \subseteq Int \cup {None}
  /\ motors_ok \in (0..12) \cup {None}
  /\ {cmd_bridge_present, up, armed, matched, bridging} \subseteq BOOLEAN
  /\ n_sends \in 0..MAX_SENDS
  /\ wire \in {"DANCE1", None}
  /\ {starts, stepped, ahead} \subseteq Nat

(* tick() subtracts sent_t, dance_t and end_t without looking for None,    *)
(* and _wait_reason takes max(hips): each is set before the state that     *)
(* reads it.  A dance is recorded to begin after the send and to end after *)
(* it began, but for what the wall clock was stepped back.                 *)
WatchIsDefined ==
  /\ state = "SENT" => sent_age # None
  /\ state = "DANCING" => dance_age # None
  /\ state = "LOCKOUT" => end_age # None
  /\ low_age # None => hips # None
  /\ end_age # None => dance_age # None /\ end_age <= dance_age + stepped
  /\ dance_age # None => sent_age # None /\ dance_age <= sent_age + stepped

(* A second dance is asked for only after the first was seen to end, and   *)
(* after the lockout: a wall clock that steps forward in between cuts it   *)
(* by no more than the step, one that steps back only makes it longer      *)
(* (on_sport, tick, on_trigger).  A process that was restarted has         *)
(* forgotten its lockout, so this is about one life.                       *)
LockoutHolds ==
  wire # None /\ n_sends > 1 => rested # None /\ rested + ahead >= LOCKOUT

(* The bridge implements OneShot: never more than MAX_SENDS requests, none *)
(* while busy with one, none after a latch, a refusal that arrives late    *)
(* included.                                                               *)
phase ==
  CASE ~up \/ state \in Latches -> "over"
    [] up /\ state \in {"SENT", "DANCING", "LOCKOUT"} -> "busy"
    [] OTHER -> "ready"

Promise == INSTANCE OneShot WITH phase <- phase, sends <- n_sends

ImplementsOneShot == Promise!Spec

(* Every send is resolved: a bridge that stays up does not wait for ever   *)
(* for a dance that never starts, never ends, or whose telemetry is gone.  *)
SendResolves ==
  state \in {"SENT", "DANCING"} ~> state \in Latches \cup {"LOCKOUT", "WAITING", "READY"} \/ ~up

(* "never run both" (_wait_reason): no dance is asked for while            *)
(* go2_cmd_bridge is on the graph.                                         *)
NeverRunBoth == wire # None => ~bridging
=============================================================================
