------------------------------ MODULE SportProbe ------------------------------
(***************************************************************************)
(* go2_sport_probe: one scripted stage of requests to the robot's sport    *)
(* service.  One thread: callbacks run inside spin_once, and the guards    *)
(* are checked after each of those but not in the preflight, in the wait   *)
(* for a match and in the recovery.  Heights, temperatures and distances   *)
(* are small numbers; a wait ends after any number of spins.               *)
(***************************************************************************)
EXTENDS Ages, RosEnv, SequencesExt

CONSTANTS
  STAGES,                        \* the stages run, of those in PLANS
  LYING_MAX, STANDING_MIN,       \* of body_height
  START_MAX_C, CEILING,          \* of the rear hips
  RADIUS_ABORT,
  STALE_SPORT, SUSTAIN_SPORT,    \* STALE_S, SUSTAIN_S
  GUARDED,                       \* what is guarded when sustained: speed, yaw
  MOVES,                         \* Moves of one stream
  Heights, Hips, Distances       \* what telemetry may say

VARIABLES
  stage, armed,     \* the command line
  phase,            \* where run_live is
  step,             \* of the plan, from 1
  moves,            \* of a stream, already sent
  spun,             \* whether the wait at hand has spun: each does, once at least
  made,             \* node.pub is not None
  sport_t, low,     \* age of sport_t; whether n_low > 0
  bh, far, hip,     \* st: body height, distance from px0, the hotter rear hip
  since, trip,      \* of the two SustainedGuards; speed_trip, yaw_trip
  handset,
  motion_sent, rc,
  sent,             \* the requests published, oldest first
  harm,             \* why the robot may have been left up, if it may
  risen             \* observer: it was seen standing after its StandUp

stVars == <<sport_t, low, bh, far, hip, since, trip, handset>>
probeVars == <<stage, armed, phase, step, moves, spun, made, stVars, motion_sent, rc, sent, harm, risen>>

-----------------------------------------------------------------------------
(* Plans.                                                                  *)
Wait == <<"wait">>
Snd(name) == <<"send", name>>
Until(posture) == <<"until", posture>>
Stream == <<"stream">>

StandWrap(inner) ==
  <<Wait, Snd("STANDUP"), Until("standing"), Wait>> \o inner \o
  <<Snd("STOPMOVE"), Wait, Snd("STANDDOWN"), Until("lying"), Wait>>

Balanced(inner) == StandWrap(<<Snd("BALANCESTAND"), Wait>> \o inner)
Streamed == <<Stream, Snd("STOPMOVE"), Wait>>

PLANS == [
  listen    |-> <<Wait>>,
  query     |-> <<Wait, Snd("AUTORECOVERY_GET"), Wait>>,
  stand     |-> StandWrap(<<Wait>>),
  move_once |-> Balanced(<<Snd("MOVE"), Wait, Snd("STOPMOVE"), Wait>>),
  move_set  |-> Balanced(Streamed \o Streamed \o Streamed \o Streamed),
  walk_02   |-> Balanced(Streamed),
  walk_03   |-> Balanced(Streamed),
  turn_06   |-> Balanced(Streamed \o Streamed),
  turn_10   |-> Balanced(Streamed \o Streamed),
  back_03   |-> Balanced(Streamed),
  stop      |-> <<Wait, Snd("STOPMOVE"), Wait>>,
  lie       |-> <<Wait, Snd("STOPMOVE"), Wait, Snd("STANDDOWN"), Until("lying"), Wait>>]

ASSUME ProbeAssumption ==
  /\ None \notin {"lying", "standing", "between", "recovery failed", "flag not set"}
  /\ {LYING_MAX, STANDING_MIN, START_MAX_C, CEILING, RADIUS_ABORT} \subseteq Nat
  /\ {STALE_SPORT, SUSTAIN_SPORT} \subseteq Nat /\ MOVES \in Nat
  /\ LYING_MAX < STANDING_MIN
  /\ Heights \cup Hips \cup Distances \subseteq Nat
  /\ STAGES \subseteq DOMAIN PLANS
  /\ FORGET > STALE_SPORT /\ FORGET >= SUSTAIN_SPORT

StandingStages == DOMAIN PLANS \ {"listen", "query", "stop", "lie"}
PosturePre(s) == IF s \in {"listen", "stop", "lie"} THEN None ELSE "lying"

\* what a step would send
RequestsOf(s) ==
  CASE s[1] = "send" -> <<s[2]>>
    [] s[1] = "stream" -> [i \in 1..MOVES |-> "MOVE"]
    [] OTHER -> <<>>

PlanRequests(plan) == FlattenSeq([i \in DOMAIN plan |-> RequestsOf(plan[i])])
Publishing == \E i \in DOMAIN PLANS[stage] : PLANS[stage][i][1] \in {"send", "stream"}

Posture == IF bh = None THEN None
           ELSE IF bh <= LYING_MAX THEN "lying"
           ELSE IF bh >= STANDING_MIN THEN "standing" ELSE "between"

Step == PLANS[stage][step]
Motion == {"STANDUP", "BALANCESTAND", "MOVE"}

ProbeInit ==
  /\ stage \in STAGES /\ armed \in BOOLEAN
  /\ phase = IF Publishing /\ ~armed THEN "dry run" ELSE "preflight"
  /\ step = 1 /\ moves = 0 /\ spun = FALSE /\ made = FALSE
  /\ sport_t = None /\ low = FALSE /\ bh = None /\ far = 0 /\ hip = None
  /\ since = [q \in GUARDED |-> None] /\ trip = FALSE
  /\ handset = FALSE
  /\ motion_sent = FALSE /\ rc = 0 /\ sent = <<>> /\ harm = None /\ risen = FALSE

-----------------------------------------------------------------------------
(* What a spin_once may deliver.  on_sport measures the distance from the  *)
(* first position it saw.                                                  *)
OnSport(height, over, distance) ==
  /\ sport_t' = 0 /\ bh' = height
  /\ far' = IF sport_t = None THEN 0 ELSE distance
  /\ since' = [q \in GUARDED |-> IF q \notin over THEN None
                                 ELSE IF since[q] = None THEN 0 ELSE since[q]]
  /\ trip' = (trip \/ \E q \in over : since'[q] >= SUSTAIN_SPORT)
  /\ UNCHANGED <<low, hip, handset>>

OnLow(peak) == low' = TRUE /\ hip' = peak /\ UNCHANGED <<sport_t, bh, far, since, trip, handset>>

OnHandset == handset' = TRUE /\ UNCHANGED <<sport_t, low, bh, far, hip, since, trip>>

Nothing ==
  /\ sport_t' = Later(sport_t, 1)
  /\ since' = [q \in GUARDED |-> Later(since[q], 1)]
  /\ UNCHANGED <<low, bh, far, hip, trip, handset>>

SpinOnce ==
  \/ \E height \in Heights, over \in SUBSET GUARDED, distance \in Distances :
       OnSport(height, over, distance)
  \/ \E peak \in Hips : OnLow(peak)
  \/ OnHandset
  \/ Nothing

-----------------------------------------------------------------------------
(* Preflight.                                                              *)
Problem(env) ==
  \/ ~EnvOk(env)
  \/ sport_t = None \/ ~low
  \/ PosturePre(stage) # None /\ Posture # PosturePre(stage)
  \/ stage \in StandingStages /\ hip # None /\ hip >= START_MAX_C
  \/ handset

Preflight ==
  /\ phase = "preflight"
  /\ SpinOnce
  /\ UNCHANGED <<stage, armed, phase, step, moves, spun, made, motion_sent, rc, sent, harm, risen>>

Refused == phase' = "ended" /\ rc' = 2

PreflightEnds(env) ==
  /\ phase = "preflight"
  /\ \/ Problem(env) /\ Refused /\ UNCHANGED made
     \/ /\ ~Problem(env)
        /\ phase' = IF Publishing THEN "match" ELSE "plan"
        /\ made' = Publishing
        /\ UNCHANGED rc
  /\ UNCHANGED <<stage, armed, step, moves, spun, stVars, motion_sent, sent, harm, risen>>

AwaitMatch ==
  /\ phase = "match"
  /\ SpinOnce
  /\ UNCHANGED <<stage, armed, phase, step, moves, spun, made, motion_sent, rc, sent, harm, risen>>

MatchEnds ==
  /\ phase = "match"
  /\ \/ phase' = "plan" /\ UNCHANGED rc
     \/ Refused
  /\ UNCHANGED <<stage, armed, step, moves, spun, made, stVars, motion_sent, sent, harm, risen>>

-----------------------------------------------------------------------------
(* The plan.                                                               *)
Send(name) ==
  /\ sent' = Append(sent, name)
  /\ motion_sent' = (motion_sent \/ name \in Motion)

Yields == phase' = "ended" /\ rc' = 3

\* the recovery does not look at the handset
Aborts_mutant == rc' = 1 /\ phase' = IF made THEN "recover" ELSE "ended"

\* nothing is recovered once the handset was touched
Aborts == rc' = 1 /\ phase' = IF made /\ ~handset' THEN "recover" ELSE "ended"

\* check_guards()
Guards ==
  IF handset' THEN Yields
  ELSE IF sport_t' = None \/ sport_t' > STALE_SPORT \/ hip' >= CEILING \/ trip'
          \/ far' > RADIUS_ABORT
       THEN Aborts
       ELSE UNCHANGED <<phase, rc>>

\* a wait, the wait for a posture, and the spin after each Move of a stream
Spinning == phase = "plan" /\ step <= Len(PLANS[stage]) /\ Step[1] # "send"

SpinGuarded ==
  /\ Spinning /\ (Step[1] = "stream" => moves > 0)
  /\ SpinOnce /\ spun' = TRUE
  /\ Guards
  /\ risen' = (risen \/ (phase' = "plan" /\ Posture' = "standing"
                         /\ \E i \in DOMAIN sent : sent[i] = "STANDUP"))
  /\ UNCHANGED <<stage, armed, step, moves, made, motion_sent, sent, harm>>

Reached_mutant == TRUE

Reached == Posture = Step[2]

StepEnds ==
  /\ Spinning /\ spun
  /\ CASE Step[1] = "until" -> Reached
       [] Step[1] = "stream" -> moves = MOVES
       [] OTHER -> TRUE
  /\ step' = step + 1 /\ moves' = 0 /\ spun' = FALSE
  /\ UNCHANGED <<stage, armed, phase, made, stVars, motion_sent, rc, sent, harm, risen>>

PostureTimesOut ==
  /\ Spinning /\ spun /\ Step[1] = "until" /\ ~Reached
  /\ UNCHANGED <<stVars, stage, armed, step, moves, spun, made, motion_sent, sent, harm, risen>>
  /\ Aborts

StepSends ==
  /\ phase = "plan" /\ step <= Len(PLANS[stage]) /\ Step[1] = "send"
  /\ Send(Step[2])
  /\ step' = step + 1
  /\ UNCHANGED <<stage, armed, phase, moves, spun, made, stVars, rc, harm, risen>>

StreamSends ==
  /\ Spinning /\ Step[1] = "stream" /\ moves < MOVES /\ (moves > 0 => spun)
  /\ Send("MOVE")
  /\ moves' = moves + 1 /\ spun' = FALSE
  /\ UNCHANGED <<stage, armed, phase, step, made, stVars, rc, harm, risen>>

\* Ctrl+C after publish(), before `motion_sent = True`
CutShort(name) ==
  /\ sent' = Append(sent, name)
  /\ harm' = IF name \in Motion /\ ~motion_sent THEN "flag not set" ELSE harm
  /\ UNCHANGED <<stage, armed, step, moves, spun, made, stVars, motion_sent, risen>>
  /\ Aborts

SendInterrupted ==
  /\ phase = "plan" /\ step <= Len(PLANS[stage])
  /\ \/ Step[1] = "send" /\ CutShort(Step[2])
     \/ Step[1] = "stream" /\ moves < MOVES /\ (moves > 0 => spun) /\ CutShort("MOVE")

Done ==
  /\ phase = "plan" /\ step > Len(PLANS[stage])
  /\ phase' = "ended"
  /\ UNCHANGED <<stage, armed, step, moves, spun, made, stVars, motion_sent, rc, sent, harm, risen>>

-----------------------------------------------------------------------------
(* Ctrl+C, an exception, and the recovery.                                 *)
Interrupt ==
  /\ phase \in {"preflight", "match", "plan"}
  /\ SpinOnce \/ UNCHANGED stVars
  /\ Aborts
  /\ UNCHANGED <<stage, armed, step, moves, spun, made, motion_sent, sent, harm, risen>>

RecoverStops ==
  /\ phase = "recover"
  /\ Send("STOPMOVE")
  /\ phase' = IF motion_sent THEN "stopped" ELSE "ended"
  /\ UNCHANGED <<stage, armed, step, moves, spun, made, stVars, rc, harm, risen>>

\* a return where the StandDown should be
RecoverLies_mutant ==
  /\ phase = "stopped"
  /\ phase' = "ended"
  /\ UNCHANGED <<stage, armed, step, moves, spun, made, stVars, motion_sent, rc, sent, harm, risen>>

RecoverLies ==
  /\ phase = "stopped"
  /\ Send("STANDDOWN")
  /\ phase' = "ended"
  /\ UNCHANGED <<stage, armed, step, moves, spun, made, stVars, rc, harm, risen>>

\* the spins of the recovery are not guarded
RecoverSpins ==
  /\ phase = "stopped"
  /\ SpinOnce
  /\ UNCHANGED <<stage, armed, phase, step, moves, spun, made, motion_sent, rc, sent, harm, risen>>

\* publish raises, as it does once a Ctrl+C has taken rclpy's context down,
\* or a second Ctrl+C arrives
RecoveryFails ==
  /\ phase \in {"recover", "stopped"}
  /\ phase' = "ended"
  /\ harm' = "recovery failed"
  /\ UNCHANGED <<stage, armed, step, moves, spun, made, stVars, motion_sent, rc, sent, risen>>

ProbeNext ==
  \/ Preflight \/ (\E env \in Environments : PreflightEnds(env)) \/ AwaitMatch \/ MatchEnds
  \/ SpinGuarded \/ StepEnds \/ PostureTimesOut \/ StepSends \/ StreamSends \/ Done
  \/ Interrupt \/ SendInterrupted \/ RecoverStops \/ RecoverSpins \/ RecoverLies \/ RecoveryFails

ProbeSpec == ProbeInit /\ [][ProbeNext]_probeVars

-----------------------------------------------------------------------------
InMotion == \E i \in DOMAIN sent :
  sent[i] \in Motion /\ \A j \in i + 1..Len(sent) : sent[j] # "STANDDOWN"

(* Once the operator touches the handset no request is sent, unless a      *)
(* recovery had begun (check_guards, run_live's except Yield).             *)
YieldsToHandset == [][sent' # sent => ~handset \/ phase = "stopped"]_sent

(* The docstring without that exception: "HANDSET ACTIVITY -> YIELD. The   *)
(* script publishes NOTHING more and exits."                               *)
NothingAfterHandset == [][sent' # sent => ~handset]_sent

(* "Every motion stage starts lying and ends lying": however a stage ends, *)
(* what was stood up was sent down, unless the operator took over, the     *)
(* recovery itself failed, or a Ctrl+C fell between the publish of the     *)
(* StandUp and the flag the recovery goes by (run_live, send).             *)
EndsLying == phase = "ended" /\ InMotion => handset \/ harm # None

(* All that is sent is what plan_requests says, up to where it stopped,    *)
(* and then at most a recovery; and no BalanceStand or Move is sent before *)
(* a fresh sample read "standing" after the StandUp (wait_posture, send,   *)
(* check_guards).                                                          *)
SentAsPlanned ==
  LET planned == PlanRequests(PLANS[stage]) IN
  /\ \/ IsPrefix(sent, planned)
     \/ rc = 1 /\ \E n \in 0..Len(planned) :
          sent \in {SubSeq(planned, 1, n) \o <<"STOPMOVE">>,
                    SubSeq(planned, 1, n) \o <<"STOPMOVE", "STANDDOWN">>}
  /\ \A i \in DOMAIN sent : sent[i] \in {"BALANCESTAND", "MOVE"} => risen
=============================================================================
