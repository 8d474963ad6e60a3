-------------------------- MODULE ActionBridgeProofs --------------------------
(***************************************************************************)
(* Theorems about ActionBridge, for every value of its constants.          *)
(***************************************************************************)
EXTENDS ActionBridge, AgesProofs, TLAPS

USE DEF Age

(* A reading lies in the future by no more than the clock was stepped      *)
(* back after it was taken.                                                *)
ClockInv ==
  /\ sent_age # None => 0 <= sent_age + stepped
  /\ dance_age # None => 0 <= dance_age + stepped

BaseInv == TypeOK /\ WatchIsDefined /\ ClockInv

LEMMA ActionInit == Init => BaseInv
<1>1. Init => {cmd_bridge_present, up, armed, matched, bridging} \subseteq BOOLEAN
  BY ActionAssumption DEF Init
<1>2. Init => n_sends \in 0..MAX_SENDS
  BY ActionAssumption DEF Init
<1>3. Init => TypeOK
  BY <1>1, <1>2, AgeAssumption DEF Init, TypeOK, States
<1>4. QED BY <1>3, AgeAssumption DEF Init, BaseInv, WatchIsDefined, ClockInv

(* The clock moves every age alike, up to what it was stepped back.        *)
LEMMA ElapseStep ==
  ASSUME BaseInv, ClockRuns \/ ClockStepsBack \/ ClockStepsAhead
  PROVE  BaseInv'
<1>1. PICK d \in Int : d \in {1, -1} /\ Elapse(d) /\ stepped' = stepped + (IF d = 1 THEN 0 ELSE 1)
                        /\ ahead' \in Nat /\ rested' \in {rested, Later(rested, 1)}
  <2>1. stepped \in Nat /\ ahead \in Nat
    BY DEF BaseInv, TypeOK
  <2>2. CASE ClockRuns BY <2>1, <2>2 DEF ClockRuns
  <2>3. CASE ClockStepsBack BY <2>1, <2>3 DEF ClockStepsBack
  <2>4. CASE ClockStepsAhead BY <2>1, <2>4 DEF ClockStepsAhead
  <2>5. QED BY <2>2, <2>3, <2>4
<1>2. /\ sport_age \in Int \cup {None} /\ low_age \in Int \cup {None}
      /\ handset_age \in Int \cup {None} /\ foreign_age \in Int \cup {None}
      /\ sent_age \in Int \cup {None} /\ dance_age \in Int \cup {None}
      /\ end_age \in Int \cup {None} /\ rested \in Int \cup {None}
      /\ stepped \in Nat
  BY DEF BaseInv, TypeOK
<1>3. /\ sport_age' \in Int \cup {None} /\ handset_age' \in Int \cup {None}
      /\ foreign_age' \in Int \cup {None}
      /\ low_age' \in Int \cup {None} /\ (low_age' = None <=> low_age = None)
  BY <1>1, <1>2, LaterType DEF Elapse
<1>4. /\ sent_age' \in Int \cup {None} /\ (sent_age' = None <=> sent_age = None)
      /\ dance_age' \in Int \cup {None} /\ (dance_age' = None <=> dance_age = None)
      /\ end_age' \in Int \cup {None} /\ (end_age' = None <=> end_age = None)
  BY <1>1, <1>2, LaterType DEF Elapse
<1>5. rested' \in Int \cup {None} /\ stepped' \in Nat
  <2>1. rested \in Int \cup {None} /\ 1 \in Int
    BY <1>2
  <2>2. Later(rested, 1) \in Int \cup {None}
    BY <2>1, LaterType
  <2>3. rested' \in Int \cup {None}
    BY <1>1, <2>1, <2>2
  <2>4. stepped' \in Nat
    BY <1>1, <1>2
  <2>5. QED BY <2>3, <2>4
<1>6. TypeOK'
  <2>1. UNCHANGED <<state, error_code, hips, motors_ok, cmd_bridge_present, n_sends, up, armed,
                    matched, bridging, starts>> /\ wire' = None
    BY <1>1 DEF Elapse, Quiet
  <2>2. ahead' \in Nat
    BY <1>1
  <2>3. QED BY <1>3, <1>4, <1>5, <2>1, <2>2 DEF BaseInv, TypeOK
<1>7. end_age # None => end_age' <= dance_age' + stepped'
  BY <1>1, <1>2, AgeAssumption DEF Elapse, Later, BaseInv, WatchIsDefined
<1>8. dance_age # None => dance_age' <= sent_age' + stepped'
  BY <1>1, <1>2, AgeAssumption DEF Elapse, Later, BaseInv, WatchIsDefined
<1>9. ClockInv'
  BY <1>1, <1>2, AgeAssumption DEF Elapse, Later, BaseInv, ClockInv
<1>10. UNCHANGED <<state, hips>>
  BY <1>1 DEF Elapse
<1>11. QED BY <1>3, <1>4, <1>6, <1>7, <1>8, <1>9, <1>10 DEF BaseInv, WatchIsDefined

(* Each stage is entered with the reading its timeout subtracts.           *)
LEMMA TickStep ==
  ASSUME BaseInv, OnTick
  PROVE  BaseInv'
<1>1. PICK to \in States : TickGoes(to) /\ state' = to
  BY DEF OnTick
<1>2. UNCHANGED <<telemetry, dance, world, rested>> /\ wire' = None /\ cmd_bridge_present' = bridging
  BY DEF OnTick, Quiet
<1>3. TypeOK'
  BY <1>1, <1>2 DEF telemetry, dance, world, BaseInv, TypeOK
<1>4. /\ to = "SENT" => state = "SENT"
      /\ to = "DANCING" => dance_age # None
      /\ to = "LOCKOUT" => end_age # None
  BY <1>1 DEF Open, TickGoes, Danced, Ended, Latches, BaseInv, WatchIsDefined
<1>5. QED BY <1>1, <1>2, <1>3, <1>4 DEF telemetry, dance, world, BaseInv, WatchIsDefined, ClockInv

LEMMA SendStep ==
  ASSUME BaseInv, TriggerSends
  PROVE  BaseInv'
<1>1. n_sends' \in 0..MAX_SENDS
  BY ActionAssumption DEF TriggerSends, Routed, Open, WaitReason, BaseInv, TypeOK
<1>2. TypeOK'
  BY <1>1, AgeAssumption DEF TriggerSends, Routed, Open, telemetry, world, BaseInv, TypeOK, States
<1>3. sent_age' = 0 /\ dance_age' = None /\ end_age' = None /\ state' = "SENT"
      /\ UNCHANGED <<low_age, hips, stepped>>
  BY DEF TriggerSends, Routed, Open, telemetry, world
<1>4. WatchIsDefined' /\ ClockInv'
  BY <1>3, AgeAssumption DEF BaseInv, TypeOK, WatchIsDefined, ClockInv
<1>5. QED BY <1>2, <1>4 DEF BaseInv

(* A dance can only begin after its send and end after it began.           *)
LEMMA SportStep ==
  ASSUME BaseInv, NEW code \in ErrorCodes, OnSport(code)
  PROVE  BaseInv'
<1>1. TypeOK'
  BY ActionAssumption, AgeAssumption DEF Begins, Ends, OnSport, Quiet, world, BaseInv, TypeOK
<1>2. /\ UNCHANGED <<state, low_age, hips, sent_age, stepped>>
      /\ dance_age' # dance_age => dance_age' = 0 /\ dance_age = None /\ state = "SENT"
      /\ end_age' # end_age => end_age' = 0 /\ state = "DANCING"
  BY DEF Begins, Ends, OnSport, world
<1>3. stepped \in Nat /\ sent_age \in Int \cup {None} /\ dance_age \in Int \cup {None}
      /\ WatchIsDefined /\ ClockInv
  BY DEF BaseInv, TypeOK
<1>4. ClockInv'
  BY <1>2, <1>3, AgeAssumption DEF ClockInv
<1>5. WatchIsDefined'
  <2>1. CASE dance_age' # dance_age
    BY <1>2, <1>3, <2>1, AgeAssumption DEF WatchIsDefined, ClockInv
  <2>2. CASE dance_age' = dance_age /\ end_age' # end_age
    BY <1>2, <1>3, <2>2, AgeAssumption DEF WatchIsDefined, ClockInv
  <2>3. CASE dance_age' = dance_age /\ end_age' = end_age
    BY <1>2, <1>3, <2>3 DEF WatchIsDefined
  <2>4. QED BY <2>1, <2>2, <2>3
<1>6. QED BY <1>1, <1>4, <1>5 DEF BaseInv

LEMMA BaseStep ==
  ASSUME BaseInv, [Next]_vars
  PROVE  BaseInv'
<1> USE DEF BaseInv, TypeOK, WatchIsDefined, ClockInv
<1>1. ASSUME NEW code \in ErrorCodes, OnSport(code) PROVE BaseInv'
  BY <1>1, SportStep
<1>2. ASSUME NEW t \in Temps, NEW m \in MotorCounts, OnLow(t, m) PROVE BaseInv'
  <2>1. low_age' = 0 /\ hips' \in Int /\ motors_ok' \in 0..12
    BY <1>2, ActionAssumption DEF OnLow
  <2>2. QED BY <1>2, <2>1, AgeAssumption DEF OnLow, dance, world, Quiet
<1>3. CASE OnHandset
  BY <1>3 DEF OnHandset, dance, world, Quiet
<1>4. ASSUME NEW dance1 \in BOOLEAN, OnRobotRequest(dance1) PROVE BaseInv'
  <2>1. foreign_age' \in Int \cup {None}
    BY <1>4 DEF OnRobotRequest
  <2>2. QED BY <1>4, <2>1 DEF OnRobotRequest, dance, world, Quiet
<1>5. CASE OnRefusal \/ TriggerIgnored
  BY <1>5 DEF OnRefusal, Open, TriggerIgnored, States, Latches, telemetry, dance, world, Quiet
<1>6. CASE TriggerSends BY <1>6, SendStep
<1>7. CASE OnTick BY <1>7, TickStep
<1>8. CASE Stop
  BY <1>8 DEF Stop, telemetry, dance, Quiet
<1>9. CASE Start
  <2>1. armed' \in BOOLEAN /\ 0 \in 0..MAX_SENDS
    BY <1>9, ActionAssumption DEF Start
  <2>2. starts' \in Nat
    BY <1>9 DEF Start
  <2>3. TypeOK'
    BY <1>9, <2>1, <2>2, AgeAssumption DEF Start, Quiet, States
  <2>4. WatchIsDefined' /\ ClockInv'
    BY <1>9, AgeAssumption DEF Start
  <2>5. QED BY <2>3, <2>4
<1>10. CASE Discovery
  <2>1. matched' \in BOOLEAN /\ bridging' \in BOOLEAN
    BY <1>10, ActionAssumption DEF Discovery
  <2>2. QED BY <1>10, <2>1 DEF Discovery, telemetry, dance, Quiet
<1>11. CASE ClockRuns \/ ClockStepsBack \/ ClockStepsAhead
  BY <1>11, ElapseStep
<1>12. CASE UNCHANGED vars
  BY <1>12 DEF vars, telemetry, dance, world
<1>13. QED
  BY <1>1, <1>2, <1>3, <1>4, <1>5, <1>6, <1>7, <1>8, <1>9, <1>10, <1>11, <1>12 DEF Next

LEMMA BaseInvariant == Spec => []BaseInv
<1>1. QED BY ActionInit, BaseStep, PTL DEF Spec

(* Every variable stays in its type; n_sends never passes max_sends.       *)
THEOREM ActionTypeCorrect == Spec => []TypeOK
<1>1. BaseInv => TypeOK
  BY DEF BaseInv
<1>2. QED BY <1>1, BaseInvariant, PTL

(* tick() and _wait_reason never subtract a None: see WatchIsDefined.      *)
THEOREM WatchCorrect == Spec => []WatchIsDefined
<1>1. BaseInv => WatchIsDefined
  BY DEF BaseInv
<1>2. QED BY <1>1, BaseInvariant, PTL

-----------------------------------------------------------------------------
(* The lockout.  What the wall clock says of the end of a dance is never   *)
(* more than the truth and what the clock was stepped forward, and a       *)
(* bridge that may send again has rested by the same measure.              *)
LockoutInv ==
  /\ end_age # None => rested # None /\ end_age <= rested + ahead
  /\ state \in {"WAITING", "READY"} /\ n_sends > 0 => rested # None /\ rested + ahead >= LOCKOUT

LEMMA LockoutKept ==
  ASSUME LockoutInv, UNCHANGED <<end_age, rested, state, n_sends, ahead>>
  PROVE  LockoutInv'
  BY DEF LockoutInv

LEMMA LockoutStep ==
  ASSUME BaseInv, LockoutInv, [Next]_vars
  PROVE  LockoutInv'
<1> USE AgeAssumption, ActionAssumption
<1>0. /\ end_age \in Int \cup {None} /\ rested \in Int \cup {None} /\ n_sends \in Nat /\ ahead \in Nat
      /\ LOCKOUT \in Nat /\ LOCKOUT <= FORGET /\ FORGET \in Nat
  BY DEF BaseInv, TypeOK
<1>1. ASSUME NEW code \in ErrorCodes, OnSport(code) PROVE LockoutInv'
  BY <1>0, <1>1 DEF Begins, Ends, OnSport, world, LockoutInv
<1>2. ASSUME \/ \E t \in Temps, m \in MotorCounts : OnLow(t, m)
             \/ \E dance1 \in BOOLEAN : OnRobotRequest(dance1)
             \/ OnHandset \/ Stop \/ Discovery
      PROVE  LockoutInv'
  BY <1>2, LockoutKept DEF OnLow, OnRobotRequest, OnHandset, Stop, Discovery, dance, world
<1>3. CASE OnRefusal
  BY <1>3 DEF OnRefusal, dance, world, LockoutInv
<1>4. CASE TriggerIgnored
  BY <1>4 DEF TriggerIgnored, Open, dance, world, LockoutInv
<1>5. CASE TriggerSends
  BY <1>5 DEF TriggerSends, Routed, Open, world, LockoutInv
<1>6. CASE OnTick
  <2>1. PICK to \in States : TickGoes(to) /\ state' = to
    BY <1>6 DEF OnTick
  <2>2. UNCHANGED <<end_age, rested, n_sends, ahead>>
    BY <1>6 DEF OnTick, dance, world
  <2>3. ASSUME to \in {"WAITING", "READY"} PROVE Rested
    BY <2>1, <2>3 DEF Open, TickGoes, Latches
  <2>4. ASSUME Rested, n_sends > 0 PROVE rested # None /\ rested + ahead >= LOCKOUT
    <3>1. CASE state \in {"WAITING", "READY"}
      BY <2>4, <3>1 DEF LockoutInv
    <3>2. CASE Ended /\ end_age >= LOCKOUT
      <4>1. end_age # None
        BY <3>2 DEF Ended, BaseInv, WatchIsDefined
      <4>2. QED BY <1>0, <3>2, <4>1 DEF LockoutInv
    <3>3. QED BY <2>4, <3>1, <3>2 DEF Open, Rested
  <2>5. QED BY <2>1, <2>2, <2>3, <2>4 DEF LockoutInv
<1>7. CASE Start
  BY <1>7 DEF Start, LockoutInv
<1>8. CASE ClockRuns
  <2>1. end_age' = Later(end_age, 1) /\ rested' = Later(rested, 1)
        /\ UNCHANGED <<state, n_sends, ahead>>
    BY <1>8 DEF ClockRuns, Elapse
  <2>2. QED BY <1>0, <2>1 DEF Later, LockoutInv
<1>9. CASE ClockStepsBack
  <2>1. end_age' = Later(end_age, -1) /\ UNCHANGED <<rested, state, n_sends, ahead>>
    BY <1>9 DEF ClockStepsBack, Elapse
  <2>2. QED BY <1>0, <2>1 DEF Later, LockoutInv
<1>10. CASE ClockStepsAhead
  <2>1. end_age' = Later(end_age, 1) /\ ahead' = ahead + 1 /\ UNCHANGED <<rested, state, n_sends>>
    BY <1>10 DEF ClockStepsAhead, Elapse
  <2>2. QED BY <1>0, <2>1 DEF Later, LockoutInv
<1>11. CASE UNCHANGED vars
  BY <1>11, LockoutKept DEF vars, dance, world
<1>12. QED
  BY <1>1, <1>2, <1>3, <1>4, <1>5, <1>6, <1>7, <1>8, <1>9, <1>10, <1>11 DEF Next

(* Only a trigger that finds every precondition met gives the robot        *)
(* anything.                                                               *)
LEMMA OnlyTriggerSends ==
  ASSUME Next, wire' # None
  PROVE  TriggerSends
  BY DEF Next, OnSport, OnLow, OnHandset, OnRobotRequest, OnRefusal, TriggerIgnored, OnTick, Stop,
         Start, Discovery, ClockRuns, ClockStepsBack, ClockStepsAhead, Elapse, Quiet

(* A dance is followed by the lockout, less what the wall clock was        *)
(* stepped forward: see LockoutHolds.                                      *)
THEOREM LockoutCorrect == Spec => []LockoutHolds
<1>1. Init => LockoutInv /\ LockoutHolds
  BY DEF Init, LockoutInv, LockoutHolds
<1>2. BaseInv /\ LockoutInv /\ LockoutHolds /\ [Next]_vars => LockoutHolds'
  <2> SUFFICES ASSUME BaseInv, LockoutInv, LockoutHolds, [Next]_vars PROVE LockoutHolds'
    OBVIOUS
  <2>1. CASE UNCHANGED vars
    BY <2>1 DEF vars, dance, world, LockoutHolds
  <2>2. CASE Next /\ wire' # None
    <3>1. /\ state \in {"WAITING", "READY"} /\ rested' = rested /\ ahead' = ahead
          /\ n_sends' = n_sends + 1 /\ n_sends \in Nat
      BY <2>2, OnlyTriggerSends, ActionAssumption DEF TriggerSends, Routed, Open, world, BaseInv, TypeOK
    <3>2. QED BY <3>1 DEF LockoutInv, LockoutHolds
  <2>3. CASE wire' = None
    BY <2>3 DEF LockoutHolds
  <2>4. QED BY <2>1, <2>2, <2>3
<1>3. BaseInv /\ LockoutInv /\ [Next]_vars => LockoutInv'
  BY LockoutStep
<1>4. QED BY <1>1, <1>2, <1>3, BaseInvariant, PTL DEF Spec

-----------------------------------------------------------------------------
(* The bridge implements OneShot.                                          *)
LEMMA OneShotStep ==
  ASSUME BaseInv, [Next]_vars
  PROVE  [Promise!Next]_<<phase, n_sends, wire>>
<1> USE DEF Promise!Next
<1>1. ASSUME wire' = None, UNCHANGED <<up, state, n_sends>>
      PROVE  Promise!Next
  BY <1>1 DEF Promise!Rest, phase
<1>2. CASE \/ \E code \in ErrorCodes : OnSport(code)
           \/ \E t \in Temps, m \in MotorCounts : OnLow(t, m)
           \/ \E dance1 \in BOOLEAN : OnRobotRequest(dance1)
           \/ OnHandset \/ Discovery \/ ClockRuns \/ ClockStepsBack \/ ClockStepsAhead
  BY <1>1, <1>2 DEF Begins, Ends, OnSport, OnLow, OnRobotRequest, OnHandset, Discovery, ClockRuns,
     ClockStepsBack, ClockStepsAhead, Elapse, dance, world, Quiet
<1>3. CASE OnRefusal \/ Stop
  <2>1. wire' = None /\ phase' = "over" /\ n_sends' = n_sends
    BY <1>3 DEF OnRefusal, Stop, dance, Quiet, phase, Latches
  <2>2. QED BY <2>1 DEF Promise!Latch
<1>4. CASE TriggerIgnored
  <2>1. wire' = None /\ UNCHANGED <<phase, n_sends>>
    BY <1>4 DEF TriggerIgnored, Open, dance, world, Quiet, phase, Latches
  <2>2. QED BY <2>1 DEF Promise!Rest
<1>5. CASE TriggerSends
  <2>1. phase = "ready" /\ phase' = "busy" /\ wire' \in {"DANCE1", None}
    BY <1>5 DEF TriggerSends, Routed, Open, world, phase, Latches
  <2>2. n_sends < MAX_SENDS /\ n_sends' = n_sends + 1
    BY <1>5, ActionAssumption DEF TriggerSends, Routed, Open, WaitReason, BaseInv, TypeOK
  <2>3. QED BY <2>1, <2>2 DEF Promise!Send
<1>6. CASE OnTick
  <2>1. PICK to \in States : TickGoes(to) /\ state' = to
    BY <1>6 DEF OnTick
  <2>2. wire' = None /\ n_sends' = n_sends /\ up /\ up' = up
    BY <1>6 DEF OnTick, dance, world, Quiet
  <2>3. CASE to \in Latches
    <3>1. phase' = "over"
      BY <2>1, <2>3 DEF phase, Latches
    <3>2. QED BY <2>2, <3>1 DEF Promise!Latch
  <2>4. CASE to \in {"SENT", "DANCING", "LOCKOUT"}
    <3>1. phase = "busy" /\ phase' = "busy"
      BY <2>1, <2>2, <2>4 DEF Open, TickGoes, Danced, Ended, Latches, phase
    <3>2. QED BY <2>2, <3>1 DEF Promise!Rest
  <2>5. CASE to \in {"WAITING", "READY"}
    <3>1. phase' = "ready" /\ phase \in {"ready", "busy"}
      BY <2>1, <2>2, <2>5 DEF Open, TickGoes, Rested, Danced, Ended, Latches, phase
    <3>2. QED BY <2>2, <3>1 DEF Promise!Rest, Promise!Finish
  <2>6. QED BY <2>1, <2>3, <2>4, <2>5 DEF States
<1>7. CASE Start
  <2>1. phase = "over" /\ phase' = "ready" /\ wire' = None /\ n_sends' = 0
    BY <1>7 DEF Start, Quiet, phase, Latches
  <2>2. QED BY <2>1 DEF Promise!Restart
<1>8. CASE UNCHANGED vars
  BY <1>8 DEF vars, dance, world, phase
<1>9. QED
  BY <1>2, <1>3, <1>4, <1>5, <1>6, <1>7, <1>8 DEF Next

(* No sequence of triggers, samples, late answers, clock steps and         *)
(* restarts makes the bridge send while busy, after a latch or too often.  *)
THEOREM OneShotImplemented == Spec => ImplementsOneShot
<1>1. Init => Promise!Init
  BY DEF Init, Promise!Init, phase, Latches
<1>2. BaseInv /\ [Next]_vars => [Promise!Next]_Promise!vars
  BY OneShotStep DEF Promise!vars
<1>3. QED
  BY <1>1, <1>2, BaseInvariant, PTL DEF Spec, ImplementsOneShot, Promise!Spec
=============================================================================
