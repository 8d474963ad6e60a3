--------------------------- MODULE CmdBridgeProofs ----------------------------
(***************************************************************************)
(* Theorems about CmdBridge, for every value of its constants.             *)
(***************************************************************************)
EXTENDS CmdBridge, AgesProofs, TLAPS

USE DEF Age

(* What tick() needs to be well defined, and what links the stages.        *)
StagesInv ==
  /\ state \in {"IDLE", "DRIVING"} => engaged
  /\ state \notin Latched => standdown_in = None
  /\ state = "ABORTED" /\ ~engaged => standdown_in = None

LEMMA ElapseType ==
  ASSUME CoreTypeOK, TickNeverRaises, StagesInv, NEW d \in Int, Elapse(d)
  PROVE  CoreTypeOK' /\ TickNeverRaises' /\ StagesInv'
<1>1. over' \in [Guards -> Int \cup {None}]
  BY LaterType DEF CoreTypeOK, Elapse
<1>2. /\ cmd_age' \in Int \cup {None} /\ (cmd_age' = None <=> cmd_age = None)
      /\ sport_age' \in Int \cup {None} /\ (sport_age' = None <=> sport_age = None)
      /\ low_age' \in Int \cup {None} /\ (low_age' = None <=> low_age = None)
  BY LaterType DEF CoreTypeOK, Elapse
<1>3. standdown_in' \in Int \cup {None} /\ (standdown_in' = None <=> standdown_in = None)
  BY SoonerType DEF CoreTypeOK, Elapse
<1>4. QED
  BY <1>1, <1>2, <1>3 DEF CoreTypeOK, TickNeverRaises, StagesInv, Elapse, Latched, States

LEMMA ClippedType ==
  ASSUME NEW t \in Int \X Int
  PROVE  Clipped(t) \in Velocities
  BY ParamsAssumption DEF Clipped, Clip, Velocities

LEMMA TickType ==
  ASSUME CoreTypeOK, TickNeverRaises, StagesInv, Tick
  PROVE  CoreTypeOK' /\ TickNeverRaises' /\ StagesInv'
<1> USE DEF inputVars, CoreTypeOK, TickNeverRaises, StagesInv, Latched, States, Requests
<1>1. CASE TickLatched BY <1>1 DEF TickLatched
<1>2. CASE TickStandDown BY <1>2 DEF TickStandDown, StandDownDue, StandDown
<1>3. CASE TickAbort BY <1>3, ParamsAssumption, NoneAssumption, AgeAssumption DEF TickAbort, StopMove
<1>4. CASE TickWait BY <1>4 DEF TickWait
<1>5. CASE TickReady
  <2>1. sport_age # None /\ low_age # None /\ hips # None /\ pos # None
    BY <1>5 DEF ReadyRequest, Centre, TickReady, WaitReason, Stale
  <2>2. out' \in Requests \cup {None}
    <3>1. CASE Moving
      BY <1>5, <3>1 DEF ReadyRequest, Centre, TickReady, Moving, Fresh, Move
    <3>2. CASE ~Moving
      BY <1>5, <3>2 DEF ReadyRequest, Centre, TickReady, StopMove
    <3>3. QED BY <3>1, <3>2
  <2>3. QED
    BY <1>5, <2>1, <2>2 DEF ReadyRequest, Centre, TickReady
<1>6. QED BY <1>1, <1>2, <1>3, <1>4, <1>5 DEF Tick

(* The callbacks and the reset, alike.                                     *)
LEMMA TwistType ==
  ASSUME CoreTypeOK, TickNeverRaises, StagesInv, NEW t \in Twists,
         \/ OnTwist(t)
         \/ \E s \in Stamps : OnTwistStamped(s, t)
  PROVE  CoreTypeOK' /\ TickNeverRaises' /\ StagesInv'
<1>1. t # NonFinite /\ cmd' = Clipped(t) /\ cmd_age' = 0
  BY DEF OnTwist, OnTwistStamped, AcceptTwist
<1>2. cmd' \in Velocities
  BY <1>1, ClippedType, InputsAssumption
<1>3. cmd_stamp' \in Int \cup {None}
  BY InputsAssumption DEF OnTwist, OnTwistStamped, Newer, CoreTypeOK
<1>4. UNCHANGED <<state, engaged, origin, sport_age, error_code, pos, low_age, hips, over,
                  trip, standdown_in>> /\ out' = None
  BY DEF OnTwist, OnTwistStamped
<1>5. CoreTypeOK'
  BY <1>1, <1>2, <1>3, <1>4 DEF CoreTypeOK
<1>6. cmd' # None
  <2>1. cmd' \in Int \X Int
    BY <1>2, ParamsAssumption DEF Velocities
  <2>2. QED BY <2>1, NoneAssumption
<1>7. QED
  BY <1>1, <1>4, <1>5, <1>6, AgeAssumption DEF TickNeverRaises, StagesInv, Latched

LEMMA SensorType ==
  ASSUME CoreTypeOK, TickNeverRaises, StagesInv,
         \/ \E code \in ErrorCodes, p \in Positions, fast \in SUBSET Guards : OnSport(code, p, fast)
         \/ \E h \in Temps : OnLow(h)
         \/ OnHandset
  PROVE  CoreTypeOK' /\ TickNeverRaises' /\ StagesInv'
<1> USE InputsAssumption, NoneAssumption, AgeAssumption
    DEF CoreTypeOK, TickNeverRaises, StagesInv, Latched, States
<1>1. ASSUME NEW code \in ErrorCodes, NEW p \in Positions, NEW fast \in SUBSET Guards,
             OnSport(code, p, fast)
      PROVE  CoreTypeOK' /\ TickNeverRaises' /\ StagesInv'
  <2>1. over' \in [Guards -> Int \cup {None}]
    BY <1>1 DEF OnSport, Sustained
  <2>2. trip' \in BOOLEAN
    BY <1>1 DEF OnSport
  <2>3. /\ sport_age' = 0 /\ error_code' \in Int /\ pos' \in Int /\ out' = None
        /\ UNCHANGED <<state, engaged, origin, cmd, cmd_age, cmd_stamp, low_age, hips,
                       standdown_in>>
    BY <1>1 DEF OnSport
  <2>4. QED BY <2>1, <2>2, <2>3
<1>2. ASSUME NEW h \in Temps, OnLow(h)
      PROVE  CoreTypeOK' /\ TickNeverRaises' /\ StagesInv'
  BY <1>2 DEF OnLow
<1>3. ASSUME OnHandset
      PROVE  CoreTypeOK' /\ TickNeverRaises' /\ StagesInv'
  BY <1>3 DEF OnHandset
<1>4. QED BY <1>1, <1>2, <1>3

LEMMA ResetType ==
  ASSUME CoreReset
  PROVE  CoreTypeOK' /\ TickNeverRaises' /\ StagesInv'
  BY NoneAssumption, AgeAssumption DEF CoreReset, CoreTypeOK, TickNeverRaises, StagesInv, Latched, States

-----------------------------------------------------------------------------
(* Every step of the process is a step of the core or leaves it alone.     *)
LEMMA CoreSteps ==
  ASSUME [Next]_vars
  PROVE  \/ \E t \in Twists : OnTwist(t) \/ \E s \in Stamps : OnTwistStamped(s, t)
         \/ \E code \in ErrorCodes, p \in Positions, fast \in SUBSET Guards : OnSport(code, p, fast)
         \/ \E h \in Temps : OnLow(h)
         \/ OnHandset
         \/ Tick
         \/ CoreReset
         \/ Elapse(1)
         \/ Elapse(-1)
         \/ UNCHANGED coreVars
  BY DEF Next, vars, Twist, TwistStamped, Sport, Low, Handset, OnTick, StopOnExit, Destroy,
         Kill, Start, Discovery, ClockRuns, ClockStepsBack

CoreInv == CoreTypeOK /\ TickNeverRaises /\ StagesInv

LEMMA CoreInvStep ==
  ASSUME CoreInv, [Next]_vars
  PROVE  CoreInv'
<1>1. CASE UNCHANGED coreVars
  BY <1>1 DEF CoreInv, CoreTypeOK, TickNeverRaises, StagesInv, coreVars
<1>2. QED
  BY <1>1, CoreSteps, TwistType, SensorType, TickType, ResetType, ElapseType DEF CoreInv

LEMMA CoreInvInit == Init => CoreInv
  BY NoneAssumption, AgeAssumption
  DEF Init, CoreInit, CoreInv, CoreTypeOK, TickNeverRaises, StagesInv, Latched, States

-----------------------------------------------------------------------------
LEMMA NoteType ==
  ASSUME TypeOK, wire' \in Requests \cup {None},
         NEW cause \in {"none", "handset", "precondition", "unrouted", "killed", "silent"},
         Note(cause)
  PROVE  /\ last' \in {"MOVE", "STOPMOVE", "STANDDOWN", None}
         /\ lapse' \in {"none", "handset", "precondition", "unrouted", "killed", "silent"}
<1>1. wire' # None => wire'.name \in {"MOVE", "STOPMOVE", "STANDDOWN"}
  BY DEF Requests
<1>2. QED BY <1>1 DEF Note, TypeOK

(* What a step does to the variables of the node, whichever step it is.    *)
LEMMA TypeStep ==
  ASSUME TypeOK, CoreInv, [Next]_vars
  PROVE  TypeOK'
<1>1. CoreTypeOK' /\ CoreInv'
  BY CoreInvStep DEF CoreInv
<1> USE InputsAssumption, NoneAssumption, AgeAssumption
<1>2. ASSUME NEW t \in Twists, Twist(t) PROVE TypeOK'
  BY <1>1, <1>2, NoteType DEF Twist, Quiet, SameProcess, TypeOK
<1>3. ASSUME NEW s \in Stamps, NEW t \in Twists, TwistStamped(s, t) PROVE TypeOK'
  <2>1. s \in Int
    BY <1>3 DEF TwistStamped, OnTwistStamped, Newer
  <2>2. {newest', newest_age'} \subseteq Int \cup {None}
    BY <1>3, <2>1 DEF TwistStamped, TypeOK
  <2>3. QED BY <1>1, <1>3, <2>2, NoteType DEF TwistStamped, Quiet, SameProcess, TypeOK
<1>4. ASSUME NEW code \in ErrorCodes, NEW p \in Positions, NEW fast \in SUBSET Guards,
             Sport(code, p, fast)
      PROVE  TypeOK'
  BY <1>1, <1>4, NoteType DEF Sport, Quiet, SameProcess, TypeOK
<1>5. ASSUME NEW h \in Temps, Low(h) PROVE TypeOK'
  BY <1>1, <1>5, NoteType DEF Low, Quiet, SameProcess, TypeOK
<1>6. CASE Handset
  BY <1>1, <1>6, NoteType DEF Handset, Quiet, SameProcess, TypeOK
<1>7. CASE OnTick
  <2>1. wire' \in Requests \cup {None}
    BY <1>1, <1>7 DEF OnTick, Routed, CoreTypeOK
  <2>2. QED BY <1>1, <1>7, <2>1, NoteType DEF OnTick, SameProcess, TypeOK
<1>8. ASSUME NEW alive \in BOOLEAN, StopOnExit(alive) PROVE TypeOK'
  <2>1. wire' \in Requests \cup {None}
    BY <1>8 DEF StopOnExit, StopMove, Requests
  <2>2. QED BY <1>1, <1>8, <2>1, NoteType DEF StopOnExit, TypeOK
<1>9. CASE Destroy
  BY <1>1, <1>9, NoteType DEF Destroy, Quiet, TypeOK
<1>10. CASE Kill
  BY <1>1, <1>10, NoteType DEF Kill, Quiet, TypeOK
<1>11. CASE Start
  BY <1>1, <1>11 DEF Start, Quiet, TypeOK
<1>12. CASE Discovery
  BY <1>1, <1>12 DEF Discovery, Quiet, TypeOK, observed
<1>13. CASE ClockRuns
  <2>1. newest_age \in Int \cup {None}
    BY DEF TypeOK
  <2>2. Later(newest_age, 1) \in Int \cup {None}
    BY <2>1, LaterType
  <2>3. QED BY <1>1, <1>13, <2>2 DEF ClockRuns, Quiet, TypeOK
<1>14. CASE ClockStepsBack
  BY <1>1, <1>14 DEF ClockStepsBack, Quiet, TypeOK, observed
<1>15. CASE UNCHANGED vars
  BY <1>1, <1>15 DEF vars, nodeVars, observed, TypeOK
<1>16. QED
  BY <1>2, <1>3, <1>4, <1>5, <1>6, <1>7, <1>8, <1>9, <1>10, <1>11, <1>12, <1>13, <1>14, <1>15
  DEF Next

LEMMA TypeInit == Init => TypeOK
  BY CoreInvInit, InputsAssumption, NoneAssumption, AgeAssumption DEF Init, TypeOK, CoreInv

BaseInv == TypeOK /\ CoreInv

LEMMA BaseInvariant == Spec => []BaseInv
<1>1. Init => BaseInv
  BY TypeInit, CoreInvInit DEF BaseInv
<1>2. BaseInv /\ [Next]_vars => BaseInv'
  BY TypeStep, CoreInvStep DEF BaseInv
<1>3. QED BY <1>1, <1>2, PTL DEF Spec

(* Every variable stays in its type, for every configuration that          *)
(* validate_params accepts and every set of inputs.                        *)
THEOREM TypeCorrect == Spec => []TypeOK
<1>1. BaseInv => TypeOK
  BY DEF BaseInv
<1>2. QED BY <1>1, BaseInvariant, PTL

(* tick() never compares a None: it has heard from both streams before it  *)
(* is engaged, so no sequence of callbacks makes it raise.                 *)
THEOREM TickIsSafe == Spec => []TickNeverRaises
<1>1. BaseInv => TickNeverRaises
  BY DEF BaseInv, CoreInv
<1>2. QED BY <1>1, BaseInvariant, PTL

-----------------------------------------------------------------------------
(* The deadman.  A command's age never runs ahead of the truth by more     *)
(* than the clock was stepped back, and in the stamped mode the accepted   *)
(* stamp is the newest one, so only a newer command resets its age.        *)
DeadmanInv ==
  /\ cmd_age # None => newest_age # None /\ newest_age <= cmd_age + stepped
  /\ newest_age # None => newest_age <= FORGET
  /\ INPUT_TYPE = "twist_stamped" => newest = cmd_stamp

LEMMA DeadmanKept ==
  ASSUME BaseInv, DeadmanInv,
         UNCHANGED <<cmd_age, cmd_stamp, newest, newest_age>>, stepped' = stepped
  PROVE  DeadmanInv'
  BY DEF DeadmanInv

LEMMA DeadmanStep ==
  ASSUME BaseInv, DeadmanInv, [Next]_vars
  PROVE  DeadmanInv'
<1> USE NoneAssumption, AgeAssumption, ParamsAssumption
<1>0. /\ newest_age \in Int \cup {None} /\ cmd_age \in Int \cup {None} /\ stepped \in Nat
      /\ cmd_stamp \in Int \cup {None} /\ newest \in Int \cup {None}
  BY DEF BaseInv, TypeOK, CoreTypeOK
<1>1. ASSUME NEW t \in Twists, Twist(t) PROVE DeadmanInv'
  BY <1>0, <1>1 DEF DeadmanInv, Twist, OnTwist, AcceptTwist, SameProcess
<1>2. ASSUME NEW s \in Stamps, NEW t \in Twists, TwistStamped(s, t) PROVE DeadmanInv'
  <2>1. INPUT_TYPE = "twist_stamped" /\ Newer(s) /\ newest = cmd_stamp
    BY <1>2 DEF TwistStamped, OnTwistStamped, DeadmanInv
  <2>2. newest' = s /\ newest_age' = 0
    BY <1>2, <2>1 DEF TwistStamped, Newer
  <2>3. cmd_stamp' = s /\ cmd_age' = 0 /\ stepped' = stepped
    BY <1>2 DEF TwistStamped, OnTwistStamped, AcceptTwist, SameProcess
  <2>4. QED BY <1>0, <2>2, <2>3 DEF DeadmanInv
<1>3. ASSUME NEW code \in ErrorCodes, NEW p \in Positions, NEW fast \in SUBSET Guards,
             Sport(code, p, fast)
      PROVE  DeadmanInv'
  BY <1>3, DeadmanKept DEF Sport, OnSport, SameProcess
<1>4. ASSUME NEW h \in Temps, Low(h) PROVE DeadmanInv'
  BY <1>4, DeadmanKept DEF Low, OnLow, SameProcess
<1>5. CASE Handset
  BY <1>5, DeadmanKept DEF Handset, OnHandset, SameProcess
<1>6. CASE OnTick
  <2>1. Tick => UNCHANGED <<cmd_age, cmd_stamp>>
    BY DEF Tick, TickLatched, TickStandDown, TickAbort, TickWait, ReadyRequest, Centre, TickReady, inputVars
  <2>2. QED BY <1>6, <2>1, DeadmanKept DEF OnTick, SameProcess
<1>7. ASSUME NEW alive \in BOOLEAN, StopOnExit(alive) PROVE DeadmanInv'
  BY <1>7, DeadmanKept DEF StopOnExit, coreVars
<1>8. CASE Destroy \/ Kill \/ Discovery
  BY <1>8, DeadmanKept DEF Destroy, Kill, Discovery, coreVars, observed
<1>9. CASE Start
  BY <1>9 DEF Start, CoreReset, DeadmanInv
<1>10. CASE ClockRuns
  BY <1>0, <1>10 DEF ClockRuns, Elapse, Later, DeadmanInv
<1>11. CASE ClockStepsBack
  BY <1>0, <1>11 DEF ClockStepsBack, Elapse, Later, observed, DeadmanInv
<1>12. CASE UNCHANGED vars
  BY <1>12, DeadmanKept DEF vars, coreVars, nodeVars, observed
<1>13. QED
  BY <1>1, <1>2, <1>3, <1>4, <1>5, <1>6, <1>7, <1>8, <1>9, <1>10, <1>11, <1>12 DEF Next

(* Only a tick puts a Move on the wire, and only a fresh one.              *)
LEMMA MoveIsFresh ==
  ASSUME BaseInv, Next, wire' # None, wire'.name = "MOVE"
  PROVE  OnTick /\ TickReady /\ Moving /\ wire' = Move(cmd)
<1>1. OnTick
  BY DEF Next, Twist, TwistStamped, Sport, Low, Handset, StopOnExit, StopMove, Destroy, Kill,
         Start, Discovery, ClockRuns, ClockStepsBack, Quiet
<1>2. QED
  BY <1>1 DEF OnTick, Routed, Tick, TickLatched, TickStandDown, TickAbort, TickWait, ReadyRequest, Centre, TickReady,
              StopMove, StandDown, Move

LEMMA DeadmanHoldsStep ==
  ASSUME BaseInv, DeadmanInv, DeadmanHolds, [Next]_vars
  PROVE  DeadmanHolds'
<1>1. CASE UNCHANGED vars
  BY <1>1 DEF vars, nodeVars, observed, DeadmanHolds
<1>2. ASSUME Next, wire' # None, wire'.name = "MOVE"
      PROVE  newest_age' # None /\ newest_age' <= CMD_TIMEOUT + stepped'
  <2>1. OnTick /\ Moving
    BY <1>2, MoveIsFresh
  <2>2. newest_age' = newest_age /\ stepped' = stepped
    BY <2>1 DEF OnTick, SameProcess
  <2>3. cmd_age # None /\ cmd_age <= CMD_TIMEOUT
    BY <2>1 DEF Moving, Fresh
  <2>4. newest_age \in Int /\ cmd_age \in Int /\ stepped \in Nat /\ CMD_TIMEOUT \in Nat
    BY <2>3, ParamsAssumption DEF BaseInv, TypeOK, CoreTypeOK, DeadmanInv
  <2>5. QED BY <2>2, <2>3, <2>4 DEF DeadmanInv
<1>3. QED BY <1>1, <1>2 DEF DeadmanHolds

(* The deadman bounds every Move in true time: see DeadmanHolds.           *)
THEOREM DeadmanCorrect == Spec => []DeadmanHolds
<1>1. Init => DeadmanInv /\ DeadmanHolds
  BY NoneAssumption, AgeAssumption DEF Init, CoreInit, DeadmanInv, DeadmanHolds
<1>2. BaseInv /\ DeadmanInv /\ DeadmanHolds /\ [Next]_vars => (DeadmanInv /\ DeadmanHolds)'
  BY DeadmanStep, DeadmanHoldsStep
<1>3. QED BY <1>1, <1>2, BaseInvariant, PTL DEF Spec

-----------------------------------------------------------------------------
(* The latest command: what a finite Twist asked for, inside the limits.    *)
Asked(v) == v \in Velocities /\ \E t \in Twists \ {NonFinite} : v = Clipped(t)

CmdAsked == cmd # None => Asked(cmd)

LEMMA CmdAskedStep ==
  ASSUME CmdAsked, [Next]_vars
  PROVE  CmdAsked'
<1>1. ASSUME NEW t \in Twists, OnTwist(t) \/ \E s \in Stamps : OnTwistStamped(s, t)
      PROVE  CmdAsked'
  <2>1. t \in Twists \ {NonFinite} /\ cmd' = Clipped(t)
    BY <1>1 DEF OnTwist, OnTwistStamped, AcceptTwist
  <2>2. Clipped(t) \in Velocities
    BY <2>1, ClippedType, InputsAssumption
  <2>3. QED
    BY <2>1, <2>2 DEF CmdAsked, Asked
<1>2. CASE cmd' = cmd
  BY <1>2 DEF CmdAsked, Asked
<1>3. CASE CoreReset
  BY <1>3 DEF CoreReset, CmdAsked
<1>4. ASSUME NEW code \in ErrorCodes, NEW p \in Positions, NEW fast \in SUBSET Guards,
             OnSport(code, p, fast)
      PROVE  cmd' = cmd
  BY <1>4 DEF OnSport
<1>5. ASSUME NEW h \in Temps, OnLow(h) PROVE cmd' = cmd
  BY <1>5 DEF OnLow
<1>6. OnHandset \/ Elapse(1) \/ Elapse(-1) \/ UNCHANGED coreVars => cmd' = cmd
  BY DEF OnHandset, Elapse, coreVars
<1>7. Tick => cmd' = cmd
  BY DEF Tick, TickLatched, TickStandDown, TickAbort, TickWait, TickReady, inputVars
<1>8. QED
  BY <1>1, <1>2, <1>3, <1>4, <1>5, <1>6, <1>7, CoreSteps

LEMMA MoveAskedStep ==
  ASSUME BaseInv, CmdAsked, MoveWasAsked, [Next]_vars
  PROVE  MoveWasAsked'
<1>1. CASE UNCHANGED vars
  BY <1>1 DEF vars, nodeVars, observed, MoveWasAsked
<1>2. ASSUME Next, wire' # None, wire'.name = "MOVE"
      PROVE  Asked(wire'.vel)
  <2>1. Moving /\ wire' = Move(cmd)
    BY <1>2, MoveIsFresh
  <2>2. cmd # None
    BY <2>1 DEF Moving, Fresh, BaseInv, CoreInv, TickNeverRaises
  <2>3. wire'.vel = cmd
    BY <2>1 DEF Move
  <2>4. QED BY <2>2, <2>3 DEF CmdAsked
<1>3. QED BY <1>1, <1>2 DEF MoveWasAsked, Asked

(* Every Move is in the limits, and no NaN ever becomes a velocity: see    *)
(* MoveWasAsked.                                                           *)
THEOREM MoveAsked == Spec => []MoveWasAsked
<1>1. Init => CmdAsked /\ MoveWasAsked
  BY DEF Init, CoreInit, CmdAsked, MoveWasAsked
<1>2. BaseInv /\ CmdAsked /\ MoveWasAsked /\ [Next]_vars => (CmdAsked /\ MoveWasAsked)'
  BY CmdAskedStep, MoveAskedStep
<1>3. QED BY <1>1, <1>2, BaseInvariant, PTL DEF Spec

-----------------------------------------------------------------------------
(* Handing the robot over.                                                 *)
LEMMA HandoverKept ==
  ASSUME NoSilentHandover, UNCHANGED <<proc, state, last, lapse>>
  PROVE  NoSilentHandover'
  BY DEF NoSilentHandover, Driving

LEMMA QuietNote ==
  ASSUME NoSilentHandover, Quiet, NEW cause, Note(cause),
         Driving => Driving' \/ cause \in {"handset", "precondition", "unrouted", "killed"}
  PROVE  NoSilentHandover'
  BY DEF NoSilentHandover, Quiet, Note

LEMMA HandoverTick ==
  ASSUME BaseInv, NoSilentHandover, OnTick
  PROVE  NoSilentHandover'
<1> DEFINE cause == IF ~(armed /\ matched) THEN "unrouted"
                    ELSE IF WaitReason THEN "precondition" ELSE "silent"
<1>1. Note(cause) /\ proc = "spinning" /\ proc' = "spinning" /\ wire' = Routed(out') /\ Tick
  BY DEF OnTick, SameProcess
<1>2. state = "DRIVING" => engaged
  BY DEF BaseInv, CoreInv, StagesInv
<1>3. CASE wire' # None
  <2>1. wire'.name = "MOVE" => state' = "DRIVING"
    BY <1>1, <1>3 DEF Routed, Tick, TickLatched, TickStandDown, TickAbort, TickWait, ReadyRequest, Centre, TickReady,
                      StopMove, StandDown
  <2>2. QED BY <1>1, <1>3, <2>1 DEF Note, NoSilentHandover, Driving
<1>4. CASE wire' = None
  <2>1. CASE ~(armed /\ matched) \/ WaitReason
    BY <1>1, <1>4, <2>1, QuietNote DEF Quiet
  <2>2. CASE armed /\ matched /\ ~WaitReason
    <3>1. out' = None
      BY <1>1, <1>4, <2>2 DEF Routed
    <3>2. None # StopMove
      BY NoneAssumption, AgeAssumption DEF StopMove, Requests
    <3>3. ASSUME state = "DRIVING" PROVE state' = "DRIVING"
      <4>1. TickAbort \/ TickReady
        BY <1>1, <2>2, <3>3 DEF Tick, TickLatched, TickStandDown, TickWait, StandDownDue, Latched
      <4>2. ~TickAbort
        BY <1>2, <3>1, <3>2, <3>3 DEF TickAbort
      <4>3. QED BY <3>1, <3>2, <3>3, <4>1, <4>2 DEF ReadyRequest, Centre, TickReady
    <3>4. Driving => Driving'
      BY <1>1, <3>3 DEF Driving
    <3>5. QED BY <1>1, <1>4, <3>4, QuietNote DEF Quiet
  <2>3. QED BY <2>1, <2>2
<1>5. QED BY <1>3, <1>4

LEMMA HandoverStep ==
  ASSUME BaseInv, NoSilentHandover, [Next]_vars
  PROVE  NoSilentHandover'
<1>1. ASSUME NEW t \in Twists, Twist(t) PROVE NoSilentHandover'
  BY <1>1, QuietNote DEF Twist, OnTwist, SameProcess, Driving
<1>2. ASSUME NEW s \in Stamps, NEW t \in Twists, TwistStamped(s, t) PROVE NoSilentHandover'
  BY <1>2, QuietNote DEF TwistStamped, OnTwistStamped, SameProcess, Driving
<1>3. ASSUME NEW code \in ErrorCodes, NEW p \in Positions, NEW fast \in SUBSET Guards,
             Sport(code, p, fast)
      PROVE  NoSilentHandover'
  BY <1>3, QuietNote DEF Sport, OnSport, SameProcess, Driving
<1>4. ASSUME NEW h \in Temps, Low(h) PROVE NoSilentHandover'
  BY <1>4, QuietNote DEF Low, OnLow, SameProcess, Driving
<1>5. CASE Handset
  BY <1>5, QuietNote DEF Handset
<1>6. CASE OnTick
  BY <1>6, HandoverTick
<1>7. ASSUME NEW alive \in BOOLEAN, StopOnExit(alive) PROVE NoSilentHandover'
  <2>1. CASE wire' = None
    <3>1. Driving => ~(armed /\ matched /\ alive)
      BY <1>7, <2>1, NoneAssumption, AgeAssumption DEF StopOnExit, StopMove, Requests, Driving
    <3>2. QED BY <1>7, <2>1, <3>1, QuietNote DEF StopOnExit, Quiet
  <2>2. CASE wire' # None
    BY <1>7, <2>2 DEF StopOnExit, StopMove, Note, NoSilentHandover
  <2>3. QED BY <2>1, <2>2
<1>8. CASE Destroy
  BY <1>8, QuietNote DEF Destroy, Driving
<1>9. CASE Kill
  BY <1>9, QuietNote DEF Kill
<1>10. CASE Start
  BY <1>10 DEF Start, NoSilentHandover, Driving
<1>11. CASE Discovery \/ ClockRuns \/ ClockStepsBack
  BY <1>11, HandoverKept DEF Discovery, ClockRuns, ClockStepsBack, Elapse, coreVars, observed
<1>12. CASE UNCHANGED vars
  BY <1>12, HandoverKept DEF vars, coreVars, nodeVars, observed
<1>13. QED
  BY <1>1, <1>2, <1>3, <1>4, <1>5, <1>6, <1>7, <1>8, <1>9, <1>10, <1>11, <1>12 DEF Next

(* No step lets go of a walking robot silently: see NoSilentHandover.      *)
THEOREM HandoverCorrect == Spec => []NoSilentHandover
<1>1. Init => NoSilentHandover
  BY NoneAssumption, AgeAssumption DEF Init, NoSilentHandover
<1>2. BaseInv /\ NoSilentHandover /\ [Next]_vars => NoSilentHandover'
  BY HandoverStep
<1>3. QED BY <1>1, <1>2, BaseInvariant, PTL DEF Spec

-----------------------------------------------------------------------------
(* The geofence.                                                           *)
Fenced ==
  /\ engaged /\ starts' = starts => engaged' /\ origin' = origin
  /\ wire' # None /\ wire'.name = "MOVE" => Distance(pos', origin') <= GEOFENCE

LEMMA FenceStep ==
  ASSUME BaseInv, Next
  PROVE  Fenced
<1>1. engaged /\ starts' = starts => engaged' /\ origin' = origin
  <2>1. CASE Start
    BY <2>1 DEF Start, BaseInv, TypeOK
  <2>2. CASE ~Start
    BY <2>2 DEF Next, Twist, OnTwist, TwistStamped, OnTwistStamped, Sport, OnSport, Low, OnLow,
         Handset, OnHandset, OnTick, Tick, TickLatched, TickStandDown, TickAbort, TickWait,
         ReadyRequest, Centre, TickReady, StopOnExit, Destroy, Kill, Discovery, ClockRuns, ClockStepsBack, Elapse,
         coreVars
  <2>3. QED BY <2>1, <2>2
<1>2. ASSUME wire' # None, wire'.name = "MOVE"
      PROVE  Distance(pos', origin') <= GEOFENCE
  <2>1. TickReady
    BY <1>2, MoveIsFresh
  <2>2. sport_age # None /\ pos \in Int
    BY <2>1 DEF ReadyRequest, Centre, TickReady, WaitReason, Stale, BaseInv, CoreInv, TickNeverRaises, TypeOK, CoreTypeOK
  <2>3. pos' = pos
    BY <2>1 DEF ReadyRequest, Centre, TickReady, inputVars
  <2>4. CASE engaged
    <3>1. origin' = origin /\ origin \in Int
      BY <2>1, <2>4 DEF ReadyRequest, Centre, TickReady, BaseInv, CoreInv, TickNeverRaises, TypeOK, CoreTypeOK
    <3>2. ~(Distance(pos, origin) > GEOFENCE)
      BY <2>1, <2>2, <2>4, <3>1, NoneAssumption, AgeAssumption DEF ReadyRequest, Centre, TickReady, AbortReason
    <3>3. QED BY <2>2, <2>3, <3>1, <3>2, ParamsAssumption DEF Distance
  <2>5. CASE ~engaged
    BY <2>1, <2>2, <2>3, <2>5, ParamsAssumption DEF ReadyRequest, Centre, TickReady, Distance
  <2>6. QED BY <2>4, <2>5
<1>3. QED BY <1>1, <1>2 DEF Fenced

(* The fence neither creeps nor lets a Move through: see FenceHolds.       *)
THEOREM FenceCorrect == Spec => FenceHolds
<1>1. BaseInv /\ [Next]_vars => [Fenced]_vars
  BY FenceStep
<1>2. Spec => [][Fenced]_vars
  BY <1>1, BaseInvariant, PTL DEF Spec
<1>3. QED BY <1>2 DEF FenceHolds, Fenced

-----------------------------------------------------------------------------
(* The bridge implements MotionAuthority.                                  *)
WireName == IF wire = None THEN None ELSE wire.name

LEMMA AuthorityRest ==
  ASSUME wire' = None, UNCHANGED <<proc, state, standdown_in>>
  PROVE  Authority!Rest
  BY DEF Authority!Rest, phase

LEMMA AuthorityTick ==
  ASSUME BaseInv, OnTick
  PROVE  Authority!Next
<1>1. proc = "spinning" /\ proc' = "spinning" /\ wire' \in {out', None} /\ Tick
  BY DEF OnTick, SameProcess, Routed
<1>2. StagesInv
  BY DEF BaseInv, CoreInv
<1>3. CASE TickLatched
  BY <1>1, <1>3, AuthorityRest DEF TickLatched, Authority!Next
<1>4. CASE TickStandDown
  <2>1. phase = "aborted" /\ phase' = "over"
    BY <1>1, <1>4 DEF TickStandDown, StandDownDue, phase
  <2>2. wire' \in {StandDown, None}
    BY <1>1, <1>4 DEF TickStandDown
  <2>3. QED BY <2>1, <2>2 DEF Authority!Next, Authority!TakeDown, Authority!Gives, StandDown
<1>5. CASE TickAbort
  <2>1. phase = IF state = "DRIVING" THEN "moving" ELSE "idle"
    BY <1>1, <1>5 DEF TickAbort, Latched, phase
  <2>2. CASE engaged
    <3>1. phase' = "aborted" /\ wire' \in {StopMove, None}
      BY <1>1, <1>5, <2>2, ParamsAssumption, NoneAssumption, AgeAssumption DEF TickAbort, phase
    <3>2. QED BY <2>1, <3>1 DEF Authority!Next, Authority!Abort, Authority!Gives, StopMove
  <2>3. CASE ~engaged
    <3>1. phase' = "over" /\ wire' = None /\ phase = "idle"
      BY <1>1, <1>2, <1>5, <2>1, <2>3 DEF TickAbort, phase, StagesInv
    <3>2. QED BY <3>1 DEF Authority!Next, Authority!End
  <2>4. QED BY <2>2, <2>3
<1>6. CASE TickWait
  <2>1. phase' = "idle" /\ wire' = None /\ phase \in {"idle", "moving"}
    BY <1>1, <1>6 DEF TickWait, Latched, phase
  <2>2. QED BY <2>1 DEF Authority!Next, Authority!Halt, Authority!Gives, Authority!Rest
<1>7. CASE TickReady
  <2>1. phase = IF state = "DRIVING" THEN "moving" ELSE "idle"
    BY <1>1, <1>7 DEF ReadyRequest, Centre, TickReady, Latched, phase
  <2>2. phase' = IF Moving THEN "moving" ELSE "idle"
    BY <1>1, <1>7 DEF ReadyRequest, Centre, TickReady, phase
  <2>3. CASE Moving
    <3>1. wire' = None \/ wire'.name = "MOVE"
      BY <1>1, <1>7, <2>3 DEF ReadyRequest, Centre, TickReady, Move
    <3>2. QED BY <2>1, <2>2, <2>3, <3>1 DEF Authority!Next, Authority!Drive, Authority!Gives
  <2>4. CASE ~Moving /\ state = "DRIVING"
    <3>1. wire' = None \/ wire'.name = "STOPMOVE"
      BY <1>1, <1>7, <2>4 DEF ReadyRequest, Centre, TickReady, StopMove
    <3>2. QED BY <2>1, <2>2, <2>4, <3>1 DEF Authority!Next, Authority!Halt, Authority!Gives
  <2>5. CASE ~Moving /\ state # "DRIVING"
    BY <1>1, <1>7, <2>1, <2>2, <2>5 DEF ReadyRequest, Centre, TickReady, Authority!Next, Authority!Rest
  <2>6. QED BY <2>3, <2>4, <2>5
<1>8. QED BY <1>1, <1>3, <1>4, <1>5, <1>6, <1>7 DEF Tick

LEMMA AuthorityStep ==
  ASSUME BaseInv, [Next]_vars
  PROVE  [Authority!Next]_<<phase, WireName>>
<1>1. ASSUME wire' = None, UNCHANGED <<proc, state, standdown_in>>
      PROVE  Authority!Next
  BY <1>1, AuthorityRest DEF Authority!Next
<1>2. CASE \E t \in Twists : Twist(t) \/ \E s \in Stamps : TwistStamped(s, t)
  BY <1>1, <1>2 DEF Twist, OnTwist, TwistStamped, OnTwistStamped, Quiet, SameProcess
<1>3. CASE \/ \E code \in ErrorCodes, p \in Positions, fast \in SUBSET Guards : Sport(code, p, fast)
           \/ \E h \in Temps : Low(h)
  BY <1>1, <1>3 DEF Sport, OnSport, Low, OnLow, Quiet, SameProcess
<1>4. CASE Handset \/ Destroy \/ Kill
  <2>1. wire' = None /\ phase' = "over"
    BY <1>4 DEF Handset, OnHandset, SameProcess, Destroy, Kill, Quiet, phase
  <2>2. QED BY <2>1 DEF Authority!Next, Authority!End, Authority!Gives
<1>5. CASE OnTick
  BY <1>5, AuthorityTick
<1>6. ASSUME NEW alive \in BOOLEAN, StopOnExit(alive) PROVE Authority!Next
  <2>1. phase' = "over" /\ (state = "DRIVING" => phase = "moving")
    BY <1>6 DEF StopOnExit, phase
  <2>2. wire' = None \/ (state = "DRIVING" /\ wire' = StopMove)
    BY <1>6 DEF StopOnExit
  <2>3. QED BY <2>1, <2>2 DEF Authority!Next, Authority!End, Authority!Gives, StopMove
<1>7. CASE Start
  <2>1. wire' = None /\ phase = "over" /\ phase' = "idle"
    BY <1>7 DEF Start, CoreReset, Quiet, phase
  <2>2. QED BY <2>1 DEF Authority!Next, Authority!Restart
<1>8. CASE Discovery
  BY <1>1, <1>8 DEF Discovery, coreVars, Quiet
<1>9. ASSUME ClockRuns \/ ClockStepsBack PROVE Authority!Next
  <2>1. wire' = None /\ UNCHANGED <<proc, state>> /\ standdown_in' \in {Sooner(standdown_in, 1), Sooner(standdown_in, -1)}
    BY <1>9 DEF ClockRuns, ClockStepsBack, Elapse, Quiet
  <2>2. standdown_in \in Int \cup {None}
    BY DEF BaseInv, TypeOK, CoreTypeOK
  <2>3. standdown_in' = None <=> standdown_in = None
    BY <2>1, <2>2, SoonerType
  <2>4. phase' = phase
    BY <2>1, <2>3 DEF phase
  <2>5. QED BY <2>1, <2>4 DEF Authority!Next, Authority!Rest
<1>10. CASE UNCHANGED vars
  BY <1>10 DEF vars, coreVars, nodeVars, phase, WireName
<1>11. QED
  BY <1>2, <1>3, <1>4, <1>5, <1>6, <1>7, <1>8, <1>9, <1>10 DEF Next

(* Whatever the inputs, crashes and clock steps, the requests the robot    *)
(* gets are a behaviour of MotionAuthority.                                *)
THEOREM AuthorityImplemented == Spec => ImplementsAuthority
<1>1. Init => Authority!Init
  BY DEF Init, CoreInit, Authority!Init, phase
<1>2. BaseInv /\ [Next]_vars => [Authority!Next]_Authority!vars
  BY AuthorityStep DEF Authority!vars, WireName
<1>3. QED
  BY <1>1, <1>2, BaseInvariant, PTL DEF Spec, ImplementsAuthority, Authority!Spec

-----------------------------------------------------------------------------
(* The bridge is what the feedback loop takes it for.                      *)
LEMMA ViewRest ==
  ASSUME UNCHANGED <<proc, state, cmd_stamp>>
  PROVE  UNCHANGED View!bridgeVars
  BY DEF View!bridgeVars

LEMMA ViewTick ==
  ASSUME proc = "spinning", Tick, UNCHANGED proc
  PROVE  [View!BridgeNext]_View!bridgeVars
<1>1. cmd_stamp' = cmd_stamp
  BY DEF Tick, TickLatched, TickStandDown, TickAbort, TickWait, TickReady, inputVars
<1>2. CASE TickLatched \/ TickStandDown
  BY <1>1, <1>2, ViewRest DEF TickLatched, TickStandDown
<1>3. CASE TickAbort
  BY <1>1, <1>3 DEF TickAbort, Latched, View!BridgeNext, View!Latch
<1>4. CASE TickWait \/ TickReady
  BY <1>1, <1>4 DEF TickWait, TickReady, Latched, View!bridgeVars
<1>5. QED
  BY <1>2, <1>3, <1>4 DEF Tick

LEMMA ViewStep ==
  ASSUME [Next]_vars
  PROVE  [View!BridgeNext]_View!bridgeVars
<1>1. ASSUME NEW t \in Twists, Twist(t) PROVE UNCHANGED View!bridgeVars
  BY <1>1, ViewRest DEF Twist, OnTwist, SameProcess
<1>2. ASSUME NEW s \in Stamps, NEW t \in Twists, TwistStamped(s, t) PROVE View!BridgeNext
  <2>1. /\ proc = "spinning" /\ UNCHANGED <<proc, state>>
        /\ Newer(s) /\ cmd_stamp' = s
    BY <1>2 DEF TwistStamped, OnTwistStamped, SameProcess
  <2>2. s \in Stamps \ {BadStamp, 0} /\ View!Accept(s)
    BY <2>1 DEF Newer, View!Accept, View!Accepts
  <2>3. QED
    BY <2>2 DEF View!BridgeNext
<1>3. CASE \/ \E code \in ErrorCodes, p \in Positions, fast \in SUBSET Guards : Sport(code, p, fast)
           \/ \E h \in Temps : Low(h)
  BY <1>3, ViewRest DEF Sport, OnSport, Low, OnLow, SameProcess
<1>4. CASE Handset
  <2>1. proc = "spinning" /\ UNCHANGED <<proc, cmd_stamp>> /\ state' = "YIELDED"
    BY <1>4 DEF Handset, OnHandset, SameProcess
  <2>2. CASE state \in Latched
    BY <2>1, <2>2 DEF Latched, View!bridgeVars
  <2>3. CASE state \notin Latched
    BY <2>1, <2>3 DEF Latched, View!BridgeNext, View!Latch
  <2>4. QED
    BY <2>2, <2>3
<1>5. CASE OnTick
  BY <1>5, ViewTick DEF OnTick, SameProcess
<1>6. ASSUME NEW alive \in BOOLEAN, StopOnExit(alive) PROVE View!BridgeNext
  BY <1>6 DEF StopOnExit, coreVars, View!BridgeNext, View!Die
<1>7. CASE Destroy
  BY <1>7 DEF Destroy, coreVars, View!bridgeVars
<1>8. CASE Kill
  <2>1. proc \in {"spinning", "closing"} /\ proc' = "down" /\ UNCHANGED <<state, cmd_stamp>>
    BY <1>8 DEF Kill, coreVars
  <2>2. CASE proc = "spinning"
    BY <2>1, <2>2 DEF View!BridgeNext, View!Die
  <2>3. CASE proc = "closing"
    BY <2>1, <2>3 DEF View!bridgeVars
  <2>4. QED
    BY <2>1, <2>2, <2>3
<1>9. CASE Start
  BY <1>9 DEF Start, CoreReset, Latched, View!BridgeNext, View!Begin
<1>10. CASE Discovery \/ ClockRuns \/ ClockStepsBack
  BY <1>10, ViewRest DEF Discovery, coreVars, ClockRuns, ClockStepsBack, Elapse
<1>11. CASE UNCHANGED vars
  BY <1>11, ViewRest DEF vars, coreVars, nodeVars
<1>12. QED
  BY <1>1, <1>2, <1>3, <1>4, <1>5, <1>6, <1>7, <1>8, <1>9, <1>10, <1>11 DEF Next

(* Feedback's reduced bridge is sound: in every life of the process the    *)
(* echo only goes to newer stamps and a latch stays, whatever telemetry,   *)
(* handset, exit or crash comes, and a new life begins with neither.       *)
THEOREM ViewImplemented == Spec => ImplementsView
<1>1. Init => View!BridgeInit
  BY DEF Init, CoreInit, Latched, View!BridgeInit
<1>2. [Next]_vars => [View!BridgeNext]_View!bridgeVars
  BY ViewStep
<1>3. QED
  BY <1>1, <1>2, PTL DEF Spec, ImplementsView, View!BridgeSpec

=============================================================================
