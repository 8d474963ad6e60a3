--------------------------- MODULE MotionAuthority ----------------------------
(***************************************************************************)
(* What the velocity bridge promises the robot, whatever its inputs do: in *)
(* one life of the process it moves and halts the robot any number of      *)
(* times, then at most once takes it down (StopMove, later StandDown), and *)
(* once its authority is over it says nothing at all.                      *)
(* A request may always be lost (wire = None): dry run, no subscriber, or  *)
(* a halt the bridge leaves unsaid because a precondition broke.           *)
(***************************************************************************)
CONSTANT None

VARIABLES
  phase,    \* "idle", "moving", "aborted" (StandDown still owed) or "over"
  wire      \* the name of the request this step gave the robot, or None

vars == <<phase, wire>>

Init == phase = "idle" /\ wire = None

Gives(name) == wire' \in {name, None}

Drive ==
  /\ phase \in {"idle", "moving"}
  /\ phase' = "moving"
  /\ Gives("MOVE")

Halt ==
  /\ phase = "moving"
  /\ phase' = "idle"
  /\ Gives("STOPMOVE")

Abort ==
  /\ phase \in {"idle", "moving"}
  /\ phase' = "aborted"
  /\ Gives("STOPMOVE")

TakeDown ==
  /\ phase = "aborted"
  /\ phase' = "over"
  /\ Gives("STANDDOWN")

\* yielding, exiting or dying; only an exit while moving still says StopMove
End ==
  /\ phase' = "over"
  /\ IF phase = "moving" THEN Gives("STOPMOVE") ELSE wire' = None

Restart ==
  /\ phase = "over"
  /\ phase' = "idle"
  /\ wire' = None

Rest ==
  /\ wire' = None
  /\ UNCHANGED phase

Next == Drive \/ Halt \/ Abort \/ TakeDown \/ End \/ Restart \/ Rest

Spec == Init /\ [][Next]_vars
=============================================================================
