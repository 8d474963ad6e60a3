------------------------------- MODULE OneShot --------------------------------
(***************************************************************************)
(* What the action bridge promises: in one life of the process at most     *)
(* MAX_SENDS requests, each answered for before the next (the bridge is    *)
(* busy from a send until the dance it started is over and rested from),   *)
(* and nothing at all once it has latched.                                 *)
(***************************************************************************)
EXTENDS Naturals

CONSTANTS None, MAX_SENDS

VARIABLES
  phase,    \* "ready", "busy" or "over"
  sends,    \* requests made in this life of the process
  wire      \* the request this step gave the robot, or None

vars == <<phase, sends, wire>>

Init == phase = "ready" /\ sends = 0 /\ wire = None

Send ==
  /\ phase = "ready"
  /\ sends < MAX_SENDS
  /\ phase' = "busy"
  /\ sends' = sends + 1
  /\ wire' \in {"DANCE1", None}     \* None: dry run, or nobody subscribed

Finish ==
  /\ phase = "busy"
  /\ phase' = "ready"
  /\ wire' = None /\ UNCHANGED sends

Latch ==
  /\ phase' = "over"
  /\ wire' = None /\ UNCHANGED sends

Restart ==
  /\ phase = "over"
  /\ phase' = "ready" /\ sends' = 0
  /\ wire' = None

Rest ==
  /\ wire' = None
  /\ UNCHANGED <<phase, sends>>

Next == Send \/ Finish \/ Latch \/ Restart \/ Rest

Spec == Init /\ [][Next]_vars
=============================================================================
