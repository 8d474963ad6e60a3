------------------------------ MODULE BridgeView ------------------------------
(***************************************************************************)
(* The velocity bridge as the feedback loop sees it: whether it runs, the  *)
(* newest stamp it accepted, and whether it is latched.  Feedback is built *)
(* from these actions, and CmdBridge, the full model, implements them, so  *)
(* what is true of the loop with this bridge is true with that one.        *)
(***************************************************************************)
EXTENDS Ages

CONSTANT Stamps     \* of the commands

VARIABLES
  up, latched,      \* the bridge: is it running, ABORTED or YIELDED?
  echo              \* cmd_stamp, the last stamp the bridge accepted

bridgeVars == <<up, latched, echo>>

BridgeInit == up = TRUE /\ latched = FALSE /\ echo = None

Accepts(s) == echo # None => s > echo

\* also when latched, although the command is of no use then
Accept(s) ==
  /\ up
  /\ Accepts(s)
  /\ echo' = s
  /\ UNCHANGED <<up, latched>>

\* an abort or the handset; a latched bridge stays so as long as it lives
Latch ==
  /\ up /\ ~latched
  /\ latched' = TRUE
  /\ UNCHANGED <<up, echo>>

Die ==
  /\ up
  /\ up' = FALSE
  /\ UNCHANGED <<latched, echo>>

\* a new process knows of no command and of no latch
Begin ==
  /\ ~up
  /\ up' = TRUE /\ latched' = FALSE /\ echo' = None

BridgeNext == (\E s \in Stamps : Accept(s)) \/ Latch \/ Die \/ Begin

BridgeSpec == BridgeInit /\ [][BridgeNext]_bridgeVars
=============================================================================
