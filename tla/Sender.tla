-------------------------------- MODULE Sender --------------------------------
(***************************************************************************)
(* go2_feedback_check --send: the hexapod's scripted stream of stamped     *)
(* Twists, from its preflight to its end, over several lives, up to the    *)
(* velocity bridge, which takes only stamps that increase.  ros1_bridge    *)
(* (the relay) and a probe subscribe to the topic; what is published       *)
(* before the relay is connected is lost.  A stamp is FINE times a reading *)
(* of the hexapod's wall clock, in units of the smallest stamp.            *)
(***************************************************************************)
EXTENDS Ages, FiniteSets, Sequences

CONSTANTS
  ERRANDS,          \* the profiles sent
  TWISTS_SENT,      \* Twists of the step of a profile
  REPLAYS,          \* sends of the replay second
  FINE,             \* a tick of the clock, in nanoseconds
  CLOCK_STEPS,      \* sizes by which the clock may step
  SENDER_LIVES, MAX_NOW

ASSUME SenderAssumption ==
  /\ {TWISTS_SENT, REPLAYS, SENDER_LIVES, MAX_NOW} \subseteq Nat
  /\ FINE \in Nat \ {0}
  /\ CLOCK_STEPS \subseteq Int

VARIABLES
  errand,               \* the profile to send
  doing,                \* where main is
  stamps, n_again,      \* of run_profile: its stamps; replays or zeros sent
  stamped,              \* last_stamp: the newest of this life
  now,                  \* the hexapod's wall clock
  registered, connected,\* subscribers: at the master, and to our publisher
  n_reg,                \* of the preflight: the count the master gave
  newest,               \* the newest stamp the bridge took
  sender_lives,
  reached,              \* observer: newest, when this life began
  outcome,              \* observer: what became of the last send
  finished, gone,       \* observers: ran to its end; the relay died
  overtaken             \* observer: somebody registered after that count

lineVars == <<registered, connected, gone, n_reg, overtaken>>
senderVars == <<errand, doing, stamps, n_again, stamped, now, lineVars,
                newest, sender_lives, reached, outcome, finished>>

Subscribers == {"relay", "probe"}

\* name -> does its step move the robot, does it end in zeros?
ERRAND == [
  zero           |-> [moves |-> FALSE, zeros |-> TRUE],
  walk_03        |-> [moves |-> TRUE, zeros |-> TRUE],
  turn_10        |-> [moves |-> TRUE, zeros |-> TRUE],
  walk_03_silent |-> [moves |-> TRUE, zeros |-> FALSE],
  replay         |-> [moves |-> FALSE, zeros |-> FALSE]]

SenderInit ==
  /\ errand \in ERRANDS
  /\ doing = "preflight"
  /\ stamps = <<>> /\ n_again = 0 /\ stamped = None
  /\ now = 0
  /\ registered = {"relay"} /\ connected = {} /\ n_reg = None /\ overtaken = FALSE
  /\ newest = None /\ sender_lives = 1
  /\ reached = None /\ outcome = None /\ finished = FALSE /\ gone = FALSE

-----------------------------------------------------------------------------
(* The ROS 1 graph.  Whoever dies stays registered at the master.          *)
ProbeRegisters ==
  /\ registered' = registered \cup {"probe"}
  /\ UNCHANGED connected

Connects(s) ==
  /\ s \in registered /\ (s = "relay" => ~gone)
  /\ connected' = connected \cup {s}
  /\ UNCHANGED registered

Disconnects(s) ==
  /\ s \in connected
  /\ connected' = connected \ {s}
  /\ UNCHANGED registered

Graph ==
  /\ \/ ProbeRegisters \/ \E s \in Subscribers : Connects(s)
     \/ \E s \in Subscribers : Disconnects(s)
  /\ gone' = (gone \/ "relay" \in connected \ connected')
  /\ overtaken' = (overtaken \/ (n_reg # None /\ registered' # registered))
  /\ UNCHANGED <<errand, doing, stamps, n_again, stamped, now, newest,
                 sender_lives, reached, outcome, finished, n_reg>>

-----------------------------------------------------------------------------
(* Preflight: a fresh status of a bridge as the command line demands; then *)
(* the master is asked how many are registered, a call to another process, *)
(* and only then are our connections counted.                              *)
Ready(status, demand) ==
  /\ status.input = "twist_stamped"
  /\ status.armed = demand.armed
  /\ status.state = "IDLE" \/ (demand.waiting /\ status.state = "WAITING")

MasterAnswers(status, demand) ==
  /\ doing = "preflight" /\ n_reg = None
  /\ Ready(status, demand)
  /\ n_reg' = Cardinality(registered) /\ overtaken' = FALSE
  /\ UNCHANGED <<errand, doing, stamps, n_again, stamped, now, registered, connected, gone,
                 newest, sender_lives, reached, outcome, finished>>

Wired_mutant == Cardinality(connected) >= 1

Wired == n_reg >= 1 /\ Cardinality(connected) >= n_reg

ConnectionsCounted ==
  /\ doing = "preflight" /\ n_reg # None
  /\ doing' = IF Wired THEN "profile" ELSE "preflight"
  /\ n_reg' = None
  /\ UNCHANGED <<errand, stamps, n_again, stamped, now, registered, connected, gone, overtaken,
                 newest, sender_lives, reached, outcome, finished>>

\* ten seconds have passed, or the node is shut down while it sleeps
Ends ==
  /\ doing # "over"
  /\ doing' = "over"
  /\ UNCHANGED <<errand, stamps, n_again, stamped, now, lineVars, newest,
                 sender_lives, reached, outcome, finished>>

-----------------------------------------------------------------------------
(* send(): the bridge takes a stamp that is newer than all it took.        *)
NextStamp_mutant == now * FINE

NextStamp ==
  IF stamped # None /\ now * FINE <= stamped THEN stamped + 1 ELSE now * FINE

Taken(stamp) == newest = None \/ stamp > newest

SendStamp(stamp, moves, again) ==
  LET arrives == "relay" \in connected IN
  /\ newest' = IF arrives /\ Taken(stamp) THEN stamp ELSE newest
  /\ outcome' = [stamp |-> stamp, moves |-> moves, again |-> again,
                 lost |-> ~arrives, refused |-> arrives /\ ~Taken(stamp)]

SendNext(moves) == SendStamp(NextStamp, moves, FALSE) /\ stamped' = NextStamp

\* a step is timed, so it may have fewer sends, but for the first
StepSendsTwist ==
  /\ doing = "profile" /\ Len(stamps) < TWISTS_SENT
  /\ SendNext(ERRAND[errand].moves)
  /\ stamps' = Append(stamps, NextStamp)
  /\ UNCHANGED <<errand, doing, n_again, now, lineVars, sender_lives, reached, finished>>

StepOver ==
  /\ doing = "profile" /\ stamps # <<>>
  /\ doing' = IF errand = "replay" /\ Len(stamps) >= 3 THEN "replay"
              ELSE IF ERRAND[errand].zeros THEN "zeros" ELSE "listen"
  /\ UNCHANGED <<errand, stamps, n_again, stamped, now, lineVars, newest,
                 sender_lives, reached, outcome, finished>>

SendAgain ==
  /\ doing = "replay" /\ n_again < REPLAYS
  /\ SendStamp(stamps[Len(stamps) - 2], FALSE, TRUE)
  /\ n_again' = n_again + 1
  /\ UNCHANGED <<errand, doing, stamps, stamped, now, lineVars, sender_lives,
                 reached, finished>>

ReplayOver ==
  /\ doing = "replay" /\ n_again > 0
  /\ doing' = "listen"
  /\ UNCHANGED <<errand, stamps, n_again, stamped, now, lineVars, newest,
                 sender_lives, reached, outcome, finished>>

SendZero ==
  /\ doing = "zeros" /\ n_again < 3
  /\ SendNext(FALSE)
  /\ n_again' = n_again + 1
  /\ doing' = IF n_again = 2 THEN "listen" ELSE "zeros"
  /\ UNCHANGED <<errand, stamps, now, lineVars, sender_lives, reached, finished>>

ListenEnds ==
  /\ doing = "listen"
  /\ doing' = "over" /\ finished' = TRUE
  /\ UNCHANGED <<errand, stamps, n_again, stamped, now, lineVars, newest,
                 sender_lives, reached, outcome>>

-----------------------------------------------------------------------------
\* the same errand again, in a new process: its connections are new too
SenderRestarts ==
  /\ doing = "over" /\ sender_lives < SENDER_LIVES
  /\ sender_lives' = sender_lives + 1
  /\ doing' = "preflight" /\ stamps' = <<>> /\ n_again' = 0 /\ stamped' = None
  /\ connected' = {} /\ n_reg' = None /\ overtaken' = FALSE
  /\ reached' = newest /\ outcome' = None /\ finished' = FALSE
  /\ UNCHANGED <<errand, now, registered, newest, gone>>

WallClock(d) ==
  /\ now + d \in 0..MAX_NOW
  /\ now' = now + d
  /\ UNCHANGED <<errand, doing, stamps, n_again, stamped, lineVars, newest,
                 sender_lives, reached, outcome, finished>>

BridgeReports == [input : {"twist", "twist_stamped"}, armed : BOOLEAN,
                  state : {"IDLE", "WAITING", "DRIVING", "ABORTED", "YIELDED"}]

SenderNext ==
  \/ Graph
  \/ \E status \in BridgeReports, demand \in [armed : BOOLEAN, waiting : BOOLEAN] :
       MasterAnswers(status, demand)
  \/ ConnectionsCounted
  \/ Ends
  \/ StepSendsTwist \/ StepOver \/ SendAgain \/ ReplayOver \/ SendZero \/ ListenEnds
  \/ SenderRestarts
  \/ \E d \in CLOCK_STEPS \cup {1} : WallClock(d)

SenderSpec == SenderInit /\ [][SenderNext]_senderVars

-----------------------------------------------------------------------------
(* Within a life the bridge takes every command but the replays.  None is  *)
(* refused, however the clock steps, unless an earlier life had stamped    *)
(* ahead of it (next_stamp); none is lost while the relay lives, though    *)
(* the preflight compares two counts, unless somebody registered between   *)
(* the two, and then a replay may be of what was lost (preflight).  A walk *)
(* that runs to its end ends in a zero, but for the one meant not to.      *)
SenderIsHeard ==
  /\ outcome # None =>
       /\ outcome.refused /\ ~outcome.again => reached # None /\ outcome.stamp <= reached
       /\ outcome.lost => gone \/ overtaken
       /\ outcome.again => outcome.lost \/ outcome.refused \/ overtaken
  /\ finished /\ ERRAND[errand].zeros => ~outcome.moves
=============================================================================
