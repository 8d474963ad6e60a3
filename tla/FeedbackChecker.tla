---------------------------- MODULE FeedbackChecker ----------------------------
(***************************************************************************)
(* hexapod/go2_feedback_core.FeedbackChecker: what the hexapod concludes   *)
(* from its own sends and from /go2/robot_status.  Send and arrival times  *)
(* are readings of a monotonic clock; the stamp of a status is one of the  *)
(* Go2 side's clock, kept as its age there.  Stamps of commands increase   *)
(* along the sends of a process, whatever its wall clock does (next_stamp);*)
(* only their order is kept.  Latency and skew are reported, never used.   *)
(* There are two threads and no lock.  That of rospy's subscriber runs     *)
(* on_status, which dates a status before it fills in the values.  The     *)
(* main thread sends and evaluates, and takes the values before the date:  *)
(* an evaluate that on_status cuts into has the values from before it and  *)
(* the date from after it, which is what one has that falls between the    *)
(* two steps.  So evaluate is one step here, and on_status two.            *)
(***************************************************************************)
EXTENDS Ages, FiniteSets

CONSTANTS
  STALE,        \* stale_s
  HISTORY       \* how many sends are remembered

VARIABLES
  sent,             \* [remembered stamps -> age of the send]
  max_sent,         \* the newest stamp sent
  last_send_replay,
  status_age,       \* since the last accepted status arrived
  status_stamp,     \* the age of its header stamp, on the Go2 side's clock
  values,           \* what the status said that was filled in last
  filling,          \* on_status is between the date and the values
  incoming          \* the status it fills in, or Blank

\* the reading of a value that is not there
Blank == [echo |-> None, motion |-> "UNKNOWN", hard |-> FALSE, blind |-> FALSE]

sendVars == <<sent, max_sent, last_send_replay>>
readVars == <<status_age, status_stamp, values, filling, incoming>>

CheckerInit ==
  /\ sent = [s \in {} |-> 0]
  /\ max_sent = None
  /\ last_send_replay = FALSE
  /\ status_age = None /\ status_stamp = None /\ values = Blank
  /\ filling = FALSE /\ incoming = Blank

IsReplay_mutant(stamp) == max_sent # None /\ stamp = max_sent

IsReplay(stamp) == max_sent # None /\ stamp <= max_sent

\* sends are inserted in the order of their stamps; the oldest are dropped
Remembered(stamps) == {s \in stamps : Cardinality({r \in stamps : r > s}) < HISTORY}

OnSent(stamp) ==
  /\ last_send_replay' = IsReplay(stamp)
  /\ \/ /\ IsReplay(stamp)
        /\ UNCHANGED <<sent, max_sent>>
     \/ /\ ~IsReplay(stamp)
        /\ max_sent' = stamp
        /\ sent' = [s \in Remembered(DOMAIN sent \cup {stamp}) |->
                      IF s = stamp THEN 0 ELSE sent[s]]
  /\ UNCHANGED readVars

Newer_mutant(age) == TRUE

Newer(age) == status_stamp # None => age < status_stamp

\* a status that is not newer, of other hardware or of another schema is
\* counted and changes nothing
Dates(age, status) ==
  /\ ~filling
  /\ Newer(age)
  /\ status_age' = 0
  /\ status_stamp' = age
  /\ filling' = TRUE /\ incoming' = status
  /\ UNCHANGED <<sendVars, values>>

Fills ==
  /\ filling
  /\ values' = incoming
  /\ filling' = FALSE /\ incoming' = Blank
  /\ UNCHANGED <<sendVars, status_age, status_stamp>>

-----------------------------------------------------------------------------
(* evaluate(): the reading.                                                *)
StatusFresh == status_age # None /\ status_age <= STALE

RecentEcho == values.echo \in DOMAIN sent /\ sent[values.echo] <= STALE

Received == StatusFresh /\ ~last_send_replay /\ RecentEcho

Class ==
  CASE ~StatusFresh -> "UNKNOWN"
    [] StatusFresh /\ values.hard -> "FAULT"
    [] StatusFresh /\ ~values.hard /\ values.blind -> "UNKNOWN"
    [] StatusFresh /\ ~values.hard /\ ~values.blind -> values.motion
=============================================================================
