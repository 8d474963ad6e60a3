-------------------------------- MODULE Teleop ---------------------------------
(***************************************************************************)
(* go2_teleop: hold a key to move.  TeleopCore and the window around it,   *)
(* with the operator's hands, the X server's event queue and its           *)
(* auto-repeat, and the bridge's status.                                   *)
(*                                                                         *)
(* Under auto-repeat a held key sends releases and presses in pairs that   *)
(* share an X time; the halves are handled one by one and a poll or a stop *)
(* may fall between them, but no time passes there (the pairs were         *)
(* measured to arrive within 0.25 ms, DEBOUNCE_S is 20 ms).  A Twist is    *)
(* its two signs: the speeds are constants of the process.                 *)
(***************************************************************************)
EXTENDS Ages, Sequences

CONSTANTS
  Keys,         \* those of KEYMAP that the operator uses
  XTimes,       \* X server times, of which only equality matters
  DEBOUNCE, PERIOD, ZERO_BURST,
  HOLD_MAX,     \* None, or after how long a held key acts released
  MAX_QUEUE     \* events in the X queue

ASSUME TeleopAssumption ==
  /\ Keys \subseteq {"w", "s", "a", "d"}
  /\ None \notin Keys /\ None \notin XTimes /\ None \notin [x : XTimes, left : Nat]
  /\ {DEBOUNCE, PERIOD, ZERO_BURST, MAX_QUEUE} \subseteq Nat \ {0}
  /\ HOLD_MAX # None => HOLD_MAX \in Nat \ {0} /\ HOLD_MAX <= FORGET

VARIABLES
  down_age,     \* [Keys -> time since the press], None of a key that is not down
  pending,      \* [Keys -> a release to be confirmed: [x, left]], or None
  orphan,       \* [Keys -> X time of a release seen while the key was not down]
  last_out, zeros_left,
  pub_left,     \* until the next Twist is due, 0 before the first
  latched, quit, open,
  held,         \* the keys that fingers hold
  focused,      \* does the X server send key events to the window?
  queue,        \* events on their way to it
  real,         \* observer: keys that went down by hand since the last stop or release
  alarmed,      \* observer: the window was told of a latched or switched bridge
  wire          \* observer: the last Twist published

coreVars == <<down_age, pending, orphan>>
outVars == <<last_out, pub_left, zeros_left, wire>>
xVars == <<held, focused>>
vars == <<coreVars, outVars, latched, quit, open, xVars, queue, real, alarmed>>

KEYMAP == [w |-> <<1, 0>>, s |-> <<-1, 0>>, a |-> <<0, 1>>, d |-> <<0, -1>>]

Zero == <<0, 0>>

Down == {k \in Keys : down_age[k] # None}

Init ==
  /\ down_age = [k \in Keys |-> None]
  /\ pending = [k \in Keys |-> None]
  /\ orphan = [k \in Keys |-> None]
  /\ last_out = Zero /\ pub_left = 0 /\ zeros_left = 0 /\ wire = None
  /\ latched = FALSE /\ quit = FALSE /\ open = TRUE
  /\ held \in SUBSET Keys /\ focused = TRUE /\ queue = <<>>
  /\ real = {} /\ alarmed = FALSE

-----------------------------------------------------------------------------
(* The operator and the X server.                                          *)
Event(kind, k, x, by_hand) == [kind |-> kind, key |-> k, x |-> x, by_hand |-> by_hand]

Stop == Event("stop", None, None, TRUE)

InUse == {queue[i].x : i \in DOMAIN queue} \cup {orphan[k] : k \in Keys}
         \cup {pending[k].x : k \in {j \in Keys : pending[j] # None}}

\* what the X server sends goes to the window that has the focus
Sends(events) ==
  /\ open
  /\ Len(queue) + Len(events) <= MAX_QUEUE
  /\ queue' = IF focused THEN queue \o events ELSE queue

Unmoved == UNCHANGED <<coreVars, outVars, latched, quit, open, real, alarmed>>

FingerDown(k, x) ==
  /\ k \notin held /\ x \notin InUse
  /\ held' = held \cup {k}
  /\ Sends(<<Event("press", k, x, TRUE)>>)
  /\ UNCHANGED focused /\ Unmoved

FingerUp(k, x) ==
  /\ k \in held /\ x \notin InUse
  /\ held' = held \ {k}
  /\ Sends(<<Event("release", k, x, TRUE)>>)
  /\ UNCHANGED focused /\ Unmoved

AutoRepeats(k, x) ==
  /\ k \in held /\ x \notin InUse
  /\ focused
  /\ Sends(<<Event("release", k, x, FALSE), Event("press", k, x, FALSE)>>)
  /\ UNCHANGED xVars /\ Unmoved

Space ==
  /\ focused
  /\ Sends(<<Stop>>)
  /\ UNCHANGED xVars /\ Unmoved

FocusOut ==
  /\ focused
  /\ Sends(<<Stop>>)
  /\ focused' = FALSE
  /\ UNCHANGED held /\ Unmoved

FocusIn ==
  /\ open /\ ~focused
  /\ focused' = TRUE
  /\ UNCHANGED <<held, queue>> /\ Unmoved

-----------------------------------------------------------------------------
(* TeleopCore.                                                             *)
AutoRepeat(k, x) == pending[k] # None /\ pending[k].x = x

HeldThroughStop_mutant(k, x) == FALSE

HeldThroughAny_mutant(k, x) == orphan[k] # None

HeldThroughStop(k, x) == orphan[k] = x

\* besides a new press: the second half of an auto-repeat of a key that is
\* down, the same of a key held through a stop, a repeated press
OnPress(k, x) ==
  /\ pending' = [pending EXCEPT ![k] = None]
  /\ \/ /\ AutoRepeat(k, x) \/ k \in Down
        /\ UNCHANGED <<down_age, orphan>>
     \/ /\ ~AutoRepeat(k, x) /\ k \notin Down
        /\ orphan' = [orphan EXCEPT ![k] = None]
        /\ down_age' = IF HeldThroughStop(k, x) THEN down_age ELSE [down_age EXCEPT ![k] = 0]

OnRelease(k, x) ==
  \/ /\ k \notin Down
     /\ orphan' = [orphan EXCEPT ![k] = x]
     /\ UNCHANGED <<down_age, pending>>
  \/ /\ k \in Down
     /\ pending' = [pending EXCEPT ![k] = [x |-> x, left |-> DEBOUNCE]]
     /\ UNCHANGED <<down_age, orphan>>

\* a stop between the halves of a pair: the press must still be recognised
Orphaned(k) == IF pending[k] # None THEN pending[k].x ELSE orphan[k]

StopAll_mutant ==
  /\ orphan' = [k \in Keys |-> Orphaned(k)]
  /\ pending' = [k \in Keys |-> None]
  /\ UNCHANGED down_age

StopAll ==
  /\ orphan' = [k \in Keys |-> Orphaned(k)]
  /\ down_age' = [k \in Keys |-> None]
  /\ pending' = [k \in Keys |-> None]

Expired == HOLD_MAX # None /\ \E k \in Down : down_age[k] >= HOLD_MAX

Due == {k \in Keys : pending[k] # None /\ pending[k].left = 0}

ReleaseDue_mutant ==
  /\ pending' = [k \in Keys |-> IF k \in Due THEN None ELSE pending[k]]
  /\ UNCHANGED <<orphan, down_age>>

ReleaseDue ==
  /\ down_age' = [k \in Keys |-> IF k \in Due THEN None ELSE down_age[k]]
  /\ pending' = [k \in Keys |-> IF k \in Due THEN None ELSE pending[k]]
  /\ UNCHANGED orphan

\* the signs of the keys that are down, added up; opposite ones cancel
Axis(keys, i) ==
  LET plus == \E k \in keys : KEYMAP[k][i] = 1
      minus == \E k \in keys : KEYMAP[k][i] = -1
  IN  IF plus /\ ~minus THEN 1 ELSE IF minus /\ ~plus THEN -1 ELSE 0

Command(keys) == <<Axis(keys, 1), Axis(keys, 2)>>

Publishes(out) == last_out' = out /\ wire' = out /\ pub_left' = PERIOD

Quiet == UNCHANGED <<last_out, wire, pub_left>>

PubDue == pub_left = 0

ZeroDue == zeros_left > 0 /\ (last_out # Zero \/ PubDue)

Publish(cmd) ==
  \/ /\ cmd # Zero
     /\ zeros_left' = ZERO_BURST
     /\ IF cmd # last_out \/ PubDue THEN Publishes(cmd) ELSE Quiet
  \/ /\ cmd = Zero
     /\ ZeroDue
     /\ zeros_left' = zeros_left - 1
     /\ Publishes(Zero)
  \/ /\ cmd = Zero
     /\ ~ZeroDue
     /\ UNCHANGED zeros_left /\ Quiet

-----------------------------------------------------------------------------
(* The window: one thread that handles events and polls.                   *)
Handle ==
  /\ open /\ queue # <<>>
  /\ queue' = Tail(queue)
  /\ LET e == Head(queue) IN
       \/ /\ e.kind = "press" /\ OnPress(e.key, e.x)
          /\ real' = IF e.by_hand THEN real \cup {e.key} ELSE real
       \/ e.kind = "release" /\ OnRelease(e.key, e.x) /\ UNCHANGED real
       \/ e.kind = "stop" /\ StopAll /\ real' = {}
  /\ UNCHANGED <<outVars, latched, quit, open, xVars, alarmed>>

\* Q, Escape, the window's close button, SIGINT, SIGTERM
Quit ==
  /\ open /\ ~quit
  /\ quit' = TRUE
  /\ UNCHANGED <<coreVars, outVars, latched, open, xVars, queue, real, alarmed>>

StopsFor(alarm) == quit \/ (alarm /\ ~latched) \/ Expired

Commanded_mutant == Command(Down')

Commanded == IF latched' THEN Zero ELSE Command(Down')

\* alarm: the bridge's status says YIELDED, ABORTED, or the other mode
Poll(alarm) ==
  /\ open
  /\ latched' = (latched \/ alarm)
  /\ alarmed' = (alarmed \/ alarm)
  /\ IF StopsFor(alarm)
       THEN StopAll /\ real' = {}
       ELSE ReleaseDue /\ real' = real \ Due
  /\ Publish(Commanded)
  /\ open' = ~(quit /\ zeros_left' = 0)
  /\ UNCHANGED <<quit, xVars, queue>>

Owed_mutant == quit

\* run_live's finally, however the main loop ended
Owed == last_out # Zero \/ zeros_left > 0

Crash ==        \* the main loop ends by an exception
  /\ open
  /\ open' = FALSE
  /\ wire' = IF Owed THEN Zero ELSE wire
  /\ UNCHANGED <<coreVars, last_out, pub_left, zeros_left, latched, quit, xVars, queue, real, alarmed>>

BetweenHalves == queue # <<>> /\ Head(queue).kind = "press" /\ ~Head(queue).by_hand

Less(left) == IF left > 0 THEN left - 1 ELSE 0

ClockRuns ==
  /\ open /\ ~BetweenHalves
  /\ down_age' = [k \in Keys |-> Later(down_age[k], 1)]
  /\ pending' = [k \in Keys |-> IF pending[k] = None THEN None
                                ELSE [pending[k] EXCEPT !.left = Less(@)]]
  /\ pub_left' = Less(pub_left)
  /\ UNCHANGED <<orphan, last_out, zeros_left, wire, latched, quit, open, xVars, queue, real, alarmed>>

Next ==
  \/ \E k \in Keys, x \in XTimes : FingerDown(k, x) \/ FingerUp(k, x) \/ AutoRepeats(k, x)
  \/ Space \/ FocusOut \/ FocusIn
  \/ Handle \/ Quit \/ Crash \/ ClockRuns
  \/ \E alarm \in BOOLEAN : Poll(alarm)

Spec == Init /\ [][Next]_vars

\* Tk serves the queue and the timer as long as the window is open
FairSpec ==
  Spec /\ WF_vars(Handle) /\ WF_vars(\E alarm \in BOOLEAN : Poll(alarm)) /\ WF_vars(ClockRuns)

-----------------------------------------------------------------------------
Events == [kind : {"press", "release"}, key : Keys, x : XTimes, by_hand : BOOLEAN] \cup {Stop}

TypeOK ==
  /\ down_age \in [Keys -> Age]
  /\ pending \in [Keys -> [x : XTimes, left : 0..DEBOUNCE] \cup {None}]
  /\ orphan \in [Keys -> XTimes \cup {None}]
  /\ last_out \in {-1, 0, 1} \X {-1, 0, 1} /\ wire \in ({-1, 0, 1} \X {-1, 0, 1}) \cup {None}
  /\ pub_left \in 0..PERIOD /\ zeros_left \in 0..ZERO_BURST
  /\ {latched, quit, open, focused, alarmed} \subseteq BOOLEAN
  /\ held \subseteq Keys /\ real \subseteq Keys
  /\ queue \in Seq(Events)

(* A key counts as down only because a finger put it down, and neither a   *)
(* stop nor its release came since: a key held through a stop must be      *)
(* pressed again, however its auto-repeat interleaves with stops and polls *)
(* (press, release, stop, tick).                                           *)
MotionNeedsKeyDown == Down \subseteq real

(* No key sticks: one that counts as down is held, or its release, or a    *)
(* stop, is on the way (release, on_focus_out).                            *)
NoStuckKey ==
  open => \A k \in Down :
    \/ k \in held \/ pending[k] # None
    \/ \E i \in DOMAIN queue : queue[i].kind = "stop" \/ (queue[i].kind = "release" /\ queue[i].key = k)

(* A key pressed by hand is obeyed: nothing the window remembers of an     *)
(* earlier release makes it take the press for an auto-repeat.             *)
HandIsObeyed ==
  [][ \A k \in Keys : k \in real' /\ k \notin real => k \in Down' ]_vars

(* The stop is never used up: while the last Twist moves the robot, the    *)
(* whole burst of zeros is still to come, and the window leaves no moving  *)
(* Twist behind, whichever way it closes (tick, run_live's finally).       *)
EndsInZero ==
  /\ last_out # Zero => zeros_left = ZERO_BURST
  /\ ~open => wire \in {Zero, None}

(* Told of a latched or switched bridge, the window has sent its zero by   *)
(* the end of that poll and never moves the robot again (poll, command).   *)
LatchIsFinal == alarmed => wire \in {Zero, None}

(* Hands off, or another window in front: the robot is told to stop.       *)
HandsOffStops ==
  (held = {} \/ ~focused) ~> (wire \in {Zero, None} \/ (held # {} /\ focused))
=============================================================================
