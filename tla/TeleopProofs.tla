----------------------------- MODULE TeleopProofs ------------------------------
(***************************************************************************)
(* The window for any keys, X times and limits: motion needs a key put     *)
(* down by hand since the last stop, however auto-repeat, stops and polls  *)
(* interleave, and whatever closes the window leaves a zero.               *)
(***************************************************************************)
EXTENDS Teleop, AgesProofs, SequenceTheorems, TLAPS

USE DEF Age

Twists == {-1, 0, 1} \X {-1, 0, 1}

\* the press half of an auto-repeat, and the release half that belongs to it
Half(e) == e.kind = "press" /\ ~e.by_hand

Belongs(r, p) == r.kind = "release" /\ r.key = p.key /\ r.x = p.x

Paired(es) == \A i \in DOMAIN es : Half(es[i]) => i > 1 /\ Belongs(es[i - 1], es[i])

\* what the operator and the X server may add to the queue at once
Batches == {es \in Seq(Events) : Paired(es)}

OperatorSteps ==
  \/ \E k \in Keys, x \in XTimes : FingerDown(k, x) \/ FingerUp(k, x) \/ AutoRepeats(k, x)
  \/ Space \/ FocusOut \/ FocusIn

LEMMA EventFields ==
  ASSUME NEW kind \in {"press", "release"}, NEW k \in Keys, NEW x \in XTimes, NEW h \in BOOLEAN
  PROVE  /\ Event(kind, k, x, h) \in Events
         /\ Event(kind, k, x, h).kind = kind /\ Event(kind, k, x, h).by_hand = h
         /\ Event(kind, k, x, h).key = k /\ Event(kind, k, x, h).x = x
BY DEF Event, Events

LEMMA EventsOfKeys ==
  ASSUME NEW e \in Events, e.kind \in {"press", "release"}
  PROVE  e.key \in Keys /\ e.x \in XTimes
BY DEF Event, Events, Stop

LEMMA StopFields == Stop \in Events /\ Stop.kind = "stop"
BY DEF Stop, Event, Events

LEMMA SingleBatch ==
  ASSUME NEW e \in Events, ~Half(e)
  PROVE  <<e>> \in Batches
BY DEF Batches, Paired

LEMMA PairBatch ==
  ASSUME NEW r \in Events, NEW p \in Events, Half(p), Belongs(r, p)
  PROVE  <<r, p>> \in Batches
<1>1. ~Half(r)
  BY DEF Belongs, Half
<1>2. <<r, p>> \in Seq(Events) /\ DOMAIN <<r, p>> = 1..2 /\ <<r, p>>[1] = r /\ <<r, p>>[2] = p
  OBVIOUS
<1>3. Paired(<<r, p>>)
  BY <1>1, <1>2 DEF Paired
<1>4. QED
  BY <1>2, <1>3 DEF Batches

\* an operator's step leaves the window alone, but for its queue
LEMMA OperatorAdds ==
  ASSUME TypeOK, OperatorSteps
  PROVE  /\ UNCHANGED <<coreVars, outVars, latched, quit, open, real, alarmed>>
         /\ held' \subseteq Keys /\ focused' \in BOOLEAN
         /\ queue' = queue \/ \E es \in Batches : queue' = queue \o es
<1> USE DEF Sends, Unmoved, xVars
<1>1. ASSUME NEW k \in Keys, NEW x \in XTimes, FingerDown(k, x)
      PROVE  \E es \in Batches : queue' = queue \/ queue' = queue \o es
  <2>1. <<Event("press", k, x, TRUE)>> \in Batches
    BY EventFields, SingleBatch DEF Half
  <2>2. QED
    BY <1>1, <2>1 DEF FingerDown
<1>2. ASSUME NEW k \in Keys, NEW x \in XTimes, FingerUp(k, x)
      PROVE  \E es \in Batches : queue' = queue \/ queue' = queue \o es
  <2>1. <<Event("release", k, x, TRUE)>> \in Batches
    BY EventFields, SingleBatch DEF Half
  <2>2. QED
    BY <1>2, <2>1 DEF FingerUp
<1>3. ASSUME NEW k \in Keys, NEW x \in XTimes, AutoRepeats(k, x)
      PROVE  \E es \in Batches : queue' = queue \/ queue' = queue \o es
  <2> DEFINE r == Event("release", k, x, FALSE)
             p == Event("press", k, x, FALSE)
  <2>1. /\ r \in Events /\ r.kind = "release" /\ r.key = k /\ r.x = x
        /\ p \in Events /\ p.kind = "press" /\ p.key = k /\ p.x = x /\ ~p.by_hand
    BY DEF Event, Events
  <2>2. queue' = queue \/ queue' = queue \o <<r, p>>
    BY <1>3 DEF AutoRepeats
  <2> HIDE DEF r, p
  <2>3. <<r, p>> \in Batches
    BY <2>1, PairBatch DEF Half, Belongs
  <2>4. QED
    BY <2>2, <2>3
<1>4. CASE Space \/ FocusOut
  <2>1. <<Stop>> \in Batches
    BY StopFields, SingleBatch DEF Half
  <2>2. \E es \in Batches : queue' = queue \/ queue' = queue \o es
    BY <1>4, <2>1 DEF Space, FocusOut
  <2>3. QED
    BY <1>4, <2>2 DEF Space, FocusOut, TypeOK
<1>5. CASE FocusIn
  BY <1>5 DEF FocusIn, TypeOK
<1>6. ASSUME NEW k \in Keys, NEW x \in XTimes,
             FingerDown(k, x) \/ FingerUp(k, x) \/ AutoRepeats(k, x)
      PROVE  /\ UNCHANGED <<coreVars, outVars, latched, quit, open, real, alarmed>>
             /\ held' \subseteq Keys /\ focused' \in BOOLEAN
  BY <1>6 DEF FingerDown, FingerUp, AutoRepeats, TypeOK
<1>7. QED
  BY <1>1, <1>2, <1>3, <1>4, <1>5, <1>6 DEF OperatorSteps

LEMMA QueueTyped ==
  ASSUME TypeOK, queue' = queue \/ \E es \in Batches : queue' = queue \o es
  PROVE  queue' \in Seq(Events)
<1>1. queue \in Seq(Events)
  BY DEF TypeOK
<1>2. ASSUME NEW es \in Batches
      PROVE  queue \o es \in Seq(Events)
  <2>1. es \in Seq(Events)
    BY DEF Batches
  <2>2. QED
    BY <1>1, <2>1, ConcatProperties
<1>3. QED
  BY <1>1, <1>2

-----------------------------------------------------------------------------
LEMMA CommandTyped ==
  ASSUME NEW keys
  PROVE  Command(keys) \in Twists
BY DEF Command, Axis, Twists

\* what Publish(cmd) leaves, whatever the command
LEMMA Published ==
  ASSUME TypeOK, NEW cmd \in Twists, Publish(cmd)
  PROVE  /\ last_out' \in Twists /\ zeros_left' \in 0..ZERO_BURST /\ pub_left' \in 0..PERIOD
         /\ (last_out' = last_out /\ wire' = wire) \/ (wire' = last_out' /\ wire' \in Twists)
         /\ (last_out # Zero => zeros_left = ZERO_BURST)
              => /\ last_out' # Zero => zeros_left' = ZERO_BURST
                 /\ cmd = Zero => last_out' = Zero
<1>1. /\ ZERO_BURST \in Nat \ {0} /\ PERIOD \in Nat \ {0} /\ Zero \in Twists
      /\ zeros_left \in 0..ZERO_BURST /\ pub_left \in 0..PERIOD /\ last_out \in Twists
  BY TeleopAssumption DEF TypeOK, Zero, Twists
<1>2. CASE cmd # Zero
  BY <1>1, <1>2 DEF Publish, Publishes, Quiet
<1>3. CASE cmd = Zero
  BY <1>1, <1>3 DEF Publish, Publishes, Quiet, ZeroDue
<1>4. QED
  BY <1>2, <1>3

LEMMA TypeInit == Init => TypeOK
<1> SUFFICES ASSUME Init PROVE TypeOK
  OBVIOUS
<1>1. <<>> \in Seq(Events)
  OBVIOUS
<1>2. Zero \in Twists /\ 0 \in 0..ZERO_BURST /\ 0 \in 0..PERIOD
  BY TeleopAssumption DEF Zero, Twists
<1>3. QED
  BY <1>1, <1>2 DEF Init, TypeOK, Twists

Records == [x : XTimes, left : 0..DEBOUNCE]

LEMMA PressTyped ==
  ASSUME TypeOK, NEW k \in Keys, NEW x \in XTimes, OnPress(k, x)
  PROVE  /\ down_age' \in [Keys -> Age] /\ pending' \in [Keys -> Records \cup {None}]
         /\ orphan' \in [Keys -> XTimes \cup {None}]
<1>1. pending' \in [Keys -> Records \cup {None}]
  BY DEF OnPress, TypeOK, Records
<1>2. orphan' \in [Keys -> XTimes \cup {None}]
  BY DEF OnPress, TypeOK
<1>3. 0 \in Age
  BY AgeAssumption
<1>4. down_age' \in [Keys -> Age]
  BY <1>3 DEF OnPress, TypeOK
<1>5. QED
  BY <1>1, <1>2, <1>4

LEMMA ReleaseTyped ==
  ASSUME TypeOK, NEW k \in Keys, NEW x \in XTimes, OnRelease(k, x)
  PROVE  /\ down_age' \in [Keys -> Age] /\ pending' \in [Keys -> Records \cup {None}]
         /\ orphan' \in [Keys -> XTimes \cup {None}]
<1>1. [x |-> x, left |-> DEBOUNCE] \in Records
  BY TeleopAssumption DEF Records
<1>2. pending' \in [Keys -> Records \cup {None}]
  BY <1>1 DEF OnRelease, TypeOK, Records
<1>3. QED
  BY <1>2 DEF OnRelease, TypeOK

LEMMA StopTyped ==
  ASSUME TypeOK, StopAll
  PROVE  /\ down_age' \in [Keys -> Age] /\ pending' \in [Keys -> Records \cup {None}]
         /\ orphan' \in [Keys -> XTimes \cup {None}]
         /\ Down' = {}
BY DEF StopAll, Orphaned, TypeOK, Records, Down

LEMMA ReleaseDueTyped ==
  ASSUME TypeOK, ReleaseDue
  PROVE  /\ down_age' \in [Keys -> Age] /\ pending' \in [Keys -> Records \cup {None}]
         /\ orphan' \in [Keys -> XTimes \cup {None}]
         /\ Down' = Down \ Due
BY DEF ReleaseDue, TypeOK, Records, Down, Due

LEMMA HandleTyped ==
  ASSUME TypeOK, Handle
  PROVE  /\ down_age' \in [Keys -> Age] /\ pending' \in [Keys -> Records \cup {None}]
         /\ orphan' \in [Keys -> XTimes \cup {None}]
         /\ real' \subseteq Keys /\ queue' \in Seq(Events)
         /\ Head(queue) \in Events
         /\ Head(queue).kind \in {"press", "release"} => Head(queue).key \in Keys /\ Head(queue).x \in XTimes
         /\ UNCHANGED <<outVars, latched, quit, open, xVars, alarmed>>
<1> DEFINE e == Head(queue)
<1>1. queue # <<>> /\ queue \in Seq(Events)
  BY DEF Handle, TypeOK
<1>2. e \in Events /\ queue' \in Seq(Events)
  BY <1>1, HeadTailProperties DEF Handle
<1>3. e.kind \in {"press", "release"} => e.key \in Keys /\ e.x \in XTimes
  BY <1>2 DEF Events, Stop, Event
<1>4. \/ e.kind = "press" /\ OnPress(e.key, e.x)
      \/ e.kind = "release" /\ OnRelease(e.key, e.x)
      \/ e.kind = "stop" /\ StopAll
  BY DEF Handle
<1>5. /\ down_age' \in [Keys -> Age] /\ pending' \in [Keys -> Records \cup {None}]
      /\ orphan' \in [Keys -> XTimes \cup {None}]
  BY <1>3, <1>4, PressTyped, ReleaseTyped, StopTyped
<1>6. UNCHANGED <<outVars, latched, quit, open, xVars, alarmed>>
  BY DEF Handle
<1>7. real' \subseteq Keys
  BY <1>3 DEF Handle, TypeOK
<1> HIDE DEF e
<1>8. QED
  BY <1>2, <1>3, <1>5, <1>6, <1>7 DEF e

-----------------------------------------------------------------------------
(* The inductive invariant.                                                *)

\* the window will take the press half at the head of the queue for what it is
Recognised(e) ==
  \/ pending[e.key] # None /\ pending[e.key].x = e.x /\ pending[e.key].left = DEBOUNCE
  \/ e.key \notin Down /\ orphan[e.key] = e.x

PairsInv ==
  \A i \in DOMAIN queue : Half(queue[i]) =>
    IF i = 1 THEN Recognised(queue[1]) ELSE Belongs(queue[i - 1], queue[i])

PendingIsDown == \A k \in Keys : pending[k] # None => k \in Down

KeysInv == PairsInv /\ PendingIsDown /\ MotionNeedsKeyDown

OutInv ==
  /\ last_out # Zero => zeros_left = ZERO_BURST
  /\ open => wire = last_out \/ (wire = None /\ last_out = Zero)
  /\ alarmed => latched
  /\ latched => last_out = Zero \/ ~open
  /\ ~open => wire \in {Zero, None}

\* what e does to k: it lifts it, or puts it down
Lifts(e, k) == e.kind = "stop" \/ (e.kind = "release" /\ e.key = k)

Puts(e, k) == e.kind = "press" /\ e.key = k

\* a key that no finger holds, or that the window is not told of, ends up
Settles(k) ==
  \/ focused /\ k \in held
  \/ (k \in Down => pending[k] # None) /\ \A i \in DOMAIN queue : ~Puts(queue[i], k)
  \/ \E i \in DOMAIN queue : Lifts(queue[i], k) /\ \A j \in DOMAIN queue : j > i => ~Puts(queue[j], k)

SettleInv == \A k \in Keys : Settles(k)

IInv == TypeOK /\ KeysInv /\ OutInv /\ SettleInv

LEMMA CommandOfNone == Command({}) = Zero
BY DEF Command, Axis, Zero

LEMMA InitHolds == Init => IInv
<1> SUFFICES ASSUME Init PROVE IInv
  OBVIOUS
<1>1. Down = {}
  BY DEF Init, Down
<1>2. queue = <<>> /\ DOMAIN queue = {}
  BY DEF Init
<1>3. OutInv
  BY DEF Init, OutInv
<1>4. SettleInv
  BY <1>1, <1>2 DEF Init, SettleInv, Settles
<1>5. KeysInv
  BY <1>1, <1>2 DEF Init, KeysInv, PairsInv, PendingIsDown, MotionNeedsKeyDown
<1>6. QED
  BY <1>3, <1>4, <1>5, TypeInit DEF IInv

-----------------------------------------------------------------------------
(* Keys: what the operator adds keeps pairs together, and so does handling *)
(* the head of the queue.                                                  *)
LEMMA PairsAppended ==
  ASSUME TypeOK, PairsInv, UNCHANGED coreVars,
         queue' = queue \/ \E es \in Batches : queue' = queue \o es
  PROVE  PairsInv'
<1>1. UNCHANGED <<down_age, pending, orphan>>
  BY DEF coreVars
<1>2. CASE queue' = queue
  BY <1>1, <1>2 DEF PairsInv, Recognised, Down
<1>3. ASSUME NEW es \in Batches, queue' = queue \o es
      PROVE  PairsInv'
  <2>1. queue \in Seq(Events) /\ es \in Seq(Events) /\ Paired(es)
    BY DEF TypeOK, Batches
  <2>2. /\ DOMAIN queue' = 1..(Len(queue) + Len(es))
        /\ \A i \in 1..(Len(queue) + Len(es)) :
             queue'[i] = IF i <= Len(queue) THEN queue[i] ELSE es[i - Len(queue)]
    BY <1>3, <2>1
  <2> SUFFICES ASSUME NEW i \in DOMAIN queue', Half(queue'[i])
               PROVE  IF i = 1 THEN Recognised(queue[1])' ELSE Belongs(queue'[i - 1], queue'[i])
    BY DEF PairsInv
  <2>3. CASE i <= Len(queue)
    <3>1. i \in DOMAIN queue /\ queue'[i] = queue[i] /\ queue'[1] = queue[1]
      BY <2>1, <2>2, <2>3
    <3>2. IF i = 1 THEN Recognised(queue[1]) ELSE Belongs(queue[i - 1], queue[i])
      BY <3>1 DEF PairsInv
    <3>3. i # 1 => queue'[i - 1] = queue[i - 1]
      BY <2>1, <2>2, <2>3
    <3>4. QED
      BY <1>1, <3>1, <3>2, <3>3 DEF Recognised, Down
  <2>4. CASE i > Len(queue)
    <3>1. i - Len(queue) \in DOMAIN es /\ Half(es[i - Len(queue)])
      BY <2>1, <2>2, <2>4
    <3>2. i - Len(queue) > 1 /\ Belongs(es[(i - Len(queue)) - 1], es[i - Len(queue)])
      BY <2>1, <3>1 DEF Paired
    <3>3. i # 1 /\ i - 1 > Len(queue) /\ (i - 1) - Len(queue) = (i - Len(queue)) - 1
      BY <2>1, <2>2, <2>4, <3>2
    <3>4. QED
      BY <2>1, <2>2, <2>4, <3>2, <3>3
  <2>5. QED
    BY <2>1, <2>2, <2>3, <2>4
<1>4. QED
  BY <1>2, <1>3

\* a release remembers its time, for the press half that may come next
LEMMA ReleaseRecognises ==
  ASSUME TypeOK, NEW r, NEW e, Belongs(r, e), r.key \in Keys, r.x \in XTimes, OnRelease(r.key, r.x)
  PROVE  Recognised(e)'
<1>1. CASE r.key \notin Down
  BY <1>1 DEF OnRelease, Recognised, Belongs, TypeOK, Down
<1>2. CASE r.key \in Down
  <2>1. pending'[r.key] = [x |-> r.x, left |-> DEBOUNCE]
    BY <1>2 DEF OnRelease, TypeOK
  <2>2. [x |-> r.x, left |-> DEBOUNCE] # None
    BY TeleopAssumption
  <2>3. QED
    BY <2>1, <2>2 DEF Recognised, Belongs
<1>3. QED
  BY <1>1, <1>2

LEMMA HandleKeepsKeys ==
  ASSUME TypeOK, KeysInv, Handle
  PROVE  KeysInv'
<1> DEFINE e == Head(queue)
<1>1. /\ queue \in Seq(Events) /\ queue # <<>> /\ 1 \in DOMAIN queue /\ e = queue[1]
      /\ DOMAIN queue' = 1..(Len(queue) - 1) /\ Len(queue) \in Nat /\ DOMAIN queue = 1..Len(queue)
      /\ \A i \in 1..(Len(queue) - 1) : queue'[i] = queue[i + 1]
  BY DEF TypeOK, Handle
<1>2. e.kind \in {"press", "release"} => e.key \in Keys /\ e.x \in XTimes
  BY HandleTyped
<1>3. \/ e.kind = "press" /\ OnPress(e.key, e.x) /\ real' = (IF e.by_hand THEN real \cup {e.key} ELSE real)
      \/ e.kind = "release" /\ OnRelease(e.key, e.x) /\ UNCHANGED real
      \/ e.kind = "stop" /\ StopAll /\ real' = {}
  BY DEF Handle
<1> HIDE DEF e
<1>4. PairsInv'
  <2> SUFFICES ASSUME NEW i \in DOMAIN queue', Half(queue'[i])
               PROVE  IF i = 1 THEN Recognised(queue[1])' ELSE Belongs(queue'[i - 1], queue'[i])
    BY DEF PairsInv
  <2>1. i + 1 \in DOMAIN queue /\ i + 1 # 1 /\ queue'[i] = queue[i + 1] /\ Belongs(queue[i], queue[i + 1])
    BY <1>1 DEF KeysInv, PairsInv
  <2>2. CASE i # 1
    BY <1>1, <2>1, <2>2
  <2>3. CASE i = 1
    <3>1. Belongs(e, queue'[1])
      BY <1>1, <2>1, <2>3
    <3>2. e.kind = "release" /\ e.key \in Keys /\ e.x \in XTimes /\ OnRelease(e.key, e.x)
      BY <1>2, <1>3, <3>1 DEF Belongs
    <3>3. Recognised(queue[1])'
      BY <3>1, <3>2, ReleaseRecognises DEF Recognised
    <3>4. QED
      BY <2>3, <3>3
  <2>4. QED
    BY <2>2, <2>3
<1>5. MotionNeedsKeyDown'
  <2>1. CASE e.kind = "press" /\ OnPress(e.key, e.x)
    <3>1. e.by_hand \/ Recognised(e)
      BY <1>1, <2>1 DEF KeysInv, PairsInv, Half
    <3>2. Down' \subseteq Down \cup {e.key}
      BY <1>2, <2>1 DEF OnPress, Down, TypeOK
    <3>3. Recognised(e) => Down' = Down
      BY <1>2, <2>1 DEF OnPress, Down, TypeOK, Recognised, AutoRepeat, HeldThroughStop
    <3>4. real' = IF e.by_hand THEN real \cup {e.key} ELSE real
      BY <1>3, <2>1
    <3>5. QED
      BY <3>1, <3>2, <3>3, <3>4 DEF KeysInv, MotionNeedsKeyDown
  <2>2. CASE e.kind = "release" /\ OnRelease(e.key, e.x)
    BY <1>3, <2>2 DEF OnRelease, Down, KeysInv, MotionNeedsKeyDown
  <2>3. CASE e.kind = "stop" /\ StopAll
    BY <2>3, StopTyped DEF MotionNeedsKeyDown
  <2>4. QED
    BY <1>3, <2>1, <2>2, <2>3
<1>6. PendingIsDown'
  BY <1>2, <1>3, StopTyped DEF OnPress, OnRelease, StopAll, Down, TypeOK, KeysInv, PendingIsDown
<1>7. QED
  BY <1>4, <1>5, <1>6 DEF KeysInv

LEMMA PollKeepsKeys ==
  ASSUME TypeOK, KeysInv, NEW alarm \in BOOLEAN, Poll(alarm)
  PROVE  KeysInv'
<1>1. UNCHANGED queue
  BY DEF Poll
<1>2. ASSUME 1 \in DOMAIN queue, Half(queue[1])
      PROVE  queue[1].key \in Keys /\ Recognised(queue[1])
  BY <1>2, EventsOfKeys DEF KeysInv, PairsInv, Half, TypeOK
<1>3. ASSUME 1 \in DOMAIN queue /\ Half(queue[1]) => Recognised(queue[1])'
      PROVE  PairsInv'
  BY <1>1, <1>3 DEF KeysInv, PairsInv, Recognised
<1>4. CASE StopAll /\ real' = {}
  <2>1. 1 \in DOMAIN queue /\ Half(queue[1]) => Recognised(queue[1])'
    BY <1>1, <1>2, <1>4, StopTyped DEF Recognised, StopAll, Orphaned, KeysInv, PendingIsDown
  <2>2. QED
    BY <1>3, <1>4, <2>1, StopTyped DEF StopAll, KeysInv, PendingIsDown, MotionNeedsKeyDown
<1>5. CASE ReleaseDue /\ real' = real \ Due
  <2>1. 1 \in DOMAIN queue /\ Half(queue[1]) => Recognised(queue[1])'
    BY <1>1, <1>2, <1>5, ReleaseDueTyped, TeleopAssumption DEF Recognised, ReleaseDue, Due
  <2>2. QED
    BY <1>3, <1>5, <2>1, ReleaseDueTyped DEF ReleaseDue, KeysInv, PendingIsDown, MotionNeedsKeyDown
<1>6. QED
  BY <1>4, <1>5 DEF Poll

LEMMA ClockKeepsKeys ==
  ASSUME TypeOK, KeysInv, ClockRuns
  PROVE  KeysInv' /\ Down' = Down /\ \A k \in Keys : (pending[k] = None) = (pending'[k] = None)
<1>1. \A k \in Keys : down_age'[k] = None <=> down_age[k] = None
  BY LaterType DEF ClockRuns, TypeOK
<1>2. Down' = Down
  BY <1>1 DEF Down
<1>3. ~(1 \in DOMAIN queue /\ Half(queue[1]))
  BY DEF ClockRuns, BetweenHalves, Half, TypeOK
<1>4. ASSUME NEW k \in Keys
      PROVE  (pending[k] = None) = (pending'[k] = None)
  <2>1. CASE pending[k] = None
    BY <2>1 DEF ClockRuns
  <2>2. CASE pending[k] # None
    <3>1. pending[k] \in Records
      BY <2>2 DEF TypeOK, Records
    <3>2. pending'[k] = [pending[k] EXCEPT !.left = Less(@)]
      BY <2>2 DEF ClockRuns
    <3>3. pending'[k] \in [x : XTimes, left : Nat]
      BY <3>1, <3>2, TeleopAssumption DEF Records, Less
    <3>4. QED
      BY <2>2, <3>3, TeleopAssumption
  <2>3. QED
    BY <2>1, <2>2
<1>5. KeysInv'
  BY <1>2, <1>3, <1>4 DEF KeysInv, PairsInv, PendingIsDown, MotionNeedsKeyDown, ClockRuns
<1>6. QED
  BY <1>2, <1>4, <1>5

-----------------------------------------------------------------------------
(* A key that is let go of settles: its release is the last of its events. *)
LEMMA AppendKeeps ==
  ASSUME TypeOK, UNCHANGED coreVars, NEW k \in Keys, Settles(k),
         focused /\ k \in held => focused' /\ k \in held',
         NEW es \in Seq(Events), queue' = queue \o es, \A i \in DOMAIN es : ~Puts(es[i], k)
  PROVE  Settles(k)'
<1>1. queue \in Seq(Events) /\ UNCHANGED <<down_age, pending>> /\ Down' = Down
  BY DEF TypeOK, coreVars, Down
<1>2. /\ DOMAIN queue = 1..Len(queue) /\ Len(queue) \in Nat /\ Len(es) \in Nat
      /\ DOMAIN es = 1..Len(es) /\ DOMAIN queue' = 1..(Len(queue) + Len(es))
      /\ \A i \in DOMAIN queue' : queue'[i] = IF i <= Len(queue) THEN queue[i] ELSE es[i - Len(queue)]
  BY <1>1
<1>3. \A i \in DOMAIN queue' : i \notin DOMAIN queue => ~Puts(queue'[i], k)
  BY <1>2
<1>4. \A i \in DOMAIN queue : i \in DOMAIN queue' /\ queue'[i] = queue[i]
  BY <1>2
<1>5. CASE focused /\ k \in held
  BY <1>5 DEF Settles
<1>6. CASE (k \in Down => pending[k] # None) /\ \A i \in DOMAIN queue : ~Puts(queue[i], k)
  <2>1. \A i \in DOMAIN queue' : ~Puts(queue'[i], k)
    BY <1>3, <1>4, <1>6
  <2>2. QED
    BY <1>1, <1>6, <2>1 DEF Settles, Puts
<1>7. ASSUME NEW i \in DOMAIN queue, Lifts(queue[i], k),
             \A j \in DOMAIN queue : j > i => ~Puts(queue[j], k)
      PROVE  Settles(k)'
  <2>1. i \in DOMAIN queue' /\ Lifts(queue'[i], k)
    BY <1>4, <1>7
  <2>2. \A j \in DOMAIN queue' : j > i => ~Puts(queue'[j], k)
    BY <1>3, <1>4, <1>7
  <2>3. QED
    BY <2>1, <2>2 DEF Settles, Puts, Lifts
<1>8. QED
  BY <1>5, <1>6, <1>7 DEF Settles

LEMMA AppendSettles ==
  ASSUME TypeOK, NEW k \in Keys, NEW e \in Events, queue' = queue \o <<e>>, Lifts(e, k)
  PROVE  Settles(k)'
<1>1. queue \in Seq(Events)
  BY DEF TypeOK
<1>2. /\ Len(queue) \in Nat /\ DOMAIN queue' = 1..(Len(queue) + 1) /\ queue'[Len(queue) + 1] = e
  BY <1>1
<1>3. QED
  BY <1>2 DEF Settles, Lifts, Puts

LEMMA UnmovedSettles ==
  ASSUME NEW k \in Keys, Settles(k), UNCHANGED queue,
         k \in Down' => k \in Down /\ (pending[k] # None => pending'[k] # None),
         focused /\ k \in held => focused' /\ k \in held'
  PROVE  Settles(k)'
BY DEF Settles, Lifts, Puts

LEMMA OperatorKeepsSettle ==
  ASSUME TypeOK, SettleInv, OperatorSteps
  PROVE  SettleInv'
<1> SUFFICES ASSUME NEW k \in Keys PROVE Settles(k)'
  BY DEF SettleInv
<1>1. /\ Settles(k) /\ UNCHANGED coreVars /\ focused \in BOOLEAN
      /\ UNCHANGED pending /\ Down' = Down
  BY OperatorAdds DEF SettleInv, TypeOK, coreVars, Down
<1>2. ASSUME NEW j \in Keys, NEW x \in XTimes, FingerDown(j, x)
      PROVE  Settles(k)'
  <2> DEFINE e == Event("press", j, x, TRUE)
  <2>1. e \in Events /\ e.key = j
    BY DEF Event, Events
  <2>2. CASE focused
    <3>1. queue' = queue \o <<e>> /\ focused' /\ held' = held \cup {j}
      BY <1>2, <2>2 DEF FingerDown, Sends
    <3>2. CASE j = k
      BY <3>1, <3>2 DEF Settles
    <3>3. CASE j # k
      <4> HIDE DEF e
      <4>1. <<e>> \in Seq(Events) /\ \A i \in DOMAIN <<e>> : ~Puts(<<e>>[i], k)
        BY <2>1, <3>3 DEF Puts
      <4>2. QED
        BY <1>1, <3>1, <4>1, AppendKeeps
    <3>4. QED
      BY <3>2, <3>3
  <2>3. CASE ~focused
    BY <1>1, <1>2, <2>3, UnmovedSettles DEF FingerDown, Sends
  <2>4. QED
    BY <2>2, <2>3
<1>3. ASSUME NEW j \in Keys, NEW x \in XTimes, FingerUp(j, x)
      PROVE  Settles(k)'
  <2> DEFINE e == Event("release", j, x, TRUE)
  <2>1. e \in Events /\ e.key = j /\ e.kind = "release"
    BY DEF Event, Events
  <2>2. CASE focused
    <3>1. queue' = queue \o <<e>> /\ focused' /\ held' = held \ {j}
      BY <1>3, <2>2 DEF FingerUp, Sends
    <3> HIDE DEF e
    <3>2. CASE j = k
      BY <2>1, <3>1, <3>2, AppendSettles DEF Lifts
    <3>3. CASE j # k
      <4>1. <<e>> \in Seq(Events) /\ \A i \in DOMAIN <<e>> : ~Puts(<<e>>[i], k)
        BY <2>1, <3>3 DEF Puts
      <4>2. QED
        BY <1>1, <3>1, <3>3, <4>1, AppendKeeps
    <3>4. QED
      BY <3>2, <3>3
  <2>3. CASE ~focused
    BY <1>1, <1>3, <2>3, UnmovedSettles DEF FingerUp, Sends
  <2>4. QED
    BY <2>2, <2>3
<1>4. ASSUME NEW j \in Keys, NEW x \in XTimes, AutoRepeats(j, x)
      PROVE  Settles(k)'
  <2> DEFINE r == Event("release", j, x, FALSE)
             p == Event("press", j, x, FALSE)
  <2>1. r \in Events /\ r.key = j /\ p \in Events /\ p.key = j
    BY DEF Event, Events
  <2>2. queue' = queue \o <<r, p>> /\ focused' /\ held' = held /\ j \in held
    BY <1>4 DEF AutoRepeats, Sends, xVars
  <2> HIDE DEF r, p
  <2>3. CASE j = k
    BY <2>2, <2>3 DEF Settles
  <2>4. CASE j # k
    <3>1. <<r, p>> \in Seq(Events) /\ \A i \in DOMAIN <<r, p>> : ~Puts(<<r, p>>[i], k)
      BY <2>1, <2>4 DEF Puts
    <3>2. QED
      BY <1>1, <2>2, <3>1, AppendKeeps
  <2>5. QED
    BY <2>3, <2>4
<1>5. CASE Space \/ FocusOut
  <2>1. queue' = queue \o <<Stop>>
    BY <1>5 DEF Space, FocusOut, Sends
  <2>2. QED
    BY <2>1, StopFields, AppendSettles DEF Lifts
<1>6. CASE FocusIn
  BY <1>1, <1>6, UnmovedSettles DEF FocusIn
<1>7. QED
  BY <1>2, <1>3, <1>4, <1>5, <1>6 DEF OperatorSteps

LEMMA HandleKeepsSettle ==
  ASSUME TypeOK, SettleInv, Handle
  PROVE  SettleInv'
<1> DEFINE e == Head(queue)
<1>1. /\ Len(queue) \in Nat /\ 1 \in DOMAIN queue /\ e = queue[1] /\ DOMAIN queue = 1..Len(queue)
      /\ DOMAIN queue' = 1..(Len(queue) - 1)
      /\ \A i \in 1..(Len(queue) - 1) : queue'[i] = queue[i + 1]
  BY DEF TypeOK, Handle
<1>2. e.kind \in {"press", "release"} => e.key \in Keys /\ e.x \in XTimes
  BY HandleTyped
<1>3. /\ \/ e.kind = "press" /\ OnPress(e.key, e.x)
         \/ e.kind = "release" /\ OnRelease(e.key, e.x)
         \/ e.kind = "stop" /\ StopAll
      /\ UNCHANGED <<focused, held>>
  BY DEF Handle, xVars
<1> HIDE DEF e
<1> SUFFICES ASSUME NEW k \in Keys PROVE Settles(k)'
  BY DEF SettleInv
<1>4. Settles(k)
  BY DEF SettleInv
<1>5. ASSUME Lifts(e, k)
      PROVE  k \in Down' => pending'[k] # None
  <2>1. CASE e.kind = "stop"
    BY <1>3, <2>1, StopTyped
  <2>2. CASE e.kind = "release" /\ e.key = k
    <3>1. [x |-> e.x, left |-> DEBOUNCE] # None
      BY <1>2, <2>2, TeleopAssumption
    <3>2. QED
      BY <1>3, <2>2, <3>1 DEF OnRelease, Down, TypeOK
  <2>3. QED
    BY <1>5, <2>1, <2>2 DEF Lifts
<1>6. ASSUME ~Puts(e, k), k \in Down => pending[k] # None
      PROVE  k \in Down' => pending'[k] # None
  <2>1. CASE Lifts(e, k)
    BY <1>5, <2>1
  <2>2. CASE ~Lifts(e, k)
    <3>1. e.key # k /\ e.key \in Keys
      BY <1>2, <1>3, <1>6, <2>2 DEF Lifts, Puts
    <3>2. UNCHANGED <<down_age[k], pending[k]>>
      BY <1>2, <1>3, <2>2, <3>1 DEF OnPress, OnRelease, TypeOK, Lifts
    <3>3. QED
      BY <1>6, <3>2 DEF Down
  <2>3. QED
    BY <2>1, <2>2
<1>7. CASE focused /\ k \in held
  BY <1>3, <1>7 DEF Settles
<1>8. CASE (k \in Down => pending[k] # None) /\ \A i \in DOMAIN queue : ~Puts(queue[i], k)
  <2>1. \A i \in DOMAIN queue' : ~Puts(queue'[i], k)
    BY <1>1, <1>8
  <2>2. k \in Down' => pending'[k] # None
    BY <1>1, <1>6, <1>8
  <2>3. QED
    BY <2>1, <2>2 DEF Settles, Puts
<1>9. ASSUME NEW i \in DOMAIN queue, Lifts(queue[i], k),
             \A j \in DOMAIN queue : j > i => ~Puts(queue[j], k)
      PROVE  Settles(k)'
  <2>1. CASE i = 1
    <3>1. k \in Down' => pending'[k] # None
      BY <1>1, <1>5, <1>9, <2>1
    <3>2. \A j \in DOMAIN queue' : ~Puts(queue'[j], k)
      BY <1>1, <1>9, <2>1
    <3>3. QED
      BY <3>1, <3>2 DEF Settles, Puts
  <2>2. CASE i # 1
    <3>1. i - 1 \in DOMAIN queue' /\ Lifts(queue'[i - 1], k)
      BY <1>1, <1>9, <2>2
    <3>2. \A j \in DOMAIN queue' : j > i - 1 => ~Puts(queue'[j], k)
      BY <1>1, <1>9, <2>2
    <3>3. QED
      BY <3>1, <3>2 DEF Settles, Puts, Lifts
  <2>3. QED
    BY <2>1, <2>2
<1>10. QED
  BY <1>4, <1>7, <1>8, <1>9 DEF Settles

LEMMA PollKeepsSettle ==
  ASSUME TypeOK, KeysInv, SettleInv, NEW alarm \in BOOLEAN, Poll(alarm)
  PROVE  SettleInv'
<1> SUFFICES ASSUME NEW k \in Keys PROVE Settles(k)'
  BY DEF SettleInv
<1>1. UNCHANGED <<queue, focused, held>>
  BY DEF Poll, xVars
<1>2. k \in Down' => k \in Down /\ (pending[k] # None => pending'[k] # None)
  <2>1. CASE StopAll
    BY <2>1, StopTyped
  <2>2. CASE ReleaseDue
    BY <2>2, ReleaseDueTyped DEF ReleaseDue
  <2>3. QED
    BY <2>1, <2>2 DEF Poll
<1>3. Settles(k)
  BY DEF SettleInv
<1>4. QED
  BY <1>1, <1>2, <1>3, UnmovedSettles

LEMMA ClockKeepsSettle ==
  ASSUME TypeOK, KeysInv, SettleInv, ClockRuns
  PROVE  SettleInv'
<1> SUFFICES ASSUME NEW k \in Keys PROVE Settles(k)'
  BY DEF SettleInv
<1>1. Settles(k) /\ UNCHANGED <<queue, focused, held>>
  BY DEF SettleInv, ClockRuns, xVars
<1>2. QED
  BY <1>1, ClockKeepsKeys, UnmovedSettles

-----------------------------------------------------------------------------
(* What is on the wire.                                                    *)
\* a quit, an alarm or an expired hold leaves no key down
LEMMA StoppedPoll ==
  ASSUME TypeOK, NEW alarm \in BOOLEAN, Poll(alarm), StopsFor(alarm)
  PROVE  Commanded = Zero
<1>1. Down' = {}
  BY StopTyped DEF Poll
<1>2. QED
  BY <1>1, CommandOfNone DEF Commanded

LEMMA PollKeepsOut ==
  ASSUME TypeOK, OutInv, NEW alarm \in BOOLEAN, Poll(alarm)
  PROVE  OutInv'
<1>1. Commanded \in Twists
  BY CommandTyped DEF Commanded, Zero, Twists
<1>2. /\ open /\ Publish(Commanded) /\ latched' = (latched \/ alarm) /\ alarmed' = (alarmed \/ alarm)
      /\ open' = ~(quit /\ zeros_left' = 0)
      /\ latched \in BOOLEAN /\ alarmed \in BOOLEAN /\ quit \in BOOLEAN
  BY DEF Poll, TypeOK
<1> DEFINE cmd == Commanded
<1>3. (quit \/ latched') => cmd = Zero
  BY StoppedPoll DEF Commanded, StopsFor
<1> HIDE DEF cmd
<1>4. /\ (last_out' = last_out /\ wire' = wire) \/ (wire' = last_out' /\ wire' \in Twists)
      /\ last_out' # Zero => zeros_left' = ZERO_BURST
      /\ cmd = Zero => last_out' = Zero
  BY <1>1, <1>2, Published DEF OutInv, cmd
<1>5. open' = TRUE \/ quit
  BY <1>2
<1>6. QED
  BY <1>2, <1>3, <1>4, <1>5 DEF OutInv

LEMMA CrashKeepsOut ==
  ASSUME TypeOK, OutInv, Crash
  PROVE  OutInv'
BY DEF OutInv, Crash, Owed, TypeOK

LEMMA PollTyped ==
  ASSUME TypeOK, NEW alarm \in BOOLEAN, Poll(alarm)
  PROVE  TypeOK'
<1>1. Commanded \in Twists
  BY CommandTyped DEF Commanded, Zero, Twists
<1>2. /\ last_out' \in Twists /\ zeros_left' \in 0..ZERO_BURST /\ pub_left' \in 0..PERIOD
      /\ wire' \in Twists \cup {None}
  BY <1>1, Published DEF Poll, TypeOK, Twists
<1>3. /\ down_age' \in [Keys -> Age] /\ pending' \in [Keys -> Records \cup {None}]
      /\ orphan' \in [Keys -> XTimes \cup {None}]
      /\ real' \subseteq Keys
  BY StopTyped, ReleaseDueTyped DEF Poll, TypeOK
<1>4. {latched', quit', open', focused', alarmed'} \subseteq BOOLEAN
  BY DEF Poll, xVars, TypeOK
<1>5. held' \subseteq Keys /\ queue' \in Seq(Events)
  BY DEF Poll, xVars, TypeOK
<1>6. QED
  BY <1>2, <1>3, <1>4, <1>5 DEF TypeOK, Twists, Records

LEMMA ClockTyped ==
  ASSUME TypeOK, ClockRuns
  PROVE  TypeOK'
<1>1. down_age' \in [Keys -> Age]
  <2>1. \A k \in Keys : down_age[k] \in Age
    BY DEF TypeOK
  <2>2. \A k \in Keys : Later(down_age[k], 1) \in Age
    BY <2>1, AgeAssumption DEF Later
  <2>3. QED
    BY <2>2 DEF ClockRuns
<1>2. \A r \in Records : [r EXCEPT !.left = Less(@)] \in Records
  BY TeleopAssumption DEF Records, Less
<1>3. pending' \in [Keys -> Records \cup {None}]
  BY <1>2 DEF ClockRuns, TypeOK, Records
<1>4. pub_left' \in 0..PERIOD
  BY TeleopAssumption DEF ClockRuns, TypeOK, Less
<1>5. QED
  BY <1>1, <1>3, <1>4 DEF ClockRuns, TypeOK, Records, xVars

LEMMA OperatorTyped ==
  ASSUME TypeOK, OperatorSteps
  PROVE  TypeOK'
<1>1. queue' \in Seq(Events)
  BY OperatorAdds, QueueTyped
<1>2. QED
  BY <1>1, OperatorAdds DEF TypeOK, coreVars, outVars

LEMMA HandlePreservesType ==
  ASSUME TypeOK, Handle
  PROVE  TypeOK'
BY HandleTyped DEF TypeOK, Records, outVars, xVars

-----------------------------------------------------------------------------
LEMMA StepKeepsIInv == IInv /\ [Next]_vars => IInv'
<1> SUFFICES ASSUME IInv, [Next]_vars PROVE IInv'
  OBVIOUS
<1> USE DEF IInv
<1>1. CASE OperatorSteps
  <2>1. KeysInv'
    <3>1. UNCHANGED <<real, pending>> /\ Down' = Down
      BY <1>1, OperatorAdds DEF coreVars, Down
    <3>2. PairsInv'
      BY <1>1, OperatorAdds, PairsAppended DEF KeysInv
    <3>3. QED
      BY <3>1, <3>2 DEF KeysInv, PendingIsDown, MotionNeedsKeyDown
  <2>2. OutInv'
    BY <1>1, OperatorAdds DEF OutInv, outVars
  <2>3. QED
    BY <1>1, <2>1, <2>2, OperatorTyped, OperatorKeepsSettle
<1>2. CASE Handle
  <2>1. OutInv'
    BY <1>2 DEF Handle, OutInv, outVars
  <2>2. QED
    BY <1>2, <2>1, HandlePreservesType, HandleKeepsKeys, HandleKeepsSettle
<1>3. ASSUME NEW alarm \in BOOLEAN, Poll(alarm)
      PROVE  IInv'
  BY <1>3, PollTyped, PollKeepsKeys, PollKeepsOut, PollKeepsSettle
<1>4. CASE ClockRuns
  <2>1. OutInv'
    BY <1>4 DEF ClockRuns, OutInv
  <2>2. QED
    BY <1>4, <2>1, ClockTyped, ClockKeepsKeys, ClockKeepsSettle
<1>5. CASE Quit \/ Crash \/ UNCHANGED vars
  <2>1. UNCHANGED <<coreVars, focused, held, queue, real>>
    BY <1>5 DEF Quit, Crash, vars, xVars
  <2>2. Down' = Down /\ UNCHANGED <<down_age, pending, orphan>>
    BY <2>1 DEF coreVars, Down
  <2>3. KeysInv'
    BY <2>1, <2>2 DEF KeysInv, PairsInv, PendingIsDown, MotionNeedsKeyDown, Recognised
  <2>4. SettleInv'
    BY <2>1, <2>2, UnmovedSettles DEF SettleInv
  <2>5. OutInv'
    <3>1. CASE Crash
      BY <3>1, CrashKeepsOut
    <3>2. CASE Quit \/ UNCHANGED vars
      BY <3>2 DEF Quit, vars, outVars, OutInv
    <3>3. QED
      BY <1>5, <3>1, <3>2
  <2>6. TypeOK'
    <3>1. /\ wire' \in Twists \cup {None} /\ {latched', quit', open', alarmed'} \subseteq BOOLEAN
          /\ UNCHANGED <<last_out, zeros_left, pub_left>>
      <4>1. wire \in Twists \cup {None} /\ Zero \in Twists
        BY DEF TypeOK, Zero, Twists
      <4>2. {latched, quit, open, alarmed} \subseteq BOOLEAN
        BY DEF TypeOK
      <4>3. CASE Quit \/ UNCHANGED vars
        BY <4>1, <4>2, <4>3 DEF Quit, vars, outVars
      <4>4. CASE Crash
        BY <4>1, <4>2, <4>4 DEF Crash
      <4>5. QED
        BY <1>5, <4>3, <4>4
    <3>2. QED
      BY <2>1, <2>2, <3>1 DEF TypeOK, Twists
  <2>7. QED
    BY <2>3, <2>4, <2>5, <2>6
<1>6. QED
  BY <1>1, <1>2, <1>3, <1>4, <1>5 DEF Next, OperatorSteps

(* Every reachable state of the window has its events in pairs, its keys   *)
(* put down by hand, and its zeros owed.                                   *)
THEOREM TeleopInvariant == Spec => []IInv
BY InitHolds, StepKeepsIInv, PTL DEF Spec

(* The window's state stays in its types.                                  *)
THEOREM TeleopTypeCorrect == Spec => []TypeOK
BY TeleopInvariant, PTL DEF IInv

(* No key counts as down but for a finger that put it down since the last  *)
(* stop and its last release, however auto-repeat interleaves with stops.  *)
THEOREM KeyDownNeeded == Spec => []MotionNeedsKeyDown
<1>1. IInv => MotionNeedsKeyDown
  BY DEF IInv, KeysInv
<1>2. QED
  BY <1>1, TeleopInvariant, PTL

(* No key sticks: its release is pending, queued, or yet to come.          *)
THEOREM KeysSettle == Spec => []NoStuckKey
<1>1. IInv => NoStuckKey
  BY DEF IInv, SettleInv, Settles, NoStuckKey, Down, Lifts
<1>2. QED
  BY <1>1, TeleopInvariant, PTL

(* The burst of zeros is owed as long as the robot is told to move, and a  *)
(* window that closes has sent a zero last.                                *)
THEOREM LeavesZero == Spec => []EndsInZero
<1>1. IInv => EndsInZero
  BY DEF IInv, OutInv, EndsInZero
<1>2. QED
  BY <1>1, TeleopInvariant, PTL

(* A window that was told of a latched bridge never moves the robot again. *)
THEOREM LatchFinal == Spec => []LatchIsFinal
<1>1. IInv => LatchIsFinal
  BY DEF IInv, OutInv, LatchIsFinal, TypeOK
<1>2. QED
  BY <1>1, TeleopInvariant, PTL

-----------------------------------------------------------------------------
(* A press by hand carries an X time that nothing else remembers.          *)
Hand(e) == e.kind = "press" /\ e.by_hand

Remembered ==
  {orphan[k] : k \in Keys} \cup {pending[k].x : k \in {j \in Keys : pending[j] # None}}

FreshInv ==
  \A i \in DOMAIN queue : Hand(queue[i]) =>
    /\ queue[i].x \notin Remembered
    /\ \A j \in DOMAIN queue : j # i => queue[j].x # queue[i].x

\* what is added differs from every press by hand that waits
Distinct(es) ==
  \A i \in DOMAIN es :
    /\ Hand(es[i]) => Len(es) = 1 /\ es[i].x \notin Remembered
    /\ \A j \in DOMAIN queue : Hand(queue[j]) \/ Hand(es[i]) => es[i].x # queue[j].x

LEMMA HandFields ==
  ASSUME TypeOK, NEW i \in DOMAIN queue, Hand(queue[i])
  PROVE  queue[i].x \in XTimes /\ queue[i].x # None
BY EventsOfKeys, TeleopAssumption DEF TypeOK, Hand

LEMMA OperatorIsDistinct ==
  ASSUME TypeOK, OperatorSteps
  PROVE  queue' = queue \/ \E es \in Seq(Events) : queue' = queue \o es /\ Distinct(es)
<1>1. ASSUME NEW k \in Keys, NEW x \in XTimes, NEW kind \in {"press", "release"}, x \notin InUse
      PROVE  <<Event(kind, k, x, TRUE)>> \in Seq(Events) /\ Distinct(<<Event(kind, k, x, TRUE)>>)
  <2> DEFINE e == Event(kind, k, x, TRUE)
  <2>1. e \in Events /\ e.x = x
    BY DEF Event, Events
  <2> HIDE DEF e
  <2>2. <<e>> \in Seq(Events) /\ DOMAIN <<e>> = {1} /\ <<e>>[1] = e /\ Len(<<e>>) = 1
    BY <2>1
  <2>3. QED
    BY <1>1, <2>1, <2>2 DEF Distinct, InUse, Remembered, e
<1>2. ASSUME NEW k \in Keys, NEW x \in XTimes, FingerDown(k, x) \/ FingerUp(k, x)
      PROVE  queue' = queue \/ \E es \in Seq(Events) : queue' = queue \o es /\ Distinct(es)
  BY <1>1, <1>2 DEF FingerDown, FingerUp, Sends
<1>3. ASSUME NEW k \in Keys, NEW x \in XTimes, AutoRepeats(k, x)
      PROVE  queue' = queue \/ \E es \in Seq(Events) : queue' = queue \o es /\ Distinct(es)
  <2> DEFINE r == Event("release", k, x, FALSE)
             p == Event("press", k, x, FALSE)
  <2>1. r \in Events /\ r.x = x /\ ~Hand(r) /\ p \in Events /\ p.x = x /\ ~Hand(p)
    BY DEF Event, Events, Hand
  <2>2. (queue' = queue \/ queue' = queue \o <<r, p>>) /\ x \notin InUse
    BY <1>3 DEF AutoRepeats, Sends
  <2> HIDE DEF r, p
  <2>3. <<r, p>> \in Seq(Events) /\ DOMAIN <<r, p>> = {1, 2} /\ <<r, p>>[1] = r /\ <<r, p>>[2] = p
    BY <2>1
  <2>4. Distinct(<<r, p>>)
    BY <2>1, <2>2, <2>3 DEF Distinct, InUse
  <2>5. QED
    BY <2>2, <2>3, <2>4
<1>4. CASE Space \/ FocusOut
  <2>1. queue' = queue \/ queue' = queue \o <<Stop>>
    BY <1>4 DEF Space, FocusOut, Sends
  <2>2. Stop \in Events /\ Stop.x = None /\ ~Hand(Stop)
    BY DEF Stop, Event, Events, Hand
  <2>3. <<Stop>> \in Seq(Events) /\ DOMAIN <<Stop>> = {1} /\ <<Stop>>[1] = Stop
    BY <2>2
  <2>4. Distinct(<<Stop>>)
    BY <2>2, <2>3, HandFields DEF Distinct
  <2>5. QED
    BY <2>1, <2>3, <2>4
<1>5. QED
  BY <1>2, <1>3, <1>4 DEF OperatorSteps, FocusIn

LEMMA OperatorKeepsFresh ==
  ASSUME TypeOK, FreshInv, OperatorSteps
  PROVE  FreshInv'
<1>1. Remembered' = Remembered
  BY OperatorAdds DEF Remembered, coreVars
<1>2. CASE queue' = queue
  BY <1>1, <1>2 DEF FreshInv
<1>3. ASSUME NEW es \in Seq(Events), queue' = queue \o es, Distinct(es)
      PROVE  FreshInv'
  <2>1. /\ Len(queue) \in Nat /\ Len(es) \in Nat /\ DOMAIN queue = 1..Len(queue) /\ DOMAIN es = 1..Len(es)
        /\ DOMAIN queue' = 1..(Len(queue) + Len(es))
        /\ \A i \in DOMAIN queue' : queue'[i] = IF i <= Len(queue) THEN queue[i] ELSE es[i - Len(queue)]
    BY <1>3 DEF TypeOK
  <2> SUFFICES ASSUME NEW i \in DOMAIN queue', Hand(queue'[i])
               PROVE  /\ queue'[i].x \notin Remembered
                      /\ \A j \in DOMAIN queue' : j # i => queue'[j].x # queue'[i].x
    BY <1>1 DEF FreshInv
  <2>2. CASE i <= Len(queue)
    <3>1. i \in DOMAIN queue /\ queue'[i] = queue[i]
      BY <2>1, <2>2
    <3>2. ASSUME NEW j \in DOMAIN queue', j > Len(queue)
          PROVE  queue'[j].x # queue'[i].x
      BY <1>3, <2>1, <3>1, <3>2 DEF Distinct
    <3>3. ASSUME NEW j \in DOMAIN queue', j <= Len(queue), j # i
          PROVE  queue'[j].x # queue'[i].x
      BY <2>1, <3>1, <3>3 DEF FreshInv
    <3>4. QED
      BY <2>1, <3>1, <3>2, <3>3 DEF FreshInv
  <2>3. CASE i > Len(queue)
    <3>1. i - Len(queue) \in DOMAIN es /\ queue'[i] = es[i - Len(queue)]
      BY <2>1, <2>3
    <3>2. Len(es) = 1 /\ queue'[i].x \notin Remembered
      BY <1>3, <3>1 DEF Distinct
    <3>3. ASSUME NEW j \in DOMAIN queue', j # i
          PROVE  queue'[j].x # queue'[i].x
      <4>1. j \in DOMAIN queue /\ queue'[j] = queue[j]
        BY <2>1, <2>3, <3>2, <3>3
      <4>2. QED
        BY <1>3, <3>1, <4>1 DEF Distinct
    <3>4. QED
      BY <3>2, <3>3
  <2>4. QED
    BY <2>1, <2>2, <2>3
<1>4. QED
  BY <1>2, <1>3, OperatorIsDistinct

\* the head's X time is all that handling it can add to what is remembered
LEMMA HandleRemembers ==
  ASSUME TypeOK, Handle
  PROVE  Remembered' \subseteq Remembered \cup {Head(queue).x, None}
<1> DEFINE e == Head(queue)
<1>1. e.kind \in {"press", "release"} => e.key \in Keys /\ e.x \in XTimes
  BY HandleTyped
<1>2. \/ e.kind = "press" /\ OnPress(e.key, e.x)
      \/ e.kind = "release" /\ OnRelease(e.key, e.x)
      \/ e.kind = "stop" /\ StopAll
  BY DEF Handle
<1> HIDE DEF e
<1>3. CASE e.kind = "press" /\ OnPress(e.key, e.x)
  BY <1>1, <1>3 DEF OnPress, Remembered, TypeOK
<1>4. CASE e.kind = "release" /\ OnRelease(e.key, e.x)
  <2>1. \A k \in Keys : orphan'[k] = orphan[k] \/ orphan'[k] = e.x
    BY <1>1, <1>4 DEF OnRelease, TypeOK
  <2>2. \A k \in Keys : pending'[k] = pending[k] \/ pending'[k] = [x |-> e.x, left |-> DEBOUNCE]
    BY <1>1, <1>4 DEF OnRelease, TypeOK
  <2>3. QED
    BY <2>1, <2>2 DEF Remembered, e
<1>5. CASE StopAll
  BY <1>5 DEF StopAll, Orphaned, Remembered
<1>6. QED
  BY <1>2, <1>3, <1>4, <1>5 DEF e

LEMMA HandleKeepsFresh ==
  ASSUME TypeOK, FreshInv, Handle
  PROVE  FreshInv'
<1>1. /\ Len(queue) \in Nat /\ 1 \in DOMAIN queue /\ Head(queue) = queue[1] /\ DOMAIN queue = 1..Len(queue)
      /\ DOMAIN queue' = 1..(Len(queue) - 1)
      /\ \A i \in 1..(Len(queue) - 1) : queue'[i] = queue[i + 1]
  BY DEF TypeOK, Handle
<1> SUFFICES ASSUME NEW i \in DOMAIN queue', Hand(queue'[i])
             PROVE  /\ queue'[i].x \notin Remembered'
                    /\ \A j \in DOMAIN queue' : j # i => queue'[j].x # queue'[i].x
  BY DEF FreshInv
<1>2. i + 1 \in DOMAIN queue /\ queue'[i] = queue[i + 1] /\ i + 1 # 1
  BY <1>1
<1>3. queue[i + 1].x \notin Remembered /\ queue[1].x # queue[i + 1].x /\ queue[i + 1].x # None
  BY <1>1, <1>2, HandFields DEF FreshInv
<1>4. ASSUME NEW j \in DOMAIN queue', j # i
      PROVE  queue'[j].x # queue'[i].x
  <2>1. j + 1 \in DOMAIN queue /\ queue'[j] = queue[j + 1] /\ j + 1 # i + 1
    BY <1>1, <1>4
  <2>2. QED
    BY <1>2, <2>1 DEF FreshInv
<1>5. QED
  BY <1>1, <1>2, <1>3, <1>4, HandleRemembers

LEMMA PollRemembers ==
  ASSUME TypeOK, NEW alarm \in BOOLEAN, Poll(alarm)
  PROVE  Remembered' \subseteq Remembered \cup {None}
<1>1. CASE StopAll
  BY <1>1 DEF StopAll, Orphaned, Remembered
<1>2. CASE ReleaseDue
  BY <1>2 DEF ReleaseDue, Remembered
<1>3. QED
  BY <1>1, <1>2 DEF Poll

LEMMA ClockRemembers ==
  ASSUME TypeOK, KeysInv, ClockRuns
  PROVE  Remembered' \subseteq Remembered
<1>1. ASSUME NEW k \in Keys, pending'[k] # None
      PROVE  pending[k] # None /\ pending'[k].x = pending[k].x
  <2>1. pending[k] # None /\ pending[k] \in Records
    BY <1>1 DEF ClockRuns, TypeOK, Records
  <2>2. pending'[k] = [pending[k] EXCEPT !.left = Less(@)]
    BY <2>1 DEF ClockRuns
  <2>3. QED
    BY <2>1, <2>2 DEF Records
<1>2. QED
  BY <1>1 DEF Remembered, ClockRuns

LEMMA StepKeepsFresh == IInv /\ FreshInv /\ [Next]_vars => FreshInv'
<1> SUFFICES ASSUME IInv, FreshInv, [Next]_vars PROVE FreshInv'
  OBVIOUS
<1> USE DEF IInv
<1>1. CASE OperatorSteps
  BY <1>1, OperatorKeepsFresh
<1>2. CASE Handle
  BY <1>2, HandleKeepsFresh
<1>3. ASSUME UNCHANGED queue, Remembered' \subseteq Remembered \cup {None}
      PROVE  FreshInv'
  BY <1>3, HandFields DEF FreshInv
<1>4. ASSUME NEW alarm \in BOOLEAN, Poll(alarm)
      PROVE  FreshInv'
  BY <1>3, <1>4, PollRemembers DEF Poll
<1>5. CASE ClockRuns
  BY <1>3, <1>5, ClockRemembers DEF ClockRuns
<1>6. CASE Quit \/ Crash \/ UNCHANGED vars
  BY <1>3, <1>6 DEF Quit, Crash, vars, coreVars, Remembered
<1>7. QED
  BY <1>1, <1>2, <1>4, <1>5, <1>6 DEF Next, OperatorSteps

LEMMA HandGoesDown ==
  IInv /\ FreshInv /\ [Next]_vars => \A k \in Keys : k \in real' /\ k \notin real => k \in Down'
<1> SUFFICES ASSUME IInv, FreshInv, [Next]_vars, NEW k \in Keys, k \in real', k \notin real
             PROVE  k \in Down'
  OBVIOUS
<1> DEFINE e == Head(queue)
<1>1. Handle
  BY OperatorAdds DEF Next, OperatorSteps, IInv, Quit, Crash, ClockRuns, vars, Poll
<1>2. e.kind = "press" /\ e.by_hand /\ e.key = k /\ OnPress(k, e.x)
  BY <1>1 DEF Handle
<1>3. e.x \notin Remembered
  BY <1>1, <1>2 DEF Handle, FreshInv, IInv, TypeOK, Hand
<1> HIDE DEF e
<1>4. ~AutoRepeat(k, e.x) /\ ~HeldThroughStop(k, e.x)
  BY <1>3 DEF Remembered, AutoRepeat, HeldThroughStop
<1>5. 0 # None
  BY AgeAssumption
<1>6. QED
  BY <1>2, <1>4, <1>5 DEF OnPress, Down, IInv, TypeOK

(* A press by hand is obeyed: the window takes it for an auto-repeat on no *)
(* memory of an earlier release.                                           *)
THEOREM HandObeyed == Spec => HandIsObeyed
<1>1. Init => FreshInv
  BY DEF Init, FreshInv
<1>2. QED
  BY <1>1, StepKeepsFresh, HandGoesDown, TeleopInvariant, PTL DEF Spec, HandIsObeyed
=============================================================================
