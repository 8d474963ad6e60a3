----------------------------- MODULE ProbeProofs ------------------------------
(***************************************************************************)
(* The probes: a stage of go2_sport_probe for any telemetry, handset,      *)
(* failure and length of a stream; the reading of go2_torque_probe; and    *)
(* the verdict of go2_unload_probe, whatever its windows and thresholds.   *)
(***************************************************************************)
EXTENDS SportProbe, TorqueProbe, UnloadProbe, AgesProofs,
  FiniteSetTheorems, SequenceTheorems, WellFoundedInduction, TLAPS

-----------------------------------------------------------------------------
(* Induction on a set of numbers, which needs no operator as a parameter.  *)
LEMMA SetInduction ==
  ASSUME NEW S, 0 \in S, \A n \in Nat : n \in S => n + 1 \in S
  PROVE  Nat \subseteq S
<1> DEFINE T == Nat \ S
<1>1. SUFFICES ASSUME T # {} PROVE FALSE
  OBVIOUS
<1>2. PICK m \in T : \A k \in T : ~(<<k, m>> \in OpToRel(<, Nat))
  BY <1>1, NatLessThanWellFounded, WFMin
<1>3. m # 0 /\ m - 1 \in Nat /\ (m - 1) + 1 = m
  OBVIOUS
<1>4. m - 1 \in T
  BY <1>3
<1>5. <<m - 1, m>> \in OpToRel(<, Nat)
  BY <1>3 DEF OpToRel
<1>6. QED
  BY <1>2, <1>4, <1>5

(* What FlattenSeq joins, up to each of its sequences: the partial joins   *)
(* exist, are sequences, and each is a prefix of the next.                 *)
Joins(seqs, n, f) ==
  f = [i \in 1..n |-> IF i = 1 THEN seqs[i] ELSE f[i - 1] \o seqs[i]]

LEMMA JoinsExist ==
  ASSUME NEW seqs, NEW n \in Nat
  PROVE  \E f : Joins(seqs, n, f)
<1> DEFINE S == {k \in Nat : \E f : Joins(seqs, k, f)}
<1>1. 0 \in S
  <2>1. Joins(seqs, 0, [i \in 1..0 |-> <<>>])
    BY DEF Joins
  <2>2. QED
    BY <2>1
<1>2. ASSUME NEW k \in Nat, k \in S PROVE k + 1 \in S
  <2>1. PICK f : Joins(seqs, k, f)
    BY <1>2
  <2> DEFINE last == IF k + 1 = 1 THEN seqs[k + 1] ELSE f[k] \o seqs[k + 1]
             g == [i \in 1..k + 1 |-> IF i = k + 1 THEN last ELSE f[i]]
  <2>2. ASSUME NEW i \in 1..k + 1
        PROVE  g[i] = IF i = 1 THEN seqs[i] ELSE g[i - 1] \o seqs[i]
    <3>1. CASE i = k + 1
      <4>1. i # 1 => i - 1 \in 1..k + 1 /\ i - 1 # k + 1 /\ i - 1 = k
        BY <3>1
      <4>2. QED
        BY <3>1, <4>1
    <3>2. CASE i # k + 1
      <4>1. /\ i \in 1..k /\ g[i] = f[i]
            /\ i # 1 => i - 1 \in 1..k + 1 /\ i - 1 # k + 1 /\ g[i - 1] = f[i - 1]
        BY <3>2
      <4>2. f[i] = IF i = 1 THEN seqs[i] ELSE f[i - 1] \o seqs[i]
        BY <2>1, <4>1 DEF Joins
      <4>3. QED
        BY <4>1, <4>2
    <3>3. QED
      BY <3>1, <3>2
  <2>3. Joins(seqs, k + 1, g)
    <3> HIDE DEF g
    <3>1. g = [i \in 1..k + 1 |-> g[i]]
      BY DEF g
    <3>2. QED
      BY <2>2, <3>1 DEF Joins
  <2>4. QED
    BY <2>3
<1>3. Nat \subseteq S
  <2> HIDE DEF S
  <2>1. QED
    BY <1>1, <1>2, SetInduction
<1>4. QED
  BY <1>3

LEMMA JoinsTyped ==
  ASSUME NEW T, NEW n \in Nat, NEW seqs, \A i \in 1..n : seqs[i] \in Seq(T),
         NEW f, Joins(seqs, n, f)
  PROVE  \A i \in 1..n : f[i] \in Seq(T)
<1> DEFINE S == {k \in Nat : k \in 1..n => f[k] \in Seq(T)}
<1>1. 0 \in S
  OBVIOUS
<1>2. ASSUME NEW k \in Nat, k \in S, k + 1 \in 1..n PROVE f[k + 1] \in Seq(T)
  <2>1. f[k + 1] = IF k + 1 = 1 THEN seqs[k + 1] ELSE f[(k + 1) - 1] \o seqs[k + 1]
    BY <1>2 DEF Joins
  <2>2. CASE k = 0
    BY <1>2, <2>1, <2>2
  <2>3. CASE k # 0
    <3>1. k \in 1..n /\ (k + 1) - 1 = k /\ k + 1 # 1 /\ f[k] \in Seq(T)
      BY <1>2, <2>3
    <3>2. QED
      BY <1>2, <2>1, <3>1, ConcatProperties
  <2>4. QED
    BY <2>2, <2>3
<1>3. Nat \subseteq S
  <2>1. \A k \in Nat : k \in S => k + 1 \in S
    BY <1>2
  <2> HIDE DEF S
  <2>2. QED
    BY <1>1, <2>1, SetInduction
<1>4. QED
  BY <1>3

\* t is s and what came after it
Continues(T, s, t) == \E u \in Seq(T) : t = s \o u

LEMMA ContinuesBy ==
  ASSUME NEW T, NEW s \in Seq(T), NEW t \in Seq(T), NEW v \in Seq(T), Continues(T, s, t)
  PROVE  Continues(T, s, t \o v)
<1>1. PICK u \in Seq(T) : t = s \o u
  BY DEF Continues
<1>2. (s \o u) \o v = s \o (u \o v) /\ u \o v \in Seq(T)
  BY ConcatAssociative, ConcatProperties
<1>3. QED
  BY <1>1, <1>2 DEF Continues

LEMMA JoinsGrow ==
  ASSUME NEW T, NEW n \in Nat, NEW seqs, \A i \in 1..n : seqs[i] \in Seq(T),
         NEW f, Joins(seqs, n, f)
  PROVE  \A i \in 1..n : \A j \in i..n : Continues(T, f[i], f[j])
<1> TAKE i \in 1..n
<1> DEFINE S == {k \in Nat : i + k \in i..n => Continues(T, f[i], f[i + k])}
<1>1. \A k \in 1..n : f[k] \in Seq(T)
  BY JoinsTyped
<1>2. 0 \in S
  <2>1. f[i + 0] = f[i] \o <<>> /\ <<>> \in Seq(T)
    BY <1>1, ConcatEmptySeq, EmptySeq
  <2>2. QED
    BY <2>1 DEF Continues
<1>3. ASSUME NEW k \in Nat, k \in S, i + (k + 1) \in i..n
      PROVE  Continues(T, f[i], f[i + (k + 1)])
  <2>1. i + k \in i..n /\ i + (k + 1) \in 1..n /\ i + (k + 1) # 1 /\ (i + (k + 1)) - 1 = i + k
    BY <1>3
  <2>2. f[i + (k + 1)] = f[i + k] \o seqs[i + (k + 1)]
    BY <2>1 DEF Joins
  <2>3. f[i] \in Seq(T) /\ f[i + k] \in Seq(T) /\ seqs[i + (k + 1)] \in Seq(T)
    BY <1>1, <2>1
  <2>4. QED
    BY <1>3, <2>1, <2>2, <2>3, ContinuesBy
<1>4. Nat \subseteq S
  <2>1. \A k \in Nat : k \in S => k + 1 \in S
    BY <1>3
  <2> HIDE DEF S
  <2>2. QED
    BY <1>2, <2>1, SetInduction
<1>5. ASSUME NEW j \in i..n PROVE Continues(T, f[i], f[j])
  <2>1. j - i \in Nat /\ i + (j - i) = j
    OBVIOUS
  <2>2. QED
    BY <1>4, <2>1
<1>6. QED
  BY <1>5

-----------------------------------------------------------------------------
(* Plans.                                                                  *)
Names == Motion \cup {"STOPMOVE", "STANDDOWN", "AUTORECOVERY_GET"}
StepSet ==
  {Wait, Stream} \cup {Snd(name) : name \in Names} \cup {Until(p) : p \in {"standing", "lying"}}

LEMMA RequestsTyped ==
  ASSUME NEW s \in StepSet
  PROVE  /\ s[1] \in {"wait", "send", "until", "stream"}
         /\ s[1] = "send" => s[2] \in Names /\ RequestsOf(s) = <<s[2]>>
         /\ s[1] = "stream" => RequestsOf(s) = [i \in 1..MOVES |-> "MOVE"]
         /\ s[1] \notin {"send", "stream"} => RequestsOf(s) = <<>>
         /\ RequestsOf(s) \in Seq(Names)
<1>1. CASE s = Wait
  <2>1. s[1] = "wait"
    BY <1>1 DEF Wait
  <2>2. RequestsOf(s) = <<>>
    BY <2>1 DEF RequestsOf
  <2>3. QED
    BY <2>1, <2>2, EmptySeq
<1>2. CASE s = Stream
  <2>1. s[1] = "stream"
    BY <1>2 DEF Stream
  <2>2. RequestsOf(s) = [i \in 1..MOVES |-> "MOVE"]
    BY <2>1 DEF RequestsOf
  <2>3. [i \in 1..MOVES |-> "MOVE"] \in Seq(Names)
    <3>1. MOVES \in Nat
      BY ProbeAssumption
    <3>2. [i \in 1..MOVES |-> "MOVE"] \in [1..MOVES -> Names]
      BY DEF Names, Motion
    <3>3. QED
      BY <3>1, <3>2, SeqDef, Zenon
  <2>4. QED
    BY <2>1, <2>2, <2>3
<1>3. ASSUME NEW name \in Names, s = Snd(name)
      PROVE  s[1] = "send" /\ s[2] \in Names /\ RequestsOf(s) = <<s[2]>>
  <2>1. s[1] = "send" /\ s[2] = name
    BY <1>3 DEF Snd
  <2>2. QED
    BY <2>1 DEF RequestsOf
<1>4. ASSUME NEW p \in {"standing", "lying"}, s = Until(p)
      PROVE  s[1] = "until" /\ RequestsOf(s) = <<>>
  <2>1. s[1] = "until"
    BY <1>4 DEF Until
  <2>2. QED
    BY <2>1 DEF RequestsOf
<1>5. CASE \E name \in Names : s = Snd(name)
  <2>1. s[1] = "send" /\ s[2] \in Names /\ RequestsOf(s) = <<s[2]>>
    BY <1>3, <1>5
  <2>2. QED
    BY <2>1
<1>6. CASE \E p \in {"standing", "lying"} : s = Until(p)
  <2>1. s[1] = "until" /\ RequestsOf(s) = <<>>
    BY <1>4, <1>6
  <2>2. QED
    BY <2>1, EmptySeq
<1>7. QED
  BY <1>1, <1>2, <1>5, <1>6 DEF StepSet

LEMMA StepsInSet ==
  /\ {Wait, Stream, Until("standing"), Until("lying")} \subseteq StepSet
  /\ \A name \in Names : Snd(name) \in StepSet
BY DEF StepSet

LEMMA ConcatThree ==
  ASSUME NEW S, NEW a \in Seq(S), NEW b \in Seq(S), NEW c \in Seq(S)
  PROVE  LET w == (a \o b) \o c IN
         /\ w \in Seq(S) /\ Len(w) = Len(a) + Len(b) + Len(c)
         /\ \A i \in 1..Len(a) : w[i] = a[i]
         /\ \A i \in 1..Len(c) : w[Len(a) + Len(b) + i] = c[i]
<1> DEFINE w == (a \o b) \o c
<1>1. Len(a) \in Nat /\ Len(b) \in Nat /\ Len(c) \in Nat
  OBVIOUS
<1>2. PICK d : d = a \o b
  OBVIOUS
<1>3. /\ d \in Seq(S) /\ Len(d) = Len(a) + Len(b)
      /\ \A i \in 1..Len(a) : d[i] = a[i]
  <2>1. d \in Seq(S) /\ Len(d) = Len(a) + Len(b)
    BY <1>2, ConcatProperties
  <2>2. ASSUME NEW i \in 1..Len(a) PROVE d[i] = a[i]
    BY <1>1, <1>2, ConcatProperties
  <2>3. QED
    BY <2>1, <2>2
<1>4. w \in Seq(S) /\ Len(w) = Len(d) + Len(c)
  BY <1>2, <1>3, ConcatProperties
<1>5. ASSUME NEW i \in 1..Len(d) + Len(c)
      PROVE  w[i] = IF i <= Len(d) THEN d[i] ELSE c[i - Len(d)]
  BY <1>2, <1>3, ConcatProperties
<1>6. ASSUME NEW i \in 1..Len(a) PROVE w[i] = a[i]
  BY <1>1, <1>3, <1>5
<1>7. ASSUME NEW i \in 1..Len(c) PROVE w[Len(a) + Len(b) + i] = c[i]
  <2>1. Len(a) + Len(b) + i = Len(d) + i /\ Len(d) + i \in 1..Len(d) + Len(c)
        /\ ~(Len(d) + i <= Len(d)) /\ (Len(d) + i) - Len(d) = i
    BY <1>1, <1>3
  <2>2. w[Len(d) + i] = c[(Len(d) + i) - Len(d)]
    BY <1>5, <2>1
  <2>3. QED
    BY <2>1, <2>2
<1>8. QED
  BY <1>1, <1>3, <1>4, <1>6, <1>7

\* a wrapped plan stands up first and sends the robot down last
LEMMA WrapShape ==
  ASSUME NEW inner \in Seq(StepSet), NEW w, w = StandWrap(inner)
  PROVE  /\ w \in Seq(StepSet) /\ Len(w) >= 9
         /\ w[1] = Wait /\ w[2] = Snd("STANDUP") /\ w[3] = Until("standing")
         /\ w[Len(w) - 2] = Snd("STANDDOWN")
         /\ w[Len(w) - 1] = Until("lying")
         /\ w[Len(w)] = Wait
<1> DEFINE up == <<Wait, Snd("STANDUP"), Until("standing"), Wait>>
           down == <<Snd("STOPMOVE"), Wait, Snd("STANDDOWN"), Until("lying"), Wait>>
<1>1. /\ up \in Seq(StepSet) /\ Len(up) = 4
      /\ up[1] = Wait /\ up[2] = Snd("STANDUP") /\ up[3] = Until("standing")
  BY StepsInSet DEF Names, Motion
<1>2. /\ down \in Seq(StepSet) /\ Len(down) = 5
      /\ down[3] = Snd("STANDDOWN") /\ down[4] = Until("lying") /\ down[5] = Wait
  BY StepsInSet DEF Names
<1>3. w = (up \o inner) \o down
  BY DEF StandWrap
<1> HIDE DEF up, down
<1>4. /\ w \in Seq(StepSet) /\ Len(w) = Len(up) + Len(inner) + Len(down)
      /\ w[1] = up[1] /\ w[2] = up[2] /\ w[3] = up[3]
      /\ \A i \in 3..5 : w[Len(up) + Len(inner) + i] = down[i]
  <2>1. up \in Seq(StepSet) /\ down \in Seq(StepSet)
    BY <1>1, <1>2
  <2>2. /\ w \in Seq(StepSet) /\ Len(w) = Len(up) + Len(inner) + Len(down)
        /\ \A i \in 1..Len(up) : w[i] = up[i]
        /\ \A i \in 1..Len(down) : w[Len(up) + Len(inner) + i] = down[i]
    <3>1. LET v == (up \o inner) \o down IN
          /\ v \in Seq(StepSet) /\ Len(v) = Len(up) + Len(inner) + Len(down)
          /\ \A i \in 1..Len(up) : v[i] = up[i]
          /\ \A i \in 1..Len(down) : v[Len(up) + Len(inner) + i] = down[i]
      BY <2>1, ConcatThree
    <3>2. QED
      BY <3>1, <1>3, Zenon
  <2>3. QED
    BY <1>1, <1>2, <2>2
<1>5. Len(inner) \in Nat
  OBVIOUS
<1>6. /\ Len(w) = 9 + Len(inner) /\ Len(up) + Len(inner) + 3 = Len(w) - 2
      /\ Len(up) + Len(inner) + 4 = Len(w) - 1 /\ Len(up) + Len(inner) + 5 = Len(w)
  BY <1>1, <1>2, <1>4, <1>5
<1>7. QED
  BY <1>1, <1>2, <1>4, <1>5, <1>6

LEMMA StreamedPlan == Streamed \in Seq(StepSet)
BY StepsInSet DEF Streamed, Names

LEMMA BalancedPlan ==
  ASSUME NEW inner \in Seq(StepSet)
  PROVE  \E whole \in Seq(StepSet) : Balanced(inner) = StandWrap(whole)
<1> DEFINE balance == <<Snd("BALANCESTAND"), Wait>>
<1>1. balance \in Seq(StepSet)
  BY StepsInSet DEF Names, Motion
<1>2. Balanced(inner) = StandWrap(balance \o inner)
  BY DEF Balanced
<1> HIDE DEF balance
<1>3. balance \o inner \in Seq(StepSet)
  BY <1>1, ConcatProperties
<1>4. QED
  BY <1>2, <1>3

LEMMA StandingPlans ==
  ASSUME NEW s \in StandingStages
  PROVE  \E whole \in Seq(StepSet) : PLANS[s] = StandWrap(whole)
<1> DEFINE twice == Streamed \o Streamed
           single == <<Snd("MOVE"), Wait, Snd("STOPMOVE"), Wait>>
           rest == <<Wait>>
<1>1. single \in Seq(StepSet) /\ rest \in Seq(StepSet)
  BY StepsInSet DEF Names, Motion
<1>2. /\ twice \in Seq(StepSet) /\ twice \o Streamed \in Seq(StepSet)
      /\ twice \o Streamed \o Streamed \in Seq(StepSet)
  BY StreamedPlan, ConcatProperties
<1>3. s \in {"stand", "move_once", "move_set", "walk_02", "walk_03", "turn_06", "turn_10", "back_03"}
  BY DEF StandingStages, PLANS
<1>4. /\ PLANS["stand"] = StandWrap(rest) /\ PLANS["move_once"] = Balanced(single)
      /\ PLANS["move_set"] = Balanced(twice \o Streamed \o Streamed)
      /\ PLANS["walk_02"] = Balanced(Streamed) /\ PLANS["walk_03"] = Balanced(Streamed)
      /\ PLANS["turn_06"] = Balanced(twice) /\ PLANS["turn_10"] = Balanced(twice)
      /\ PLANS["back_03"] = Balanced(Streamed)
  BY DEF PLANS
<1> HIDE DEF twice, single, rest
<1>5. QED
  BY <1>1, <1>2, <1>3, <1>4, StreamedPlan, BalancedPlan

LEMMA OtherPlans ==
  ASSUME NEW s \in DOMAIN PLANS \ StandingStages
  PROVE  /\ PLANS[s] \in Seq(StepSet) /\ Len(PLANS[s]) >= 1 /\ PLANS[s][1] = Wait
         /\ \A i \in 1..Len(PLANS[s]) :
              PLANS[s][i] \in {Wait, Until("lying"), Snd("AUTORECOVERY_GET"), Snd("STOPMOVE"),
                              Snd("STANDDOWN")}
<1>1. s \in {"listen", "query", "stop", "lie"}
  BY DEF StandingStages
<1>2. /\ Snd("AUTORECOVERY_GET") \in StepSet /\ Snd("STOPMOVE") \in StepSet
      /\ Snd("STANDDOWN") \in StepSet
  BY StepsInSet DEF Names
<1>3. CASE s = "listen"
  <2>1. PLANS[s] = <<Wait>>
    BY <1>3 DEF PLANS
  <2>2. QED
    BY <2>1, StepsInSet
<1>4. CASE s = "query"
  <2>1. PLANS[s] = <<Wait, Snd("AUTORECOVERY_GET"), Wait>>
    BY <1>4 DEF PLANS
  <2>2. QED
    BY <1>2, <2>1, StepsInSet
<1>5. CASE s = "stop"
  <2>1. PLANS[s] = <<Wait, Snd("STOPMOVE"), Wait>>
    BY <1>5 DEF PLANS
  <2>2. QED
    BY <1>2, <2>1, StepsInSet
<1>6. CASE s = "lie"
  <2>1. PLANS[s] = <<Wait, Snd("STOPMOVE"), Wait, Snd("STANDDOWN"), Until("lying"), Wait>>
    BY <1>6 DEF PLANS
  <2>2. QED
    BY <1>2, <2>1, StepsInSet
<1>7. QED
  BY <1>1, <1>3, <1>4, <1>5, <1>6

\* a step that sends a motion is in a plan that stands up, before its StandDown
Moving(s) == s[1] = "stream" \/ (s[1] = "send" /\ s[2] \in Motion)

LEMMA PlanShape ==
  ASSUME NEW s \in DOMAIN PLANS
  PROVE  /\ PLANS[s] \in Seq(StepSet) /\ Len(PLANS[s]) \in Nat /\ Len(PLANS[s]) >= 1
         /\ PLANS[s][1] = Wait
         /\ s \in StandingStages => Len(PLANS[s]) >= 9 /\ PLANS[s][Len(PLANS[s]) - 2] = Snd("STANDDOWN")
         /\ s \in StandingStages => PLANS[s][2] = Snd("STANDUP") /\ PLANS[s][3] = Until("standing")
         /\ \A i \in 1..Len(PLANS[s]) :
              Moving(PLANS[s][i]) => /\ s \in StandingStages /\ i < Len(PLANS[s]) - 2
                                     /\ i = 2 \/ i > 3
<1> DEFINE n == Len(PLANS[s])
<1>1. CASE s \in StandingStages
  <2>1. PICK whole \in Seq(StepSet) : PLANS[s] = StandWrap(whole)
    BY <1>1, StandingPlans
  <2>2. /\ PLANS[s] \in Seq(StepSet) /\ n >= 9 /\ PLANS[s][1] = Wait
        /\ PLANS[s][2] = Snd("STANDUP") /\ PLANS[s][3] = Until("standing")
        /\ PLANS[s][n - 2] = Snd("STANDDOWN") /\ PLANS[s][n - 1] = Until("lying") /\ PLANS[s][n] = Wait
    BY <2>1, WrapShape
  <2>3. n \in Nat
    BY <2>2
  <2>4. /\ ~Moving(Snd("STANDDOWN")) /\ ~Moving(Until("lying")) /\ ~Moving(Wait)
        /\ ~Moving(Until("standing"))
    BY DEF Moving, Snd, Until, Wait, Motion
  <2>5. ASSUME NEW i \in 1..n, Moving(PLANS[s][i]) PROVE i < n - 2 /\ (i = 2 \/ i > 3)
    <3>1. i # n - 2 /\ i # n - 1 /\ i # n /\ i # 1 /\ i # 3
      BY <2>2, <2>4, <2>5
    <3>2. QED
      BY <2>3, <3>1
  <2>6. QED
    BY <1>1, <2>2, <2>3, <2>5
<1>2. CASE s \notin StandingStages
  <2>1. \A step_sent \in {Wait, Until("lying"), Snd("AUTORECOVERY_GET"), Snd("STOPMOVE"), Snd("STANDDOWN")} :
          ~Moving(step_sent)
    BY DEF Moving, Snd, Until, Wait, Motion
  <2>2. QED
    BY <1>2, <2>1, OtherPlans
<1>3. QED
  BY <1>1, <1>2

\* what is sent before each step of a plan
IsSentBefore(plan, p) ==
  /\ p \in [0..Len(plan) -> Seq(Names)]
  /\ p[0] = <<>>
  /\ \A i \in 1..Len(plan) : p[i] = p[i - 1] \o RequestsOf(plan[i])
  /\ PlanRequests(plan) \in Seq(Names)
  /\ \A i \in 0..Len(plan) : Continues(Names, p[i], PlanRequests(plan))

SentBefore(plan) == CHOOSE p : IsSentBefore(plan, p)

LEMMA SentBeforeSteps ==
  ASSUME NEW plan \in Seq(StepSet), Len(plan) >= 1
  PROVE  IsSentBefore(plan, SentBefore(plan))
<1> DEFINE n == Len(plan)
           seqs == [i \in DOMAIN plan |-> RequestsOf(plan[i])]
           flatten == CHOOSE f : Joins(seqs, n, f)
           p == [i \in 0..n |-> IF i = 0 THEN <<>> ELSE flatten[i]]
<1>1. n \in Nat /\ n # 0 /\ DOMAIN plan = 1..n
  OBVIOUS
<1>2. \A i \in 1..n : seqs[i] = RequestsOf(plan[i]) /\ seqs[i] \in Seq(Names)
  BY <1>1, RequestsTyped
<1>3. Len(seqs) = n
  BY <1>1
<1>4. Joins(seqs, n, flatten)
  BY <1>1, JoinsExist
<1>5. PlanRequests(plan) = flatten[n]
  <2>1. PlanRequests(plan) = FlattenSeq(seqs)
    BY DEF PlanRequests
  <2>2. FlattenSeq(seqs) = flatten[n]
    BY <1>1, <1>3 DEF FlattenSeq, Joins
  <2>3. QED
    BY <2>1, <2>2
<1> HIDE DEF seqs, flatten
<1>6. \A i \in 1..n : flatten[i] \in Seq(Names)
  BY <1>1, <1>2, <1>4, JoinsTyped
<1>7. \A k \in 1..n : \A j \in k..n : Continues(Names, flatten[k], flatten[j])
  BY <1>1, <1>2, <1>4, JoinsGrow
<1>8. p \in [0..n -> Seq(Names)] /\ p[0] = <<>>
  BY <1>1, <1>6, EmptySeq
<1>9. ASSUME NEW i \in 1..n PROVE p[i] = p[i - 1] \o RequestsOf(plan[i])
  <2>1. flatten[i] = IF i = 1 THEN seqs[i] ELSE flatten[i - 1] \o seqs[i]
    BY <1>4 DEF Joins
  <2>2. CASE i = 1
    <3>1. p[i] = seqs[i] /\ p[i - 1] = <<>>
      BY <1>1, <2>1, <2>2
    <3>2. <<>> \o seqs[i] = seqs[i]
      BY <1>2, ConcatEmptySeq
    <3>3. QED
      BY <1>2, <3>1, <3>2
  <2>3. CASE i # 1
    <3>1. i - 1 \in 0..n /\ i - 1 # 0 /\ i \in 0..n /\ i # 0
      BY <1>1, <2>3
    <3>2. p[i] = flatten[i] /\ p[i - 1] = flatten[i - 1]
      BY <3>1
    <3>3. flatten[i] = flatten[i - 1] \o RequestsOf(plan[i])
      BY <1>2, <2>1, <2>3
    <3>4. QED
      BY <3>2, <3>3
  <2>4. QED
    BY <2>2, <2>3
<1>10. ASSUME NEW i \in 0..n PROVE Continues(Names, p[i], PlanRequests(plan))
  <2>1. CASE i = 0
    <3>1. flatten[n] \in Seq(Names) /\ <<>> \o flatten[n] = flatten[n]
      BY <1>1, <1>6, ConcatEmptySeq
    <3>2. QED
      BY <1>5, <1>8, <2>1, <3>1 DEF Continues
  <2>2. CASE i # 0
    BY <1>1, <1>5, <1>7, <2>2
  <2>3. QED
    BY <2>1, <2>2
<1>11. IsSentBefore(plan, p)
  <2>1. PlanRequests(plan) \in Seq(Names)
    BY <1>1, <1>5, <1>6
  <2> HIDE DEF p
  <2>2. QED
    BY <1>8, <1>9, <1>10, <2>1 DEF IsSentBefore
<1>12. QED
  BY <1>11 DEF SentBefore

-----------------------------------------------------------------------------
(* What holds at each phase of a session.                                  *)
Plan == PLANS[stage]
Planned == PlanRequests(Plan)
Moved(k) == [i \in 1..k |-> "MOVE"]

PlanInv ==
  /\ stage \in DOMAIN PLANS
  /\ sent \in Seq(Names)
  /\ spun \in BOOLEAN
  /\ phase \in {"dry run", "preflight", "match", "plan", "recover", "stopped", "ended"}
  /\ phase \in {"dry run", "preflight", "match"} =>
       step = 1 /\ moves = 0 /\ spun = FALSE /\ sent = <<>>
  /\ phase = "plan" => /\ step \in 1..Len(Plan) + 1 /\ moves \in 0..MOVES
                       /\ moves # 0 => step <= Len(Plan) /\ Step[1] = "stream"

LEMMA SendTyped ==
  ASSUME PlanInv, NEW name \in Names, Send(name)
  PROVE  sent' \in Seq(Names) /\ sent' # sent
<1>1. sent' = Append(sent, name) /\ sent \in Seq(Names)
  BY DEF Send, PlanInv
<1>2. Len(sent') = Len(sent) + 1 /\ Len(sent) \in Nat
  BY <1>1
<1>3. QED
  BY <1>1, <1>2

LEMMA StepTyped ==
  ASSUME PlanInv, phase = "plan", step <= Len(Plan)
  PROVE  /\ Step \in StepSet /\ Step = Plan[step] /\ step \in 1..Len(Plan) /\ Len(Plan) \in Nat
         /\ Step[1] \in {"wait", "send", "until", "stream"}
         /\ Step[1] = "send" => Step[2] \in Names
BY PlanShape, RequestsTyped DEF PlanInv, Plan, Step

\* what goes wrong, and who hears it, leaves the plan where it is
LEMMA GuardsEnd ==
  ASSUME Guards
  PROVE  /\ phase' \in {phase, "recover", "ended"}
         /\ handset' => phase' = "ended"
BY DEF Guards, Yields, Aborts

\* a Ctrl+C inside send(): a request the step would have sent, and an abort
LEMMA CutSends ==
  ASSUME PlanInv, SendInterrupted
  PROVE  /\ phase = "plan" /\ step <= Len(Plan) /\ Aborts
         /\ UNCHANGED <<step, moves, spun, made, motion_sent, risen, handset>>
         /\ \E name \in Names :
              /\ CutShort(name) /\ sent' = Append(sent, name) /\ sent' \in Seq(Names)
              /\ \/ Step[1] = "send" /\ name = Step[2]
                 \/ Step[1] = "stream" /\ name = "MOVE" /\ moves < MOVES
<1>1. phase = "plan" /\ step <= Len(Plan) /\ sent \in Seq(Names)
  BY DEF SendInterrupted, Plan, PlanInv
<1>2. PICK name \in Names :
        /\ CutShort(name)
        /\ \/ Step[1] = "send" /\ name = Step[2]
           \/ Step[1] = "stream" /\ name = "MOVE" /\ moves < MOVES
  <2>1. Step[1] = "send" => Step[2] \in Names
    BY <1>1, StepTyped
  <2>2. "MOVE" \in Names
    BY DEF Names, Motion
  <2>3. \/ Step[1] = "send" /\ CutShort(Step[2])
        \/ Step[1] = "stream" /\ moves < MOVES /\ CutShort("MOVE")
    BY DEF SendInterrupted
  <2>4. QED
    BY <2>1, <2>2, <2>3
<1>3. /\ Aborts /\ sent' = Append(sent, name)
      /\ UNCHANGED <<step, moves, spun, made, motion_sent, risen, handset>>
  BY <1>2 DEF CutShort, stVars
<1>4. sent' \in Seq(Names)
  BY <1>1, <1>3
<1>5. QED
  BY <1>1, <1>2, <1>3, <1>4

LEMMA StageKept ==
  ASSUME [ProbeNext]_probeVars
  PROVE  stage' = stage /\ Plan' = Plan /\ Planned' = Planned /\ Publishing' = Publishing
<1>1. stage' = stage
  BY DEF ProbeNext, Preflight, PreflightEnds, AwaitMatch, MatchEnds, SpinGuarded, StepEnds,
    PostureTimesOut, StepSends, StreamSends, Done, Interrupt, SendInterrupted, CutShort,
    RecoverStops, RecoverSpins, RecoverLies, RecoveryFails, probeVars
<1>2. QED
  BY <1>1 DEF Plan, Planned, Publishing

LEMMA PlanStep ==
  ASSUME PlanInv, [ProbeNext]_probeVars
  PROVE  PlanInv'
<1> MOVES \in Nat
  BY ProbeAssumption
<1>1. stage' = stage /\ Plan' = Plan
  BY StageKept
<1>2. /\ stage \in DOMAIN PLANS /\ sent \in Seq(Names) /\ spun \in BOOLEAN
      /\ Len(Plan) \in Nat /\ Len(Plan) >= 1
  BY PlanShape DEF PlanInv, Plan
<1>3. ASSUME sent' \in Seq(Names), spun' \in BOOLEAN,
             phase' \in {"recover", "stopped", "ended"}
      PROVE  PlanInv'
  BY <1>1, <1>2, <1>3 DEF PlanInv
<1>4. ASSUME UNCHANGED <<step, moves, spun, sent, phase>> PROVE PlanInv'
  BY <1>1, <1>2, <1>4 DEF PlanInv, Step, Plan
<1>5. ASSUME phase \in {"preflight", "match"}, UNCHANGED <<step, moves, spun, sent>>,
             phase' \in {"match", "plan", "ended"}
      PROVE  PlanInv'
  <2>1. step' = 1 /\ moves' = 0 /\ spun' = FALSE /\ sent' = <<>>
    BY <1>5 DEF PlanInv
  <2>2. 1 \in 1..Len(Plan) + 1 /\ 0 \in 0..MOVES
    BY <1>2
  <2>3. QED
    BY <1>1, <1>2, <1>5, <2>1, <2>2 DEF PlanInv
<1>6. CASE Preflight \/ AwaitMatch
  BY <1>4, <1>6 DEF Preflight, AwaitMatch
<1>7. ASSUME NEW env \in Environments, PreflightEnds(env) PROVE PlanInv'
  BY <1>5, <1>7 DEF PreflightEnds, Refused
<1>8. CASE MatchEnds
  BY <1>5, <1>8 DEF MatchEnds, Refused
<1>9. CASE SpinGuarded
  <2>1. phase' \in {phase, "recover", "ended"}
    BY <1>9, GuardsEnd DEF SpinGuarded
  <2>2. phase = "plan" /\ UNCHANGED <<step, moves, sent>>
    BY <1>9 DEF SpinGuarded, Spinning
  <2>3. spun' \in BOOLEAN
    BY <1>9 DEF SpinGuarded
  <2>4. CASE phase' = phase
    BY <1>1, <1>2, <2>2, <2>3, <2>4 DEF PlanInv, Step, Plan
  <2>5. QED
    BY <1>2, <1>3, <2>1, <2>2, <2>3, <2>4
<1>10. CASE StepEnds
  <2>1. phase = "plan" /\ step <= Len(Plan) /\ UNCHANGED <<phase, sent>> /\ step' = step + 1
        /\ moves' = 0
    BY <1>10 DEF StepEnds, Spinning, Plan
  <2>2. spun' \in BOOLEAN
    BY <1>10 DEF StepEnds
  <2>3. phase' = "plan" /\ step' \in 1..Len(Plan) + 1 /\ moves' \in 0..MOVES
    BY <1>2, <2>1 DEF PlanInv
  <2>4. QED
    BY <1>1, <1>2, <2>1, <2>2, <2>3 DEF PlanInv
<1>11. CASE PostureTimesOut
  BY <1>2, <1>3, <1>11 DEF PostureTimesOut, Aborts
<1>12. CASE StepSends
  <2>1. /\ phase = "plan" /\ step <= Len(Plan) /\ UNCHANGED <<phase, moves, spun>>
        /\ step' = step + 1 /\ Step[1] = "send" /\ Send(Step[2])
    BY <1>12 DEF StepSends, Plan
  <2>2. sent' \in Seq(Names)
    BY <2>1, SendTyped, StepTyped
  <2>3. moves = 0
    BY <2>1 DEF PlanInv
  <2>4. QED
    BY <1>1, <1>2, <2>1, <2>2, <2>3 DEF PlanInv
<1>13. CASE StreamSends
  <2>1. /\ phase = "plan" /\ step <= Len(Plan) /\ UNCHANGED <<phase, step>>
        /\ moves' = moves + 1 /\ moves < MOVES /\ Step[1] = "stream" /\ Send("MOVE")
    BY <1>13 DEF StreamSends, Spinning, Plan
  <2>2. sent' \in Seq(Names)
    BY <2>1, SendTyped DEF Names, Motion
  <2>3. Step' = Step
    BY <1>1, <2>1 DEF Step
  <2>4. spun' \in BOOLEAN
    BY <1>13 DEF StreamSends
  <2>5. phase' = "plan" /\ step' \in 1..Len(Plan) + 1 /\ moves' \in 0..MOVES
    BY <1>2, <2>1 DEF PlanInv
  <2>6. QED
    BY <1>1, <1>2, <2>1, <2>2, <2>3, <2>4, <2>5 DEF PlanInv
<1>14. CASE Done
  BY <1>2, <1>3, <1>14 DEF Done
<1>15. CASE Interrupt
  BY <1>2, <1>3, <1>15 DEF Interrupt, Aborts
<1>21. CASE SendInterrupted
  BY <1>2, <1>3, <1>21, CutSends DEF Aborts
<1>16. CASE RecoverStops
  <2>1. sent' \in Seq(Names)
    BY <1>16, SendTyped DEF RecoverStops, Names
  <2>2. QED
    BY <1>2, <1>3, <1>16, <2>1 DEF RecoverStops
<1>17. CASE RecoverLies
  <2>1. sent' \in Seq(Names)
    BY <1>17, SendTyped DEF RecoverLies, Names
  <2>2. QED
    BY <1>2, <1>3, <1>17, <2>1 DEF RecoverLies
<1>18. CASE RecoverSpins
  BY <1>2, <1>3, <1>18 DEF RecoverSpins
<1>19. CASE RecoveryFails
  BY <1>2, <1>3, <1>19 DEF RecoveryFails
<1>20. CASE UNCHANGED probeVars
  BY <1>4, <1>20 DEF probeVars
<1>22. QED
  BY <1>6, <1>7, <1>8, <1>9, <1>10, <1>11, <1>12, <1>13, <1>14, <1>15, <1>16, <1>17, <1>18,
     <1>19, <1>20, <1>21 DEF ProbeNext

(* A stage is always at a step of its plan, and publishes only requests    *)
(* the plan knows (run_live).                                              *)
LEMMA PlanTyped == ProbeSpec => []PlanInv
<1>1. ProbeInit => PlanInv
  BY ProbeAssumption, EmptySeq DEF ProbeInit, PlanInv
<1>2. PlanInv /\ [ProbeNext]_probeVars => PlanInv'
  BY PlanStep
<1>3. QED
  BY <1>1, <1>2, PTL DEF ProbeSpec

-----------------------------------------------------------------------------
(* The handset.                                                            *)
HandsInv ==
  /\ phase = "recover" => ~handset
  /\ phase = "plan" /\ handset => step = 1 /\ spun = FALSE

LEMMA FirstWaits ==
  ASSUME PlanInv, phase = "plan", step = 1
  PROVE  Step[1] = "wait" /\ step <= Len(Plan)
BY PlanShape DEF PlanInv, Plan, Step, Wait

LEMMA HandsStep ==
  ASSUME PlanInv, HandsInv, [ProbeNext]_probeVars
  PROVE  HandsInv'
<1>1. ASSUME phase' \notin {"plan", "recover"} PROVE HandsInv'
  BY <1>1 DEF HandsInv
<1>2. ASSUME handset' = handset, UNCHANGED <<phase, step, spun>> PROVE HandsInv'
  BY <1>2 DEF HandsInv
<1>3. CASE Preflight \/ AwaitMatch
  BY <1>1, <1>3 DEF Preflight, AwaitMatch
<1>4. ASSUME NEW env \in Environments, PreflightEnds(env) PROVE HandsInv'
  BY <1>4 DEF PreflightEnds, Refused, HandsInv, PlanInv
<1>5. CASE MatchEnds
  BY <1>5 DEF MatchEnds, Refused, HandsInv, PlanInv
<1>6. CASE SpinGuarded
  <2>1. phase' = "recover" => ~handset'
    BY <1>6, GuardsEnd DEF SpinGuarded
  <2>2. phase' = "plan" => ~handset'
    BY <1>6, GuardsEnd DEF SpinGuarded
  <2>3. QED
    BY <2>1, <2>2 DEF HandsInv
<1>7. CASE StepEnds
  <2>1. phase = "plan" /\ spun /\ phase' = phase /\ handset' = handset
    BY <1>7 DEF StepEnds, Spinning, stVars
  <2>2. QED
    BY <2>1 DEF HandsInv
<1>8. CASE PostureTimesOut \/ Interrupt
  BY <1>8 DEF PostureTimesOut, Interrupt, Aborts, HandsInv
<1>9. CASE StepSends \/ StreamSends
  <2>1. phase = "plan" /\ phase' = phase /\ handset' = handset /\ Step[1] # "wait"
    BY <1>9 DEF StepSends, StreamSends, Spinning, stVars
  <2>2. ~handset
    BY <2>1, FirstWaits DEF HandsInv
  <2>3. QED
    BY <2>1, <2>2 DEF HandsInv
<1>13. CASE SendInterrupted
  BY <1>13, CutSends DEF Aborts, HandsInv
<1>10. CASE Done \/ RecoverStops \/ RecoverSpins \/ RecoverLies \/ RecoveryFails
  BY <1>1, <1>10 DEF Done, RecoverStops, RecoverSpins, RecoverLies, RecoveryFails
<1>11. CASE UNCHANGED probeVars
  BY <1>2, <1>11 DEF probeVars, stVars
<1>12. QED
  BY <1>3, <1>4, <1>5, <1>6, <1>7, <1>8, <1>9, <1>10, <1>11, <1>13 DEF ProbeNext

LEMMA Senders ==
  ASSUME [ProbeNext]_probeVars, sent' # sent
  PROVE  StepSends \/ StreamSends \/ SendInterrupted \/ RecoverStops \/ RecoverLies
BY DEF ProbeNext, Preflight, PreflightEnds, AwaitMatch, MatchEnds, SpinGuarded, StepEnds,
  PostureTimesOut, Done, Interrupt, RecoverSpins, RecoveryFails, probeVars

LEMMA HandsHold == ProbeSpec => [](PlanInv /\ HandsInv)
<1>1. ProbeInit => HandsInv
  BY DEF ProbeInit, HandsInv
<1>2. PlanInv /\ HandsInv /\ [ProbeNext]_probeVars => HandsInv'
  BY HandsStep
<1>3. QED
  BY <1>1, <1>2, PlanTyped, PTL DEF ProbeSpec

(* Once the operator touches the handset no request is sent, unless a      *)
(* recovery had begun: the plan looks at it after every spin, and the only *)
(* spins that do not look come before its first wait or during the         *)
(* recovery (check_guards, run_live's except Yield).                       *)
THEOREM ProbeYields == ProbeSpec => YieldsToHandset
<1> DEFINE Free == sent' # sent => ~handset \/ phase = "stopped"
<1>1. ASSUME PlanInv, HandsInv, [ProbeNext]_probeVars, sent' # sent
      PROVE  ~handset \/ phase = "stopped"
  <2>1. CASE StepSends \/ StreamSends
    <3>1. phase = "plan" /\ Step[1] # "wait"
      BY <2>1 DEF StepSends, StreamSends, Spinning
    <3>2. QED
      BY <1>1, <3>1, FirstWaits DEF HandsInv
  <2>2. CASE RecoverStops \/ RecoverLies
    BY <1>1, <2>2 DEF RecoverStops, RecoverLies, HandsInv
  <2>3. CASE SendInterrupted
    <3>1. phase = "plan" /\ Step[1] # "wait"
      BY <2>3 DEF SendInterrupted
    <3>2. QED
      BY <1>1, <3>1, FirstWaits DEF HandsInv
  <2>4. QED
    BY <1>1, <2>1, <2>2, <2>3, Senders
<1>2. PlanInv /\ HandsInv /\ [ProbeNext]_probeVars => [Free]_sent
  BY <1>1
<1>3. ProbeSpec => [][Free]_sent
  BY <1>2, HandsHold, PTL DEF ProbeSpec
<1>4. QED
  BY <1>3 DEF YieldsToHandset

-----------------------------------------------------------------------------
(* Lying down.                                                             *)
LEMMA MotionAfter ==
  ASSUME PlanInv, NEW name \in Names, sent' = Append(sent, name), InMotion'
  PROVE  name \in Motion \/ (InMotion /\ name # "STANDDOWN")
<1> DEFINE n == Len(sent)
<1>1. sent \in Seq(Names) /\ n \in Nat /\ sent' = Append(sent, name)
  <2>1. sent \in Seq(Names)
    BY DEF PlanInv
  <2>2. QED
    BY <2>1
<1>2. /\ Len(sent') = n + 1 /\ DOMAIN sent' = 1..n + 1 /\ DOMAIN sent = 1..n
      /\ sent'[n + 1] = name /\ \A i \in 1..n : sent'[i] = sent[i]
  BY <1>1
<1>3. PICK i \in 1..n + 1 : sent'[i] \in Motion /\ \A j \in i + 1..n + 1 : sent'[j] # "STANDDOWN"
  BY <1>2 DEF InMotion
<1>4. CASE i = n + 1
  BY <1>2, <1>3, <1>4
<1>5. CASE i # n + 1
  <2>1. i \in 1..n /\ n + 1 \in i + 1..n + 1
    BY <1>1, <1>5
  <2>2. sent[i] \in Motion /\ name # "STANDDOWN"
    BY <1>2, <1>3, <2>1
  <2>3. \A j \in i + 1..n : sent[j] # "STANDDOWN"
    BY <1>1, <1>2, <1>3, <2>1
  <2>4. QED
    BY <1>2, <2>1, <2>2, <2>3 DEF InMotion
<1>6. QED
  BY <1>4, <1>5

LieInv ==
  /\ InMotion => motion_sent \/ harm # None
  /\ phase \in {"match", "plan"} /\ Publishing => made
  /\ phase = "plan" /\ sent # <<>> => made
  /\ phase = "plan" /\ InMotion => stage \in StandingStages /\ step <= Len(Plan) - 2
  /\ phase = "stopped" => motion_sent
  /\ phase = "ended" /\ InMotion => handset \/ harm # None

LEMMA Unmoved == sent = <<>> => ~InMotion
BY DEF InMotion

\* before its StandDown a plan that stands up has a step left
LEMMA LastSent ==
  ASSUME PlanInv, phase = "plan", stage \in StandingStages, step <= Len(Plan) - 2,
         Step[1] # "send" \/ Step[2] # "STANDDOWN"
  PROVE  step + 1 <= Len(Plan) - 2
<1>1. Len(Plan) \in Nat /\ Plan[Len(Plan) - 2] = Snd("STANDDOWN") /\ step \in Nat
  BY PlanShape DEF Plan, PlanInv
<1>2. Step = Plan[step]
  BY DEF Step, Plan
<1>3. step # Len(Plan) - 2
  BY <1>1, <1>2 DEF Snd
<1>4. QED
  BY <1>1, <1>3

\* what the recovery is left to do, when it is to be done
LEMMA AbortsLying ==
  ASSUME PlanInv, LieInv, phase \in {"preflight", "match", "plan"}, Aborts,
         UNCHANGED <<sent, motion_sent, harm>>
  PROVE  /\ InMotion' => motion_sent' \/ harm' # None
         /\ phase' = "recover" \/ (phase' = "ended" /\ (InMotion' => handset'))
<1>1. InMotion' <=> InMotion
  BY DEF InMotion
<1>2. phase' = "recover" \/ phase' = "ended"
  BY DEF Aborts
<1>3. ASSUME phase' = "ended", InMotion PROVE handset'
  <2>1. sent # <<>>
    BY <1>3, Unmoved
  <2>2. made
    BY <2>1 DEF PlanInv, LieInv
  <2>3. QED
    BY <1>3, <2>2 DEF Aborts
<1>4. QED
  BY <1>1, <1>2, <1>3 DEF LieInv

LEMMA LieStep ==
  ASSUME PlanInv, LieInv, [ProbeNext]_probeVars
  PROVE  LieInv'
<1>1. stage' = stage /\ Plan' = Plan /\ Publishing' = Publishing
  BY StageKept
<1>2. ASSUME sent' = sent PROVE InMotion' <=> InMotion
  BY <1>2 DEF InMotion
<1>3. ASSUME UNCHANGED <<phase, step, made, motion_sent, sent, harm>>, phase # "ended" PROVE LieInv'
  BY <1>1, <1>2, <1>3 DEF LieInv
<1>4. ASSUME phase \in {"preflight", "match", "plan"}, Aborts, UNCHANGED <<sent, motion_sent, harm>>
      PROVE  LieInv'
  BY <1>4, AbortsLying DEF LieInv
<1>5. CASE Preflight \/ AwaitMatch \/ RecoverSpins
  BY <1>3, <1>5 DEF Preflight, AwaitMatch, RecoverSpins
<1>6. ASSUME NEW env \in Environments, PreflightEnds(env) PROVE LieInv'
  <2>1. sent' = <<>> /\ ~InMotion'
    BY <1>2, <1>6, Unmoved DEF PreflightEnds, PlanInv
  <2>2. phase' \in {"ended", "match", "plan"} /\ (phase' # "ended" /\ Publishing => made')
    BY <1>6 DEF PreflightEnds, Refused
  <2>3. QED
    BY <1>1, <2>1, <2>2 DEF LieInv
<1>7. CASE MatchEnds
  <2>1. sent' = <<>> /\ ~InMotion'
    BY <1>2, <1>7, Unmoved DEF MatchEnds, PlanInv
  <2>2. phase' \in {"ended", "plan"} /\ phase = "match" /\ made' = made
    BY <1>7 DEF MatchEnds, Refused
  <2>3. QED
    BY <1>1, <2>1, <2>2 DEF LieInv
<1>8. CASE SpinGuarded
  <2>1. phase = "plan" /\ UNCHANGED <<step, made, motion_sent, sent, harm>>
    BY <1>8 DEF SpinGuarded, Spinning
  <2>2. CASE Yields
    BY <1>2, <1>8, <2>1, <2>2 DEF SpinGuarded, Guards, Yields, Aborts, LieInv
  <2>3. CASE Aborts
    BY <1>4, <2>1, <2>3
  <2>4. CASE phase' = phase
    BY <1>3, <2>1, <2>4
  <2>5. Yields \/ Aborts \/ phase' = phase
    BY <1>8 DEF SpinGuarded, Guards
  <2>6. QED
    BY <2>2, <2>3, <2>4, <2>5
<1>9. CASE StepEnds
  <2>1. /\ phase = "plan" /\ UNCHANGED <<phase, sent, made, motion_sent, harm>>
        /\ step' = step + 1 /\ Step[1] # "send"
    BY <1>9 DEF StepEnds, Spinning
  <2>2. InMotion => step + 1 <= Len(Plan) - 2
    BY <2>1, LastSent DEF LieInv
  <2>3. QED
    BY <1>1, <1>2, <2>1, <2>2 DEF LieInv
<1>10. CASE PostureTimesOut
  BY <1>4, <1>10 DEF PostureTimesOut, Spinning
<1>11. CASE StepSends
  <2>1. /\ phase = "plan" /\ step <= Len(Plan) /\ UNCHANGED <<phase, made, harm>>
        /\ step' = step + 1 /\ Step[1] = "send" /\ Send(Step[2])
    BY <1>11 DEF StepSends, Plan
  <2>2. Step[2] \in Names /\ Step = Plan[step] /\ step \in 1..Len(Plan) /\ Len(Plan) \in Nat
    BY <2>1, StepTyped
  <2>3. InMotion' => Step[2] \in Motion \/ (InMotion /\ Step[2] # "STANDDOWN")
    BY <2>1, <2>2, MotionAfter DEF Send
  <2>4. Publishing
    BY <2>1, <2>2 DEF Publishing, Plan, Step
  <2>5. Step[2] \in Motion => stage \in StandingStages /\ step + 1 <= Len(Plan) - 2
    <3>1. Step[2] \in Motion => Moving(Plan[step])
      BY <2>1, <2>2 DEF Moving
    <3>2. Step[2] \in Motion => stage \in StandingStages /\ step < Len(Plan) - 2
      BY <2>2, <3>1, PlanShape DEF Plan, PlanInv
    <3>3. QED
      BY <2>2, <3>2
  <2>6. InMotion' => stage \in StandingStages /\ step + 1 <= Len(Plan) - 2
    BY <2>1, <2>3, <2>5, LastSent DEF LieInv
  <2>7. InMotion' => motion_sent' \/ harm' # None
    BY <2>1, <2>3 DEF Send, LieInv
  <2>8. QED
    BY <1>1, <2>1, <2>4, <2>6, <2>7 DEF LieInv
<1>12. CASE StreamSends
  <2>1. /\ phase = "plan" /\ step <= Len(Plan) /\ UNCHANGED <<phase, made, step, harm>>
        /\ Step[1] = "stream" /\ Send("MOVE")
    BY <1>12 DEF StreamSends, Spinning, Plan
  <2>2. Step = Plan[step] /\ step \in 1..Len(Plan) /\ Len(Plan) \in Nat
    BY <2>1, StepTyped
  <2>3. Publishing
    BY <2>1, <2>2 DEF Publishing, Plan, Step
  <2>4. stage \in StandingStages /\ step <= Len(Plan) - 2
    <3>1. Moving(Plan[step])
      BY <2>1, <2>2 DEF Moving
    <3>2. stage \in StandingStages /\ step < Len(Plan) - 2
      BY <2>2, <3>1, PlanShape DEF Plan, PlanInv
    <3>3. QED
      BY <2>2, <3>2
  <2>5. motion_sent'
    BY <2>1 DEF Send, Motion
  <2>6. QED
    BY <1>1, <2>1, <2>3, <2>4, <2>5 DEF LieInv
<1>13. CASE Done
  <2>1. phase = "plan" /\ step > Len(Plan) /\ UNCHANGED <<sent, motion_sent, harm>> /\ phase' = "ended"
    BY <1>13 DEF Done, Plan
  <2>2. ~InMotion
    BY <2>1, PlanShape DEF LieInv, PlanInv, Plan
  <2>3. QED
    BY <1>2, <2>1, <2>2 DEF LieInv
<1>14. CASE Interrupt
  BY <1>4, <1>14 DEF Interrupt
<1>15. CASE RecoverStops
  <2>1. phase' = (IF motion_sent THEN "stopped" ELSE "ended") /\ Send("STOPMOVE") /\ harm' = harm
    BY <1>15 DEF RecoverStops
  <2>2. InMotion' => InMotion
    BY <2>1, MotionAfter DEF Send, Names, Motion
  <2>3. motion_sent => motion_sent'
    BY <2>1 DEF Send
  <2>4. QED
    BY <2>1, <2>2, <2>3 DEF LieInv
<1>16. CASE RecoverLies
  <2>1. phase' = "ended" /\ Send("STANDDOWN")
    BY <1>16 DEF RecoverLies
  <2>2. ~InMotion'
    BY <2>1, MotionAfter DEF Send, Names, Motion
  <2>3. QED
    BY <2>1, <2>2 DEF LieInv
<1>17. CASE RecoveryFails
  BY <1>2, <1>17, ProbeAssumption DEF RecoveryFails, LieInv
<1>18. CASE UNCHANGED probeVars
  BY <1>1, <1>2, <1>18 DEF probeVars, stVars, LieInv
<1>19. CASE SendInterrupted
  <2>1. /\ phase = "plan" /\ step <= Len(Plan) /\ Aborts
        /\ UNCHANGED <<made, motion_sent, handset>>
    BY <1>19, CutSends
  <2>2. PICK name \in Names : /\ CutShort(name) /\ sent' = Append(sent, name)
                              /\ \/ Step[1] = "send" /\ name = Step[2]
                                 \/ Step[1] = "stream" /\ name = "MOVE" /\ moves < MOVES
    BY <1>19, CutSends
  <2>3. made
    <3>1. Step = Plan[step] /\ step \in 1..Len(Plan)
      BY <2>1, StepTyped
    <3>2. Publishing
      BY <2>2, <3>1 DEF Publishing, Plan, Step
    <3>3. QED
      BY <2>1, <3>2 DEF LieInv
  <2>4. InMotion' => name \in Motion \/ InMotion
    BY <2>2, MotionAfter
  <2>5. InMotion' => motion_sent' \/ harm' # None
    <3>1. "flag not set" # None
      BY ProbeAssumption
    <3>2. /\ motion_sent' = motion_sent
          /\ harm' = (IF name \in Motion /\ ~motion_sent THEN "flag not set" ELSE harm)
      BY <2>2 DEF CutShort
    <3>3. InMotion => motion_sent \/ harm # None
      BY DEF LieInv
    <3>4. CASE motion_sent
      BY <3>2, <3>4
    <3>5. CASE ~motion_sent
      BY <2>4, <3>1, <3>2, <3>3, <3>5
    <3>6. QED
      BY <3>4, <3>5
  <2>6. phase' = "recover" \/ (phase' = "ended" /\ handset')
    BY <2>1, <2>3 DEF Aborts
  <2>7. QED
    BY <2>5, <2>6 DEF LieInv
<1>20. QED
  BY <1>5, <1>6, <1>7, <1>8, <1>9, <1>10, <1>11, <1>12, <1>13, <1>14, <1>15, <1>16, <1>17,
     <1>18, <1>19 DEF ProbeNext

(* "Every motion stage starts lying and ends lying": however a stage ends, *)
(* what was stood up was sent down, unless the operator took over, the     *)
(* recovery itself failed or a Ctrl+C fell inside the send of the StandUp. *)
(* A plan that moves has its StandDown still ahead of it, and whatever     *)
(* else cuts it short knows that something moved (run_live, send).         *)
THEOREM ProbeEndsLying == ProbeSpec => []EndsLying
<1>1. ProbeInit => LieInv
  BY Unmoved DEF ProbeInit, LieInv
<1>2. PlanInv /\ LieInv /\ [ProbeNext]_probeVars => LieInv'
  BY LieStep
<1>3. LieInv => EndsLying
  BY DEF LieInv, EndsLying
<1>4. QED
  BY <1>1, <1>2, <1>3, PlanTyped, PTL DEF ProbeSpec

-----------------------------------------------------------------------------
(* What was sent.                                                          *)
LEMMA ContinuesIsPrefix ==
  ASSUME NEW T, NEW s \in Seq(T), NEW t \in Seq(T), Continues(T, s, t)
  PROVE  Len(s) \in 0..Len(t) /\ SubSeq(t, 1, Len(s)) = s /\ IsPrefix(s, t)
<1>1. PICK u \in Seq(T) : t = s \o u
  BY DEF Continues
<1>2. Len(s) \in Nat /\ Len(t) \in Nat /\ Len(u) \in Nat /\ Len(t) = Len(s) + Len(u)
  BY <1>1, ConcatProperties
<1>3. SubSeq(s, 1, Len(s)) = s
  BY SubSeqFull
<1>4. SubSeq(t, 1, Len(s)) = s
  <2>1. CASE s = <<>>
    <3>1. Len(s) = 0
      BY <2>1
    <3>2. SubSeq(t, 1, 0) = <<>>
      BY SubSeqEmpty
    <3>3. QED
      BY <2>1, <3>1, <3>2
  <2>2. CASE s # <<>>
    <3>1. 1 \in 1..Len(s) /\ Len(s) \in 1..Len(s)
      BY <2>2, <1>2
    <3>2. SubSeq(s \o u, 1, Len(s)) = SubSeq(s, 1, Len(s))
      BY <3>1, SubSeqOfConcat1
    <3>3. QED
      BY <1>1, <1>3, <3>2
  <2>3. QED
    BY <2>1, <2>2
<1>5. QED
  BY <1>2, <1>3, <1>4 DEF IsPrefix

LEMMA MovedTyped ==
  ASSUME NEW k \in Nat
  PROVE  Moved(k) \in Seq(Names) /\ Len(Moved(k)) = k /\ \A i \in 1..k : Moved(k)[i] = "MOVE"
<1>1. Moved(k) \in [1..k -> Names]
  BY DEF Moved, Names, Motion
<1>2. Moved(k) \in Seq(Names)
  BY <1>1, SeqDef, Zenon
<1>3. DOMAIN Moved(k) = 1..k
  BY DEF Moved
<1>4. Len(Moved(k)) = k
  BY <1>2, <1>3
<1>5. \A i \in 1..k : Moved(k)[i] = "MOVE"
  BY DEF Moved
<1>6. QED
  BY <1>2, <1>4, <1>5

LEMMA MovedOn ==
  ASSUME NEW j \in Nat, NEW k \in Nat
  PROVE  Moved(j + k) = Moved(j) \o Moved(k)
<1>1. PICK a : a = Moved(j)
  OBVIOUS
<1>2. PICK b : b = Moved(k)
  OBVIOUS
<1>3. PICK c : c = Moved(j + k)
  OBVIOUS
<1>4. a \in Seq(Names) /\ Len(a) = j /\ \A i \in 1..j : a[i] = "MOVE"
  BY <1>1, MovedTyped
<1>5. b \in Seq(Names) /\ Len(b) = k /\ \A i \in 1..k : b[i] = "MOVE"
  BY <1>2, MovedTyped
<1>6. c \in Seq(Names) /\ Len(c) = j + k /\ \A i \in 1..j + k : c[i] = "MOVE"
  BY <1>3, MovedTyped
<1>7. /\ a \o b \in Seq(Names) /\ Len(a \o b) = j + k
      /\ \A i \in 1..j + k : (a \o b)[i] = IF i <= j THEN a[i] ELSE b[i - j]
  BY <1>4, <1>5, ConcatProperties
<1>8. ASSUME NEW i \in 1..j + k PROVE (a \o b)[i] = c[i]
  <2>1. ~(i <= j) => i - j \in 1..k
    OBVIOUS
  <2>2. QED
    BY <1>4, <1>5, <1>6, <1>7, <2>1
<1>9. a \o b = c
  BY <1>6, <1>7, <1>8, SeqEqual
<1>10. QED
  BY <1>1, <1>2, <1>3, <1>9

LEMMA MovedFew == Moved(0) = <<>> /\ Moved(1) = <<"MOVE">>
<1>1. Moved(0) \in Seq(Names) /\ Len(Moved(0)) = 0
  BY MovedTyped
<1>2. Moved(1) \in Seq(Names) /\ Len(Moved(1)) = 1 /\ Moved(1)[1] = "MOVE"
  <2>1. Moved(1) \in Seq(Names) /\ Len(Moved(1)) = 1 /\ \A i \in 1..1 : Moved(1)[i] = "MOVE"
    BY MovedTyped, Zenon
  <2>2. QED
    BY <2>1
<1>3. <<"MOVE">> \in Seq(Names) /\ Len(<<"MOVE">>) = 1
  BY DEF Names, Motion
<1>4. Moved(1) = <<"MOVE">>
  BY <1>2, <1>3, SeqEqual
<1>5. QED
  BY <1>1, <1>4

LEMMA AtNumbers ==
  ASSUME PlanInv, phase = "plan"
  PROVE  step \in Nat /\ moves \in Nat /\ MOVES - moves \in Nat /\ step \in 1..Len(Plan) + 1
<1>1. step \in 1..Len(Plan) + 1 /\ moves \in 0..MOVES
  BY DEF PlanInv
<1>2. MOVES \in Nat
  BY ProbeAssumption
<1>3. QED
  BY <1>1, <1>2

\* at each step of a plan: what its earlier steps sent, and the Moves of a stream
AtStep == sent = SentBefore(Plan)[step - 1] \o Moved(moves)

LEMMA BeforeSteps ==
  ASSUME PlanInv
  PROVE  /\ Plan \in Seq(StepSet) /\ Len(Plan) \in Nat /\ Len(Plan) >= 1
         /\ \A i \in 0..Len(Plan) : /\ SentBefore(Plan)[i] \in Seq(Names)
                                    /\ Continues(Names, SentBefore(Plan)[i], Planned)
         /\ SentBefore(Plan)[0] = <<>>
         /\ \A i \in 1..Len(Plan) : SentBefore(Plan)[i] = SentBefore(Plan)[i - 1] \o RequestsOf(Plan[i])
         /\ Planned \in Seq(Names)
<1>1. Plan \in Seq(StepSet) /\ Len(Plan) \in Nat /\ Len(Plan) >= 1
  BY PlanShape DEF PlanInv, Plan
<1>2. IsSentBefore(Plan, SentBefore(Plan))
  BY <1>1, SentBeforeSteps
<1>3. PICK p : p = SentBefore(Plan)
  OBVIOUS
<1>4. /\ p \in [0..Len(Plan) -> Seq(Names)] /\ p[0] = <<>> /\ Planned \in Seq(Names)
      /\ \A i \in 1..Len(Plan) : p[i] = p[i - 1] \o RequestsOf(Plan[i])
      /\ \A i \in 0..Len(Plan) : Continues(Names, p[i], Planned)
  BY <1>2, <1>3 DEF IsSentBefore, Planned
<1>5. \A i \in 0..Len(Plan) : p[i] \in Seq(Names)
  BY <1>4
<1>6. QED
  BY <1>1, <1>3, <1>4, <1>5

LEMMA ContinuesTrans ==
  ASSUME NEW T, NEW s \in Seq(T), NEW t \in Seq(T), NEW u \in Seq(T),
         Continues(T, s, t), Continues(T, t, u)
  PROVE  Continues(T, s, u)
<1>1. PICK v \in Seq(T) : u = t \o v
  BY DEF Continues
<1>2. QED
  BY <1>1, ContinuesBy

LEMMA PartContinues ==
  ASSUME PlanInv, phase = "plan",
         NEW k \in 0..MOVES, k # 0 => step <= Len(Plan) /\ Step[1] = "stream",
         NEW some_sent, some_sent = SentBefore(Plan)[step - 1] \o Moved(k)
  PROVE  some_sent \in Seq(Names) /\ Continues(Names, some_sent, Planned)
<1> DEFINE before == SentBefore(Plan)[step - 1]
<1>1. step \in 1..Len(Plan) + 1 /\ MOVES \in Nat
  BY ProbeAssumption DEF PlanInv
<1>2. step - 1 \in 0..Len(Plan)
  BY <1>1, BeforeSteps
<1>3. before \in Seq(Names) /\ Continues(Names, before, Planned) /\ some_sent = before \o Moved(k)
  BY <1>2, BeforeSteps
<1> HIDE DEF before
<1>4. CASE k = 0
  <2>1. some_sent = before
    BY <1>3, <1>4, MovedFew, ConcatEmptySeq
  <2>2. QED
    BY <1>3, <2>1
<1>5. CASE k # 0
  <2>1. step \in 1..Len(Plan) /\ Step \in StepSet /\ Step = Plan[step] /\ Step[1] = "stream"
    BY <1>1, <1>5, StepTyped
  <2>2. RequestsOf(Plan[step]) = Moved(MOVES)
    BY <2>1, RequestsTyped DEF Moved
  <2>3. PICK rest : rest = Moved(MOVES - k)
    OBVIOUS
  <2>4. k \in Nat /\ MOVES - k \in Nat /\ k + (MOVES - k) = MOVES
    BY <1>1
  <2>5. Moved(MOVES) = Moved(k) \o rest /\ rest \in Seq(Names) /\ Moved(k) \in Seq(Names)
    BY <2>3, <2>4, MovedOn, MovedTyped
  <2>6. PICK after : after = SentBefore(Plan)[step]
    OBVIOUS
  <2>7. after = before \o Moved(MOVES) /\ after \in Seq(Names) /\ Continues(Names, after, Planned)
    <3>1. step \in 0..Len(Plan)
      BY <2>1, BeforeSteps
    <3>2. QED
      BY <2>1, <2>2, <2>6, <3>1, BeforeSteps DEF before
  <2>8. after = some_sent \o rest /\ some_sent \in Seq(Names)
    <3>1. PICK some : some = Moved(k)
      OBVIOUS
    <3>2. some \in Seq(Names) /\ some_sent = before \o some /\ after = before \o (some \o rest)
      BY <1>3, <2>5, <2>7, <3>1
    <3>3. before \in Seq(Names) /\ rest \in Seq(Names)
      BY <1>3, <2>5
    <3>4. (before \o some) \o rest = before \o (some \o rest)
      BY <3>2, <3>3, ConcatAssociative
    <3>5. before \o some \in Seq(Names)
      BY <3>2, <3>3, ConcatProperties
    <3>6. QED
      BY <3>2, <3>4, <3>5
  <2>9. Continues(Names, some_sent, after)
    BY <2>5, <2>8 DEF Continues
  <2>10. QED
    BY <2>7, <2>8, <2>9, BeforeSteps, ContinuesTrans
<1>6. QED
  BY <1>4, <1>5

LEMMA AtStepContinues ==
  ASSUME PlanInv, phase = "plan", AtStep
  PROVE  Continues(Names, sent, Planned)
<1>1. moves \in 0..MOVES /\ (moves # 0 => step <= Len(Plan) /\ Step[1] = "stream")
  BY DEF PlanInv
<1>2. QED
  BY <1>1, PartContinues DEF AtStep

LEMMA ConcatTwo ==
  ASSUME NEW x \in Names, NEW y \in Names
  PROVE  <<x>> \o <<y>> = <<x, y>>
<1>1. PICK s : s = <<x>>
  OBVIOUS
<1>2. PICK t : t = <<y>>
  OBVIOUS
<1>3. PICK v : v = s \o t
  OBVIOUS
<1>4. s \in Seq(Names) /\ Len(s) = 1 /\ s[1] = x
  BY <1>1
<1>5. t \in Seq(Names) /\ Len(t) = 1 /\ t[1] = y
  BY <1>2
<1>6. v \in Seq(Names) /\ Len(v) = 2
  BY <1>3, <1>4, <1>5, ConcatProperties
<1>7. \A i \in 1..1 + 1 : v[i] = IF i <= 1 THEN s[i] ELSE t[i - 1]
  BY <1>3, <1>4, <1>5, ConcatProperties
<1>8. v[1] = x /\ v[2] = y
  BY <1>4, <1>5, <1>7
<1>9. PICK w : w = <<x, y>>
  OBVIOUS
<1>10. w \in Seq(Names) /\ Len(w) = 2 /\ w[1] = x /\ w[2] = y
  BY <1>9
<1>11. \A i \in 1..2 : v[i] = w[i]
  BY <1>8, <1>10
<1>12. v = w
  BY <1>6, <1>10, <1>11, SeqEqual
<1>13. QED
  BY <1>1, <1>2, <1>3, <1>9, <1>12

\* a part of what was planned, and then the recovery
Cut(tail) ==
  \E before \in Seq(Names) : Continues(Names, before, Planned) /\ sent = before \o tail

SentInv ==
  /\ phase = "plan" => AtStep
  /\ phase = "recover" => rc = 1 /\ Continues(Names, sent, Planned)
  /\ phase = "stopped" => rc = 1 /\ Cut(<<"STOPMOVE">>)
  /\ phase = "ended" =>
       \/ Continues(Names, sent, Planned)
       \/ rc = 1 /\ (Cut(<<"STOPMOVE">>) \/ Cut(<<"STOPMOVE", "STANDDOWN">>))

LEMMA NothingContinues ==
  ASSUME PlanInv, sent = <<>>
  PROVE  Continues(Names, sent, Planned)
<1>1. <<>> \o Planned = Planned
  BY BeforeSteps, ConcatEmptySeq
<1>2. QED
  BY <1>1, BeforeSteps DEF Continues

\* however far it was, what was sent so far continues into what was planned
LEMMA SoFar ==
  ASSUME PlanInv, SentInv, phase \in {"preflight", "match", "plan"}
  PROVE  Continues(Names, sent, Planned)
<1>1. CASE phase = "plan"
  BY <1>1, AtStepContinues DEF SentInv
<1>2. CASE phase # "plan"
  BY <1>2, NothingContinues DEF PlanInv
<1>3. QED
  BY <1>1, <1>2

LEMMA FirstStep ==
  ASSUME PlanInv, step' = 1, moves' = 0, sent' = <<>>, Plan' = Plan
  PROVE  AtStep'
<1>1. <<>> \o <<>> = <<>>
  BY EmptySeq, ConcatEmptySeq
<1>2. (SentBefore(Plan)[step - 1])' = SentBefore(Plan)[0]
  OBVIOUS
<1>3. QED
  BY <1>1, <1>2, BeforeSteps, MovedFew DEF AtStep, Moved

LEMMA NextStep ==
  ASSUME PlanInv, AtStep, phase = "plan", step <= Len(Plan), Plan' = Plan,
         step' = step + 1, moves' = 0,
         NEW requests \in Seq(Names), sent' = sent \o requests,
         RequestsOf(Step) = Moved(moves) \o requests
  PROVE  AtStep'
<1> DEFINE before == SentBefore(Plan)[step - 1]
           after == SentBefore(Plan)[step]
<1>1. step \in 1..Len(Plan) /\ Step = Plan[step] /\ step \in Nat /\ moves \in Nat
  BY StepTyped, AtNumbers
<1>2. step - 1 \in 0..Len(Plan) /\ step \in 0..Len(Plan)
  BY <1>1, BeforeSteps
<1>3. before \in Seq(Names) /\ after \in Seq(Names) /\ after = before \o RequestsOf(Step)
  BY <1>1, <1>2, BeforeSteps
<1>4. PICK some : some = Moved(moves)
  OBVIOUS
<1>5. some \in Seq(Names) /\ sent = before \o some /\ after = before \o (some \o requests)
  BY <1>1, <1>3, <1>4, MovedTyped DEF AtStep
<1>6. AtStep' <=> sent' = after \o Moved(0)
  <2>1. (step + 1) - 1 = step
    BY <1>1
  <2>2. QED
    BY <2>1 DEF AtStep, Moved
<1> HIDE DEF before, after
<1>7. (before \o some) \o requests = before \o (some \o requests)
  <2>1. before \in Seq(Names) /\ some \in Seq(Names)
    BY <1>3, <1>5
  <2>2. QED
    BY <2>1, ConcatAssociative
<1>8. sent' = after
  BY <1>5, <1>7
<1>9. after \o Moved(0) = after
  BY <1>3, MovedFew, ConcatEmptySeq
<1>10. QED
  BY <1>6, <1>8, <1>9

LEMMA OneMoveMore ==
  ASSUME PlanInv, AtStep, phase = "plan"
  PROVE  Append(sent, "MOVE") = SentBefore(Plan)[step - 1] \o Moved(moves + 1)
<1> DEFINE before == SentBefore(Plan)[step - 1]
<1>1. moves \in Nat /\ step \in 1..Len(Plan) + 1
  BY AtNumbers
<1>2. step - 1 \in 0..Len(Plan)
  BY <1>1, BeforeSteps
<1>3. before \in Seq(Names)
  BY <1>2, BeforeSteps
<1>4. PICK some : some = Moved(moves)
  OBVIOUS
<1>5. some \in Seq(Names) /\ sent = before \o some
  BY <1>1, <1>4, MovedTyped DEF AtStep
<1> HIDE DEF before
<1>6. Moved(moves + 1) = some \o <<"MOVE">> /\ <<"MOVE">> \in Seq(Names) /\ "MOVE" \in Names
  <2>1. 1 \in Nat
    OBVIOUS
  <2>2. Moved(moves + 1) = Moved(moves) \o Moved(1)
    BY <1>1, <2>1, MovedOn
  <2>3. Moved(1) \in Seq(Names)
    BY <2>1, MovedTyped
  <2>4. QED
    BY <1>4, <2>2, <2>3, MovedFew DEF Names, Motion
<1>7. sent \in Seq(Names)
  BY DEF PlanInv
<1>8. Append(sent, "MOVE") = sent \o <<"MOVE">>
  BY <1>6, <1>7, AppendIsConcat
<1>9. (before \o some) \o <<"MOVE">> = before \o (some \o <<"MOVE">>)
  BY <1>3, <1>5, <1>6, ConcatAssociative
<1>10. Append(sent, "MOVE") = before \o Moved(moves + 1)
  BY <1>5, <1>6, <1>8, <1>9
<1>11. QED
  BY <1>10 DEF before

LEMMA NextMove ==
  ASSUME PlanInv, AtStep, phase = "plan", Plan' = Plan, step' = step, moves' = moves + 1,
         sent' = Append(sent, "MOVE")
  PROVE  AtStep'
<1>1. AtStep' <=> sent' = SentBefore(Plan)[step - 1] \o Moved(moves + 1)
  BY DEF AtStep, Moved
<1>2. QED
  BY <1>1, OneMoveMore

\* a send that is broken off has sent what the step would have
LEMMA CutContinues ==
  ASSUME PlanInv, AtStep, SendInterrupted
  PROVE  Continues(Names, sent', Planned)
<1>1. phase = "plan" /\ step <= Len(Plan)
  BY CutSends
<1>2. PICK name \in Names : /\ sent' = Append(sent, name)
                            /\ \/ Step[1] = "send" /\ name = Step[2]
                               \/ Step[1] = "stream" /\ name = "MOVE" /\ moves < MOVES
  BY CutSends
<1>3. /\ step \in 1..Len(Plan) /\ Step = Plan[step] /\ Step \in StepSet
      /\ moves \in Nat /\ MOVES \in Nat /\ sent \in Seq(Names)
  <2>1. step \in 1..Len(Plan) /\ Step = Plan[step] /\ Step \in StepSet
    BY <1>1, StepTyped
  <2>2. moves \in Nat /\ MOVES \in Nat /\ sent \in Seq(Names)
    BY <1>1, AtNumbers, ProbeAssumption DEF PlanInv
  <2>3. QED
    BY <2>1, <2>2
<1>4. CASE Step[1] = "stream"
  <2>0. moves < MOVES /\ name = "MOVE"
    BY <1>2, <1>4
  <2>1. moves + 1 \in 0..MOVES /\ sent' = SentBefore(Plan)[step - 1] \o Moved(moves + 1)
    <3>1. moves + 1 \in 0..MOVES
      BY <1>3, <2>0
    <3>2. Append(sent, "MOVE") = SentBefore(Plan)[step - 1] \o Moved(moves + 1)
      BY <1>1, OneMoveMore
    <3>3. QED
      BY <1>2, <2>0, <3>1, <3>2
  <2>2. QED
    BY <1>1, <1>4, <2>1, PartContinues
<1>5. CASE Step[1] = "send"
  <2>1. moves = 0
    BY <1>1, <1>5 DEF PlanInv
  <2>2. step - 1 \in 0..Len(Plan) /\ step \in 0..Len(Plan)
    BY <1>3, BeforeSteps
  <2>3. PICK before : before = SentBefore(Plan)[step - 1]
    OBVIOUS
  <2>4. before \in Seq(Names) /\ sent = before
    BY <2>1, <2>2, <2>3, BeforeSteps, MovedFew, ConcatEmptySeq DEF AtStep
  <2>5. RequestsOf(Plan[step]) = <<name>>
    BY <1>2, <1>3, <1>5, RequestsTyped
  <2>6. sent' = SentBefore(Plan)[step]
    BY <1>2, <1>3, <2>3, <2>4, <2>5, BeforeSteps, AppendIsConcat
  <2>7. QED
    BY <2>2, <2>6, BeforeSteps
<1>6. QED
  BY <1>2, <1>4, <1>5

\* a plan or a wait that breaks off leaves what continues into the plan
LEMMA BreaksOff ==
  ASSUME PlanInv, SentInv, phase \in {"preflight", "match", "plan"}, Planned' = Planned,
         sent' = sent, phase' = "ended" \/ (phase' = "recover" /\ rc' = 1)
  PROVE  SentInv'
<1>1. Continues(Names, sent, Planned)
  BY SoFar
<1>2. QED
  BY <1>1 DEF SentInv

LEMMA SentStep ==
  ASSUME PlanInv, SentInv, [ProbeNext]_probeVars
  PROVE  SentInv'
<1>1. Plan' = Plan /\ Planned' = Planned
  BY StageKept
<1>2. ASSUME phase' \in {"dry run", "preflight", "match"} PROVE SentInv'
  BY <1>2 DEF SentInv
<1>3. ASSUME UNCHANGED <<phase, step, moves, rc, sent>> PROVE SentInv'
  <2>1. AtStep' <=> AtStep
    BY <1>1, <1>3 DEF AtStep, Moved
  <2>2. Cut(<<"STOPMOVE">>)' <=> Cut(<<"STOPMOVE">>)
    BY <1>1, <1>3 DEF Cut
  <2>3. Cut(<<"STOPMOVE", "STANDDOWN">>)' <=> Cut(<<"STOPMOVE", "STANDDOWN">>)
    BY <1>1, <1>3 DEF Cut
  <2>4. QED
    BY <1>1, <1>3, <2>1, <2>2, <2>3 DEF SentInv
<1>4. ASSUME phase \in {"preflight", "match"}, phase' = "plan", UNCHANGED <<step, moves, sent>>
      PROVE  SentInv'
  <2>1. step' = 1 /\ moves' = 0 /\ sent' = <<>>
    BY <1>4 DEF PlanInv
  <2>2. QED
    BY <1>1, <1>4, <2>1, FirstStep DEF SentInv
<1>5. ASSUME phase = "plan", phase' = "plan", AtStep' PROVE SentInv'
  BY <1>5 DEF SentInv
<1>6. CASE Preflight \/ AwaitMatch
  BY <1>2, <1>6 DEF Preflight, AwaitMatch
<1>7. ASSUME NEW env \in Environments, PreflightEnds(env) PROVE SentInv'
  BY <1>1, <1>2, <1>4, <1>7, BreaksOff DEF PreflightEnds, Refused
<1>8. CASE MatchEnds
  BY <1>1, <1>4, <1>8, BreaksOff DEF MatchEnds, Refused
<1>9. CASE SpinGuarded
  <2>1. phase = "plan" /\ UNCHANGED <<step, moves, sent>>
    BY <1>9 DEF SpinGuarded, Spinning
  <2>2. CASE UNCHANGED <<phase, rc>>
    BY <1>3, <2>1, <2>2
  <2>3. CASE Yields \/ Aborts
    BY <1>1, <2>1, <2>3, BreaksOff DEF Yields, Aborts
  <2>4. QED
    BY <1>9, <2>2, <2>3 DEF SpinGuarded, Guards
<1>10. CASE StepEnds
  <2>1. /\ phase = "plan" /\ step <= Len(Plan) /\ UNCHANGED <<phase, sent>> /\ step' = step + 1
        /\ moves' = 0 /\ Step[1] # "send" /\ (Step[1] = "stream" => moves = MOVES)
    BY <1>10 DEF StepEnds, Spinning, Plan
  <2>2. Step \in StepSet
    BY <2>1, StepTyped
  <2>3. sent' = sent \o <<>> /\ <<>> \in Seq(Names)
    BY <2>1, ConcatEmptySeq, EmptySeq DEF PlanInv
  <2>4. RequestsOf(Step) = Moved(moves) \o <<>>
    <3>1. CASE Step[1] = "stream"
      <4>1. RequestsOf(Step) = Moved(moves)
        BY <2>1, <2>2, <3>1, RequestsTyped DEF Moved
      <4>2. PICK some : some = Moved(moves)
        OBVIOUS
      <4>3. some \in Seq(Names)
        BY <2>1, <4>2, AtNumbers, MovedTyped
      <4>4. some \o <<>> = some
        BY <4>3, ConcatEmptySeq
      <4>5. QED
        BY <4>1, <4>2, <4>4
    <3>2. CASE Step[1] # "stream"
      <4>1. RequestsOf(Step) = <<>> /\ moves = 0
        BY <2>1, <2>2, <3>2, RequestsTyped DEF PlanInv
      <4>2. <<>> \o <<>> = <<>>
        BY EmptySeq, ConcatEmptySeq
      <4>3. QED
        BY <4>1, <4>2, MovedFew
    <3>3. QED
      BY <3>1, <3>2
  <2>5. AtStep'
    BY <1>1, <2>1, <2>3, <2>4, NextStep DEF SentInv
  <2>6. QED
    BY <1>5, <2>1, <2>5
<1>11. CASE PostureTimesOut
  BY <1>1, <1>11, BreaksOff DEF PostureTimesOut, Spinning, Aborts
<1>12. CASE StepSends
  <2>1. /\ phase = "plan" /\ step <= Len(Plan) /\ UNCHANGED <<phase, moves>>
        /\ step' = step + 1 /\ Step[1] = "send" /\ sent' = Append(sent, Step[2])
    BY <1>12 DEF StepSends, Plan, Send
  <2>2. Step \in StepSet /\ Step[2] \in Names /\ sent \in Seq(Names)
    BY <2>1, StepTyped DEF PlanInv
  <2>3. moves = 0 /\ moves' = 0
    BY <2>1 DEF PlanInv
  <2>4. PICK requests : requests = <<Step[2]>>
    OBVIOUS
  <2>5. requests \in Seq(Names) /\ sent' = sent \o requests
    BY <2>1, <2>2, <2>4, AppendIsConcat
  <2>6. RequestsOf(Step) = Moved(moves) \o requests
    <3>1. RequestsOf(Step) = requests
      BY <2>1, <2>2, <2>4, RequestsTyped
    <3>2. <<>> \o requests = requests
      BY <2>5, ConcatEmptySeq
    <3>3. QED
      BY <2>3, <3>1, <3>2, MovedFew
  <2>7. AtStep'
    BY <1>1, <2>1, <2>3, <2>5, <2>6, NextStep DEF SentInv
  <2>8. QED
    BY <1>5, <2>1, <2>7
<1>13. CASE StreamSends
  <2>1. /\ phase = "plan" /\ UNCHANGED <<phase, step>> /\ moves' = moves + 1
        /\ sent' = Append(sent, "MOVE")
    BY <1>13 DEF StreamSends, Spinning, Send
  <2>2. AtStep'
    BY <1>1, <2>1, NextMove DEF SentInv
  <2>3. QED
    BY <1>5, <2>1, <2>2
<1>14. CASE Done
  BY <1>1, <1>14, BreaksOff DEF Done
<1>15. CASE Interrupt
  BY <1>1, <1>15, BreaksOff DEF Interrupt, Aborts
<1>16. CASE RecoverStops
  <2>1. /\ phase = "recover" /\ phase' \in {"stopped", "ended"} /\ rc' = rc
        /\ sent' = Append(sent, "STOPMOVE")
    BY <1>16 DEF RecoverStops, Send
  <2>2. sent \in Seq(Names) /\ "STOPMOVE" \in Names
    BY DEF PlanInv, Names
  <2>3. sent' = sent \o <<"STOPMOVE">>
    BY <2>1, <2>2, AppendIsConcat
  <2>4. Cut(<<"STOPMOVE">>)'
    BY <1>1, <2>1, <2>2, <2>3 DEF Cut, SentInv
  <2>5. QED
    BY <2>1, <2>4 DEF SentInv
<1>17. CASE RecoverLies
  <2>1. phase = "stopped" /\ phase' = "ended" /\ rc' = rc /\ sent' = Append(sent, "STANDDOWN")
    BY <1>17 DEF RecoverLies, Send
  <2>2. PICK before \in Seq(Names) :
          Continues(Names, before, Planned) /\ sent = before \o <<"STOPMOVE">>
    BY <2>1 DEF SentInv, Cut
  <2>3. sent' = before \o <<"STOPMOVE", "STANDDOWN">>
    <3>1. <<"STOPMOVE">> \in Seq(Names) /\ "STANDDOWN" \in Names
      BY DEF Names
    <3>2. sent' = sent \o <<"STANDDOWN">>
      BY <2>1, <3>1, AppendIsConcat DEF PlanInv
    <3>3. <<"STANDDOWN">> \in Seq(Names)
      BY <3>1
    <3>4. (before \o <<"STOPMOVE">>) \o <<"STANDDOWN">>
            = before \o (<<"STOPMOVE">> \o <<"STANDDOWN">>)
      BY <3>1, <3>3, ConcatAssociative
    <3>5. <<"STOPMOVE">> \o <<"STANDDOWN">> = <<"STOPMOVE", "STANDDOWN">>
      BY ConcatTwo DEF Names
    <3>6. QED
      BY <2>2, <3>2, <3>4, <3>5
  <2>4. Cut(<<"STOPMOVE", "STANDDOWN">>)'
    BY <1>1, <2>2, <2>3 DEF Cut
  <2>5. QED
    BY <2>1, <2>4 DEF SentInv
<1>18. CASE RecoverSpins
  BY <1>3, <1>18 DEF RecoverSpins
<1>19. CASE RecoveryFails
  <2>1. phase \in {"recover", "stopped"} /\ phase' = "ended" /\ UNCHANGED <<rc, sent>>
    BY <1>19 DEF RecoveryFails
  <2>2. Cut(<<"STOPMOVE">>)' <=> Cut(<<"STOPMOVE">>)
    BY <1>1, <2>1 DEF Cut
  <2>3. QED
    BY <1>1, <2>1, <2>2 DEF SentInv
<1>20. CASE UNCHANGED probeVars
  BY <1>3, <1>20 DEF probeVars
<1>21. CASE SendInterrupted
  <2>1. phase = "plan" /\ rc' = 1 /\ phase' \in {"recover", "ended"}
    BY <1>21, CutSends DEF Aborts
  <2>2. Continues(Names, sent', Planned)
    BY <1>21, <2>1, CutContinues DEF SentInv
  <2>3. QED
    BY <1>1, <2>1, <2>2 DEF SentInv
<1>22. QED
  BY <1>6, <1>7, <1>8, <1>9, <1>10, <1>11, <1>12, <1>13, <1>14, <1>15, <1>16, <1>17, <1>18,
     <1>19, <1>20, <1>21 DEF ProbeNext

LEMMA CutAsPlanned ==
  ASSUME PlanInv, NEW tail, Cut(tail)
  PROVE  \E n \in 0..Len(Planned) : sent = SubSeq(Planned, 1, n) \o tail
<1>1. PICK before \in Seq(Names) : Continues(Names, before, Planned) /\ sent = before \o tail
  BY DEF Cut
<1>2. Len(before) \in 0..Len(Planned) /\ SubSeq(Planned, 1, Len(before)) = before
  BY <1>1, BeforeSteps, ContinuesIsPrefix
<1>3. QED
  BY <1>1, <1>2

\* a plan that stands up waits to be seen standing before it moves
StoodUp == \E i \in DOMAIN sent : sent[i] = "STANDUP"

RisenInv ==
  /\ phase = "plan" /\ spun => step <= Len(Plan) /\ Step[1] # "send"
  /\ phase = "plan" /\ spun /\ Posture = "standing" /\ StoodUp => risen
  /\ phase = "plan" /\ stage \in StandingStages =>
       (step >= 3 => StoodUp) /\ (step >= 4 => risen)
  /\ \A i \in DOMAIN sent : sent[i] \in {"BALANCESTAND", "MOVE"} => risen

LEMMA StoodUpGrows ==
  ASSUME PlanInv, NEW name \in Names, sent' = Append(sent, name)
  PROVE  /\ StoodUp \/ name = "STANDUP" => StoodUp'
         /\ \A i \in DOMAIN sent' : sent'[i] = name \/ (i \in DOMAIN sent /\ sent'[i] = sent[i])
<1>1. sent \in Seq(Names)
  BY DEF PlanInv
<1>2. /\ Len(sent) \in Nat /\ DOMAIN sent = 1..Len(sent) /\ DOMAIN sent' = 1..Len(sent) + 1
      /\ sent'[Len(sent) + 1] = name /\ \A i \in 1..Len(sent) : sent'[i] = sent[i]
  BY <1>1
<1>3. QED
  BY <1>2 DEF StoodUp

\* whoever sends a BalanceStand or a Move has seen the robot stand
LEMMA MoverRisen ==
  ASSUME PlanInv, RisenInv, phase = "plan", step <= Len(Plan), NEW name,
         \/ Step[1] = "send" /\ name = Step[2]
         \/ Step[1] = "stream" /\ name = "MOVE",
         name \in {"BALANCESTAND", "MOVE"}
  PROVE  risen
<1>1. step \in 1..Len(Plan) /\ Step = Plan[step] /\ Len(Plan) \in Nat
  BY StepTyped
<1>2. Moving(Plan[step])
  BY <1>1 DEF Moving, Motion
<1>3. stage \in StandingStages /\ (step = 2 \/ step > 3)
  BY <1>1, <1>2, PlanShape DEF Plan, PlanInv
<1>4. step # 2
  <2>1. Plan[2] = Snd("STANDUP")
    BY <1>3, PlanShape DEF Plan, PlanInv
  <2>2. QED
    BY <1>1, <2>1 DEF Snd
<1>5. QED
  BY <1>1, <1>3, <1>4 DEF RisenInv

LEMMA RisenStep ==
  ASSUME PlanInv, RisenInv, [ProbeNext]_probeVars
  PROVE  RisenInv'
<1>1. stage' = stage /\ Plan' = Plan /\ sent \in Seq(Names)
  BY StageKept DEF PlanInv
<1>2. ASSUME sent' = sent PROVE StoodUp' <=> StoodUp
  BY <1>2 DEF StoodUp
<1>3. ASSUME sent' = sent, phase' # "plan", risen => risen' PROVE RisenInv'
  BY <1>3 DEF RisenInv
<1>4. ASSUME NEW name \in Names, sent' = Append(sent, name), phase' # "plan", risen' = risen,
             name \in {"BALANCESTAND", "MOVE"} => risen
      PROVE  RisenInv'
  BY <1>4, StoodUpGrows DEF RisenInv
<1>5. ASSUME phase \in {"preflight", "match"}, UNCHANGED <<step, spun, sent, risen>> PROVE RisenInv'
  <2>1. step' = 1 /\ spun' = FALSE
    BY <1>5 DEF PlanInv
  <2>2. QED
    BY <1>5, <2>1 DEF RisenInv
<1>6. CASE Preflight \/ AwaitMatch \/ MatchEnds
  BY <1>5, <1>6 DEF Preflight, AwaitMatch, MatchEnds
<1>7. ASSUME NEW env \in Environments, PreflightEnds(env) PROVE RisenInv'
  BY <1>5, <1>7 DEF PreflightEnds
<1>8. CASE SpinGuarded
  <2>1. /\ phase = "plan" /\ step <= Len(Plan) /\ Step[1] # "send"
        /\ UNCHANGED <<step, sent>> /\ spun' = TRUE
        /\ risen' = (risen \/ (phase' = "plan" /\ Posture' = "standing" /\ StoodUp))
    BY <1>8 DEF SpinGuarded, Spinning, Plan, StoodUp
  <2>2. Step' = Step
    BY <1>1, <2>1 DEF Step
  <2>3. QED
    BY <1>1, <1>2, <2>1, <2>2 DEF RisenInv
<1>9. CASE StepEnds
  <2>1. /\ phase = "plan" /\ step <= Len(Plan) /\ spun /\ UNCHANGED <<phase, sent, risen>>
        /\ step' = step + 1 /\ spun' = FALSE
        /\ (Step[1] = "until" => Posture = Step[2])
    BY <1>9 DEF StepEnds, Spinning, Plan, Reached
  <2>2. step \in 1..Len(Plan) /\ Step = Plan[step] /\ Len(Plan) \in Nat
    BY <2>1, StepTyped
  <2>3. ASSUME stage \in StandingStages
        PROVE  (step + 1 >= 3 => StoodUp) /\ (step + 1 >= 4 => risen)
    <3>1. Plan[2] = Snd("STANDUP") /\ Plan[3] = Until("standing")
      BY <2>3, PlanShape DEF Plan, PlanInv
    <3>2. step # 2
      BY <2>1, <2>2, <3>1 DEF RisenInv, Snd
    <3>3. step + 1 >= 3 => StoodUp
      BY <2>1, <2>2, <2>3, <3>2 DEF RisenInv
    <3>4. step = 3 => Posture = "standing"
      BY <2>1, <2>2, <3>1 DEF Until
    <3>5. QED
      BY <2>1, <2>2, <2>3, <3>2, <3>3, <3>4 DEF RisenInv
  <2>4. QED
    BY <1>1, <1>2, <2>1, <2>3 DEF RisenInv
<1>10. CASE PostureTimesOut \/ Interrupt
  BY <1>3, <1>10 DEF PostureTimesOut, Interrupt, Aborts
<1>11. CASE StepSends
  <2>1. /\ phase = "plan" /\ step <= Len(Plan) /\ UNCHANGED <<phase, spun, risen>>
        /\ step' = step + 1 /\ Step[1] = "send" /\ sent' = Append(sent, Step[2])
    BY <1>11 DEF StepSends, Plan, Send
  <2>2. step \in 1..Len(Plan) /\ Step = Plan[step] /\ Step[2] \in Names /\ Len(Plan) \in Nat
    BY <2>1, StepTyped
  <2>3. spun' = FALSE
    <3>1. ~spun /\ spun' = spun
      BY <2>1 DEF RisenInv
    <3>2. spun \in BOOLEAN
      BY DEF PlanInv
    <3>3. QED
      BY <3>1, <3>2
  <2>4. ASSUME stage \in StandingStages
        PROVE  (step + 1 >= 3 => StoodUp') /\ (step + 1 >= 4 => risen)
    <3>1. Plan[2] = Snd("STANDUP") /\ Plan[3] = Until("standing")
      BY <2>4, PlanShape DEF Plan, PlanInv
    <3>2. step # 3 /\ (step = 2 => Step[2] = "STANDUP")
      BY <2>1, <2>2, <3>1 DEF Snd, Until
    <3>3. QED
      BY <2>1, <2>2, <2>4, <3>2, StoodUpGrows DEF RisenInv
  <2>5. Step[2] \in {"BALANCESTAND", "MOVE"} => risen
    BY <2>1, MoverRisen
  <2>6. \A i \in DOMAIN sent' : sent'[i] \in {"BALANCESTAND", "MOVE"} => risen
    BY <2>1, <2>2, <2>5, StoodUpGrows DEF RisenInv
  <2>7. QED
    BY <1>1, <2>1, <2>3, <2>4, <2>6 DEF RisenInv
<1>12. CASE StreamSends
  <2>1. /\ phase = "plan" /\ step <= Len(Plan) /\ UNCHANGED <<phase, step, risen>> /\ spun' = FALSE
        /\ Step[1] = "stream" /\ sent' = Append(sent, "MOVE") /\ "MOVE" \in Names
    BY <1>12 DEF StreamSends, Spinning, Plan, Send, Names, Motion
  <2>2. risen
    BY <2>1, MoverRisen
  <2>3. StoodUp => StoodUp'
    BY <2>1, StoodUpGrows
  <2>4. QED
    BY <1>1, <2>1, <2>2, <2>3 DEF RisenInv
<1>13. CASE SendInterrupted
  <2>1. /\ phase = "plan" /\ step <= Len(Plan) /\ phase' # "plan" /\ risen' = risen
    BY <1>13, CutSends DEF Aborts
  <2>2. PICK name \in Names : /\ sent' = Append(sent, name)
                              /\ \/ Step[1] = "send" /\ name = Step[2]
                                 \/ Step[1] = "stream" /\ name = "MOVE"
    BY <1>13, CutSends
  <2>3. name \in {"BALANCESTAND", "MOVE"} => risen
    BY <2>1, <2>2, MoverRisen
  <2>4. QED
    BY <1>4, <2>1, <2>2, <2>3
<1>14. CASE RecoverStops \/ RecoverLies
  <2>1. PICK name \in {"STOPMOVE", "STANDDOWN"} :
          sent' = Append(sent, name) /\ phase' # "plan" /\ risen' = risen
    BY <1>14 DEF RecoverStops, RecoverLies, Send
  <2>2. name \in Names /\ name \notin {"BALANCESTAND", "MOVE"}
    BY DEF Names
  <2>3. QED
    BY <1>4, <2>1, <2>2
<1>15. CASE Done \/ RecoverSpins \/ RecoveryFails
  BY <1>3, <1>15 DEF Done, RecoverSpins, RecoveryFails
<1>16. CASE UNCHANGED probeVars
  BY <1>1, <1>2, <1>16 DEF probeVars, stVars, RisenInv, Step, Posture
<1>17. QED
  BY <1>6, <1>7, <1>8, <1>9, <1>10, <1>11, <1>12, <1>13, <1>14, <1>15, <1>16 DEF ProbeNext

(* All that is sent is what plan_requests says, up to where the session    *)
(* stopped, and then at most the StopMove and StandDown of a recovery; and *)
(* nothing moves the robot before it was seen to have stood up; for any    *)
(* plan of the table and any length of a stream (run_live, wait_posture,   *)
(* plan_requests).                                                         *)
THEOREM ProbeSendsPlan == ProbeSpec => []SentAsPlanned
<1>1. ProbeInit => SentInv /\ RisenInv
  <2>1. ProbeInit => SentInv
    BY DEF ProbeInit, SentInv
  <2>2. ASSUME ProbeInit PROVE RisenInv
    <3>1. phase \in {"dry run", "preflight"} /\ sent = <<>>
      BY <2>2 DEF ProbeInit
    <3>2. DOMAIN sent = {}
      <4>1. sent \in Seq(Names) /\ Len(sent) = 0
        BY <3>1, EmptySeq
      <4>2. DOMAIN sent = 1..0
        BY <4>1
      <4>3. QED
        BY <4>2
    <3>3. QED
      BY <3>1, <3>2 DEF RisenInv
  <2>3. QED
    BY <2>1, <2>2
<1>2. /\ PlanInv /\ SentInv /\ [ProbeNext]_probeVars => SentInv'
      /\ PlanInv /\ RisenInv /\ [ProbeNext]_probeVars => RisenInv'
  BY SentStep, RisenStep
<1>3. ASSUME PlanInv, SentInv, RisenInv PROVE SentAsPlanned
  <2>0. \A i \in DOMAIN sent : sent[i] \in {"BALANCESTAND", "MOVE"} => risen
    BY <1>3 DEF RisenInv
  <2>1. ASSUME Continues(Names, sent, Planned) PROVE SentAsPlanned
    <3>1. IsPrefix(sent, Planned)
      BY <1>3, <2>1, BeforeSteps, ContinuesIsPrefix DEF PlanInv
    <3>2. QED
      BY <2>0, <3>1 DEF SentAsPlanned, Planned, Plan
  <2>2. ASSUME rc = 1, Cut(<<"STOPMOVE">>) \/ Cut(<<"STOPMOVE", "STANDDOWN">>)
        PROVE  SentAsPlanned
    <3>1. \E n \in 0..Len(Planned) :
            sent \in {SubSeq(Planned, 1, n) \o <<"STOPMOVE">>,
                      SubSeq(Planned, 1, n) \o <<"STOPMOVE", "STANDDOWN">>}
      BY <1>3, <2>2, CutAsPlanned
    <3>2. QED
      BY <2>0, <2>2, <3>1 DEF SentAsPlanned, Planned, Plan
  <2>3. CASE phase \in {"dry run", "preflight", "match"}
    BY <1>3, <2>1, <2>3, NothingContinues DEF PlanInv
  <2>4. CASE phase = "plan"
    BY <1>3, <2>1, <2>4, SoFar
  <2>5. CASE phase \in {"recover", "stopped", "ended"}
    BY <1>3, <2>1, <2>2, <2>5 DEF SentInv
  <2>6. QED
    BY <1>3, <2>3, <2>4, <2>5 DEF PlanInv
<1>4. QED
  BY <1>1, <1>2, <1>3, PlanTyped, PTL DEF ProbeSpec

-----------------------------------------------------------------------------
(* The torque probe.  What a sample says, of what the robot was then.      *)
IsSample(f, was) ==
  \A i \in Motors \cup SPARE :
    LET j == i - shift IN
    IF j \in Motors /\ (j \in REAR => was.live)
    THEN /\ f[i].q = 1 /\ f[i].temp = 30
         /\ j \in REAR /\ ~was.reports => f[i].tau = 0
         /\ ~(j \in REAR /\ ~was.reports) /\ was.up => f[i].tau = HEAVY
         /\ ~was.up => f[i].tau \in {-DITHER_COUNTS, 0, 1}
    ELSE f[i].q = 0 /\ f[i].temp = 0 /\ f[i].tau = 0

TorqueInv ==
  /\ robot \in Robots
  /\ shift \in 0..SPARES /\ posture \in {"standing", "lying"}
  /\ DOMAIN captured = 1..Len(captured) /\ Len(captured) \in Nat
  /\ captured # <<>> => Len(captured) # 0
  /\ seen \in Seq(Robots) /\ Len(seen) = Len(captured)
  /\ \A k \in 1..Len(captured) : IsSample(captured[k], seen[k])
  /\ result # None => result = Judge(captured, posture)

LEMMA EntryIsSample ==
  ASSUME TorqueInv, NEW dither \in {-DITHER_COUNTS, 0, 1}
  PROVE  IsSample([i \in Motors \cup SPARE |-> Entry(i - shift, dither)], robot)
<1> DEFINE f == [i \in Motors \cup SPARE |-> Entry(i - shift, dither)]
<1>1. SUFFICES ASSUME NEW i \in Motors \cup SPARE, NEW j, j = i - shift
               PROVE  IF j \in Motors /\ (j \in REAR => robot.live)
                      THEN /\ f[i].q = 1 /\ f[i].temp = 30
                           /\ j \in REAR /\ ~robot.reports => f[i].tau = 0
                           /\ ~(j \in REAR /\ ~robot.reports) /\ robot.up => f[i].tau = HEAVY
                           /\ ~robot.up => f[i].tau \in {-DITHER_COUNTS, 0, 1}
                      ELSE f[i].q = 0 /\ f[i].temp = 0 /\ f[i].tau = 0
  BY DEF IsSample
<1>2. f[i] = Entry(j, dither)
  BY <1>1
<1>3. CASE j \in Motors /\ (j \in REAR => robot.live)
  BY <1>2, <1>3 DEF Entry, TorqueInv
<1>4. CASE ~(j \in Motors /\ (j \in REAR => robot.live))
  BY <1>2, <1>4 DEF Entry
<1>5. QED
  BY <1>3, <1>4

LEMMA TorqueStep ==
  ASSUME TorqueInv, [TorqueNext]_torqueVars
  PROVE  TorqueInv'
<1>1. ASSUME NEW dither \in {-DITHER_COUNTS, 0, 1}, OnLowState(dither) PROVE TorqueInv'
  <2> DEFINE f == [i \in Motors \cup SPARE |-> Entry(i - shift, dither)]
             n == Len(captured)
  <2>1. UNCHANGED <<robot, shift, posture, result>> /\ result = None
    BY <1>1 DEF OnLowState
  <2>2. IsSample(f, robot)
    BY EntryIsSample
  <2>3. captured' = Append(captured, f)
    BY <1>1 DEF OnLowState
  <2> HIDE DEF f
  <2>4. /\ DOMAIN captured' = 1..n + 1 /\ Len(captured') = n + 1 /\ n \in Nat
        /\ captured'[n + 1] = f /\ \A k \in 1..n : captured'[k] = captured[k]
    BY <2>3 DEF TorqueInv
  <2>5. seen' = Append(seen, robot) /\ seen \in Seq(Robots) /\ robot \in Robots /\ Len(seen) = n
    BY <1>1 DEF OnLowState, TorqueInv
  <2>6. /\ seen' \in Seq(Robots) /\ Len(seen') = n + 1 /\ seen'[n + 1] = robot
        /\ \A k \in 1..n : seen'[k] = seen[k]
    <3> HIDE DEF n
    <3>1. QED
      BY <2>4, <2>5
  <2>7. ASSUME NEW k \in 1..n + 1 PROVE IsSample(captured'[k], seen'[k])
    <3>1. CASE k = n + 1
      BY <2>2, <2>4, <2>6, <3>1
    <3>2. CASE k # n + 1
      <4>1. k \in 1..n
        BY <2>4, <3>2
      <4>2. QED
        BY <2>4, <2>6, <4>1 DEF TorqueInv
    <3>3. QED
      BY <3>1, <3>2
  <2>8. \A k \in 1..n + 1 : IsSample(captured[k], seen[k])'
    BY <2>1, <2>7 DEF IsSample
  <2>9. \A k \in 1..Len(captured') : IsSample(captured[k], seen[k])'
    BY <2>4, <2>8
  <2>10. DOMAIN captured' = 1..Len(captured') /\ Len(captured') \in Nat /\ Len(captured') # 0
    BY <2>4
  <2>11. Len(seen') = Len(captured')
    BY <2>4, <2>6
  <2> HIDE DEF n
  <2>12. QED
    BY <2>1, <2>6, <2>9, <2>10, <2>11 DEF TorqueInv
<1>2. ASSUME UNCHANGED <<shift, posture, captured, seen>>, robot' \in Robots,
             result' # None => result' = Judge(captured, posture)
      PROVE  TorqueInv'
  <2>1. \A k \in 1..Len(captured) : IsSample(captured[k], seen[k])'
    BY <1>2 DEF TorqueInv, IsSample
  <2>2. Judge(captured, posture)' = Judge(captured, posture)
    BY <1>2
  <2>3. QED
    BY <1>2, <2>1, <2>2 DEF TorqueInv
<1>3. CASE ChangePosture
  <2>1. robot' \in Robots
    BY <1>3 DEF ChangePosture, TorqueInv, Robots
  <2>2. QED
    BY <1>2, <1>3, <2>1 DEF ChangePosture, TorqueInv
<1>4. ASSUME NEW reports \in BOOLEAN, NEW live \in BOOLEAN, RearChanges(reports, live)
      PROVE  TorqueInv'
  <2>1. robot' \in Robots
    BY <1>4 DEF RearChanges, TorqueInv, Robots
  <2>2. QED
    BY <1>2, <1>4, <2>1 DEF RearChanges, TorqueInv
<1>5. CASE CollectionEnds
  BY <1>2, <1>5 DEF CollectionEnds, TorqueInv
<1>6. CASE UNCHANGED torqueVars
  BY <1>2, <1>6 DEF torqueVars, TorqueInv
<1>7. QED
  BY <1>1, <1>3, <1>4, <1>5, <1>6 DEF TorqueNext

LEMMA TorqueTyped == TorqueSpec => []TorqueInv
<1>1. TorqueInit => TorqueInv
  BY DEF TorqueInit, TorqueInv
<1>2. TorqueInv /\ [TorqueNext]_torqueVars => TorqueInv'
  BY TorqueStep
<1>3. QED
  BY <1>1, <1>2, PTL DEF TorqueSpec

\* the largest of a set of numbers that are among four
LEMMA MaxOfFour ==
  ASSUME NEW a \in Nat, NEW b \in Nat, NEW c \in Nat, NEW d \in Nat,
         NEW S \in SUBSET {a, b, c, d}, S # {}
  PROVE  Max(S) \in S /\ \A x \in S : Max(S) >= x
<1>1. \E x \in S : \A y \in S : x >= y
  <2>1. \A x \in S : x \in Nat
    OBVIOUS
  <2> DEFINE T == {n \in Nat : \A y \in S : n >= y}
  <2>2. a + b + c + d \in T
    OBVIOUS
  <2>3. PICK m \in T : \A k \in T : ~(<<k, m>> \in OpToRel(<, Nat))
    BY <2>2, NatLessThanWellFounded, WFMin
  <2>4. m \in S
    <3>1. SUFFICES ASSUME m \notin S PROVE FALSE
      OBVIOUS
    <3>2. \A y \in S : y < m
      BY <2>1, <3>1
    <3>3. m # 0 /\ m - 1 \in Nat /\ \A y \in S : m - 1 >= y
      <4>1. m \in Nat
        OBVIOUS
      <4>2. PICK y \in S : TRUE
        OBVIOUS
      <4>3. y \in Nat /\ y < m
        BY <2>1, <3>2
      <4>4. m # 0 /\ m - 1 \in Nat
        BY <4>1, <4>3
      <4>5. ASSUME NEW z \in S PROVE m - 1 >= z
        <5>1. z \in Nat /\ z < m
          BY <2>1, <3>2
        <5>2. QED
          BY <4>1, <5>1
      <4>6. QED
        BY <4>4, <4>5
    <3>4. m - 1 \in T /\ <<m - 1, m>> \in OpToRel(<, Nat)
      BY <3>3 DEF OpToRel
    <3>5. QED
      BY <2>3, <3>4
  <2>5. QED
    BY <2>4
<1>2. QED
  BY <1>1 DEF Max

\* what a sample's entry was read from
LEMMA ReadFrom ==
  ASSUME TorqueInv, NEW k \in 1..Len(captured), NEW i \in Motors \cup SPARE, NEW j, j = i - shift
  PROVE  /\ j \in FRONT \/ (j \in REAR /\ seen[k].live) =>
              /\ captured[k][i].q = 1 /\ captured[k][i].temp = 30
              /\ j \in REAR /\ ~seen[k].reports => captured[k][i].tau = 0
              /\ (j \in FRONT \/ seen[k].reports) /\ seen[k].up => captured[k][i].tau = HEAVY
              /\ ~seen[k].up => captured[k][i].tau \in {-DITHER_COUNTS, 0, 1}
         /\ ~(j \in FRONT \/ (j \in REAR /\ seen[k].live)) =>
              captured[k][i].q = 0 /\ captured[k][i].temp = 0 /\ captured[k][i].tau = 0
<1>1. PAIR \in Nat
  BY TorqueAssumption
<1>2. j \in FRONT => j \notin REAR
  BY <1>1 DEF FRONT, REAR
<1>3. IsSample(captured[k], seen[k])
  BY DEF TorqueInv
<1>4. IF j \in Motors /\ (j \in REAR => seen[k].live)
      THEN /\ captured[k][i].q = 1 /\ captured[k][i].temp = 30
           /\ j \in REAR /\ ~seen[k].reports => captured[k][i].tau = 0
           /\ ~(j \in REAR /\ ~seen[k].reports) /\ seen[k].up => captured[k][i].tau = HEAVY
           /\ ~seen[k].up => captured[k][i].tau \in {-DITHER_COUNTS, 0, 1}
      ELSE captured[k][i].q = 0 /\ captured[k][i].temp = 0 /\ captured[k][i].tau = 0
  BY <1>3 DEF IsSample
<1>5. QED
  BY <1>2, <1>4 DEF Motors

\* a torque is one of four
LEMMA TorqueRead ==
  ASSUME TorqueInv, NEW k \in 1..Len(captured), NEW i \in Motors \cup SPARE
  PROVE  captured[k][i].tau \in {-DITHER_COUNTS, 0, 1, HEAVY}
BY ReadFrom

LEMMA LargestTorque ==
  ASSUME TorqueInv, Len(captured) # 0, NEW i \in Motors
  PROVE  /\ CAbsMax(captured, i) \in Nat
         /\ \E k \in 1..Len(captured) : CAbsMax(captured, i) = Magnitude(captured[k][i].tau)
         /\ \A k \in 1..Len(captured) : CAbsMax(captured, i) >= Magnitude(captured[k][i].tau)
<1> DEFINE S == {Magnitude(captured[k][i].tau) : k \in 1..Len(captured)}
<1>1. CAbsMax(captured, i) = Max(S)
  <2>1. DOMAIN captured = 1..Len(captured)
    BY DEF TorqueInv
  <2>2. \A k \in 1..Len(captured) : Taus(captured, i)[k] = captured[k][i].tau
    BY <2>1 DEF Taus
  <2>3. {Magnitude(Taus(captured, i)[k]) : k \in DOMAIN captured} = S
    BY <2>1, <2>2
  <2>4. QED
    BY <2>3 DEF CAbsMax
<1>2. ASSUME NEW k \in 1..Len(captured)
      PROVE  Magnitude(captured[k][i].tau) \in {0, 1, DITHER_COUNTS, HEAVY}
  <2>1. captured[k][i].tau \in {-DITHER_COUNTS, 0, 1, HEAVY}
    BY <1>2, TorqueRead
  <2>2. QED
    BY <2>1, TorqueAssumption DEF Magnitude
<1>3. S \subseteq {0, 1, DITHER_COUNTS, HEAVY} /\ S # {}
  <2>1. 1 \in 1..Len(captured)
    BY DEF TorqueInv
  <2>2. QED
    BY <1>2, <2>1
<1>4. DITHER_COUNTS \in Nat /\ HEAVY \in Nat
  BY TorqueAssumption
<1>5. Max(S) \in S /\ \A x \in S : Max(S) >= x
  <2> HIDE DEF S
  <2>1. QED
    BY <1>3, <1>4, MaxOfFour
<1>6. PICK k \in 1..Len(captured) : Max(S) = Magnitude(captured[k][i].tau)
  BY <1>5
<1>7. Max(S) \in Nat
  BY <1>2, <1>4, <1>6
<1>8. \A l \in 1..Len(captured) : Max(S) >= Magnitude(captured[l][i].tau)
  BY <1>5
<1> HIDE DEF S
<1>9. QED
  BY <1>1, <1>6, <1>7, <1>8

LEMMA Numbers ==
  /\ PAIR \in Nat /\ PAIR # 0 /\ SPARES \in Nat
  /\ \A i : i \in FRONT <=> i \in Int /\ 0 <= i /\ i < PAIR
  /\ \A i : i \in REAR <=> i \in Int /\ PAIR <= i /\ i < 2 * PAIR
  /\ \A i : i \in SPARE <=> i \in Int /\ 2 * PAIR <= i /\ i < 2 * PAIR + SPARES
<1>1. PAIR \in Nat /\ PAIR # 0 /\ SPARES \in Nat
  BY TorqueAssumption
<1>2. QED
  BY <1>1 DEF FRONT, REAR, SPARE

\* the samples are numbered as what the robot was is
LEMMA SeenAt ==
  ASSUME TorqueInv
  PROVE  DOMAIN seen = 1..Len(captured) /\ DOMAIN captured = 1..Len(captured)
BY DEF TorqueInv

\* a rear that is seen alive is alive throughout, or the front is read in its place
LEMMA AliveRear ==
  ASSUME TorqueInv, RearAlive(captured)
  PROVE  RearLive \/ shift = PAIR
<1>1. SUFFICES ASSUME NEW k \in 1..Len(captured), ~seen[k].live PROVE shift = PAIR
  BY SeenAt DEF RearLive
<1>2. k \in DOMAIN captured /\ shift \in Int
  BY Numbers, SeenAt DEF TorqueInv
<1>3. ASSUME NEW i \in REAR PROVE i - shift \in FRONT
  <2>1. captured[k][i].temp > 0
    BY <1>2 DEF RearAlive
  <2>2. i \in Motors \cup SPARE
    BY DEF Motors
  <2>3. ~(i - shift \in FRONT) => captured[k][i].temp = 0
    BY <1>1, <2>2, ReadFrom
  <2>4. QED
    BY <2>1, <2>3
<1>4. PAIR \in REAR /\ 2 * PAIR - 1 \in REAR
  BY Numbers
<1>5. PAIR - shift \in FRONT /\ 2 * PAIR - 1 - shift \in FRONT
  BY <1>3, <1>4
<1>6. PAIR - shift >= 0 /\ 2 * PAIR - 1 - shift < PAIR
  BY <1>5, Numbers
<1>7. QED
  BY <1>2, <1>6, Numbers

\* a live rear that does not bleed into the spares is read in its place
LEMMA InertSpares ==
  ASSUME TorqueInv, NEW k \in 1..Len(captured), seen[k].live, ~SpareLive(captured)
  PROVE  shift = 0
<1>1. SUFFICES ASSUME shift # 0 PROVE FALSE
  OBVIOUS
<1>2. shift \in Int /\ 0 < shift /\ shift <= SPARES
  BY <1>1, Numbers DEF TorqueInv
<1>3. PICK i : i = 2 * PAIR - 1 + shift
  OBVIOUS
<1>4. i \in SPARE /\ i - shift = 2 * PAIR - 1 /\ i - shift \in REAR
  BY <1>2, <1>3, Numbers
<1>5. k \in DOMAIN captured
  BY SeenAt
<1>6. captured[k][i].q = 1
  BY <1>4, ReadFrom
<1>7. QED
  BY <1>4, <1>5, <1>6 DEF SpareLive

\* what a verdict of no failed control says of the capture
LEMMA Judged ==
  ASSUME NEW taken, NEW label \in {"standing", "lying"}, NEW verdict_of,
         verdict_of = Judge(taken, label), verdict_of.code = 0
  PROVE  /\ taken # <<>> /\ RearAlive(taken)
         /\ label = "standing" => \E i \in FRONT : Loaded(taken, i)
         /\ "PT9" \notin verdict_of.falsified => ~SpareLive(taken)
         /\ label = "lying" =>
              ("PT6" \in verdict_of.falsified <=> \E i \in Motors : ~(CAbsMax(taken, i) <= DITHER_COUNTS))
         /\ verdict_of.reading = Reading(taken, label)
<1> DEFINE standing == label = "standing"
           rows == Evaluate(taken, standing)
<1>1. taken # <<>>
  BY DEF Judge
<1>2. verdict_of = [code |-> IF FailedCritical(rows, label) = {} THEN 0 ELSE 1,
                    reading |-> Reading(taken, label),
                    falsified |-> Falsified(rows, label)]
  BY <1>1 DEF Judge
<1>3. /\ FailedCritical(rows, label) = {} /\ verdict_of.reading = Reading(taken, label)
      /\ verdict_of.falsified = Falsified(rows, label)
  <2> HIDE DEF rows
  <2>1. QED
    BY <1>2
<1>4. /\ DOMAIN rows = {"PT1", "PT2", "PT4", "PT5", "PT6", "PT9"}
      /\ rows["PT1"] = RearAlive(taken) /\ rows["PT9"] = ~SpareLive(taken)
      /\ standing => rows["PT4"] = \E i \in FRONT : Loaded(taken, i)
      /\ ~standing => rows["PT6"] = \A i \in Motors : CAbsMax(taken, i) <= DITHER_COUNTS
  BY DEF Evaluate
<1> HIDE DEF rows
<1>5. \A p \in CriticalFor(label) : rows[p] = TRUE
  BY <1>3 DEF FailedCritical
<1>6. \A p : p \in verdict_of.falsified <=> p \in DOMAIN rows \ CriticalFor(label) /\ rows[p] = FALSE
  BY <1>3 DEF Falsified
<1>7. /\ "PT1" \in CriticalFor(label) /\ (standing => "PT4" \in CriticalFor(label))
      /\ "PT9" \notin CriticalFor(label) /\ "PT6" \notin CriticalFor(label)
  BY DEF CriticalFor
<1>8. RearAlive(taken)
  BY <1>4, <1>5, <1>7
<1>9. standing => \E i \in FRONT : Loaded(taken, i)
  BY <1>4, <1>5, <1>7
<1>10. "PT9" \notin verdict_of.falsified => ~SpareLive(taken)
  <2>1. SUFFICES ASSUME SpareLive(taken) PROVE "PT9" \in verdict_of.falsified
    OBVIOUS
  <2>2. rows["PT9"] = FALSE /\ "PT9" \in DOMAIN rows
    BY <1>4, <2>1
  <2>3. QED
    BY <1>6, <1>7, <2>2
<1>11. ~standing => ("PT6" \in verdict_of.falsified <=> \E i \in Motors : ~(CAbsMax(taken, i) <= DITHER_COUNTS))
  <2>1. "PT6" \in verdict_of.falsified <=> rows["PT6"] = FALSE
    BY <1>4, <1>6, <1>7
  <2>2. QED
    BY <1>4, <2>1
<1>12. label = "lying" => ~standing
  OBVIOUS
<1>13. QED
  BY <1>1, <1>3, <1>8, <1>9, <1>10, <1>11, <1>12

(* A result that is called valid, in a frame whose spares were inert: a    *)
(* standing capture is read right, whatever the rear and the posture did   *)
(* meanwhile, and one labelled lying is falsified exactly if the robot     *)
(* stood; for every layout, threshold and number of samples, but for one   *)
(* compound fault of a lying capture.  The rear's own entries show that    *)
(* the rear is alive, inert spares that the layout is the decoder's, and   *)
(* the front's torques that the robot stood (main, evaluate).              *)
THEOREM TorqueReadsRight == TorqueSpec => []ReadingIsSound
<1>1. ASSUME TorqueInv, result # None, result.code = 0, "PT9" \notin result.falsified
      PROVE  /\ RearLive \/ (posture = "lying" /\ shift = PAIR)
             /\ posture = "standing" =>
                  /\ Stood
                  /\ result.reading = IF RearLoaded THEN "rear responds" ELSE "rear not reported"
             /\ posture = "lying" => ("PT6" \in result.falsified <=> Stood)
  <2>1. result = Judge(captured, posture) /\ posture \in {"standing", "lying"}
    BY <1>1 DEF TorqueInv
  <2>2. /\ captured # <<>> /\ RearAlive(captured) /\ ~SpareLive(captured)
        /\ posture = "standing" => \E i \in FRONT : Loaded(captured, i)
        /\ posture = "lying" =>
             ("PT6" \in result.falsified <=> \E i \in Motors : ~(CAbsMax(captured, i) <= DITHER_COUNTS))
        /\ result.reading = Reading(captured, posture)
    BY <1>1, <2>1, Judged
  <2>3. /\ Len(captured) # 0 /\ Len(captured) \in Nat /\ shift \in Int
        /\ 1 \in 1..Len(captured) /\ DOMAIN seen = 1..Len(captured)
    BY <1>1, <2>2, SeenAt, Numbers DEF TorqueInv
  <2>4. RearLive \/ shift = PAIR
    BY <1>1, <2>2, AliveRear
  <2>5. ASSUME NEW k \in 1..Len(captured), seen[k].live PROVE shift = 0
    BY <1>1, <2>2, <2>5, InertSpares
  <2>6. /\ DITHER_COUNTS \in Nat /\ DITHER_COUNTS # 0 /\ LOADED_COUNTS \in Nat /\ HEAVY \in Nat
        /\ DITHER_COUNTS < LOADED_COUNTS /\ LOADED_COUNTS <= HEAVY
    BY TorqueAssumption
  <2>7. ASSUME NEW i \in Motors, NEW k \in 1..Len(captured), captured[k][i].tau = HEAVY
        PROVE  Loaded(captured, i) /\ ~(CAbsMax(captured, i) <= DITHER_COUNTS)
    <3>1. Magnitude(HEAVY) = HEAVY
      BY <2>6 DEF Magnitude
    <3>2. CAbsMax(captured, i) >= HEAVY /\ CAbsMax(captured, i) \in Nat
      BY <1>1, <2>3, <2>7, <3>1, LargestTorque
    <3>3. QED
      BY <2>6, <3>2 DEF Loaded
  <2>8. ASSUME NEW i \in Motors,
               \A k \in 1..Len(captured) : captured[k][i].tau \in {-DITHER_COUNTS, 0, 1}
        PROVE  ~Loaded(captured, i) /\ CAbsMax(captured, i) <= DITHER_COUNTS
    <3>1. \A tau \in {-DITHER_COUNTS, 0, 1} : Magnitude(tau) <= DITHER_COUNTS
      BY <2>6 DEF Magnitude
    <3>2. PICK k \in 1..Len(captured) : CAbsMax(captured, i) = Magnitude(captured[k][i].tau)
      BY <1>1, <2>3, LargestTorque
    <3>3. CAbsMax(captured, i) <= DITHER_COUNTS /\ CAbsMax(captured, i) \in Nat
      BY <1>1, <2>3, <2>8, <3>1, <3>2, LargestTorque
    <3>4. QED
      BY <2>6, <3>3 DEF Loaded
  <2>9. FRONT \subseteq Motors /\ REAR \subseteq Motors /\ Motors \subseteq Motors \cup SPARE
    BY DEF Motors
  <2>10. CASE posture = "standing"
    <3>1. RearLive
      <4>1. SUFFICES ASSUME shift = PAIR PROVE FALSE
        BY <2>4
      <4>2. PICK i \in FRONT : Loaded(captured, i)
        BY <2>2, <2>10
      <4>3. i - shift \notin FRONT /\ i - shift \notin REAR
        BY <4>1, Numbers
      <4>4. \A k \in 1..Len(captured) : captured[k][i].tau = 0
        BY <1>1, <2>9, <4>3, ReadFrom
      <4>5. ~Loaded(captured, i)
        BY <2>8, <2>9, <4>4
      <4>6. QED
        BY <4>2, <4>5
    <3>2. shift = 0 /\ \A k \in 1..Len(captured) : seen[k].live
      BY <2>3, <2>5, <3>1 DEF RearLive
    <3>3. PICK i \in FRONT : Loaded(captured, i)
      BY <2>2, <2>10
    <3>4. i - shift = i
      BY <3>2, Numbers
    <3>5. Stood
      <4>1. SUFFICES ASSUME \A k \in 1..Len(captured) : ~seen[k].up PROVE FALSE
        BY <2>3 DEF Stood
      <4>2. \A k \in 1..Len(captured) : captured[k][i].tau \in {-DITHER_COUNTS, 0, 1}
        BY <1>1, <2>9, <3>4, <4>1, ReadFrom
      <4>3. QED
        BY <2>8, <2>9, <3>3, <4>2
    <3>6. result.reading = IF \E j \in REAR : Loaded(captured, j) THEN "rear responds" ELSE "rear not reported"
      BY <2>2, <2>10, <3>3 DEF Reading
    <3>7. CASE RearLoaded
      <4>1. PICK k \in 1..Len(captured) : seen[k].up /\ seen[k].reports
        BY <2>3, <3>7 DEF RearLoaded
      <4>2. PAIR \in REAR /\ PAIR - shift = PAIR
        BY <3>2, Numbers
      <4>3. captured[k][PAIR].tau = HEAVY
        BY <1>1, <2>9, <3>2, <4>1, <4>2, ReadFrom
      <4>4. Loaded(captured, PAIR)
        BY <2>7, <2>9, <4>2, <4>3
      <4>5. QED
        BY <2>10, <3>1, <3>5, <3>6, <3>7, <4>2, <4>4
    <3>8. CASE ~RearLoaded
      <4>1. ASSUME NEW j \in REAR PROVE ~Loaded(captured, j)
        <5>1. j - shift = j
          BY <3>2, Numbers
        <5>2. ASSUME NEW k \in 1..Len(captured)
              PROVE  captured[k][j].tau \in {-DITHER_COUNTS, 0, 1}
          <6>1. ~seen[k].up \/ ~seen[k].reports
            BY <2>3, <3>8 DEF RearLoaded
          <6>2. QED
            BY <1>1, <2>9, <3>2, <5>1, <6>1, ReadFrom
        <5>3. QED
          BY <2>8, <2>9, <5>2
      <4>2. QED
        BY <2>10, <3>1, <3>5, <3>6, <3>8, <4>1
    <3>9. QED
      BY <3>7, <3>8
  <2>11. CASE posture = "lying"
    <3>1. PICK i : i = shift
      OBVIOUS
    <3>2. shift = 0 \/ shift = PAIR
      BY <2>3, <2>4, <2>5 DEF RearLive
    <3>3. i \in Motors /\ i - shift \in FRONT
      BY <3>1, <3>2, Numbers DEF Motors
    <3>4. ASSUME Stood PROVE ~(CAbsMax(captured, i) <= DITHER_COUNTS)
      <4>1. PICK k \in 1..Len(captured) : seen[k].up
        BY <2>3, <3>4 DEF Stood
      <4>2. captured[k][i].tau = HEAVY
        BY <1>1, <2>9, <3>3, <4>1, ReadFrom
      <4>3. QED
        BY <2>7, <3>3, <4>2
    <3>5. ASSUME ~Stood, NEW j \in Motors PROVE CAbsMax(captured, j) <= DITHER_COUNTS
      <4>1. ASSUME NEW k \in 1..Len(captured)
            PROVE  captured[k][j].tau \in {-DITHER_COUNTS, 0, 1}
        <5>1. ~seen[k].up
          BY <2>3, <3>5 DEF Stood
        <5>2. QED
          BY <1>1, <2>9, <5>1, ReadFrom
      <4>2. QED
        BY <2>8, <4>1
    <3>6. "PT6" \in result.falsified <=> Stood
      BY <2>2, <2>11, <3>3, <3>4, <3>5
    <3>7. QED
      BY <2>4, <2>11, <3>6
  <2>12. QED
    BY <2>1, <2>10, <2>11
<1>2. TorqueInv => ReadingIsSound
  BY <1>1 DEF ReadingIsSound
<1>3. QED
  BY <1>2, TorqueTyped, PTL

-----------------------------------------------------------------------------
(* go2_unload_probe: the verdict on a capture.  A median over a window     *)
(* that reaches over one step is one of the two levels of the step, but    *)
(* for the two windows around the step when they hold the spike.           *)
LEMMA Parameters ==
  /\ MEDIAN_WIN \in Nat /\ MEDIAN_WIN \div 2 \in Nat /\ 2 <= MEDIAN_WIN \div 2
  /\ 2 * (MEDIAN_WIN \div 2) <= MEDIAN_WIN
  /\ LAG \in Nat /\ 2 <= LAG /\ LAG \div 2 \in Nat /\ 2 * (LAG \div 2) = LAG
  /\ SETTLE \in Nat /\ 2 <= SETTLE /\ MAX_GAP \in Nat /\ 1 <= MAX_GAP
  /\ EDGE_COUNTS \in Nat /\ 1 <= EDGE_COUNTS /\ MOVE \in Nat /\ 1 <= MOVE /\ MOVE <= EDGE_COUNTS
  /\ HOLD \in Nat /\ WARMUP \in Nat /\ 1 <= WARMUP
  /\ 2 * LAG + 3 * SETTLE + MEDIAN_WIN + MAX_GAP + WARMUP <= HOLD
  /\ TICK_MOD \in Nat /\ 5 * HOLD <= TICK_MOD
  /\ SPIKE \in Int
<1>1. {MEDIAN_WIN, LAG, SETTLE, EDGE_COUNTS, MOVE, MAX_GAP, WARMUP, HOLD, TICK_MOD} \subseteq Nat \ {0}
  BY UnloadAssumption
<1>2. /\ MEDIAN_WIN \in Nat \ {0} /\ LAG \in Nat \ {0} /\ SETTLE \in Nat \ {0}
      /\ EDGE_COUNTS \in Nat \ {0} /\ MOVE \in Nat \ {0} /\ MAX_GAP \in Nat \ {0}
      /\ HOLD \in Nat \ {0} /\ TICK_MOD \in Nat \ {0} /\ WARMUP \in Nat \ {0}
  BY <1>1
<1>3. MEDIAN_WIN >= 4 /\ LAG % 2 = 0 /\ SETTLE >= 2
  BY UnloadAssumption
<1>4. MEDIAN_WIN \div 2 \in Nat /\ 2 <= MEDIAN_WIN \div 2 /\ 2 * (MEDIAN_WIN \div 2) <= MEDIAN_WIN
  BY <1>2, <1>3
<1>5. LAG \div 2 \in Nat /\ 2 * (LAG \div 2) = LAG /\ 2 <= LAG
  BY <1>2, <1>3
<1>6. QED
  BY <1>2, <1>3, <1>4, <1>5, UnloadAssumption

\* the value of a rank is the only one with so many below and so many up to it
LEMMA RankIs ==
  ASSUME NEW S, IsFiniteSet(S), NEW xs, \A i \in S : xs[i] \in Int,
         NEW r \in Nat, NEW v \in {xs[i] : i \in S},
         Cardinality({i \in S : xs[i] < v}) <= r, Cardinality({i \in S : xs[i] <= v}) > r
  PROVE  AtRank(xs, S, r) = v
<1> DEFINE Below(w) == {i \in S : xs[i] < w}
           UpTo(w) == {i \in S : xs[i] <= w}
           AtR(w) == Cardinality(Below(w)) <= r /\ Cardinality(UpTo(w)) > r
<1>1. v \in Int /\ \A w \in {xs[i] : i \in S} : w \in Int
  OBVIOUS
<1>2. \A w \in Int : /\ IsFiniteSet(Below(w)) /\ IsFiniteSet(UpTo(w))
                     /\ Cardinality(Below(w)) \in Nat /\ Cardinality(UpTo(w)) \in Nat
  <2>1. \A w \in Int : Below(w) \in SUBSET S /\ UpTo(w) \in SUBSET S
    OBVIOUS
  <2> HIDE DEF Below, UpTo
  <2>2. QED
    BY <2>1, FS_Subset, FS_CardinalityType
<1>3. ASSUME NEW w \in Int, NEW x \in Int, w < x, AtR(w), AtR(x) PROVE FALSE
  <2>1. UpTo(w) \in SUBSET Below(x)
    BY <1>3
  <2>2. AtR(w) /\ AtR(x)
    BY <1>3
  <2> HIDE DEF Below, UpTo
  <2>3. Cardinality(UpTo(w)) <= Cardinality(Below(x))
    BY <1>2, <2>1, FS_Subset
  <2>4. QED
    BY <1>2, <2>2, <2>3
<1>4. AtR(v)
  OBVIOUS
<1>5. \A w \in {xs[i] : i \in S} : AtR(w) => w = v
  <2>1. \A w, x \in Int : w < x => ~(AtR(w) /\ AtR(x))
    BY <1>3
  <2> HIDE DEF AtR
  <2>2. \A w \in Int : AtR(w) => w = v
    BY <1>1, <1>4, <2>1
  <2>3. QED
    BY <1>1, <2>2
<1>6. AtRank(xs, S, r) = CHOOSE w \in {xs[i] : i \in S} : AtR(w)
  BY DEF AtRank
<1> DEFINE V == {xs[i] : i \in S}
<1>7. v \in V /\ (\A w \in V : AtR(w) => w = v) /\ AtRank(xs, S, r) = CHOOSE w \in V : AtR(w)
  BY <1>5, <1>6
<1> HIDE DEF AtR, V
<1>8. QED
  BY <1>4, <1>7

(* A value that more than half of the samples do not exceed, and that more *)
(* than half are not below, is the median.                                 *)
LEMMA MedianIs ==
  ASSUME NEW S, IsFiniteSet(S), NEW xs, \A i \in S : xs[i] \in Int,
         NEW v \in {xs[i] : i \in S}, NEW T \in SUBSET S, NEW U \in SUBSET S,
         \A i \in T : xs[i] <= v, \A i \in U : xs[i] >= v,
         2 * Cardinality(T) > Cardinality(S), 2 * Cardinality(U) > Cardinality(S)
  PROVE  Median(xs, S) = v
<1> DEFINE c == Cardinality(S)
           Below == {i \in S : xs[i] < v}
           UpTo == {i \in S : xs[i] <= v}
<1>1. v \in Int /\ c \in Nat
  BY FS_CardinalityType
<1>2. Below \in SUBSET (S \ U) /\ T \in SUBSET UpTo /\ UpTo \in SUBSET S
  BY <1>1
<1>3. /\ IsFiniteSet(U) /\ Cardinality(U) \in Nat /\ IsFiniteSet(T) /\ Cardinality(T) \in Nat
      /\ Cardinality(U) <= c
  BY FS_Subset, FS_CardinalityType
<1>4. IsFiniteSet(S \ U) /\ Cardinality(S \ U) = c - Cardinality(U)
  <2>1. S \cap U = U
    OBVIOUS
  <2>2. QED
    BY <2>1, FS_Difference
<1> HIDE DEF Below, UpTo
<1>5. /\ IsFiniteSet(Below) /\ Cardinality(Below) <= c - Cardinality(U) /\ Cardinality(Below) \in Nat
  BY <1>2, <1>4, FS_Subset, FS_CardinalityType
<1>6. IsFiniteSet(UpTo) /\ Cardinality(T) <= Cardinality(UpTo) /\ Cardinality(UpTo) \in Nat
  BY <1>2, FS_Subset, FS_CardinalityType
<1>7. c > 0 /\ (c - 1) \div 2 \in Nat /\ c \div 2 \in Nat
  BY <1>1, <1>3
<1>8. 2 * ((c - 1) \div 2) >= c - 2 /\ 2 * (c \div 2) <= c /\ (c - 1) \div 2 <= c \div 2
  BY <1>1, <1>7
<1>9. 2 * Cardinality(T) > c /\ 2 * Cardinality(U) > c
  OBVIOUS
<1> HIDE DEF c
<1>10. Cardinality(Below) <= (c - 1) \div 2 /\ Cardinality(UpTo) > c \div 2
  BY <1>1, <1>3, <1>5, <1>6, <1>7, <1>8, <1>9
<1>11. AtRank(xs, S, (c - 1) \div 2) = v
  <2>1. Cardinality(UpTo) > (c - 1) \div 2
    BY <1>6, <1>7, <1>8, <1>10
  <2>2. QED
    BY <1>7, <1>10, <2>1, RankIs DEF Below, UpTo
<1>12. AtRank(xs, S, c \div 2) = v
  <2>1. Cardinality(Below) <= c \div 2
    BY <1>5, <1>7, <1>8, <1>10
  <2>2. QED
    BY <1>7, <1>10, <2>1, RankIs DEF Below, UpTo
<1>13. Median(xs, S) = (v + v) \div 2
  BY <1>11, <1>12 DEF Median, c
<1>14. QED
  BY <1>1, <1>13

\* what most samples of a window read is its median
LEMMA MajorityMedian ==
  ASSUME NEW S, IsFiniteSet(S), NEW xs, \A i \in S : xs[i] \in Int,
         NEW v \in Int, NEW T \in SUBSET S, \A i \in T : xs[i] = v,
         2 * Cardinality(T) > Cardinality(S)
  PROVE  Median(xs, S) = v
<1>1. IsFiniteSet(T) /\ Cardinality(S) \in Nat
  BY FS_Subset, FS_CardinalityType
<1>2. PICK t \in T : TRUE
  <2>1. T = {} => Cardinality(T) = 0
    BY FS_EmptySet
  <2>2. QED
    BY <1>1, <2>1
<1>3. v \in {xs[i] : i \in S}
  BY <1>2
<1>4. \A i \in T : xs[i] <= v /\ xs[i] >= v
  OBVIOUS
<1>5. QED
  BY <1>3, <1>4, MedianIs

Between(x, u, v) == x \in Int /\ ((u <= x /\ x <= v) \/ (v <= x /\ x <= u))

(* As many samples at one level as at the other, and one anywhere.         *)
LEMMA MiddleUp ==
  ASSUME NEW S, IsFiniteSet(S), NEW xs, \A i \in S : xs[i] \in Int,
         NEW u \in Int, NEW v \in Int, u <= v,
         NEW A \in SUBSET S, NEW B \in SUBSET S, NEW z \in S, z \notin A \cup B, A \cap B = {},
         \A i \in A : xs[i] = u, \A i \in B : xs[i] = v,
         2 * (Cardinality(A) + 1) > Cardinality(S), 2 * (Cardinality(B) + 1) > Cardinality(S),
         A # {}, B # {}
  PROVE  Median(xs, S) \in Int /\ u <= Median(xs, S) /\ Median(xs, S) <= v
<1>1. /\ IsFiniteSet(A) /\ Cardinality(A) \in Nat /\ Cardinality(A) # 0
      /\ IsFiniteSet(B) /\ Cardinality(B) \in Nat /\ Cardinality(B) # 0
      /\ Cardinality(S) \in Nat /\ xs[z] \in Int
  BY FS_Subset, FS_CardinalityType, FS_EmptySet
<1>2. /\ Cardinality(A \cup {z}) = Cardinality(A) + 1
      /\ Cardinality(B \cup {z}) = Cardinality(B) + 1
      /\ Cardinality(A \cup B) = Cardinality(A) + Cardinality(B)
  <2>1. z \notin A /\ z \notin B /\ A \cap B = {}
    OBVIOUS
  <2>2. Cardinality(A \cup {z}) = Cardinality(A) + 1
    BY <1>1, <2>1, FS_AddElement
  <2>3. Cardinality(B \cup {z}) = Cardinality(B) + 1
    BY <1>1, <2>1, FS_AddElement
  <2>4. Cardinality(A \cup B) = Cardinality(A) + Cardinality(B) - Cardinality(A \cap B)
    BY <1>1, FS_Union
  <2>5. Cardinality(A \cap B) = 0
    BY <2>1, FS_EmptySet
  <2>6. QED
    BY <1>1, <2>2, <2>3, <2>4, <2>5
<1>3. /\ 2 * Cardinality(A \cup {z}) > Cardinality(S)
      /\ 2 * Cardinality(B \cup {z}) > Cardinality(S)
      /\ 2 * Cardinality(A \cup B) > Cardinality(S)
  BY <1>1, <1>2
<1>4. A \cup {z} \in SUBSET S /\ B \cup {z} \in SUBSET S /\ A \cup B \in SUBSET S
  OBVIOUS
<1>5. u \in {xs[i] : i \in S} /\ v \in {xs[i] : i \in S} /\ xs[z] \in {xs[i] : i \in S}
  OBVIOUS
<1>6. CASE xs[z] < u
  <2>1. (\A i \in A \cup {z} : xs[i] <= u) /\ (\A i \in A \cup B : xs[i] >= u)
    BY <1>1, <1>6
  <2>2. Median(xs, S) = u
    BY <1>3, <1>4, <1>5, <2>1, MedianIs
  <2>3. QED
    BY <2>2
<1>7. CASE xs[z] > v
  <2>1. (\A i \in A \cup B : xs[i] <= v) /\ (\A i \in B \cup {z} : xs[i] >= v)
    BY <1>1, <1>7
  <2>2. Median(xs, S) = v
    BY <1>3, <1>4, <1>5, <2>1, MedianIs
  <2>3. QED
    BY <2>2
<1>8. CASE u <= xs[z] /\ xs[z] <= v
  <2>1. (\A i \in A \cup {z} : xs[i] <= xs[z]) /\ (\A i \in B \cup {z} : xs[i] >= xs[z])
    BY <1>1, <1>8
  <2> DEFINE T == A \cup {z}
             U == B \cup {z}
  <2>a. /\ T \in SUBSET S /\ U \in SUBSET S /\ (\A i \in T : xs[i] <= xs[z]) /\ (\A i \in U : xs[i] >= xs[z])
        /\ 2 * Cardinality(T) > Cardinality(S) /\ 2 * Cardinality(U) > Cardinality(S)
    BY <1>3, <1>4, <2>1
  <2> HIDE DEF T, U
  <2>2. Median(xs, S) = xs[z]
    BY <1>5, <2>a, MedianIs
  <2>3. QED
    BY <1>8, <2>2
<1>9. QED
  BY <1>1, <1>6, <1>7, <1>8

\* the same in either direction
LEMMA Middle ==
  ASSUME NEW S, IsFiniteSet(S), NEW xs, \A i \in S : xs[i] \in Int,
         NEW u \in Int, NEW v \in Int,
         NEW A \in SUBSET S, NEW B \in SUBSET S, NEW z \in S, z \notin A \cup B, A \cap B = {},
         \A i \in A : xs[i] = u, \A i \in B : xs[i] = v,
         2 * (Cardinality(A) + 1) > Cardinality(S), 2 * (Cardinality(B) + 1) > Cardinality(S),
         A # {}, B # {}
  PROVE  Between(Median(xs, S), u, v)
<1>1. CASE u <= v
  BY <1>1, MiddleUp DEF Between
<1>2. CASE v <= u
  <2>1. z \notin B \cup A /\ B \cap A = {}
    OBVIOUS
  <2>2. Median(xs, S) \in Int /\ v <= Median(xs, S) /\ Median(xs, S) <= u
    BY <1>2, <2>1, MiddleUp
  <2>3. QED
    BY <2>2 DEF Between
<1>3. QED
  BY <1>1, <1>2

\* the sizes of an interval, and of one that lacks a sample
LEMMA IntervalSize ==
  ASSUME NEW a \in Int, NEW b \in Int, a <= b + 1
  PROVE  IsFiniteSet(a..b) /\ Cardinality(a..b) = b - a + 1
<1>1. IsFiniteSet(a..b) /\ Cardinality(a..b) = IF a > b THEN 0 ELSE b - a + 1
  BY FS_Interval
<1>2. QED
  BY <1>1

\* an interval without the sample of the spike
LEMMA Without ==
  ASSUME NEW a \in Int, NEW b \in Int, a <= b + 1, NEW z \in Int
  PROVE  /\ IsFiniteSet((a..b) \ {z}) /\ Cardinality((a..b) \ {z}) \in Nat
         /\ Cardinality((a..b) \ {z}) = IF z \in a..b THEN b - a ELSE b - a + 1
<1>1. IsFiniteSet(a..b) /\ Cardinality(a..b) = b - a + 1
  BY FS_Interval
<1>2. /\ IsFiniteSet((a..b) \ {z})
      /\ Cardinality((a..b) \ {z}) =
           IF z \in a..b THEN Cardinality(a..b) - 1 ELSE Cardinality(a..b)
  BY <1>1, FS_RemoveElement
<1>3. QED
  BY <1>1, <1>2, FS_CardinalityType

Half == MEDIAN_WIN \div 2
WindowFrom(k) == IF k < Half THEN 0 ELSE k - Half
WindowTo(k, n) == IF k + Half > n THEN n ELSE k + Half

\* a window of the filter is an interval
LEMMA WindowIs ==
  ASSUME NEW n \in Nat, NEW x \in [0..n -> Int], NEW k \in 0..n
  PROVE  /\ Window(x, k) = WindowFrom(k)..WindowTo(k, n)
         /\ WindowFrom(k) \in 0..k /\ WindowTo(k, n) \in k..n
<1>1. Half \in Nat /\ DOMAIN x = 0..n
  BY Parameters DEF Half
<1>2. WindowFrom(k) \in 0..k /\ WindowTo(k, n) \in k..n
  BY <1>1 DEF WindowFrom, WindowTo
<1>3. \A i \in Int : i \in WindowFrom(k)..WindowTo(k, n) <=>
                       i \in 0..n /\ k - Half <= i /\ i <= k + Half
  BY <1>1, <1>2 DEF WindowFrom, WindowTo
<1>4. Window(x, k) = {i \in 0..n : k - Half <= i /\ i <= k + Half}
  BY <1>1 DEF Window, Half
<1>5. Window(x, k) \subseteq WindowFrom(k)..WindowTo(k, n)
  BY <1>1, <1>3, <1>4
<1>6. WindowFrom(k)..WindowTo(k, n) \subseteq Window(x, k)
  BY <1>1, <1>3, <1>4
<1>7. QED
  BY <1>2, <1>5, <1>6

\* around k, x steps from u to v at a, but for the sample at z
Follows(x, k, a, z, u, v) == \A i \in Window(x, k) : i # z => x[i] = IF i < a THEN u ELSE v

\* a window that reaches over a is a whole one
Whole(n, k, a) == k - Half < a /\ a <= k + Half => Half <= k /\ k + Half <= n

(* The smoothed value next to a step of the series from u to v at a, which *)
(* one sample, at z, does not follow.                                      *)
LEMMA SmoothedAt ==
  ASSUME NEW n \in Nat, NEW x \in [0..n -> Int], NEW k \in 0..n,
         NEW a \in Int, NEW z \in Int, NEW u \in Int, NEW v \in Int,
         Follows(x, k, a, z, u, v), Whole(n, k, a),
         2 * Half <= n
  PROVE  /\ k <= a - 2 => Smoothed(x)[k] = u
         /\ k > a => Smoothed(x)[k] = v
         /\ k \in {a - 1, a} => Between(Smoothed(x)[k], u, v)
         /\ k = a - 1 /\ z >= a => Smoothed(x)[k] = u
         /\ k = a /\ z < a => Smoothed(x)[k] = v
<1> DEFINE y == Smoothed(x)[k]
<1>1. Half \in Nat /\ 2 <= Half
  BY Parameters DEF Half
<1>2. PICK lo \in 0..n, hi \in 0..n :
         /\ Window(x, k) = lo..hi /\ lo <= k /\ k <= hi
         /\ lo >= k - Half /\ hi <= k + Half /\ hi - lo >= Half
         /\ Half <= k => lo = k - Half
         /\ k + Half <= n => hi = k + Half
  <2>1. /\ WindowFrom(k) >= k - Half /\ WindowTo(k, n) <= k + Half
        /\ WindowTo(k, n) - WindowFrom(k) >= Half
        /\ Half <= k => WindowFrom(k) = k - Half
        /\ k + Half <= n => WindowTo(k, n) = k + Half
    BY <1>1 DEF WindowFrom, WindowTo
  <2>2. WindowFrom(k) \in 0..n /\ WindowTo(k, n) \in 0..n /\ WindowFrom(k) <= k /\ k <= WindowTo(k, n)
    <3>1. WindowFrom(k) \in 0..k /\ WindowTo(k, n) \in k..n
      BY WindowIs
    <3>2. QED
      BY <3>1
  <2>3. Window(x, k) = WindowFrom(k)..WindowTo(k, n)
    BY WindowIs
  <2>4. QED
    BY <2>1, <2>2, <2>3
<1> DEFINE W == lo..hi
<1>3. y = Median(x, W)
  BY <1>2 DEF Smoothed
<1>4. lo \in Int /\ hi \in Int /\ k \in Int /\ lo <= hi
  BY <1>2
<1>5. IsFiniteSet(W) /\ Cardinality(W) = hi - lo + 1 /\ (\A i \in W : x[i] \in Int)
  <2>1. IsFiniteSet(W) /\ Cardinality(W) = hi - lo + 1
    <3>1. lo <= hi + 1
      BY <1>4
    <3>2. IsFiniteSet(lo..hi) /\ Cardinality(lo..hi) = hi - lo + 1
      BY <1>4, <3>1, IntervalSize
    <3>3. QED
      BY <3>2
  <2>2. W \subseteq 0..n
    BY <1>4
  <2>3. QED
    BY <2>1, <2>2
<1>6. \A i \in W : i # z => x[i] = IF i < a THEN u ELSE v
  BY <1>2 DEF Follows
<1> HIDE DEF y, W
\* more than half of the window at one level
<1>7. ASSUME NEW p \in Int, NEW q \in Int, NEW w \in Int, lo <= p, p <= q + 1, q <= hi,
             \A i \in p..q : i # z => x[i] = w,
             2 * (q - p) > hi - lo + 1 \/ (z \notin p..q /\ 2 * (q - p + 1) > hi - lo + 1)
      PROVE  y = w
  <2> DEFINE T == (p..q) \ {z}
  <2>1. T \in SUBSET W /\ \A i \in T : x[i] = w
    BY <1>2, <1>7 DEF W
  <2>2. Cardinality(T) = IF z \in p..q THEN q - p ELSE q - p + 1
    BY <1>7, Without
  <2> HIDE DEF T
  <2>3. 2 * Cardinality(T) > Cardinality(W)
    BY <1>2, <1>5, <1>7, <2>2
  <2>4. QED
    BY <1>3, <1>5, <2>1, <2>3, MajorityMedian
<1>8. CASE a <= k - Half
  <2>1. \A i \in lo..hi : i # z => x[i] = v
    BY <1>2, <1>4, <1>6, <1>8, <1>1 DEF W
  <2>2. 2 * (hi - lo) > hi - lo + 1
    BY <1>1, <1>2, <1>4
  <2>3. lo <= lo /\ lo <= hi + 1 /\ hi <= hi
    BY <1>4
  <2>4. y = v
    BY <1>4, <1>7, <2>1, <2>2, <2>3
  <2>6. k > a
    BY <1>1, <1>8
  <2>5. QED
    BY <1>1, <2>4, <2>6 DEF y
<1>9. CASE a > k + Half
  <2>1. \A i \in lo..hi : i # z => x[i] = u
    BY <1>2, <1>4, <1>6, <1>9, <1>1 DEF W
  <2>2. 2 * (hi - lo) > hi - lo + 1
    BY <1>1, <1>2, <1>4
  <2>3. lo <= lo /\ lo <= hi + 1 /\ hi <= hi
    BY <1>4
  <2>4. y = u
    BY <1>4, <1>7, <2>1, <2>2, <2>3
  <2>6. k <= a - 2
    BY <1>1, <1>9
  <2>5. QED
    BY <1>1, <2>4, <2>6 DEF y
<1>10. CASE k - Half < a /\ a <= k + Half
  <2>1. lo = k - Half /\ hi = k + Half
    BY <1>2, <1>10 DEF Whole
  <2>2. /\ \A i \in lo..(a - 1) : i # z => x[i] = u
        /\ \A i \in a..hi : i # z => x[i] = v
    BY <1>1, <1>6, <1>10, <2>1 DEF W
  <2>3. k <= a - 2 \/ (k = a - 1 /\ z \notin lo..(a - 1)) => y = u
    <3>1. /\ a - 1 \in Int /\ lo <= lo /\ lo <= (a - 1) + 1 /\ a - 1 <= hi
          /\ k <= a - 2 => 2 * ((a - 1) - lo) > hi - lo + 1
          /\ k = a - 1 => 2 * ((a - 1) - lo + 1) > hi - lo + 1
      BY <1>1, <1>4, <1>10, <2>1
    <3>2. QED
      BY <1>4, <1>7, <2>2, <3>1
  <2>4. k > a \/ (k = a /\ z \notin a..hi) => y = v
    <3>1. /\ lo <= a /\ a <= hi + 1 /\ hi <= hi
          /\ k > a => 2 * (hi - a) > hi - lo + 1
          /\ k = a => 2 * (hi - a + 1) > hi - lo + 1
      BY <1>1, <1>4, <1>10, <2>1
    <3>2. QED
      BY <1>4, <1>7, <2>2, <3>1
  <2>5. CASE k \in {a - 1, a} /\ z \in W
    <3> DEFINE A == (lo..(a - 1)) \ {z}
               B == (a..hi) \ {z}
    <3>1. /\ A \in SUBSET W /\ B \in SUBSET W /\ z \notin A \cup B /\ A \cap B = {}
          /\ (\A i \in A : x[i] = u) /\ (\A i \in B : x[i] = v)
      <4>1. lo <= a /\ a - 1 <= hi
        BY <1>1, <1>4, <1>10, <2>1
      <4>2. A \in SUBSET W /\ B \in SUBSET W
        BY <1>4, <4>1 DEF W
      <4>3. z \notin A \cup B /\ A \cap B = {}
        BY <1>4
      <4>4. QED
        BY <2>2, <4>2, <4>3
    <3>2. /\ Cardinality(A) \in Nat /\ Cardinality(A) = IF z \in lo..(a - 1) THEN a - 1 - lo ELSE a - lo
          /\ Cardinality(B) \in Nat /\ Cardinality(B) = IF z \in a..hi THEN hi - a ELSE hi - a + 1
      <4>1. lo <= (a - 1) + 1 /\ a <= hi + 1 /\ a - 1 \in Int
        BY <1>1, <1>4, <1>10, <2>1
      <4>2. Cardinality(A) \in Nat /\ Cardinality(A) = IF z \in lo..(a - 1) THEN (a - 1) - lo ELSE (a - 1) - lo + 1
        BY <1>4, <4>1, Without
      <4>3. Cardinality(B) \in Nat /\ Cardinality(B) = IF z \in a..hi THEN hi - a ELSE hi - a + 1
        BY <1>4, <4>1, Without
      <4> HIDE DEF A, B
      <4>4. QED
        BY <1>4, <4>2, <4>3
    <3> HIDE DEF A, B
    <3>3. CASE Cardinality(A) >= Half /\ Cardinality(B) >= Half
      <4>1. Cardinality(A) # 0 /\ Cardinality(B) # 0
        BY <1>1, <3>2, <3>3
      <4>2. A # {} /\ B # {}
        BY <4>1, FS_EmptySet
      <4>3. /\ 2 * (Cardinality(A) + 1) > Cardinality(W)
            /\ 2 * (Cardinality(B) + 1) > Cardinality(W)
        BY <1>1, <1>2, <1>5, <2>1, <3>2, <3>3
      <4>4. Between(Median(x, W), u, v)
        BY <1>5, <2>5, <3>1, <4>2, <4>3, Middle
      <4>5. k = a - 1 /\ z >= a => z \notin lo..(a - 1)
        BY <2>5
      <4>6. k = a /\ z < a => z \notin a..hi
        BY <2>5
      <4>7. QED
        BY <1>3, <2>3, <2>4, <2>5, <4>4, <4>5, <4>6 DEF y
    <3>4. CASE ~(Cardinality(A) >= Half /\ Cardinality(B) >= Half)
      <4>1. (k = a - 1 /\ z \notin lo..(a - 1)) \/ (k = a /\ z \notin a..hi)
        BY <1>1, <1>2, <2>1, <2>5, <3>2, <3>4
      <4>2. y = u \/ y = v
        BY <2>3, <2>4, <4>1
      <4>3. k = a - 1 /\ z >= a => y = u
        BY <2>3
      <4>4. k = a /\ z < a => y = v
        BY <2>4
      <4>5. QED
        BY <2>5, <4>2, <4>3, <4>4 DEF y, Between
    <3>5. QED
      BY <3>3, <3>4
  <2>6. CASE ~(k \in {a - 1, a} /\ z \in W)
    <3>1. k \in {a - 1, a} => z \notin lo..(a - 1) /\ z \notin a..hi
      BY <1>1, <1>2, <1>10, <2>1, <2>6 DEF W
    <3>2. QED
      BY <2>3, <2>4, <2>6, <3>1 DEF y, Between
  <2>7. QED
    BY <2>5, <2>6
<1>11. QED
  BY <1>1, <1>8, <1>9, <1>10

(* y is at u, then at v: the change is at a, in the two samples around it. *)
IsStep(y, lo, hi, a, u, v) ==
  /\ \A k \in lo..hi : /\ k <= a - 2 => y[k] = u
                       /\ k > a => y[k] = v
                       /\ k \in {a - 1, a} => Between(y[k], u, v)
  /\ y[a - 1] = u \/ y[a] = v

(* A series with two steps far enough from each other and from its ends    *)
(* still has them, at the same places, when it is smoothed.                *)
LEMMA SmoothedSteps ==
  ASSUME NEW n \in Nat, NEW x \in [0..n -> Int], NEW a \in Int, NEW b \in Int, NEW z \in Int,
         NEW u \in Int, NEW v \in Int, NEW w \in Int,
         \A k \in 0..n : k # z => x[k] = IF k < a THEN u ELSE IF k < b THEN v ELSE w,
         2 * Half < a, a + 2 * Half < b, b + 2 * Half <= n
  PROVE  /\ Smoothed(x) \in [0..n -> Int]
         /\ IsStep(Smoothed(x), 0, b - 2, a, u, v)
         /\ IsStep(Smoothed(x), a + 1, n, b, v, w)
<1> DEFINE y == Smoothed(x)
<1> HIDE DEF y
<1>1. Half \in Nat /\ 2 <= Half /\ 2 * Half <= n
  BY Parameters DEF Half
<1>2. \A k \in 0..n : \A i \in Window(x, k) : i \in 0..n /\ k - Half <= i /\ i <= k + Half
  BY DEF Window, Half
<1>3. ASSUME NEW k \in 0..n, k + Half < b
      PROVE  /\ k <= a - 2 => y[k] = u
             /\ k > a => y[k] = v
             /\ k \in {a - 1, a} => Between(y[k], u, v)
             /\ k = a - 1 /\ z >= a => y[k] = u
             /\ k = a /\ z < a => y[k] = v
  <2>1. Follows(x, k, a, z, u, v)
    BY <1>1, <1>2, <1>3 DEF Follows
  <2>2. Whole(n, k, a)
    BY <1>1, <1>3 DEF Whole
  <2>3. /\ k <= a - 2 => Smoothed(x)[k] = u
        /\ k > a => Smoothed(x)[k] = v
        /\ k \in {a - 1, a} => Between(Smoothed(x)[k], u, v)
        /\ k = a - 1 /\ z >= a => Smoothed(x)[k] = u
        /\ k = a /\ z < a => Smoothed(x)[k] = v
    BY <1>1, <2>1, <2>2, SmoothedAt
  <2>4. QED
    BY <2>3 DEF y
<1>4. ASSUME NEW k \in 0..n, k + Half >= b
      PROVE  /\ k <= b - 2 => y[k] = v
             /\ k > b => y[k] = w
             /\ k \in {b - 1, b} => Between(y[k], v, w)
             /\ k = b - 1 /\ z >= b => y[k] = v
             /\ k = b /\ z < b => y[k] = w
  <2>1. Follows(x, k, b, z, v, w)
    BY <1>1, <1>2, <1>4 DEF Follows
  <2>2. Whole(n, k, b)
    BY <1>1, <1>4 DEF Whole
  <2>3. /\ k <= b - 2 => Smoothed(x)[k] = v
        /\ k > b => Smoothed(x)[k] = w
        /\ k \in {b - 1, b} => Between(Smoothed(x)[k], v, w)
        /\ k = b - 1 /\ z >= b => Smoothed(x)[k] = v
        /\ k = b /\ z < b => Smoothed(x)[k] = w
    BY <1>1, <2>1, <2>2, SmoothedAt
  <2>4. QED
    BY <2>3 DEF y
<1>5. y = [k \in 0..n |-> y[k]]
  BY DEF Smoothed, y
<1>6. \A k \in 0..n : y[k] \in Int
  <2>1. SUFFICES ASSUME NEW k \in 0..n PROVE y[k] \in Int
    OBVIOUS
  <2>2. CASE k + Half < b
    BY <1>3, <2>2 DEF Between
  <2>3. CASE k + Half >= b
    BY <1>4, <2>3 DEF Between
  <2>4. QED
    BY <1>1, <2>2, <2>3
<1>7. IsStep(y, 0, b - 2, a, u, v)
  <2>1. ASSUME NEW k \in 0..(b - 2)
        PROVE  /\ k <= a - 2 => y[k] = u
               /\ k > a => y[k] = v
               /\ k \in {a - 1, a} => Between(y[k], u, v)
    <3>1. k \in 0..n
      BY <1>1
    <3>2. CASE k + Half < b
      BY <1>3, <3>1, <3>2
    <3>3. CASE k + Half >= b
      <4>1. k > a /\ k <= b - 2
        BY <1>1, <3>3
      <4>2. QED
        BY <1>4, <3>1, <3>3, <4>1
    <3>4. QED
      BY <1>1, <3>2, <3>3
  <2>2. y[a - 1] = u \/ y[a] = v
    <3>1. a - 1 \in 0..n /\ a \in 0..n /\ (a - 1) + Half < b /\ a + Half < b
      BY <1>1
    <3>2. CASE z >= a
      BY <1>3, <3>1, <3>2
    <3>3. CASE z < a
      BY <1>3, <3>1, <3>3
    <3>4. QED
      BY <3>2, <3>3
  <2>3. QED
    BY <2>1, <2>2 DEF IsStep
<1>8. IsStep(y, a + 1, n, b, v, w)
  <2>1. ASSUME NEW k \in (a + 1)..n
        PROVE  /\ k <= b - 2 => y[k] = v
               /\ k > b => y[k] = w
               /\ k \in {b - 1, b} => Between(y[k], v, w)
    <3>1. k \in 0..n
      BY <1>1
    <3>2. CASE k + Half < b
      <4>1. k > a /\ k <= b - 2
        BY <1>1, <3>2
      <4>2. QED
        BY <1>3, <3>1, <3>2, <4>1
    <3>3. CASE k + Half >= b
      BY <1>4, <3>1, <3>3
    <3>4. QED
      BY <1>1, <3>2, <3>3
  <2>2. y[b - 1] = v \/ y[b] = w
    <3>1. b - 1 \in 0..n /\ b \in 0..n /\ (b - 1) + Half >= b /\ b + Half >= b
      BY <1>1
    <3>2. CASE z >= b
      BY <1>4, <3>1, <3>2
    <3>3. CASE z < b
      BY <1>4, <3>1, <3>3
    <3>4. QED
      BY <3>2, <3>3
  <2>3. QED
    BY <2>1, <2>2 DEF IsStep
<1>9. y \in [0..n -> Int]
  BY <1>5, <1>6
<1>10. QED
  BY <1>7, <1>8, <1>9 DEF y

\* a level read where the series is constant
LEMMA LevelOver ==
  ASSUME NEW n \in Nat, NEW y \in [0..n -> Int], NEW lo \in 0..n, NEW hi \in Int, lo < hi,
         NEW v \in Int, \A k \in 0..n : lo <= k /\ k < hi => y[k] = v
  PROVE  Level(y, lo, hi) = v
<1> DEFINE S == {i \in 0..n : i >= lo /\ (i < hi \/ (hi < 1 /\ i = 0))}
<1>1. lo \in S /\ S \in SUBSET (0..n) /\ \A i \in S : y[i] = v
  OBVIOUS
<1>2. Level(y, lo, hi) = IF S = {} THEN 0 ELSE Median(y, S)
  BY DEF Level
<1> HIDE DEF S
<1>3. IsFiniteSet(S) /\ Cardinality(S) \in Nat /\ Cardinality(S) # 0
  <2>1. IsFiniteSet(0..n)
    BY FS_Interval
  <2>2. QED
    BY <1>1, <2>1, FS_Subset, FS_CardinalityType, FS_EmptySet
<1>4. /\ S \in SUBSET S /\ (\A i \in S : y[i] \in Int) /\ 2 * Cardinality(S) > Cardinality(S)
  BY <1>1, <1>3
<1>5. Median(y, S) = v
  BY <1>1, <1>3, <1>4, MajorityMedian
<1>6. QED
  BY <1>1, <1>2, <1>5

\* where the middle of the steepest stretch may be, for a step at a
Near(a) == (a - 1 - LAG \div 2)..(a + 1 - LAG \div 2)

\* the series is level far enough before and after the step
Settled(lo, hi, a, n) ==
  /\ lo \in Int /\ hi \in Int /\ a \in Int
  /\ 0 <= lo /\ hi <= n /\ lo + 2 * LAG + 3 * SETTLE < a /\ a + LAG + 3 * SETTLE <= hi

\* the levels read around a step are its own
LEMMA LevelsNear ==
  ASSUME NEW n \in Nat, NEW y \in [0..n -> Int], NEW lo, NEW hi, NEW a, Settled(lo, hi, a, n),
         NEW u \in Int, NEW v \in Int, IsStep(y, lo, hi, a, u, v), NEW i \in Near(a)
  PROVE  LevelsAround(y, i) = <<u, v>>
<1> DEFINE h == LAG \div 2
           from == i - h - 3 * SETTLE
           to == i - h - 2 * SETTLE
           from2 == i + h + 2 * SETTLE
           to2 == i + h + 3 * SETTLE
<1>1. /\ h \in Nat /\ 2 * h = LAG /\ LAG \in Nat /\ LAG >= 2 /\ SETTLE \in Nat /\ SETTLE >= 2
  BY Parameters
<1>2. /\ lo \in Int /\ hi \in Int /\ a \in Int /\ 0 <= lo /\ hi <= n
      /\ lo + 2 * LAG + 3 * SETTLE < a /\ a + LAG + 3 * SETTLE <= hi
  BY DEF Settled
<1>3. i \in Int /\ a - 1 - h <= i /\ i <= a + 1 - h
  BY <1>1, <1>2 DEF Near
<1>4. LevelsAround(y, i) = <<Level(y, from, to), Level(y, from2, to2)>>
  BY DEF LevelsAround
<1> HIDE DEF h
<1>5. from \in 0..n /\ to \in Int /\ from < to /\ from >= lo /\ to <= a - 1 /\ to <= hi
  BY <1>1, <1>2, <1>3
<1>6. from2 \in 0..n /\ to2 \in Int /\ from2 < to2 /\ from2 > a /\ to2 <= hi + 1 /\ from2 >= lo
  BY <1>1, <1>2, <1>3
<1> HIDE DEF from, to, from2, to2
<1>7. \A k \in 0..n : from <= k /\ k < to => y[k] = u
  <2>1. \A k \in 0..n : from <= k /\ k < to => k \in lo..hi /\ k <= a - 2
    BY <1>2, <1>5
  <2>2. QED
    BY <2>1 DEF IsStep
<1>8. \A k \in 0..n : from2 <= k /\ k < to2 => y[k] = v
  <2>1. \A k \in 0..n : from2 <= k /\ k < to2 => k \in lo..hi /\ k > a
    BY <1>2, <1>6
  <2>2. QED
    BY <2>1 DEF IsStep
<1>9. Level(y, from, to) = u
  BY <1>5, <1>7, LevelOver
<1>10. Level(y, from2, to2) = v
  BY <1>6, <1>8, LevelOver
<1>11. QED
  BY <1>4, <1>9, <1>10

(* Over a lag, a step shows as a difference no larger than itself, only in *)
(* a stretch before it, and once in full.                                  *)
LEMMA DifferencesNear ==
  ASSUME NEW n \in Nat, NEW y \in [0..n -> Int], NEW lo, NEW hi, NEW a, Settled(lo, hi, a, n),
         NEW u \in Int, NEW v \in Int, IsStep(y, lo, hi, a, u, v)
  PROVE  /\ \A k \in lo..(hi - LAG) :
              /\ Difference(y, k) \in Int
              /\ k < a - 1 - LAG \/ k > a => Difference(y, k) = 0
              /\ Size(Difference(y, k)) <= Size(v - u)
         /\ \E k \in {a - LAG, a + 1 - LAG} : Difference(y, k) = v - u
<1>1. /\ LAG \in Nat /\ LAG >= 2 /\ SETTLE \in Nat /\ SETTLE >= 2
  BY Parameters
<1>2. /\ lo \in Int /\ hi \in Int /\ a \in Int /\ 0 <= lo /\ hi <= n
      /\ lo + 2 * LAG + 3 * SETTLE < a /\ a + LAG + 3 * SETTLE <= hi
  BY DEF Settled
<1>3. \A k \in lo..hi : /\ y[k] \in Int
                        /\ k <= a - 2 => y[k] = u
                        /\ k > a => y[k] = v
                        /\ k \in {a - 1, a} => Between(y[k], u, v)
  BY <1>2 DEF IsStep
<1>4. ASSUME NEW k \in lo..(hi - LAG)
      PROVE  /\ Difference(y, k) \in Int
             /\ k < a - 1 - LAG \/ k > a => Difference(y, k) = 0
             /\ Size(Difference(y, k)) <= Size(v - u)
  <2> DEFINE p == y[k]
             q == y[k + LAG]
  <2>1. k \in lo..hi /\ k + LAG \in lo..hi /\ k \in Int
    BY <1>1, <1>2
  <2>2. Difference(y, k) = q - p
    BY DEF Difference
  <2>3. /\ p \in Int /\ (k <= a - 2 => p = u) /\ (k > a => p = v)
        /\ k \in {a - 1, a} => Between(p, u, v)
    BY <1>3, <2>1
  <2>4. /\ q \in Int /\ (k + LAG <= a - 2 => q = u) /\ (k + LAG > a => q = v)
        /\ k + LAG \in {a - 1, a} => Between(q, u, v)
    BY <1>3, <2>1
  <2> HIDE DEF p, q
  <2>5. CASE k > a
    <3>1. k + LAG > a
      BY <1>1, <1>2, <2>1, <2>5
    <3>2. q - p = 0
      BY <2>3, <2>4, <2>5, <3>1
    <3>3. Size(0) <= Size(v - u)
      BY DEF Size
    <3>4. QED
      BY <2>2, <3>2, <3>3
  <2>6. CASE k \in {a - 1, a}
    <3>1. k + LAG > a /\ ~(k < a - 1 - LAG) /\ ~(k > a)
      BY <1>1, <1>2, <2>1, <2>6
    <3>2. q = v /\ Between(p, u, v)
      BY <2>3, <2>4, <2>6, <3>1
    <3>3. Size(q - p) <= Size(v - u)
      BY <3>2 DEF Between, Size
    <3>4. QED
      BY <2>2, <2>3, <2>4, <3>1, <3>3
  <2>7. CASE k <= a - 2 /\ k + LAG > a
    <3>1. ~(k < a - 1 - LAG) /\ ~(k > a)
      BY <1>1, <1>2, <2>1, <2>7
    <3>2. q = v /\ p = u
      BY <2>3, <2>4, <2>7
    <3>3. QED
      BY <2>2, <3>1, <3>2 DEF Size
  <2>8. CASE k <= a - 2 /\ k + LAG \in {a - 1, a}
    <3>1. ~(k < a - 1 - LAG) /\ ~(k > a)
      BY <1>1, <1>2, <2>1, <2>8
    <3>2. p = u /\ Between(q, u, v)
      BY <2>3, <2>4, <2>8
    <3>3. Size(q - p) <= Size(v - u)
      BY <3>2 DEF Between, Size
    <3>4. QED
      BY <2>2, <2>3, <2>4, <3>1, <3>3
  <2>9. CASE k <= a - 2 /\ k + LAG <= a - 2
    <3>1. q - p = 0
      BY <2>3, <2>4, <2>9
    <3>2. Size(0) <= Size(v - u)
      BY DEF Size
    <3>3. QED
      BY <2>2, <3>1, <3>2
  <2>10. k > a \/ k \in {a - 1, a} \/ (k <= a - 2 /\ (k + LAG > a \/ k + LAG \in {a - 1, a} \/ k + LAG <= a - 2))
    BY <1>1, <1>2, <2>1
  <2>11. QED
    BY <2>5, <2>6, <2>7, <2>8, <2>9, <2>10
<1>5. \E k \in {a - LAG, a + 1 - LAG} : Difference(y, k) = v - u
  <2>1. CASE y[a] = v
    <3>1. a - LAG \in lo..hi /\ a - LAG <= a - 2 /\ (a - LAG) + LAG = a
      BY <1>1, <1>2
    <3>2. y[a - LAG] = u
      BY <1>3, <3>1
    <3>3. Difference(y, a - LAG) = v - u
      BY <2>1, <3>1, <3>2 DEF Difference
    <3>4. QED
      BY <3>3
  <2>2. CASE y[a - 1] = u
    <3>1. /\ a + 1 - LAG \in lo..hi /\ (a + 1 - LAG <= a - 2 \/ a + 1 - LAG = a - 1)
          /\ (a + 1 - LAG) + LAG = a + 1 /\ a + 1 \in lo..hi /\ a + 1 > a
      BY <1>1, <1>2
    <3>2. y[a + 1 - LAG] = u
      BY <1>3, <2>2, <3>1
    <3>3. y[a + 1] = v
      BY <1>3, <3>1
    <3>4. Difference(y, a + 1 - LAG) = v - u
      BY <3>1, <3>2, <3>3 DEF Difference
    <3>5. QED
      BY <3>4
  <2>3. QED
    BY <2>1, <2>2 DEF IsStep
<1>6. QED
  BY <1>4, <1>5

(* The least element of a set of numbers.                                   *)
LEMMA Smallest ==
  ASSUME NEW S \in SUBSET Nat, S # {}
  PROVE  Min(S) \in S /\ \A x \in S : Min(S) <= x
<1>1. PICK m \in S : \A k \in S : ~(<<k, m>> \in OpToRel(<, Nat))
  BY NatLessThanWellFounded, WFMin
<1>2. \A k \in S : m <= k
  <2>1. SUFFICES ASSUME NEW k \in S PROVE m <= k
    OBVIOUS
  <2>2. k \in Nat /\ m \in Nat
    OBVIOUS
  <2>3. ~(k < m)
    <3>1. SUFFICES ASSUME k < m PROVE FALSE
      OBVIOUS
    <3>2. <<k, m>> \in OpToRel(<, Nat)
      BY <2>2, <3>1 DEF OpToRel
    <3>3. QED
      BY <1>1, <3>2
  <2>4. QED
    BY <2>2, <2>3
<1>3. QED
  BY <1>2 DEF Min

\* where a difference may show the step at a
Stretch(a) == (a - 1 - LAG)..a

(* The detections of one step are one group: a steepest one is among them, *)
(* and none but the least has no other within a lag before it.             *)
LEMMA GroupNear ==
  ASSUME NEW n \in Nat, NEW y \in [0..n -> Int], NEW lo, NEW hi, NEW a, Settled(lo, hi, a, n),
         NEW u \in Int, NEW v \in Int, IsStep(y, lo, hi, a, u, v)
  PROVE  LET A == Raw(y) \cap Stretch(a)
         IN /\ Size(v - u) < EDGE_COUNTS => A = {}
            /\ EDGE_COUNTS <= Size(v - u) =>
                 /\ A # {}
                 /\ Steepest(y, A) + LAG \div 2 \in Near(a)
            /\ \A f, j \in A : Raw(y) \cap (f - LAG)..(f - 1) = {} => f <= j
<1> DEFINE A == Raw(y) \cap Stretch(a)
           D(k) == Difference(y, k)
<1>1. /\ LAG \in Nat /\ LAG >= 2 /\ SETTLE \in Nat /\ SETTLE >= 2 /\ EDGE_COUNTS \in Nat
      /\ LAG \div 2 \in Nat /\ 2 * (LAG \div 2) = LAG
  BY Parameters
<1>2. /\ lo \in Int /\ hi \in Int /\ a \in Int /\ 0 <= lo /\ hi <= n
      /\ lo + 2 * LAG + 3 * SETTLE < a /\ a + LAG + 3 * SETTLE <= hi
  BY DEF Settled
<1>3. \A k \in lo..(hi - LAG) : /\ D(k) \in Int
                                /\ k < a - 1 - LAG \/ k > a => D(k) = 0
                                /\ Size(D(k)) <= Size(v - u)
  BY DifferencesNear
<1>4. PICK k0 \in {a - LAG, a + 1 - LAG} : D(k0) = v - u
  BY DifferencesNear
<1>5. \A k \in Stretch(a) : k \in lo..(hi - LAG) /\ k \in 0..n /\ k + LAG \in 0..n /\ k \in Nat
  BY <1>1, <1>2 DEF Stretch
<1>6. \A k : k \in A <=> k \in Stretch(a) /\ Size(D(k)) >= EDGE_COUNTS
  BY <1>5 DEF Raw
<1>7. k0 \in Stretch(a) /\ k0 \in Int
  BY <1>1, <1>2 DEF Stretch
<1>8. Size(v - u) \in Nat /\ \A k \in Stretch(a) : Size(D(k)) \in Nat
  BY <1>3, <1>5 DEF Size
<1>9. \A k \in Stretch(a) : Size(D(k)) <= Size(v - u)
  BY <1>3, <1>5
<1> HIDE DEF A, D
<1>10. Size(v - u) < EDGE_COUNTS => A = {}
  BY <1>1, <1>6, <1>8, <1>9
<1>11. EDGE_COUNTS <= Size(v - u) => k0 \in A
  BY <1>4, <1>6, <1>7
<1>12. ASSUME EDGE_COUNTS <= Size(v - u) PROVE Steepest(y, A) + LAG \div 2 \in Near(a)
  <2> DEFINE P == {k \in A : \A j \in A : Size(Difference(y, j)) <= Size(Difference(y, k))}
  <2>1. k0 \in P
    BY <1>4, <1>6, <1>9, <1>11, <1>12 DEF D
  <2>2. P \in SUBSET Nat
    BY <1>5, <1>6
  <2> HIDE DEF P
  <2>3. Min(P) \in P /\ Min(P) <= k0
    BY <2>1, <2>2, Smallest
  <2>4. Steepest(y, A) = Min(P)
    BY DEF Steepest, P
  <2>5. Min(P) \in Stretch(a)
    BY <1>6, <2>3 DEF P
  <2> DEFINE p == Min(P)
             h == LAG \div 2
  <2>6. p \in Int /\ a - 1 - LAG <= p /\ p <= k0
    BY <1>1, <1>2, <2>3, <2>5 DEF Stretch
  <2>7. h \in Nat /\ 2 * h = LAG
    BY <1>1
  <2> HIDE DEF p, h
  <2>8. k0 <= a + 1 - LAG /\ k0 \in Int
    BY <1>1, <1>2
  <2>9. p + h \in (a - 1 - h)..(a + 1 - h)
    BY <1>1, <1>2, <2>6, <2>7, <2>8
  <2>10. QED
    BY <2>4, <2>9 DEF p, h, Near
<1>13. ASSUME NEW f \in A, NEW j \in A, Raw(y) \cap (f - LAG)..(f - 1) = {} PROVE f <= j
  <2>1. f \in Stretch(a) /\ j \in Stretch(a) /\ f \in Int /\ j \in Int
    BY <1>5, <1>6
  <2>2. \A k \in A : k \in Int /\ k \in Raw(y)
    BY <1>5, <1>6 DEF A
  <2>3. \A k \in A : ~(f - LAG <= k /\ k <= f - 1)
    BY <1>13, <2>1, <2>2, <1>1
  <2>4. k0 \in A
    <3>1. Size(D(f)) >= EDGE_COUNTS /\ Size(D(f)) <= Size(v - u)
      BY <1>6, <1>9, <2>1
    <3>2. QED
      BY <1>1, <1>8, <1>11, <2>1, <3>1
  <2>5. a - 1 - LAG <= f /\ f <= a /\ a - 1 - LAG <= j /\ j <= a
    BY <1>1, <1>2, <2>1 DEF Stretch
  <2>6. ~(f - LAG <= j /\ j <= f - 1) /\ ~(f - LAG <= k0 /\ k0 <= f - 1)
    BY <2>3, <2>4
  <2>7. k0 = a - LAG \/ k0 = a + 1 - LAG
    OBVIOUS
  <2>8. QED
    BY <1>1, <1>2, <2>1, <2>5, <2>6, <2>7
<1>14. QED
  BY <1>10, <1>11, <1>12, <1>13 DEF A

\* the load of a leg: two steps, held long enough
TwoSteps(y, n, a, b, u, v, w) ==
  /\ y \in [0..n -> Int]
  /\ IsStep(y, 0, b - 2, a, u, v) /\ IsStep(y, a + 1, n, b, v, w)

Spaced(n, a, b) ==
  /\ n \in Nat /\ Settled(0, b - 2, a, n) /\ Settled(a + 1, n, b, n)
  /\ a + 2 * LAG + 2 <= b /\ LAG + 6 * SETTLE <= n

\* there is no detection but near a step
LEMMA RawNear ==
  ASSUME NEW n, NEW a, NEW b, Spaced(n, a, b), NEW y, NEW u \in Int, NEW v \in Int, NEW w \in Int,
         TwoSteps(y, n, a, b, u, v, w)
  PROVE  Raw(y) \subseteq Stretch(a) \cup Stretch(b)
<1>1. LAG \in Nat /\ LAG >= 2 /\ SETTLE \in Nat /\ EDGE_COUNTS \in Nat /\ EDGE_COUNTS >= 1
  BY Parameters
<1>2. /\ n \in Nat /\ y \in [0..n -> Int] /\ Settled(0, b - 2, a, n) /\ Settled(a + 1, n, b, n)
      /\ IsStep(y, 0, b - 2, a, u, v) /\ IsStep(y, a + 1, n, b, v, w)
      /\ a \in Int /\ b \in Int /\ a + 2 * LAG + 2 <= b
  BY DEF Spaced, TwoSteps, Settled
<1>3. \A k \in 0..(b - 2 - LAG) : k < a - 1 - LAG \/ k > a => Difference(y, k) = 0
  BY <1>2, DifferencesNear
<1>4. \A k \in (a + 1)..(n - LAG) : k < b - 1 - LAG \/ k > b => Difference(y, k) = 0
  <2> DEFINE lo == a + 1
  <2>1. Settled(lo, n, b, n) /\ IsStep(y, lo, n, b, v, w)
    BY <1>2
  <2> HIDE DEF lo
  <2>2. \A k \in lo..(n - LAG) : k < b - 1 - LAG \/ k > b => Difference(y, k) = 0
    BY <1>2, <2>1, DifferencesNear
  <2>3. QED
    BY <2>2 DEF lo
<1>5. SUFFICES ASSUME NEW k \in Raw(y) PROVE k \in Stretch(a) \cup Stretch(b)
  OBVIOUS
<1>6. k \in 0..n /\ k + LAG \in 0..n /\ Size(Difference(y, k)) >= EDGE_COUNTS
  BY <1>2 DEF Raw
<1>7. Difference(y, k) # 0
  BY <1>1, <1>6 DEF Size
<1>8. CASE k <= a
  <2>1. k \in 0..(b - 2 - LAG)
    BY <1>1, <1>2, <1>6, <1>8
  <2>2. ~(k < a - 1 - LAG)
    BY <1>3, <1>7, <2>1
  <2>3. k \in Stretch(a)
    BY <1>1, <1>2, <1>6, <1>8, <2>2 DEF Stretch
  <2>4. QED
    BY <2>3
<1>9. CASE k > a
  <2>1. k \in (a + 1)..(n - LAG)
    BY <1>1, <1>2, <1>6, <1>9
  <2>2. ~(k < b - 1 - LAG) /\ ~(k > b)
    BY <1>4, <1>7, <2>1
  <2>3. k \in Stretch(b)
    BY <1>1, <1>2, <1>6, <2>2 DEF Stretch
  <2>4. QED
    BY <2>3
<1>10. QED
  BY <1>2, <1>6, <1>8, <1>9

(* Two bunches of detections more than a lag apart are two groups.         *)
LEMMA GroupsAre ==
  ASSUME NEW A \in SUBSET Nat, NEW B \in SUBSET Nat, \A i \in A, j \in B : i + LAG < j,
         \A f, j \in A : (A \cup B) \cap (f - LAG)..(f - 1) = {} => f <= j,
         \A f, j \in B : (A \cup B) \cap (f - LAG)..(f - 1) = {} => f <= j
  PROVE  /\ A # {} => A \cap FirstOfGroup(A \cup B) # {}
         /\ B # {} => B \cap FirstOfGroup(A \cup B) # {}
         /\ \A f \in A \cap FirstOfGroup(A \cup B) : GroupFrom(A \cup B, f) = A
         /\ \A f \in B \cap FirstOfGroup(A \cup B) : GroupFrom(A \cup B, f) = B
<1> DEFINE R == A \cup B
           F == FirstOfGroup(R)
<1>1. LAG \in Nat /\ LAG >= 2
  BY Parameters
<1>2. \A k : k \in F <=> k \in R /\ R \cap (k - LAG)..(k - 1) = {}
  BY DEF FirstOfGroup
<1>3. \A f : \A k : k \in GroupFrom(R, f) <=> k \in R /\ k >= f /\ F \cap (f + 1)..k = {}
  BY DEF GroupFrom
<1>4. R \in SUBSET Nat /\ F \in SUBSET R
  BY <1>2
<1>5. (\A f \in A \cap F, j \in A : f <= j) /\ (\A f \in B \cap F, j \in B : f <= j)
  BY <1>2
<1>6. \A k \in R : k \in A \/ k \in B
  OBVIOUS
<1> HIDE DEF F
<1>7. ASSUME A # {} PROVE A \cap F # {}
  <2>1. Min(A) \in A /\ \A x \in A : Min(A) <= x
    BY <1>7, Smallest
  <2>2. ASSUME NEW k \in R, k \in (Min(A) - LAG)..(Min(A) - 1) PROVE FALSE
    <3>1. k \in Nat /\ Min(A) \in Nat /\ k < Min(A)
      <4> DEFINE m == Min(A)
      <4>1. k \in Nat /\ m \in Nat /\ k \in (m - LAG)..(m - 1)
        BY <1>4, <2>1, <2>2
      <4> HIDE DEF m
      <4>2. k < m
        BY <1>1, <4>1
      <4>3. QED
        BY <4>1, <4>2 DEF m
    <3>2. k \notin A
      BY <2>1, <3>1
    <3>3. k \in B
      BY <1>6, <3>2
    <3>4. Min(A) + LAG < k
      BY <2>1, <3>3
    <3>5. QED
      BY <1>1, <3>1, <3>4
  <2>3. Min(A) \in F
    BY <1>2, <2>1, <2>2
  <2>4. QED
    BY <2>1, <2>3
<1>8. ASSUME B # {} PROVE Min(B) \in B \cap F
  <2>1. Min(B) \in B /\ \A x \in B : Min(B) <= x
    BY <1>8, Smallest
  <2>2. ASSUME NEW k \in R, k \in (Min(B) - LAG)..(Min(B) - 1) PROVE FALSE
    <3>1. k \in Nat /\ Min(B) \in Nat /\ k < Min(B) /\ Min(B) - LAG <= k
      <4> DEFINE m == Min(B)
      <4>1. k \in Nat /\ m \in Nat /\ k \in (m - LAG)..(m - 1)
        BY <1>4, <2>1, <2>2
      <4> HIDE DEF m
      <4>2. k < m /\ m - LAG <= k
        BY <1>1, <4>1
      <4>3. QED
        BY <4>1, <4>2 DEF m
    <3>2. k \notin B
      BY <2>1, <3>1
    <3>3. k \in A
      BY <1>6, <3>2
    <3>4. k + LAG < Min(B)
      BY <2>1, <3>3
    <3>5. QED
      BY <1>1, <3>1, <3>4
  <2>3. Min(B) \in F
    BY <1>2, <2>1, <2>2
  <2>4. QED
    BY <2>1, <2>3
<1>9. ASSUME NEW f \in A \cap F PROVE GroupFrom(R, f) = A
  <2>1. ASSUME NEW k \in A PROVE k \in GroupFrom(R, f)
    <3>1. k \in Nat /\ f \in Nat /\ k >= f
      BY <1>4, <1>5
    <3>2. ASSUME NEW g \in F, g \in (f + 1)..k PROVE FALSE
      <4>1. g \in Nat /\ g > f /\ g <= k
        BY <1>4, <3>1, <3>2
      <4>2. g \notin B
        BY <1>1, <3>1, <4>1
      <4>3. g \in A
        BY <1>4, <1>6, <4>2
      <4>4. g <= f
        BY <1>5, <4>3
      <4>5. QED
        BY <3>1, <4>1, <4>4
    <3>3. QED
      BY <1>3, <3>1, <3>2
  <2>2. ASSUME NEW k \in B, k \in GroupFrom(R, f) PROVE FALSE
    <3>1. Min(B) \in B /\ Min(B) \in F
      BY <1>8
    <3>2. Min(B) <= k
      BY <1>5, <3>1
    <3>3. f + LAG < Min(B) /\ Min(B) \in Nat /\ f \in Nat /\ k \in Nat
      BY <3>1
    <3>4. Min(B) \in (f + 1)..k
      BY <1>1, <3>2, <3>3
    <3>5. QED
      BY <1>3, <2>2, <3>1, <3>4
  <2>3. GroupFrom(R, f) \subseteq A
    BY <1>3, <1>6, <2>2
  <2>4. QED
    BY <2>1, <2>3
<1>10. ASSUME NEW f \in B \cap F PROVE GroupFrom(R, f) = B
  <2>1. ASSUME NEW k \in B PROVE k \in GroupFrom(R, f)
    <3>1. k \in Nat /\ f \in Nat /\ k >= f
      BY <1>4, <1>5
    <3>2. ASSUME NEW g \in F, g \in (f + 1)..k PROVE FALSE
      <4>1. g \in Nat /\ g > f /\ g <= k
        BY <1>4, <3>1, <3>2
      <4>2. g \notin A
        BY <1>1, <3>1, <4>1
      <4>3. g \in B
        BY <1>4, <1>6, <4>2
      <4>4. g <= f
        BY <1>5, <4>3
      <4>5. QED
        BY <3>1, <4>1, <4>4
    <3>3. QED
      BY <1>3, <3>1, <3>2
  <2>2. ASSUME NEW k \in A, k \in GroupFrom(R, f) PROVE FALSE
    <3>1. k >= f /\ k \in Nat /\ f \in Nat
      BY <1>3, <2>2
    <3>2. k + LAG < f
      OBVIOUS
    <3>3. QED
      BY <1>1, <3>1, <3>2
  <2>3. GroupFrom(R, f) \subseteq B
    BY <1>3, <1>6, <2>2
  <2>4. QED
    BY <2>1, <2>3
<1>11. QED
  BY <1>7, <1>8, <1>9, <1>10 DEF F

\* what is found of the step from u to v at a
EdgeNear(e, a, u, v) ==
  /\ e.i \in Near(a) /\ e.before = u /\ e.after = v /\ e.delta = v - u
  /\ EDGE_COUNTS <= Size(v - u)
  /\ ~(Cardinality(e.crossed) >= 2)

\* the edge of a step has its levels, and no two samples between 10 and 90 percent
LEMMA SharpEdge ==
  ASSUME NEW n \in Nat, NEW y \in [0..n -> Int], NEW lo, NEW hi, NEW a, Settled(lo, hi, a, n),
         NEW u \in Int, NEW v \in Int, IsStep(y, lo, hi, a, u, v), NEW i \in Near(a),
         EDGE_COUNTS <= Size(v - u)
  PROVE  EdgeNear(EdgeAt(y, i), a, u, v)
<1> DEFINE h == LAG \div 2
           C == Crossed(y, i, u, v - u)
<1>1. /\ LAG \in Nat /\ LAG >= 2 /\ SETTLE \in Nat /\ SETTLE >= 2 /\ h \in Nat /\ 2 * h = LAG
      /\ EDGE_COUNTS \in Nat /\ EDGE_COUNTS >= 1
  BY Parameters
<1>2. /\ lo \in Int /\ hi \in Int /\ a \in Int /\ 0 <= lo /\ hi <= n
      /\ lo + 2 * LAG + 3 * SETTLE < a /\ a + LAG + 3 * SETTLE <= hi
  BY DEF Settled
<1>3. i \in Int /\ a - 1 - h <= i /\ i <= a + 1 - h
  BY <1>1, <1>2 DEF Near
<1>4. LevelsAround(y, i) = <<u, v>>
  BY LevelsNear
<1>5. EdgeAt(y, i) = [i |-> i, before |-> u, after |-> v, delta |-> v - u, crossed |-> C]
  BY <1>4 DEF EdgeAt
<1> HIDE DEF h
<1>6. u # v
  BY <1>1 DEF Size
<1>7. ASSUME NEW j \in C PROVE j \in {a - 1, a} /\ y[j] # u /\ y[j] # v
  <2> DEFINE way == 10 * (y[j] - u)
             d == v - u
  <2>1. /\ j \in 0..n /\ i - (LAG + SETTLE) <= j /\ j < i + LAG + SETTLE
        /\ (d <= way /\ way <= 9 * d) \/ (9 * d <= way /\ way <= d)
    BY <1>7 DEF Crossed, C
  <2> HIDE DEF way, d
  <2>2. j \in lo..hi
    <3>1. j \in Int /\ i - LAG - SETTLE <= j /\ j < i + LAG + SETTLE
      BY <1>1, <1>3, <2>1
    <3>2. QED
      BY <1>1, <1>2, <1>3, <3>1
  <2>3. y[j] \in Int
    BY <2>1
  <2>4. y[j] # u
    <3>1. SUFFICES ASSUME y[j] = u PROVE FALSE
      OBVIOUS
    <3>2. way = 0
      BY <3>1 DEF way
    <3>3. d \in Int /\ d # 0
      BY <1>6 DEF d
    <3>4. QED
      BY <2>1, <3>2, <3>3
  <2>5. y[j] # v
    <3>1. SUFFICES ASSUME y[j] = v PROVE FALSE
      OBVIOUS
    <3>2. way = 10 * d
      BY <3>1 DEF way, d
    <3>3. d \in Int /\ d # 0
      BY <1>6 DEF d
    <3>4. QED
      BY <2>1, <3>2, <3>3
  <2>6. ~(j <= a - 2) /\ ~(j > a)
    BY <2>2, <2>4, <2>5 DEF IsStep
  <2>7. QED
    BY <1>2, <2>1, <2>4, <2>5, <2>6
<1>8. PICK c \in {a - 1, a} : C \subseteq {c}
  <2>1. CASE y[a - 1] = u
    BY <1>7, <2>1
  <2>2. CASE y[a] = v
    BY <1>7, <2>2
  <2>3. QED
    BY <2>1, <2>2 DEF IsStep
<1>9. ~(Cardinality(C) >= 2)
  <2> HIDE DEF C
  <2>1. IsFiniteSet({c}) /\ Cardinality({c}) = 1
    BY FS_Singleton
  <2>2. C \in SUBSET {c}
    BY <1>8
  <2>3. IsFiniteSet(C) /\ Cardinality(C) <= 1 /\ Cardinality(C) \in Nat
    BY <2>1, <2>2, FS_Subset, FS_CardinalityType
  <2>4. QED
    BY <2>3
<1> HIDE DEF C
<1>10. QED
  BY <1>5, <1>9 DEF EdgeNear

(* There is an edge for each step as large as the threshold, where it was, *)
(* with its size, and there is no other.                                   *)
LEMMA EdgesOf ==
  ASSUME NEW n, NEW a, NEW b, Spaced(n, a, b), NEW y, NEW u \in Int, NEW v \in Int, NEW w \in Int,
         TwoSteps(y, n, a, b, u, v, w)
  PROVE  /\ \A e \in FindEdges(y) : EdgeNear(e, a, u, v) \/ EdgeNear(e, b, v, w)
         /\ EDGE_COUNTS <= Size(v - u) => \E e \in FindEdges(y) : EdgeNear(e, a, u, v)
         /\ EDGE_COUNTS <= Size(w - v) => \E e \in FindEdges(y) : EdgeNear(e, b, v, w)
         /\ \A e, f \in FindEdges(y) : EdgeNear(e, a, u, v) /\ EdgeNear(f, a, u, v) => e = f
         /\ \A e, f \in FindEdges(y) : EdgeNear(e, b, v, w) /\ EdgeNear(f, b, v, w) => e = f
<1> DEFINE R == Raw(y)
           A == R \cap Stretch(a)
           B == R \cap Stretch(b)
           F == FirstOfGroup(R)
           At(G) == EdgeAt(y, Steepest(y, G) + LAG \div 2)
<1>1. /\ LAG \in Nat /\ LAG >= 2 /\ SETTLE \in Nat /\ EDGE_COUNTS \in Nat /\ EDGE_COUNTS >= 1
      /\ LAG \div 2 \in Nat
  BY Parameters
<1>2. /\ n \in Nat /\ y \in [0..n -> Int] /\ Settled(0, b - 2, a, n) /\ Settled(a + 1, n, b, n)
      /\ IsStep(y, 0, b - 2, a, u, v) /\ IsStep(y, a + 1, n, b, v, w)
      /\ a \in Int /\ b \in Int /\ a + 2 * LAG + 2 <= b /\ LAG + 6 * SETTLE <= n
  BY DEF Spaced, TwoSteps, Settled
<1>3. R = A \cup B
  BY RawNear
<1>4. A \in SUBSET Nat /\ B \in SUBSET Nat /\ \A i \in A, j \in B : i + LAG < j
  <2>1. R \subseteq 0..n
    BY <1>2 DEF Raw
  <2>2. \A i \in Stretch(a), j \in Stretch(b) : i \in Int /\ j \in Int /\ i + LAG < j
    BY <1>1, <1>2 DEF Stretch
  <2>3. A \in SUBSET Nat /\ B \in SUBSET Nat
    BY <2>1
  <2>4. QED
    BY <2>2, <2>3
<1>5. /\ Size(v - u) < EDGE_COUNTS => A = {}
      /\ EDGE_COUNTS <= Size(v - u) => A # {} /\ Steepest(y, A) + LAG \div 2 \in Near(a)
      /\ \A f, j \in A : R \cap (f - LAG)..(f - 1) = {} => f <= j
  BY <1>2, GroupNear
<1>6. /\ Size(w - v) < EDGE_COUNTS => B = {}
      /\ EDGE_COUNTS <= Size(w - v) => B # {} /\ Steepest(y, B) + LAG \div 2 \in Near(b)
      /\ \A f, j \in B : R \cap (f - LAG)..(f - 1) = {} => f <= j
  <2> DEFINE lo == a + 1
  <2>1. Settled(lo, n, b, n) /\ IsStep(y, lo, n, b, v, w)
    BY <1>2
  <2> HIDE DEF lo
  <2>2. QED
    BY <1>2, <2>1, GroupNear
<1> HIDE DEF A, B, R
<1>7. /\ A # {} => A \cap F # {}
      /\ B # {} => B \cap F # {}
      /\ \A f \in A \cap F : GroupFrom(R, f) = A
      /\ \A f \in B \cap F : GroupFrom(R, f) = B
  BY <1>3, <1>4, <1>5, <1>6, GroupsAre
<1>8. Size(v - u) \in Int /\ Size(w - v) \in Int
  BY DEF Size
<1>9. EDGE_COUNTS <= Size(v - u) => EdgeNear(At(A), a, u, v)
  BY <1>2, <1>5, SharpEdge
<1>10. EDGE_COUNTS <= Size(w - v) => EdgeNear(At(B), b, v, w)
  <2> DEFINE lo == a + 1
  <2>1. Settled(lo, n, b, n) /\ IsStep(y, lo, n, b, v, w)
    BY <1>2
  <2> HIDE DEF lo
  <2>2. QED
    BY <1>2, <1>6, <2>1, SharpEdge
<1>11. FindEdges(y) = {e \in {At(GroupFrom(R, f)) : f \in F} : Size(e.delta) >= EDGE_COUNTS}
  <2>1. Cardinality(DOMAIN y) = n + 1
    <3>1. 0 \in Int /\ n \in Int /\ 0 <= n + 1
      BY <1>2
    <3>2. Cardinality(0..n) = n - 0 + 1
      BY <3>1, IntervalSize
    <3>3. QED
      BY <1>2, <3>2
  <2>2. ~(Cardinality(DOMAIN y) < LAG + 6 * SETTLE)
    BY <1>1, <1>2, <2>1
  <2>3. QED
    BY <2>2 DEF FindEdges, R
<1>12. \A f \in F : f \in A \/ f \in B
  BY <1>3 DEF FirstOfGroup
<1> HIDE DEF F, At
<1>13. ASSUME NEW e \in FindEdges(y)
       PROVE  \/ EDGE_COUNTS <= Size(v - u) /\ e = At(A)
              \/ EDGE_COUNTS <= Size(w - v) /\ e = At(B)
  <2>1. PICK f \in F : e = At(GroupFrom(R, f))
    BY <1>11
  <2>2. CASE f \in A
    BY <1>1, <1>5, <1>7, <1>8, <2>1, <2>2
  <2>3. CASE f \in B
    BY <1>1, <1>6, <1>7, <1>8, <2>1, <2>3
  <2>4. QED
    BY <1>12, <2>2, <2>3
<1>14. \A e : ~(EdgeNear(e, a, u, v) /\ EdgeNear(e, b, v, w))
  <2> DEFINE h == LAG \div 2
  <2>1. h \in Nat
    BY <1>1
  <2> HIDE DEF h
  <2>2. ((a - 1 - h)..(a + 1 - h)) \cap ((b - 1 - h)..(b + 1 - h)) = {}
    BY <1>1, <1>2, <2>1
  <2>3. Near(a) \cap Near(b) = {}
    BY <2>2 DEF Near, h
  <2>4. QED
    BY <2>3 DEF EdgeNear
<1>15. ASSUME EDGE_COUNTS <= Size(v - u) PROVE At(A) \in FindEdges(y)
  <2>1. PICK f \in A \cap F : TRUE
    BY <1>5, <1>7, <1>15
  <2>2. At(A) = At(GroupFrom(R, f)) /\ f \in F
    BY <1>7
  <2>3. Size(At(A).delta) >= EDGE_COUNTS
    BY <1>1, <1>8, <1>9, <1>15 DEF EdgeNear
  <2>4. QED
    BY <1>11, <2>2, <2>3
<1>16. ASSUME EDGE_COUNTS <= Size(w - v) PROVE At(B) \in FindEdges(y)
  <2>1. PICK f \in B \cap F : TRUE
    BY <1>6, <1>7, <1>16
  <2>2. At(B) = At(GroupFrom(R, f)) /\ f \in F
    BY <1>7
  <2>3. Size(At(B).delta) >= EDGE_COUNTS
    BY <1>1, <1>8, <1>10, <1>16 DEF EdgeNear
  <2>4. QED
    BY <1>11, <2>2, <2>3
<1>17. \A e \in FindEdges(y) : EdgeNear(e, a, u, v) => e = At(A)
  BY <1>10, <1>13, <1>14
<1>18. \A e \in FindEdges(y) : EdgeNear(e, b, v, w) => e = At(B)
  BY <1>9, <1>13, <1>14
<1>19. QED
  BY <1>9, <1>10, <1>13, <1>15, <1>16, <1>17, <1>18

(* The samples that arrived: the first one after the lift and the first    *)
(* one after the return, far enough from each other and from the ends.     *)
LastRow(c) == Returned(c) + HOLD

Timed(c, a, b) ==
  /\ Spaced(LastRow(c), a, b) /\ 2 * Half < a /\ a + 2 * Half < b /\ b + 2 * Half <= LastRow(c)
  /\ \A k \in 0..LastRow(c) : /\ c.lifted <= TickOf(c, k) <=> a <= k
                              /\ Returned(c) <= TickOf(c, k) <=> b <= k
  /\ \A i \in Near(a) : Size(TickOf(c, i) - c.lifted) <= LAG + MAX_GAP
  /\ \A i \in Near(b) : Size(TickOf(c, i) - Returned(c)) <= LAG + MAX_GAP

\* what a capture holds, and that each of its states is held at least HOLD
LEMMA CaptureTyped ==
  ASSUME NEW c \in Captures
  PROVE  /\ c.did \in {"singleleg", "wholebody", "baseline"}
         /\ c.label \in {"singleleg", "wholebody", "baseline"}
         /\ c.lifted \in Nat /\ HOLD <= c.lifted /\ Returned(c) \in Nat
         /\ c.lifted + HOLD <= Returned(c) /\ c.kept \in {0, STAND - LIFT} /\ c.shift \in SHIFTS
         /\ c.spiked \in Int /\ c.lost_at \in 1..3 * HOLD /\ c.lost \in Nat /\ c.lost <= 2 * HOLD
<1>1. HOLD \in Nat
  BY Parameters
<1>2. /\ c.did \in {"singleleg", "wholebody", "baseline"}
      /\ c.label \in {"singleleg", "wholebody", "baseline"}
      /\ c.lifted \in HOLDS /\ c.held \in HOLDS
      /\ c.kept \in {0, STAND - LIFT} /\ c.shift \in SHIFTS
      /\ c.spiked \in SPIKED_AT /\ c.lost_at \in LOST_AT /\ c.lost \in LOST
  BY DEF Captures
<1>3. c.spiked \in Nat /\ c.lost_at \in 1..3 * HOLD /\ c.lost \in 0..2 * HOLD
  BY <1>2, UnloadAssumption
<1>4. c.lifted \in Nat /\ HOLD <= c.lifted /\ c.held \in Nat /\ HOLD <= c.held
  BY <1>2, UnloadAssumption
<1>5. QED
  BY <1>1, <1>2, <1>3, <1>4 DEF Returned

\* two steps a hold apart, less what was lost, are far enough apart
LEMMA SpacedOut ==
  ASSUME NEW n \in Nat, NEW a \in Int, NEW b \in Int, 3 * HOLD <= n,
         HOLD - MAX_GAP - WARMUP <= a, a + HOLD - MAX_GAP - WARMUP <= b, b + HOLD <= n
  PROVE  Spaced(n, a, b) /\ 2 * Half < a /\ a + 2 * Half < b /\ b + 2 * Half <= n
<1>1. /\ HOLD \in Nat /\ LAG \in Nat /\ SETTLE \in Nat /\ MEDIAN_WIN \in Nat /\ MAX_GAP \in Nat
      /\ Half \in Nat /\ 2 <= Half /\ 2 * Half <= MEDIAN_WIN /\ LAG >= 2 /\ SETTLE >= 2 /\ MAX_GAP >= 1
      /\ WARMUP \in Nat /\ 1 <= WARMUP
      /\ 2 * LAG + 3 * SETTLE + MEDIAN_WIN + MAX_GAP + WARMUP <= HOLD
  BY Parameters DEF Half
<1>2. Settled(0, b - 2, a, n)
  BY <1>1 DEF Settled
<1>3. Settled(a + 1, n, b, n)
  BY <1>1 DEF Settled
<1>4. a + 2 * LAG + 2 <= b /\ LAG + 6 * SETTLE <= n
  BY <1>1
<1>5. 2 * Half < a /\ a + 2 * Half < b /\ b + 2 * Half <= n
  BY <1>1
<1>6. QED
  BY <1>2, <1>3, <1>4, <1>5 DEF Spaced

\* the continuity control lets pass few lost samples, or a gap in the warm-up
FewLost(c) == c.lost < MAX_GAP \/ c.lost_at + c.lost < WARMUP

(* The first sample that arrived of those of a time and after.             *)
LEMMA FirstArrived ==
  ASSUME NEW c \in Captures, FewLost(c), NEW t \in Nat, HOLD <= t
  PROVE  \E a \in Int : /\ t - c.lost <= a /\ a <= t
                        /\ c.lost_at + c.lost < WARMUP => a = t - c.lost
                        /\ \A k \in Nat : t <= TickOf(c, k) <=> a <= k
                        /\ \A i \in Near(a) : Size(TickOf(c, i) - t) <= LAG + MAX_GAP
<1> DEFINE G == c.lost
           P == c.lost_at
           h == LAG \div 2
           T(k) == TickOf(c, k)
           a == IF t < P THEN t ELSE IF t - G <= P THEN P ELSE t - G
<1>1. /\ HOLD \in Nat /\ MAX_GAP \in Nat /\ h \in Nat /\ 2 * h = LAG /\ LAG \in Nat /\ LAG >= 2
      /\ MAX_GAP >= 1 /\ WARMUP \in Nat /\ WARMUP + LAG <= HOLD
  <2>1. /\ HOLD \in Nat /\ MAX_GAP \in Nat /\ h \in Nat /\ 2 * h = LAG /\ LAG \in Nat /\ LAG >= 2
        /\ MAX_GAP >= 1 /\ WARMUP \in Nat /\ SETTLE \in Nat /\ MEDIAN_WIN \in Nat
        /\ 2 * LAG + 3 * SETTLE + MEDIAN_WIN + MAX_GAP + WARMUP <= HOLD
    BY Parameters
  <2> HIDE DEF h
  <2>2. QED
    BY <2>1
<1>2. G \in Nat /\ P \in Nat /\ (G < MAX_GAP \/ P + G < WARMUP)
  BY <1>1, CaptureTyped DEF FewLost
<1>3. \A k \in Int : T(k) = IF k >= P THEN k + G ELSE k
  BY DEF TickOf
<1> HIDE DEF G, P, h, T
<1>4. a \in Int /\ t - G <= a /\ a <= t /\ (P + G < WARMUP => a = t - G)
  BY <1>1, <1>2
<1>5. \A k \in Nat : t <= T(k) <=> a <= k
  BY <1>2, <1>3
<1>6. ASSUME NEW i \in Int, a - 1 - h <= i, i <= a + 1 - h PROVE Size(T(i) - t) <= LAG + MAX_GAP
  <2>1. T(i) = IF i >= P THEN i + G ELSE i
    BY <1>3
  <2>2. T(i) - t \in Int /\ -(2 * h + MAX_GAP) <= T(i) - t /\ T(i) - t <= 2 * h + MAX_GAP
    <3>1. CASE t < P
      BY <1>1, <1>2, <1>6, <2>1, <3>1
    <3>2. CASE t >= P /\ t - G <= P
      BY <1>1, <1>2, <1>6, <2>1, <3>2
    <3>3. CASE t >= P /\ t - G > P
      BY <1>1, <1>2, <1>6, <2>1, <3>3
    <3>4. QED
      BY <1>2, <3>1, <3>2, <3>3
  <2>3. QED
    BY <1>1, <2>2 DEF Size
<1> HIDE DEF a
<1>7. \A i \in Near(a) : i \in Int /\ a - 1 - h <= i /\ i <= a + 1 - h
  BY <1>1, <1>4 DEF Near, h
<1>8. \A i \in Near(a) : Size(T(i) - t) <= LAG + MAX_GAP
  BY <1>6, <1>7
<1>9. QED
  BY <1>4, <1>5, <1>8 DEF G, P, T

\* the two steps of a capture, in the samples that arrived
LEMMA TimedCapture ==
  ASSUME NEW c \in Captures, FewLost(c)
  PROVE  \E a, b \in Int : Timed(c, a, b)
<1>1. /\ c.lifted \in Nat /\ HOLD <= c.lifted /\ Returned(c) \in Nat
      /\ c.lifted + HOLD <= Returned(c) /\ HOLD \in Nat /\ MAX_GAP \in Nat
      /\ c.lost \in Nat /\ c.lost_at \in Nat /\ WARMUP \in Nat /\ 1 <= WARMUP
      /\ c.lost < MAX_GAP \/ c.lost_at + c.lost < WARMUP
  BY CaptureTyped, Parameters DEF FewLost
<1>2. HOLD <= Returned(c) /\ LastRow(c) \in Nat /\ LastRow(c) = Returned(c) + HOLD
  BY <1>1 DEF LastRow
<1> DEFINE first == c.lifted
           last == Returned(c)
<1>3. PICK a \in Int : /\ first - c.lost <= a /\ a <= first
                       /\ c.lost_at + c.lost < WARMUP => a = first - c.lost
                       /\ \A k \in Nat : first <= TickOf(c, k) <=> a <= k
                       /\ \A i \in Near(a) : Size(TickOf(c, i) - first) <= LAG + MAX_GAP
  BY <1>1, FirstArrived
<1>4. PICK b \in Int : /\ last - c.lost <= b /\ b <= last
                       /\ c.lost_at + c.lost < WARMUP => b = last - c.lost
                       /\ \A k \in Nat : last <= TickOf(c, k) <=> b <= k
                       /\ \A i \in Near(b) : Size(TickOf(c, i) - last) <= LAG + MAX_GAP
  BY <1>1, <1>2, FirstArrived
<1>5. /\ 3 * HOLD <= LastRow(c) /\ HOLD - MAX_GAP - WARMUP <= a
      /\ a + HOLD - MAX_GAP - WARMUP <= b /\ b + HOLD <= LastRow(c)
  <2>1. 3 * HOLD <= LastRow(c) /\ b + HOLD <= LastRow(c)
    BY <1>1, <1>2, <1>4
  <2>2. CASE c.lost < MAX_GAP
    BY <1>1, <1>3, <1>4, <2>1, <2>2
  <2>3. CASE c.lost_at + c.lost < WARMUP
    BY <1>1, <1>3, <1>4, <2>1, <2>3
  <2>4. QED
    BY <1>1, <2>2, <2>3
<1>6. Spaced(LastRow(c), a, b) /\ 2 * Half < a /\ a + 2 * Half < b /\ b + 2 * Half <= LastRow(c)
  BY <1>2, <1>5, SpacedOut
<1>7. \A k \in 0..LastRow(c) : k \in Nat
  BY <1>2
<1>8. Timed(c, a, b)
  BY <1>3, <1>4, <1>6, <1>7 DEF Timed
<1>9. QED
  BY <1>8

\* the tick comes round once at most
LEMMA Wraps ==
  ASSUME NEW m \in Nat, NEW r \in Nat, r < m
  PROVE  r % m = r /\ (m + r) % m = r /\ (r - m) % m = r
OBVIOUS

(* A dropout the continuity control does not see is a small one, or was    *)
(* over before the warm-up.                                                *)
LEMMA ContinuousLoss ==
  ASSUME NEW c \in Captures, Gaps(Tick(c), Arrived(c)) = {}
  PROVE  FewLost(c)
<1> DEFINE M == TICK_MOD
           P == c.lost_at
           G == c.lost
           N == LastRow(c)
<1>1. /\ HOLD \in Nat /\ MAX_GAP \in Nat /\ MAX_GAP >= 1 /\ 8 < HOLD
      /\ M \in Nat /\ 5 * HOLD <= M /\ WARMUP \in Nat /\ WARMUP <= HOLD
  BY Parameters
<1>2. /\ P \in 1..3 * HOLD /\ G \in Nat /\ G <= 2 * HOLD
      /\ N \in Nat /\ 3 * HOLD <= N
  BY <1>1, CaptureTyped DEF LastRow
<1>3. Tick(c) = [k \in 0..N |-> (M - 2 + TickOf(c, k)) % M] /\ Arrived(c) = [k \in 0..N |-> TickOf(c, k)]
  BY DEF Tick, Arrived, Rows, LastRow
<1>4. \A k \in Int : TickOf(c, k) = IF k >= P THEN k + G ELSE k
  BY DEF TickOf
<1>5. SUFFICES ASSUME G >= MAX_GAP, P + G >= WARMUP PROVE FALSE
  BY <1>1, <1>2 DEF FewLost
<1> HIDE DEF M, P, G, N
<1>6. P \in 0..N /\ P - 1 \in 0..N /\ 0 \in 0..N /\ P # 0
  BY <1>1, <1>2
<1>7. TickOf(c, P) = P + G /\ TickOf(c, P - 1) = P - 1 /\ TickOf(c, 0) = 0
  BY <1>2, <1>4, <1>6
<1>8. Arrived(c)[P] - Arrived(c)[0] >= WARMUP
  BY <1>1, <1>2, <1>3, <1>5, <1>6, <1>7
<1>9. (Tick(c)[P] - Tick(c)[P - 1]) % M = G + 1
  <2>1. Tick(c)[P] = (M - 2 + (P + G)) % M /\ Tick(c)[P - 1] = (M - 2 + (P - 1)) % M
    BY <1>3, <1>6, <1>7
  <2>2. G + 1 \in Nat /\ G + 1 < M
    BY <1>1, <1>2
  <2> DEFINE r == P + G - 2
             q == P - 3
  <2>3. r \in Nat /\ r < M /\ M - 2 + (P + G) = M + r
    BY <1>1, <1>2, <1>5
  <2>4. Tick(c)[P] = r
    BY <1>1, <2>1, <2>3, Wraps
  <2>5. CASE P <= 2
    <3> DEFINE before == M + q
    <3>1. before \in Nat /\ before < M /\ M - 2 + (P - 1) = before
      BY <1>1, <1>2, <2>5
    <3> HIDE DEF before, r
    <3>2. Tick(c)[P - 1] = before
      BY <1>1, <2>1, <3>1, Wraps
    <3>3. r - before = (G + 1) - M
      BY <1>1, <1>2 DEF r, before
    <3>4. QED
      BY <1>1, <2>2, <2>4, <3>2, <3>3, Wraps
  <2>6. CASE P > 2
    <3>1. q \in Nat /\ q < M /\ M - 2 + (P - 1) = M + q
      BY <1>1, <1>2, <2>6
    <3>2. Tick(c)[P - 1] = q
      BY <1>1, <2>1, <3>1, Wraps
    <3>3. r - q = G + 1
      BY <1>2
    <3> HIDE DEF r, q
    <3>4. QED
      BY <1>1, <2>2, <2>4, <3>2, <3>3, Wraps
  <2>7. QED
    BY <1>2, <2>5, <2>6
<1>10. P \in Gaps(Tick(c), Arrived(c))
  <2>1. DOMAIN Tick(c) = 0..N
    BY <1>3
  <2>2. G + 1 > MAX_GAP
    BY <1>1, <1>2, <1>5
  <2>3. QED
    BY <1>6, <1>8, <1>9, <2>1, <2>2 DEF Gaps, M
<1>11. QED
  BY <1>10

\* the loads, as numbers
LEMMA Loads ==
  /\ STAND \in Nat /\ LIFT \in Nat /\ DITHER_LOAD \in Nat /\ LIFT <= STAND
  /\ STAND - LIFT <= DITHER_LOAD /\ EDGE_COUNTS <= 2 * LIFT - STAND
  /\ \A taken \in SHIFTS : taken \in Nat /\ MOVE <= taken /\ taken < 2 * LIFT - STAND
<1>1. {STAND, LIFT, DITHER_LOAD} \cup SHIFTS \subseteq Nat
  BY LoadAssumption
<1>2. STAND \in Nat /\ LIFT \in Nat /\ DITHER_LOAD \in Nat /\ SHIFTS \subseteq Nat
  BY <1>1
<1>3. QED
  BY <1>2, LoadAssumption

\* what a leg has lost between the lift and the return, and after
Taken(c, leg) ==
  IF c.did = "baseline" THEN 0 ELSE IF Lifts(c, leg) THEN LIFT ELSE -c.shift
Left(c, leg) == IF Lifts(c, leg) THEN c.kept ELSE 0

\* the losses are numbers
LEMMA LossTyped ==
  ASSUME NEW c \in Captures, NEW leg \in Legs
  PROVE  Taken(c, leg) \in Int /\ Left(c, leg) \in Int
<1>1. c.shift \in Int /\ c.kept \in Int /\ LIFT \in Int
  BY CaptureTyped, Loads
<1>2. QED
  BY <1>1 DEF Taken, Left

\* what arrives of a leg's load has two steps, whatever one sample is
LEMMA LegSteps ==
  ASSUME NEW c \in Captures, NEW a \in Int, NEW b \in Int, Timed(c, a, b), NEW leg \in Legs
  PROVE  TwoSteps(Series(c)[leg], LastRow(c), a, b, STAND, STAND - Taken(c, leg), STAND - Left(c, leg))
<1> DEFINE x == [k \in 0..LastRow(c) |-> Load(c, leg, TickOf(c, k))]
           hit == {k \in 0..LastRow(c) : TickOf(c, k) = c.spiked}
           z == IF hit = {} THEN -1 ELSE CHOOSE k \in hit : TRUE
           u == STAND
           v == STAND - Taken(c, leg)
           w == STAND - Left(c, leg)
<1>1. /\ Spaced(LastRow(c), a, b) /\ 2 * Half < a /\ a + 2 * Half < b /\ b + 2 * Half <= LastRow(c)
      /\ \A k \in 0..LastRow(c) : /\ c.lifted <= TickOf(c, k) <=> a <= k
                                  /\ Returned(c) <= TickOf(c, k) <=> b <= k
      /\ LastRow(c) \in Nat
  BY DEF Timed, Spaced
<1>2. /\ STAND \in Int /\ LIFT \in Int /\ SPIKE \in Int /\ c.kept \in Int /\ c.shift \in Int
      /\ c.lost \in Nat /\ c.lost_at \in Int /\ c.spiked \in Int
      /\ c.lifted \in Int /\ Returned(c) \in Int /\ Taken(c, leg) \in Int /\ Left(c, leg) \in Int
  <2>1. HOLD \in Nat /\ SPIKE \in Int
    BY Parameters
  <2>2. QED
    BY <2>1, CaptureTyped, Loads, LossTyped
<1>3. u \in Int /\ v \in Int /\ w \in Int
  BY <1>2
<1>4. \A j, k \in 0..LastRow(c) : TickOf(c, j) = TickOf(c, k) => j = k
  BY <1>1, <1>2 DEF TickOf
<1>5. z \in Int /\ \A k \in 0..LastRow(c) : k # z => TickOf(c, k) # c.spiked
  <2>1. CASE hit = {}
    BY <2>1
  <2>2. CASE hit # {}
    <3>1. z \in hit
      BY <2>2
    <3> HIDE DEF z
    <3>2. QED
      BY <1>1, <1>4, <3>1
  <2>3. QED
    BY <2>1, <2>2
<1>6. Series(c)[leg] = Smoothed(x)
  BY DEF Series, Rows, LastRow
<1>7. \A k \in 0..LastRow(c) : TickOf(c, k) \in Int
  BY <1>1, <1>2 DEF TickOf
<1>8. \A k \in 0..LastRow(c) : Load(c, leg, TickOf(c, k)) \in Int
  BY <1>2, <1>7 DEF Load
<1>9. x \in [0..LastRow(c) -> Int]
  BY <1>8
<1> HIDE DEF z, hit
<1>10. ASSUME NEW k \in 0..LastRow(c), k # z
       PROVE  x[k] = IF k < a THEN u ELSE IF k < b THEN v ELSE w
  <2> DEFINE t == TickOf(c, k)
  <2>1. /\ t # c.spiked /\ t \in Int /\ k \in Int
        /\ c.lifted <= t <=> a <= k
        /\ Returned(c) <= t <=> b <= k
    BY <1>1, <1>5, <1>7, <1>10
  <2>2. x[k] = Load(c, leg, t)
    OBVIOUS
  <2> HIDE DEF t, x
  <2>3. a < b
    <3>1. Half \in Nat
      BY Parameters DEF Half
    <3>2. QED
      BY <1>1, <3>1
  <2>4. CASE c.did = "baseline"
    <3>1. ~Lifts(c, leg)
      BY <2>4 DEF Lifts
    <3>2. Load(c, leg, t) = STAND
      BY <1>2, <2>1, <2>4, <3>1 DEF Load
    <3>3. Taken(c, leg) = 0 /\ Left(c, leg) = 0
      BY <2>4, <3>1 DEF Taken, Left
    <3>4. QED
      BY <1>2, <2>2, <3>2, <3>3
  <2>5. CASE c.did # "baseline" /\ Lifts(c, leg)
    <3>1. Taken(c, leg) = LIFT /\ Left(c, leg) = c.kept
      BY <2>5 DEF Taken, Left
    <3>2. Load(c, leg, t) = IF c.lifted <= t /\ t < Returned(c) THEN STAND - LIFT
                            ELSE IF Returned(c) <= t THEN STAND - c.kept ELSE STAND
      BY <1>2, <2>1, <2>5 DEF Load
    <3>3. QED
      BY <1>2, <2>1, <2>2, <2>3, <3>1, <3>2
  <2>6. CASE c.did # "baseline" /\ ~Lifts(c, leg)
    <3>1. Taken(c, leg) = -c.shift /\ Left(c, leg) = 0
      BY <2>6 DEF Taken, Left
    <3>2. Load(c, leg, t) = IF c.lifted <= t /\ t < Returned(c) THEN STAND + c.shift ELSE STAND
      BY <1>2, <2>1, <2>6 DEF Load
    <3>3. QED
      BY <1>2, <2>1, <2>2, <2>3, <3>1, <3>2
  <2>7. QED
    BY <2>4, <2>5, <2>6
<1> HIDE DEF x, u, v, w
<1>11. /\ Smoothed(x) \in [0..LastRow(c) -> Int]
       /\ IsStep(Smoothed(x), 0, b - 2, a, u, v)
       /\ IsStep(Smoothed(x), a + 1, LastRow(c), b, v, w)
  BY <1>1, <1>3, <1>5, <1>9, <1>10, SmoothedSteps
<1>12. QED
  BY <1>6, <1>11 DEF TwoSteps, u, v, w

-----------------------------------------------------------------------------
(* What analyse says of the edges of a capture.                            *)
LiftEdge(c, a, x) == EdgeNear(x.edge, a, STAND, STAND - Taken(c, x.leg))
ReturnEdge(c, b, x) == EdgeNear(x.edge, b, STAND - Taken(c, x.leg), STAND - Left(c, x.leg))

\* the places of the two steps are further apart than an event is long
LEMMA NearApart ==
  ASSUME NEW n, NEW a \in Int, NEW b \in Int, Spaced(n, a, b)
  PROVE  /\ Near(a) \in SUBSET Nat /\ Near(b) \in SUBSET Nat
         /\ \A i \in Near(a), j \in Near(b) : i + SETTLE < j
         /\ \A i, j \in Near(a) : i <= j + SETTLE
         /\ \A i, j \in Near(b) : i <= j + SETTLE
<1> DEFINE h == LAG \div 2
<1>1. /\ LAG \in Nat /\ h \in Nat /\ 2 * h = LAG /\ SETTLE \in Nat /\ SETTLE >= 2
  BY Parameters
<1>2. 2 * LAG + 3 * SETTLE < a /\ a + LAG + 3 * SETTLE <= b - 2
  BY <1>1 DEF Spaced, Settled
<1>3. Near(a) = (a - 1 - h)..(a + 1 - h) /\ Near(b) = (b - 1 - h)..(b + 1 - h)
  BY DEF Near
<1> HIDE DEF h
<1>4. QED
  BY <1>1, <1>2, <1>3

\* every edge is one of a step of its leg, every large step has one, and one only
LEMMA EdgesKnown ==
  ASSUME NEW c \in Captures, NEW a \in Int, NEW b \in Int, Timed(c, a, b)
  PROVE  LET edges == AllEdges(Series(c))
         IN /\ \A x \in edges : /\ x.leg \in Legs
                                /\ x = [leg |-> x.leg, edge |-> x.edge]
                                /\ LiftEdge(c, a, x) \/ ReturnEdge(c, b, x)
            /\ \A leg \in Legs :
                 /\ EDGE_COUNTS <= Size(Taken(c, leg)) =>
                      \E x \in edges : x.leg = leg /\ LiftEdge(c, a, x)
                 /\ EDGE_COUNTS <= Size(Taken(c, leg) - Left(c, leg)) =>
                      \E x \in edges : x.leg = leg /\ ReturnEdge(c, b, x)
            /\ \A x, y \in edges : x.leg = y.leg /\ LiftEdge(c, a, x) /\ LiftEdge(c, a, y) => x = y
            /\ \A x, y \in edges : x.leg = y.leg /\ ReturnEdge(c, b, x) /\ ReturnEdge(c, b, y) => x = y
<1> DEFINE edges == AllEdges(Series(c))
           E(leg) == FindEdges(Series(c)[leg])
           V(leg) == STAND - Taken(c, leg)
           W(leg) == STAND - Left(c, leg)
<1>1. \A x : x \in edges <=> \E leg \in Legs : \E e \in E(leg) : x = [leg |-> leg, edge |-> e]
  BY DEF AllEdges
<1>2. ASSUME NEW leg \in Legs
      PROVE  /\ \A e \in E(leg) : EdgeNear(e, a, STAND, V(leg)) \/ EdgeNear(e, b, V(leg), W(leg))
             /\ EDGE_COUNTS <= Size(V(leg) - STAND) => \E e \in E(leg) : EdgeNear(e, a, STAND, V(leg))
             /\ EDGE_COUNTS <= Size(W(leg) - V(leg)) => \E e \in E(leg) : EdgeNear(e, b, V(leg), W(leg))
             /\ \A e, f \in E(leg) :
                  EdgeNear(e, a, STAND, V(leg)) /\ EdgeNear(f, a, STAND, V(leg)) => e = f
             /\ \A e, f \in E(leg) :
                  EdgeNear(e, b, V(leg), W(leg)) /\ EdgeNear(f, b, V(leg), W(leg)) => e = f
  <2> DEFINE y == Series(c)[leg]
             v == V(leg)
             w == W(leg)
  <2>1. STAND \in Int /\ v \in Int /\ w \in Int
    BY Loads, LossTyped
  <2>2. TwoSteps(y, LastRow(c), a, b, STAND, v, w) /\ Spaced(LastRow(c), a, b)
    BY LegSteps DEF Timed
  <2> HIDE DEF y, v, w
  <2>3. /\ \A e \in FindEdges(y) : EdgeNear(e, a, STAND, v) \/ EdgeNear(e, b, v, w)
        /\ EDGE_COUNTS <= Size(v - STAND) => \E e \in FindEdges(y) : EdgeNear(e, a, STAND, v)
        /\ EDGE_COUNTS <= Size(w - v) => \E e \in FindEdges(y) : EdgeNear(e, b, v, w)
        /\ \A e, f \in FindEdges(y) : EdgeNear(e, a, STAND, v) /\ EdgeNear(f, a, STAND, v) => e = f
        /\ \A e, f \in FindEdges(y) : EdgeNear(e, b, v, w) /\ EdgeNear(f, b, v, w) => e = f
    BY <2>1, <2>2, EdgesOf
  <2>4. QED
    BY <2>3 DEF y, v, w
<1>3. \A leg \in Legs : /\ Size(V(leg) - STAND) = Size(Taken(c, leg))
                        /\ Size(W(leg) - V(leg)) = Size(Taken(c, leg) - Left(c, leg))
  BY Loads, LossTyped DEF Size
<1> HIDE DEF edges, E
<1>4. ASSUME NEW x \in edges
      PROVE  /\ x.leg \in Legs /\ x.edge \in E(x.leg) /\ x = [leg |-> x.leg, edge |-> x.edge]
             /\ LiftEdge(c, a, x) \/ ReturnEdge(c, b, x)
  <2>1. PICK leg \in Legs : \E e \in E(leg) : x = [leg |-> leg, edge |-> e]
    BY <1>1
  <2>2. PICK e \in E(leg) : x = [leg |-> leg, edge |-> e]
    BY <2>1
  <2>3. x.leg = leg /\ x.edge = e
    BY <2>2
  <2>4. QED
    BY <1>2, <2>2, <2>3 DEF LiftEdge, ReturnEdge
<1>5. ASSUME NEW leg \in Legs
      PROVE  /\ EDGE_COUNTS <= Size(Taken(c, leg)) =>
                  \E x \in edges : x.leg = leg /\ LiftEdge(c, a, x)
             /\ EDGE_COUNTS <= Size(Taken(c, leg) - Left(c, leg)) =>
                  \E x \in edges : x.leg = leg /\ ReturnEdge(c, b, x)
  <2>1. \A e \in E(leg) : LET x == [leg |-> leg, edge |-> e]
                          IN x \in edges /\ x.leg = leg /\ x.edge = e
    BY <1>1
  <2>2. ASSUME EDGE_COUNTS <= Size(Taken(c, leg))
        PROVE  \E x \in edges : x.leg = leg /\ LiftEdge(c, a, x)
    <3>1. PICK e \in E(leg) : EdgeNear(e, a, STAND, V(leg))
      BY <1>2, <1>3, <2>2
    <3> DEFINE x == [leg |-> leg, edge |-> e]
    <3>2. x \in edges /\ x.leg = leg /\ x.edge = e
      BY <2>1
    <3> HIDE DEF x
    <3>3. LiftEdge(c, a, x)
      BY <3>1, <3>2 DEF LiftEdge
    <3>4. QED
      BY <3>2, <3>3
  <2>3. ASSUME EDGE_COUNTS <= Size(Taken(c, leg) - Left(c, leg))
        PROVE  \E x \in edges : x.leg = leg /\ ReturnEdge(c, b, x)
    <3>1. PICK e \in E(leg) : EdgeNear(e, b, V(leg), W(leg))
      BY <1>2, <1>3, <2>3
    <3> DEFINE x == [leg |-> leg, edge |-> e]
    <3>2. x \in edges /\ x.leg = leg /\ x.edge = e
      BY <2>1
    <3> HIDE DEF x
    <3>3. ReturnEdge(c, b, x)
      BY <3>1, <3>2 DEF ReturnEdge
    <3>4. QED
      BY <3>2, <3>3
  <2>4. QED
    BY <2>2, <2>3
<1>6. ASSUME NEW x \in edges, NEW y \in edges, x.leg = y.leg,
             \/ LiftEdge(c, a, x) /\ LiftEdge(c, a, y)
             \/ ReturnEdge(c, b, x) /\ ReturnEdge(c, b, y)
      PROVE  x = y
  <2>1. x.leg \in Legs /\ x.edge \in E(x.leg) /\ y.edge \in E(x.leg)
    BY <1>4, <1>6
  <2>2. x.edge = y.edge
    BY <1>2, <1>6, <2>1 DEF LiftEdge, ReturnEdge
  <2>3. QED
    BY <1>4, <1>6, <2>2
<1>7. QED
  BY <1>4, <1>5, <1>6 DEF edges

(* The edges of one step are one event, those of the other another.        *)
LEMMA EventsAre ==
  ASSUME NEW n, NEW a \in Int, NEW b \in Int, Spaced(n, a, b), NEW edges,
         \A x \in edges : x.edge.i \in Near(a) \cup Near(b)
  PROVE  /\ edges # {} => EventStarts(edges) # {}
         /\ \A start \in EventStarts(edges) :
              \/ /\ EventOf(edges, start) = {x \in edges : x.edge.i \in Near(a)}
                 /\ EventOf(edges, start) # {}
              \/ /\ EventOf(edges, start) = {x \in edges : x.edge.i \in Near(b)}
                 /\ EventOf(edges, start) # {}
<1> DEFINE I == {x.edge.i : x \in edges}
           S == EventStarts(edges)
<1>1. SETTLE \in Nat
  BY Parameters
<1>2. /\ Near(a) \in SUBSET Nat /\ Near(b) \in SUBSET Nat
      /\ \A i \in Near(a), j \in Near(b) : i + SETTLE < j
      /\ \A i, j \in Near(a) : i <= j + SETTLE
      /\ \A i, j \in Near(b) : i <= j + SETTLE
  BY NearApart
<1>3. I \in SUBSET Nat /\ \A x \in edges : x.edge.i \in I /\ x.edge.i \in Nat
  BY <1>2
<1>4. \A k : k \in S <=> k \in I /\ \A x \in edges : ~(x.edge.i < k /\ k - x.edge.i <= SETTLE)
  BY DEF EventStarts
<1>5. \A k \in I : \E x \in edges : x.edge.i = k
  OBVIOUS
<1>6. \A k \in S : k \in Nat /\ k \in I /\ \A i \in I : ~(i < k /\ k - i <= SETTLE)
  BY <1>3, <1>4, <1>5
<1>7. \A k \in I : k \in Near(a) \/ k \in Near(b)
  BY <1>5
<1>8. \A start : \A x : x \in EventOf(edges, start) <=>
                          x \in edges /\ x.edge.i >= start /\ S \cap (start + 1)..x.edge.i = {}
  BY DEF EventOf
<1> HIDE DEF S, I
\* the least index near either step starts an event
<1>9. ASSUME NEW K \in SUBSET I, K # {}, \A k \in K, i \in I : i \notin K => ~(i < k /\ k - i <= SETTLE)
      PROVE  Min(K) \in K /\ Min(K) \in S /\ \A k \in K : Min(K) <= k
  <2>1. Min(K) \in K /\ \A k \in K : Min(K) <= k
    BY <1>3, <1>9, Smallest
  <2> DEFINE m == Min(K)
  <2>2. m \in K /\ m \in I /\ m \in Nat /\ \A k \in K : m <= k
    BY <1>3, <2>1
  <2> HIDE DEF m
  <2>3. \A i \in I : i \in Nat /\ ~(i < m /\ m - i <= SETTLE)
    BY <1>3, <1>9, <2>2
  <2>4. m \in S
    BY <1>3, <1>4, <2>2, <2>3
  <2>5. QED
    BY <2>1, <2>4 DEF m
<1>10. ASSUME edges # {} PROVE S # {}
  <2>1. I # {}
    BY <1>3, <1>10
  <2>2. Min(I) \in S
    BY <1>9, <2>1
  <2>3. QED
    BY <2>2
<1>11. ASSUME NEW x \in edges, x.edge.i \in Near(b)
       PROVE  \E g \in S : g \in Near(b) /\ g <= x.edge.i
  <2> DEFINE K == I \cap Near(b)
  <2>1. K \in SUBSET I /\ x.edge.i \in K
    BY <1>3, <1>11
  <2>2. \A k \in K, i \in I : i \notin K => ~(i < k /\ k - i <= SETTLE)
    <3>1. SUFFICES ASSUME NEW k \in K, NEW i \in I, i \notin K PROVE ~(k - i <= SETTLE)
      OBVIOUS
    <3>2. i \in Near(a) /\ k \in Near(b)
      BY <1>7, <3>1
    <3>3. i \in Nat /\ k \in Nat /\ i + SETTLE < k
      BY <1>2, <3>2
    <3>4. QED
      BY <1>1, <3>3
  <2>3. K # {}
    BY <2>1
  <2>4. Min(K) \in K /\ Min(K) \in S /\ \A k \in K : Min(K) <= k
    BY <1>9, <2>1, <2>2, <2>3
  <2>5. QED
    BY <2>1, <2>4
\* no start is later than another near the same step
<1>12. ASSUME NEW N \in {Near(a), Near(b)}, NEW start \in S, start \in N, NEW i \in I, i \in N
       PROVE  i >= start
  <2>1. start \in Nat /\ i \in Nat /\ start <= i + SETTLE
    BY <1>2, <1>3, <1>6, <1>12
  <2>2. ~(i < start /\ start - i <= SETTLE)
    BY <1>6
  <2>3. QED
    BY <1>1, <2>1, <2>2
<1>13. ASSUME NEW start \in S, start \in Near(a)
       PROVE  EventOf(edges, start) = {x \in edges : x.edge.i \in Near(a)}
  <2>1. ASSUME NEW x \in edges, x.edge.i \in Near(a) PROVE x \in EventOf(edges, start)
    <3>1. x.edge.i \in I /\ x.edge.i \in Nat /\ start \in Nat
      BY <1>3, <1>6
    <3>2. x.edge.i >= start
      BY <1>12, <1>13, <2>1, <3>1
    <3>3. ASSUME NEW g \in S, g \in (start + 1)..x.edge.i PROVE FALSE
      <4>1. g \in I /\ g \in Nat /\ start < g /\ g <= x.edge.i
        BY <1>6, <3>1, <3>3
      <4>2. g \notin Near(b)
        <5>1. SUFFICES ASSUME g \in Near(b) PROVE FALSE
          OBVIOUS
        <5>2. x.edge.i + SETTLE < g
          BY <1>2, <2>1, <5>1
        <5>3. QED
          BY <1>1, <3>1, <4>1, <5>2
      <4>3. g \in Near(a)
        BY <1>7, <4>1, <4>2
      <4>4. start \in I
        BY <1>6
      <4>5. start >= g
        BY <1>12, <1>13, <4>3, <4>4
      <4>6. QED
        BY <3>1, <4>1, <4>5
    <3>4. QED
      BY <1>8, <3>2, <3>3
  <2>2. ASSUME NEW x \in EventOf(edges, start) PROVE x \in edges /\ x.edge.i \in Near(a)
    <3>1. x \in edges /\ x.edge.i >= start /\ S \cap (start + 1)..x.edge.i = {}
      BY <1>8
    <3>2. x.edge.i \notin Near(b)
      <4>1. SUFFICES ASSUME x.edge.i \in Near(b) PROVE FALSE
        OBVIOUS
      <4>2. PICK g \in S : g \in Near(b) /\ g <= x.edge.i
        BY <1>11, <3>1, <4>1
      <4>3. start + SETTLE < g /\ g \in Nat /\ start \in Nat /\ x.edge.i \in Nat
        BY <1>2, <1>3, <1>6, <1>13, <3>1, <4>2
      <4>4. g \in (start + 1)..x.edge.i
        BY <1>1, <4>2, <4>3
      <4>5. QED
        BY <3>1, <4>2, <4>4
    <3>3. QED
      BY <3>1, <3>2
  <2>3. QED
    BY <2>1, <2>2
<1>14. ASSUME NEW start \in S, start \in Near(b)
       PROVE  EventOf(edges, start) = {x \in edges : x.edge.i \in Near(b)}
  <2>1. ASSUME NEW x \in edges, x.edge.i \in Near(b) PROVE x \in EventOf(edges, start)
    <3>1. x.edge.i \in I /\ x.edge.i \in Nat /\ start \in Nat
      BY <1>3, <1>6
    <3>2. x.edge.i >= start
      BY <1>12, <1>14, <2>1, <3>1
    <3>3. ASSUME NEW g \in S, g \in (start + 1)..x.edge.i PROVE FALSE
      <4>1. g \in I /\ g \in Nat /\ start < g /\ g <= x.edge.i
        BY <1>6, <3>1, <3>3
      <4>2. g \notin Near(a)
        <5>1. SUFFICES ASSUME g \in Near(a) PROVE FALSE
          OBVIOUS
        <5>2. g + SETTLE < start
          BY <1>2, <1>14, <5>1
        <5>3. QED
          BY <1>1, <3>1, <4>1, <5>2
      <4>3. g \in Near(b)
        BY <1>7, <4>1, <4>2
      <4>4. start \in I
        BY <1>6
      <4>5. start >= g
        BY <1>12, <1>14, <4>3, <4>4
      <4>6. QED
        BY <3>1, <4>1, <4>5
    <3>4. QED
      BY <1>8, <3>2, <3>3
  <2>2. ASSUME NEW x \in EventOf(edges, start) PROVE x \in edges /\ x.edge.i \in Near(b)
    <3>1. x \in edges /\ x.edge.i >= start
      BY <1>8
    <3>2. x.edge.i \notin Near(a)
      <4>1. SUFFICES ASSUME x.edge.i \in Near(a) PROVE FALSE
        OBVIOUS
      <4>2. x.edge.i + SETTLE < start /\ start \in Nat /\ x.edge.i \in Nat
        BY <1>2, <1>3, <1>6, <1>14, <3>1, <4>1
      <4>3. QED
        BY <1>1, <3>1, <4>2
    <3>3. QED
      BY <3>1, <3>2
  <2>3. QED
    BY <2>1, <2>2
<1>15. ASSUME NEW start \in S PROVE EventOf(edges, start) # {}
  <2>1. PICK x \in edges : x.edge.i = start
    BY <1>5, <1>6
  <2>2. start \in Near(a) \/ start \in Near(b)
    BY <1>6, <1>7
  <2>3. QED
    BY <1>13, <1>14, <2>1, <2>2
<1>16. QED
  BY <1>6, <1>7, <1>10, <1>13, <1>14, <1>15 DEF S

\* every leg that is lifted, and leg 2 always is, moves more than one that is not
LEMMA LegLosses ==
  ASSUME NEW c \in Captures, NEW leg \in Legs
  PROVE  /\ c.did = "baseline" => Taken(c, leg) = 0 /\ Left(c, leg) = 0
         /\ c.did # "baseline" /\ Lifts(c, leg) =>
              /\ Taken(c, leg) = LIFT /\ Left(c, leg) = c.kept
              /\ EDGE_COUNTS <= LIFT /\ EDGE_COUNTS <= LIFT - c.kept
              /\ c.shift < LIFT /\ c.shift < LIFT - c.kept
         /\ c.did # "baseline" /\ ~Lifts(c, leg) => Taken(c, leg) = -c.shift /\ Left(c, leg) = 0
         /\ c.shift \in Nat /\ 1 <= MOVE /\ MOVE <= c.shift /\ c.kept \in Nat /\ STAND >= 1
<1>1. /\ STAND \in Nat /\ LIFT \in Nat /\ LIFT <= STAND /\ EDGE_COUNTS <= 2 * LIFT - STAND
      /\ c.shift \in Nat /\ MOVE <= c.shift /\ c.shift < 2 * LIFT - STAND
      /\ c.kept \in {0, STAND - LIFT} /\ 1 <= MOVE /\ MOVE \in Nat /\ EDGE_COUNTS \in Nat /\ 1 <= EDGE_COUNTS
  BY CaptureTyped, Loads, Parameters
<1>2. c.did = "baseline" => ~Lifts(c, leg)
  BY DEF Lifts
<1>3. QED
  BY <1>1, <1>2 DEF Taken, Left

\* the sign that PU2 compares
LEMMA ProductSigns ==
  ASSUME NEW x \in Int, NEW y \in Int
  PROVE  /\ (x > 0 /\ y > 0) \/ (x < 0 /\ y < 0) => 1 * x * y > 0 /\ ~(-1 * x * y > 0)
         /\ (x > 0 /\ y < 0) \/ (x < 0 /\ y > 0) => ~(1 * x * y > 0) /\ -1 * x * y > 0
<1>1. 1 * x * y = x * y /\ -1 * x * y = -(x * y) /\ x * y \in Int
  OBVIOUS
<1>2. (x > 0 /\ y > 0) \/ (x < 0 /\ y < 0) => x * y > 0
  OBVIOUS
<1>3. (x > 0 /\ y < 0) \/ (x < 0 /\ y > 0) => x * y < 0
  OBVIOUS
<1>4. QED
  BY <1>1, <1>2, <1>3

\* the other legs
LEMMA ThreeOthers ==
  ASSUME NEW leg \in Legs
  PROVE  Cardinality(Legs \ {leg}) = 3
<1> DEFINE last == 3
<1>1. IsFiniteSet(0..last) /\ Cardinality(0..last) = last - 0 + 1
  <2> HIDE DEF last
  <2>1. last \in Int /\ 0 <= last + 1
    BY DEF last
  <2>2. QED
    BY <2>1, IntervalSize
<1>2. QED
  BY <1>1, FS_RemoveElement DEF Legs

\* over the event every lifted leg moves by g, and every other one by q
Moves(c, s, N, event, g, q) ==
  /\ \A leg \in Legs, i \in N :
       LevelsAround(s[leg], i)[2] - LevelsAround(s[leg], i)[1] = IF Lifts(c, leg) THEN g ELSE q
  /\ \A x \in event : /\ x.leg \in Legs /\ x.edge.i \in N
                       /\ x.edge.delta = IF Lifts(c, x.leg) THEN g ELSE q
  /\ \E x \in event : x.leg = 2

(* In an event all lifted legs go one way and the others less far the      *)
(* other way: what PU2 counts tells whether the whole robot was lifted.    *)
LEMMA EventMoves ==
  ASSUME NEW c \in Captures, c.did # "baseline", c.label # "baseline", NEW s, NEW N,
         NEW g \in Int, NEW q \in Int, Size(q) < Size(g), MOVE <= Size(q),
         (g > 0 /\ q < 0) \/ (g < 0 /\ q > 0),
         NEW event, Moves(c, s, N, event, g, q)
  PROVE  LET e == Dominant(event)
         IN IF c.label = "wholebody" THEN OthersMoving(s, e, 1) = 3 <=> c.did = c.label
            ELSE OthersMoving(s, e, -1) >= 2 <=> c.did = c.label
<1> DEFINE e == Dominant(event)
           D(leg) == LevelsAround(s[leg], e.edge.i)[2] - LevelsAround(s[leg], e.edge.i)[1]
           M(sign) == {leg \in Legs \ {e.leg} : sign * D(leg) * e.edge.delta > 0 /\ Size(D(leg)) >= MOVE}
<1>1. MOVE \in Nat /\ Size(g) \in Int /\ Size(q) \in Int
  BY Parameters DEF Size
<1>2. c.did \in {"singleleg", "wholebody"} /\ c.label \in {"singleleg", "wholebody"}
  BY CaptureTyped
<1>3. \A leg \in Legs : Lifts(c, leg) <=> c.did = "wholebody" \/ leg = 2
  BY <1>2 DEF Lifts
<1>4. e \in event /\ Lifts(c, e.leg)
  <2>1. PICK x \in event : x.leg = 2
    BY DEF Moves
  <2>2. x.edge.delta = g
    BY <1>3, <2>1 DEF Legs, Moves
  <2>3. \A f \in event : f.edge.delta \in {g, q} /\ Size(f.edge.delta) <= Size(x.edge.delta)
    BY <1>1, <2>2 DEF Moves
  <2>4. e \in event /\ \A f \in event : Size(f.edge.delta) <= Size(e.edge.delta)
    BY <2>3 DEF Dominant
  <2>5. Size(g) <= Size(e.edge.delta)
    BY <2>2, <2>4
  <2> HIDE DEF e
  <2>6. e.edge.delta # q
    BY <1>1, <2>5
  <2>7. QED
    BY <2>4, <2>6 DEF Moves
<1>5. /\ e.leg \in Legs /\ e.edge.i \in N /\ e.edge.delta = g
      /\ \A leg \in Legs : D(leg) = IF Lifts(c, leg) THEN g ELSE q
  BY <1>4 DEF Moves
<1>6. \A sign : OthersMoving(s, e, sign) = Cardinality(M(sign))
  BY DEF OthersMoving, Others
<1> HIDE DEF e
<1>7. /\ 1 * g * g > 0 /\ ~(-1 * g * g > 0)
      /\ ~(1 * q * g > 0) /\ -1 * q * g > 0
  <2>1. 1 * g * g > 0 /\ ~(-1 * g * g > 0)
    BY ProductSigns
  <2>2. ~(1 * q * g > 0) /\ -1 * q * g > 0
    BY ProductSigns
  <2>3. QED
    BY <2>1, <2>2
<1>8. MOVE <= Size(g) /\ MOVE <= Size(q)
  BY <1>1
<1>9. Cardinality(Legs \ {e.leg}) = 3 /\ Cardinality({}) = 0
  BY <1>5, ThreeOthers, FS_EmptySet
<1> HIDE DEF D
<1>10. CASE c.did = "wholebody"
  <2>1. \A leg \in Legs \ {e.leg} : D(leg) = g
    BY <1>3, <1>5, <1>10
  <2>2. M(1) = Legs \ {e.leg} /\ M(-1) = {}
    BY <1>1, <1>5, <1>7, <1>8, <2>1
  <2> HIDE DEF M
  <2>3. OthersMoving(s, e, 1) = 3 /\ OthersMoving(s, e, -1) = 0
    BY <1>6, <1>9, <2>2
  <2>4. QED
    BY <1>2, <1>10, <2>3 DEF e
<1>11. CASE c.did = "singleleg"
  <2>1. e.leg = 2 /\ \A leg \in Legs \ {e.leg} : D(leg) = q
    BY <1>3, <1>4, <1>5, <1>11
  <2>2. M(1) = {} /\ M(-1) = Legs \ {e.leg}
    BY <1>1, <1>5, <1>7, <1>8, <2>1
  <2> HIDE DEF M
  <2>3. OthersMoving(s, e, 1) = 0 /\ OthersMoving(s, e, -1) = 3
    BY <1>6, <1>9, <2>2
  <2>4. QED
    BY <1>2, <1>11, <2>3 DEF e
<1>12. QED
  BY <1>2, <1>10, <1>11

(* PU2: there are edges exactly when something was done; then the weight   *)
(* moved as the label says exactly when the operator did what it says.     *)
LEMMA RedistributedIsTrue ==
  ASSUME NEW c \in Captures, NEW a \in Int, NEW b \in Int, Timed(c, a, b)
  PROVE  LET edges == AllEdges(Series(c))
         IN /\ edges # {} <=> c.did # "baseline"
            /\ c.did # "baseline" /\ c.label # "baseline" =>
                 (Redistributed(Series(c), c.label, edges) <=> c.did = c.label)
<1> DEFINE s == Series(c)
           edges == AllEdges(s)
           Agrees(e) == IF c.label = "wholebody" THEN OthersMoving(s, e, 1) = 3
                        ELSE OthersMoving(s, e, -1) >= 2
<1>1. /\ \A x \in edges : x.leg \in Legs /\ (LiftEdge(c, a, x) \/ ReturnEdge(c, b, x))
      /\ \A leg \in Legs :
           /\ EDGE_COUNTS <= Size(Taken(c, leg)) =>
                \E x \in edges : x.leg = leg /\ LiftEdge(c, a, x)
           /\ EDGE_COUNTS <= Size(Taken(c, leg) - Left(c, leg)) =>
                \E x \in edges : x.leg = leg /\ ReturnEdge(c, b, x)
  BY EdgesKnown
<1>2. Redistributed(s, c.label, edges) <=>
        \A start \in EventStarts(edges) : Agrees(Dominant(EventOf(edges, start)))
  BY DEF Redistributed
<1>3. Spaced(LastRow(c), a, b)
  BY DEF Timed
<1>4. \A leg \in Legs : TwoSteps(s[leg], LastRow(c), a, b, STAND, STAND - Taken(c, leg), STAND - Left(c, leg))
  BY LegSteps
<1>5. \A leg \in Legs : Taken(c, leg) \in Int /\ Left(c, leg) \in Int
  BY LossTyped
<1>6. STAND \in Int /\ LIFT \in Int /\ MOVE \in Int /\ EDGE_COUNTS \in Int /\ 1 <= EDGE_COUNTS
  BY Loads, Parameters
<1>7. c.label \in {"singleleg", "wholebody", "baseline"} /\ c.did \in {"singleleg", "wholebody", "baseline"}
  BY CaptureTyped
<1> HIDE DEF s, edges
<1>8. CASE c.did = "baseline"
  <2>1. \A leg \in Legs : Taken(c, leg) = 0 /\ Left(c, leg) = 0
    BY <1>8, LegLosses
  <2>2. \A x \in edges : FALSE
    BY <1>1, <1>6, <2>1 DEF LiftEdge, ReturnEdge, EdgeNear, Size
  <2>3. edges = {}
    BY <2>2
  <2>4. QED
    BY <1>8, <2>3 DEF edges, s
<1>9. CASE c.did # "baseline"
  <2>1. Lifts(c, 2) /\ 2 \in Legs
    BY <1>7, <1>9 DEF Lifts, Legs
  <2>2. /\ LIFT >= 1 /\ LIFT - c.kept >= 1 /\ c.kept \in Nat /\ c.shift \in Nat
        /\ EDGE_COUNTS <= LIFT /\ EDGE_COUNTS <= LIFT - c.kept
        /\ c.shift < LIFT /\ c.shift < LIFT - c.kept /\ 1 <= MOVE /\ MOVE <= c.shift
    BY <1>6, <1>9, <2>1, LegLosses
  <2>3. \A leg \in Legs : IF Lifts(c, leg) THEN Taken(c, leg) = LIFT /\ Left(c, leg) = c.kept
                          ELSE Taken(c, leg) = -c.shift /\ Left(c, leg) = 0
    BY <1>9, LegLosses
  \* the event of the lift, and that of the return
  <2>4. PICK x1 \in edges : x1.leg = 2 /\ LiftEdge(c, a, x1)
    BY <1>1, <1>6, <2>1, <2>2, <2>3 DEF Size
  <2>5. PICK x2 \in edges : x2.leg = 2 /\ ReturnEdge(c, b, x2)
    BY <1>1, <1>6, <2>1, <2>2, <2>3 DEF Size
  <2>6. /\ \A x \in edges : x.edge.i \in Near(a) \cup Near(b)
        /\ x1.edge.i \in Near(a) /\ x2.edge.i \in Near(b)
    BY <1>1, <2>4, <2>5 DEF LiftEdge, ReturnEdge, EdgeNear
  <2>7. Near(a) \cap Near(b) = {}
    <3>1. /\ Near(a) \in SUBSET Nat /\ Near(b) \in SUBSET Nat
          /\ \A i \in Near(a), j \in Near(b) : i + SETTLE < j
      BY <1>3, NearApart
    <3>2. SETTLE \in Nat
      BY Parameters
    <3>3. SUFFICES ASSUME NEW i \in Near(a), i \in Near(b) PROVE FALSE
      OBVIOUS
    <3>4. i \in Nat /\ i + SETTLE < i
      BY <3>1, <3>3
    <3>5. QED
      BY <3>2, <3>4
  <2>8. ASSUME c.label # "baseline", NEW event, event = {x \in edges : x.edge.i \in Near(a)}
        PROVE  Agrees(Dominant(event)) <=> c.did = c.label
    <3> DEFINE g == -LIFT
               q == c.shift
    <3>1. /\ g \in Int /\ q \in Int /\ Size(q) < Size(g) /\ MOVE <= Size(q)
          /\ (g > 0 /\ q < 0) \/ (g < 0 /\ q > 0)
      BY <1>6, <2>2 DEF Size
    <3>2. \A leg \in Legs : -Taken(c, leg) = IF Lifts(c, leg) THEN g ELSE q
      BY <1>6, <2>2, <2>3
    <3>3. \A leg \in Legs, i \in Near(a) :
            LevelsAround(s[leg], i)[2] - LevelsAround(s[leg], i)[1] = IF Lifts(c, leg) THEN g ELSE q
      <4>1. SUFFICES ASSUME NEW leg \in Legs, NEW i \in Near(a)
                     PROVE  LevelsAround(s[leg], i)[2] - LevelsAround(s[leg], i)[1] = -Taken(c, leg)
        BY <3>2
      <4> DEFINE v == STAND - Taken(c, leg)
                 top == b - 2
                 y == s[leg]
                 n == LastRow(c)
      <4>2. STAND \in Int /\ v \in Int /\ v - STAND = -Taken(c, leg)
        BY <1>5, <1>6
      <4>3. /\ y \in [0..n -> Int] /\ IsStep(y, 0, top, a, STAND, v)
            /\ n \in Nat /\ Settled(0, top, a, n)
        BY <1>3, <1>4 DEF TwoSteps, Spaced
      <4> HIDE DEF v, top, y, n
      <4>4. LevelsAround(y, i) = <<STAND, v>>
        BY <4>1, <4>2, <4>3, LevelsNear
      <4>5. QED
        BY <4>2, <4>4 DEF y
    <3>4. \A x \in event : /\ x.leg \in Legs /\ x.edge.i \in Near(a)
                           /\ x.edge.delta = IF Lifts(c, x.leg) THEN g ELSE q
      <4>1. SUFFICES ASSUME NEW x \in event
                     PROVE  x.leg \in Legs /\ x.edge.i \in Near(a) /\ x.edge.delta = -Taken(c, x.leg)
        BY <3>2
      <4>2. x.leg \in Legs /\ x.edge.i \in Near(a) /\ LiftEdge(c, a, x)
        BY <1>1, <2>7, <2>8 DEF ReturnEdge, EdgeNear
      <4>3. QED
        BY <1>5, <1>6, <4>2 DEF LiftEdge, EdgeNear
    <3>5. \E x \in event : x.leg = 2
      BY <2>4, <2>6, <2>8
    <3>6. Moves(c, s, Near(a), event, g, q)
      BY <3>3, <3>4, <3>5 DEF Moves
    <3> HIDE DEF g, q, Agrees
    <3>7. IF c.label = "wholebody" THEN OthersMoving(s, Dominant(event), 1) = 3 <=> c.did = c.label
          ELSE OthersMoving(s, Dominant(event), -1) >= 2 <=> c.did = c.label
      BY <1>9, <2>8, <3>1, <3>6, EventMoves
    <3>8. QED
      BY <3>7 DEF Agrees
  <2>9. ASSUME c.label # "baseline", NEW event, event = {x \in edges : x.edge.i \in Near(b)}
        PROVE  Agrees(Dominant(event)) <=> c.did = c.label
    <3> DEFINE g == LIFT - c.kept
               q == -c.shift
    <3>1. /\ g \in Int /\ q \in Int /\ Size(q) < Size(g) /\ MOVE <= Size(q)
          /\ (g > 0 /\ q < 0) \/ (g < 0 /\ q > 0)
      BY <1>6, <2>2 DEF Size
    <3>2. \A leg \in Legs : Taken(c, leg) - Left(c, leg) = IF Lifts(c, leg) THEN g ELSE q
      BY <1>6, <2>2, <2>3
    <3>3. \A leg \in Legs, i \in Near(b) :
            LevelsAround(s[leg], i)[2] - LevelsAround(s[leg], i)[1] = IF Lifts(c, leg) THEN g ELSE q
      <4>1. SUFFICES ASSUME NEW leg \in Legs, NEW i \in Near(b)
                     PROVE  LevelsAround(s[leg], i)[2] - LevelsAround(s[leg], i)[1]
                              = Taken(c, leg) - Left(c, leg)
        BY <3>2
      <4> DEFINE v == STAND - Taken(c, leg)
                 w == STAND - Left(c, leg)
                 from == a + 1
      <4>2. v \in Int /\ w \in Int /\ w - v = Taken(c, leg) - Left(c, leg)
        BY <1>5, <1>6
      <4>3. /\ s[leg] \in [0..LastRow(c) -> Int] /\ IsStep(s[leg], from, LastRow(c), b, v, w)
            /\ LastRow(c) \in Nat /\ Settled(from, LastRow(c), b, LastRow(c))
        BY <1>3, <1>4 DEF TwoSteps, Spaced
      <4> HIDE DEF v, w, from
      <4>4. LevelsAround(s[leg], i) = <<v, w>>
        BY <4>2, <4>3, LevelsNear
      <4>5. QED
        BY <4>2, <4>4
    <3>4. \A x \in event : /\ x.leg \in Legs /\ x.edge.i \in Near(b)
                           /\ x.edge.delta = IF Lifts(c, x.leg) THEN g ELSE q
      <4>1. SUFFICES ASSUME NEW x \in event
                     PROVE  /\ x.leg \in Legs /\ x.edge.i \in Near(b)
                            /\ x.edge.delta = Taken(c, x.leg) - Left(c, x.leg)
        BY <3>2
      <4>2. x.leg \in Legs /\ x.edge.i \in Near(b) /\ ReturnEdge(c, b, x)
        BY <1>1, <2>7, <2>9 DEF LiftEdge, EdgeNear
      <4>3. QED
        BY <1>5, <1>6, <4>2 DEF ReturnEdge, EdgeNear
    <3>5. \E x \in event : x.leg = 2
      BY <2>5, <2>6, <2>9
    <3>6. Moves(c, s, Near(b), event, g, q)
      BY <3>3, <3>4, <3>5 DEF Moves
    <3> HIDE DEF g, q, Agrees
    <3>7. IF c.label = "wholebody" THEN OthersMoving(s, Dominant(event), 1) = 3 <=> c.did = c.label
          ELSE OthersMoving(s, Dominant(event), -1) >= 2 <=> c.did = c.label
      BY <1>9, <2>9, <3>1, <3>6, EventMoves
    <3>8. QED
      BY <3>7 DEF Agrees
  <2> HIDE DEF Agrees
  <2>10. edges # {} /\ EventStarts(edges) # {}
    BY <1>3, <2>4, <2>6, EventsAre
  <2>11. \A start \in EventStarts(edges) :
           \/ EventOf(edges, start) = {x \in edges : x.edge.i \in Near(a)}
           \/ EventOf(edges, start) = {x \in edges : x.edge.i \in Near(b)}
    BY <1>3, <2>6, EventsAre
  <2>12. ASSUME c.label # "baseline", NEW start \in EventStarts(edges)
         PROVE  Agrees(Dominant(EventOf(edges, start))) <=> c.did = c.label
    BY <2>8, <2>9, <2>11, <2>12
  <2>13. c.label # "baseline" => (Redistributed(s, c.label, edges) <=> c.did = c.label)
    BY <1>2, <2>10, <2>12
  <2>14. QED
    BY <1>9, <2>10, <2>13 DEF edges, s
<1>10. QED
  BY <1>8, <1>9

(* PU5: the only pair of a leg is its lift and its return, and only lifted *)
(* legs have one; what it changed is the load the leg did not get back.    *)
LEMMA ReturnedIsTrue ==
  ASSUME NEW c \in Captures, NEW a \in Int, NEW b \in Int, Timed(c, a, b)
  PROVE  LET edges == AllEdges(Series(c))
         IN /\ Pairs(edges) # {} <=> c.did # "baseline"
            /\ Pairs(edges) # {} => (NoHysteresis(edges) <=> 10 * c.kept <= STAND)
<1> DEFINE edges == AllEdges(Series(c))
<1>1. /\ \A x \in edges : x.leg \in Legs /\ (LiftEdge(c, a, x) \/ ReturnEdge(c, b, x))
      /\ \A leg \in Legs :
           /\ EDGE_COUNTS <= Size(Taken(c, leg)) =>
                \E x \in edges : x.leg = leg /\ LiftEdge(c, a, x)
           /\ EDGE_COUNTS <= Size(Taken(c, leg) - Left(c, leg)) =>
                \E x \in edges : x.leg = leg /\ ReturnEdge(c, b, x)
      /\ \A x, y \in edges : x.leg = y.leg /\ LiftEdge(c, a, x) /\ LiftEdge(c, a, y) => x = y
      /\ \A x, y \in edges : x.leg = y.leg /\ ReturnEdge(c, b, x) /\ ReturnEdge(c, b, y) => x = y
  BY EdgesKnown
<1>2. /\ \A leg \in Legs : Taken(c, leg) \in Int /\ Left(c, leg) \in Int
      /\ STAND \in Int /\ LIFT \in Int /\ EDGE_COUNTS \in Int /\ 1 <= EDGE_COUNTS
  BY LossTyped, Loads, Parameters
<1>3. c.did \in {"singleleg", "wholebody", "baseline"}
  BY CaptureTyped
<1>4. /\ Near(a) \in SUBSET Nat /\ Near(b) \in SUBSET Nat
      /\ \A i \in Near(a), j \in Near(b) : i < j
  <2>1. /\ Near(a) \in SUBSET Nat /\ Near(b) \in SUBSET Nat
        /\ \A i \in Near(a), j \in Near(b) : i + SETTLE < j
    BY NearApart DEF Timed
  <2>2. SETTLE \in Nat
    BY Parameters
  <2>3. QED
    BY <2>1, <2>2
<1> HIDE DEF edges
<1>5. ASSUME NEW x \in edges, LiftEdge(c, a, x)
      PROVE  /\ x.leg \in Legs /\ x.edge.i \in Near(a) /\ x.edge.i \in Nat
             /\ x.edge.before = STAND /\ x.edge.delta = -Taken(c, x.leg)
  BY <1>1, <1>2, <1>4, <1>5 DEF LiftEdge, EdgeNear
<1>6. ASSUME NEW x \in edges, ReturnEdge(c, b, x)
      PROVE  /\ x.leg \in Legs /\ x.edge.i \in Near(b) /\ x.edge.i \in Nat
             /\ x.edge.after = STAND - Left(c, x.leg)
             /\ x.edge.delta = Taken(c, x.leg) - Left(c, x.leg)
  BY <1>1, <1>2, <1>4, <1>6 DEF ReturnEdge, EdgeNear
<1>7. ASSUME NEW p \in Pairs(edges)
      PROVE  c.did # "baseline" /\ p[1].edge.before = STAND /\ Change(p) = c.kept
  <2>1. /\ p \in edges \X edges /\ p[1] \in edges /\ p[2] \in edges
        /\ p[1].leg = p[2].leg /\ p[1].edge.i < p[2].edge.i
        /\ p[1].edge.delta < 0 /\ p[2].edge.delta > 0
    BY DEF Pairs
  <2>2. \A x \in edges : x.leg \in Legs /\ x.edge.i \in Nat
    BY <1>1, <1>5, <1>6
  <2>3. p[1] # p[2] /\ p[1].leg \in Legs
    BY <2>1, <2>2
  <2>4. LiftEdge(c, a, p[1]) /\ ReturnEdge(c, b, p[2])
    <3>1. ~(LiftEdge(c, a, p[1]) /\ LiftEdge(c, a, p[2]))
      BY <1>1, <2>1, <2>3
    <3>2. ~(ReturnEdge(c, b, p[1]) /\ ReturnEdge(c, b, p[2]))
      BY <1>1, <2>1, <2>3
    <3>3. ~(ReturnEdge(c, b, p[1]) /\ LiftEdge(c, a, p[2]))
      <4>1. SUFFICES ASSUME ReturnEdge(c, b, p[1]), LiftEdge(c, a, p[2]) PROVE FALSE
        OBVIOUS
      <4>2. /\ p[2].edge.i < p[1].edge.i /\ p[2].edge.i \in Nat /\ p[1].edge.i \in Nat
        BY <1>4, <1>5, <1>6, <2>1, <4>1
      <4>3. QED
        BY <2>1, <4>2
    <3>4. QED
      BY <1>1, <2>1, <3>1, <3>2, <3>3
  <2> DEFINE leg == p[1].leg
  <2>5. leg \in Legs /\ Taken(c, leg) > 0 /\ p[1].edge.before = STAND /\ p[2].edge.after = STAND - Left(c, leg)
    <3>1. p[1].edge.delta = -Taken(c, p[1].leg) /\ p[1].edge.before = STAND
      BY <1>5, <2>1, <2>4
    <3>2. Taken(c, p[1].leg) \in Int
      BY <1>2, <2>3
    <3>3. p[2].edge.after = STAND - Left(c, p[2].leg)
      BY <1>6, <2>1, <2>4
    <3>4. QED
      BY <2>1, <2>3, <3>1, <3>2, <3>3
  <2> HIDE DEF leg
  <2>6. c.did # "baseline" /\ Left(c, leg) = c.kept /\ c.kept \in Nat
    <3>1. c.did # "baseline"
      BY <2>5, LegLosses
    <3>2. Lifts(c, leg)
      BY <2>5, <3>1, LegLosses
    <3>3. QED
      BY <2>5, <3>1, <3>2, LegLosses
  <2>7. Change(p) = Size((STAND - c.kept) - STAND)
    BY <2>5, <2>6 DEF Change
  <2>8. QED
    BY <1>2, <2>5, <2>6, <2>7 DEF Size
<1>8. ASSUME c.did # "baseline" PROVE Pairs(edges) # {}
  <2>1. Lifts(c, 2) /\ 2 \in Legs
    BY <1>3, <1>8 DEF Lifts, Legs
  <2>2. /\ Taken(c, 2) = LIFT /\ Left(c, 2) = c.kept /\ c.kept \in Nat
        /\ EDGE_COUNTS <= LIFT /\ EDGE_COUNTS <= LIFT - c.kept
    BY <1>8, <2>1, LegLosses
  <2>3. EDGE_COUNTS <= Size(Taken(c, 2)) /\ EDGE_COUNTS <= Size(Taken(c, 2) - Left(c, 2))
    BY <1>2, <2>2 DEF Size
  <2>4. PICK x \in edges : x.leg = 2 /\ LiftEdge(c, a, x)
    BY <1>1, <2>1, <2>3
  <2>5. PICK y \in edges : y.leg = 2 /\ ReturnEdge(c, b, y)
    BY <1>1, <2>1, <2>3
  <2>6. /\ x.edge.i < y.edge.i /\ x.edge.i \in Nat /\ y.edge.i \in Nat
        /\ x.edge.delta < 0 /\ y.edge.delta > 0
    BY <1>2, <1>4, <1>5, <1>6, <2>2, <2>4, <2>5
  <2>7. \A e \in edges : e.leg = 2 => e = x \/ e = y
    BY <1>1, <2>4, <2>5
  <2>8. ~\E e \in edges : e.leg = x.leg /\ x.edge.i < e.edge.i /\ e.edge.i < y.edge.i
    BY <2>4, <2>6, <2>7
  <2>9. <<x, y>> \in Pairs(edges)
    BY <2>4, <2>5, <2>6, <2>8 DEF Pairs
  <2>10. QED
    BY <2>9
<1>9. ASSUME Pairs(edges) # {} PROVE NoHysteresis(edges) <=> 10 * c.kept <= STAND
  <2> DEFINE worst == CHOOSE p \in Pairs(edges) : \A q \in Pairs(edges) : Change(q) <= Change(p)
  <2>1. c.kept \in Nat /\ STAND >= 1
    <3>1. 2 \in Legs
      BY DEF Legs
    <3>2. QED
      BY <3>1, LegLosses
  <2>2. \E p \in Pairs(edges) : \A q \in Pairs(edges) : Change(q) <= Change(p)
    BY <1>7, <1>9, <2>1
  <2>3. worst \in Pairs(edges)
    BY <2>2
  <2>4. NoHysteresis(edges) <=>
          worst[1].edge.before # 0 /\ 10 * Change(worst) <= Size(worst[1].edge.before)
    BY DEF NoHysteresis
  <2> HIDE DEF worst
  <2>5. worst[1].edge.before = STAND /\ Change(worst) = c.kept
    BY <1>7, <2>3
  <2>6. Size(STAND) = STAND /\ STAND # 0
    BY <1>2, <2>1 DEF Size
  <2>7. QED
    BY <2>4, <2>5, <2>6
<1>10. QED
  BY <1>7, <1>8, <1>9 DEF edges

(* PU4: no leg is unloaded when nothing was lifted; when something was, a  *)
(* leg goes down, and reads in the dither band.                            *)
LEMMA BottomedIsTrue ==
  ASSUME NEW c \in Captures, NEW a \in Int, NEW b \in Int, Timed(c, a, b)
  PROVE  LET downs == {e \in AllEdges(Series(c)) : e.edge.delta < 0}
         IN /\ c.did = "baseline" => downs = {}
            /\ c.did # "baseline" => \E e \in downs : e.edge.after <= DITHER_LOAD
<1> DEFINE edges == AllEdges(Series(c))
<1>1. /\ \A x \in edges : x.leg \in Legs /\ (LiftEdge(c, a, x) \/ ReturnEdge(c, b, x))
      /\ \A leg \in Legs :
           EDGE_COUNTS <= Size(Taken(c, leg)) => \E x \in edges : x.leg = leg /\ LiftEdge(c, a, x)
  BY EdgesKnown
<1>2. /\ STAND \in Int /\ LIFT \in Int /\ STAND - LIFT <= DITHER_LOAD /\ DITHER_LOAD \in Int
      /\ EDGE_COUNTS \in Int /\ 1 <= EDGE_COUNTS
  BY Loads, Parameters
<1>3. c.did \in {"singleleg", "wholebody", "baseline"}
  BY CaptureTyped
<1> HIDE DEF edges
<1>4. ASSUME c.did = "baseline", NEW e \in edges PROVE FALSE
  <2>1. Taken(c, e.leg) = 0 /\ Left(c, e.leg) = 0
    BY <1>1, <1>4, LegLosses
  <2>2. QED
    BY <1>1, <1>2, <2>1 DEF LiftEdge, ReturnEdge, EdgeNear, Size
<1>5. ASSUME c.did # "baseline"
      PROVE  \E e \in edges : e.edge.delta < 0 /\ e.edge.after <= DITHER_LOAD
  <2>1. Lifts(c, 2) /\ 2 \in Legs
    BY <1>3, <1>5 DEF Lifts, Legs
  <2>2. Taken(c, 2) = LIFT /\ EDGE_COUNTS <= LIFT
    BY <1>5, <2>1, LegLosses
  <2>3. EDGE_COUNTS <= Size(Taken(c, 2))
    BY <1>2, <2>2 DEF Size
  <2>4. PICK e \in edges : e.leg = 2 /\ LiftEdge(c, a, e)
    BY <1>1, <2>1, <2>3
  <2>5. e.edge.after = STAND - LIFT /\ e.edge.delta = (STAND - LIFT) - STAND
    BY <2>2, <2>4 DEF LiftEdge, EdgeNear
  <2>6. QED
    BY <1>2, <2>2, <2>5
<1>6. QED
  BY <1>4, <1>5 DEF edges

\* the steps of a leg's load, with its losses
LEMMA StepsAre ==
  ASSUME NEW c \in Captures, NEW leg \in Legs
  PROVE  TrueSteps(c, leg) =
           {jump \in {<<c.lifted, -Taken(c, leg)>>, <<Returned(c), Taken(c, leg) - Left(c, leg)>>} :
              EDGE_COUNTS <= Size(jump[2])}
<1>1. /\ EDGE_COUNTS \in Int /\ 1 <= EDGE_COUNTS /\ c.shift \in Int /\ c.kept \in Int /\ LIFT \in Int
  BY Parameters, CaptureTyped, Loads
<1>2. CASE c.did = "baseline"
  <2>1. Taken(c, leg) = 0 /\ Left(c, leg) = 0
    BY <1>2, LegLosses
  <2>2. TrueSteps(c, leg) = {}
    BY <1>2 DEF TrueSteps
  <2>3. \A x, y \in Int : x = 0 /\ y = 0 => ~(EDGE_COUNTS <= Size(-x)) /\ ~(EDGE_COUNTS <= Size(x - y))
    <3>1. SUFFICES ASSUME NEW x \in Int, NEW y \in Int, x <= 0, 0 <= x, y <= 0, 0 <= y
                   PROVE  ~(EDGE_COUNTS <= Size(-x)) /\ ~(EDGE_COUNTS <= Size(x - y))
      OBVIOUS
    <3>2. QED
      BY <1>1, <3>1 DEF Size
  <2>4. ~(EDGE_COUNTS <= Size(-Taken(c, leg))) /\ ~(EDGE_COUNTS <= Size(Taken(c, leg) - Left(c, leg)))
    BY <2>1, <2>3
  <2>5. QED
    BY <1>1, <2>2, <2>4
<1>3. CASE c.did # "baseline" /\ Lifts(c, leg)
  <2>1. Taken(c, leg) = LIFT /\ Left(c, leg) = c.kept
    BY <1>3, LegLosses
  <2>2. TrueSteps(c, leg) = {jump \in {<<c.lifted, -LIFT>>, <<Returned(c), LIFT - c.kept>>} :
                               Size(jump[2]) >= EDGE_COUNTS}
    BY <1>3 DEF TrueSteps
  <2>3. \A z \in Int : Size(z) \in Int
    BY DEF Size
  <2>4. QED
    BY <1>1, <2>1, <2>2, <2>3
<1>4. CASE c.did # "baseline" /\ ~Lifts(c, leg)
  <2>1. -Taken(c, leg) = c.shift /\ Taken(c, leg) - Left(c, leg) = -c.shift
    <3>1. Taken(c, leg) = -c.shift /\ Left(c, leg) = 0
      BY <1>4, LegLosses
    <3>2. QED
      BY <1>1, <3>1
  <2>2. TrueSteps(c, leg) = {jump \in {<<c.lifted, c.shift>>, <<Returned(c), -c.shift>>} :
                               Size(jump[2]) >= EDGE_COUNTS}
    BY <1>4 DEF TrueSteps
  <2>3. \A z \in Int : Size(z) \in Int
    BY DEF Size
  <2>4. QED
    BY <1>1, <2>1, <2>2, <2>3
<1>5. QED
  BY <1>2, <1>3, <1>4

(* All that is said of a capture that passes the continuity control.       *)
LEMMA VerdictTrue ==
  ASSUME NEW c \in Captures, Gaps(Tick(c), Arrived(c)) = {}
  PROVE  LET edges == AllEdges(Series(c))
             shown == {[leg |-> e.leg, i |-> e.edge.i, delta |-> e.edge.delta] : e \in edges}
             near(e, jump) == Size(TickOf(c, e.i) - jump[1]) <= LAG + MAX_GAP
         IN /\ \A leg \in Legs :
                 /\ \A e \in {x \in shown : x.leg = leg} : \E jump \in TrueSteps(c, leg) :
                      e.delta = jump[2] /\ near(e, jump)
                 /\ \A jump \in TrueSteps(c, leg) : \E e \in {x \in shown : x.leg = leg} :
                      e.delta = jump[2] /\ near(e, jump)
            /\ Rises(Arrived(c), edges) = {}
            /\ edges # {} <=> c.did # "baseline"
            /\ Pairs(edges) # {} <=> c.did # "baseline"
            /\ c.did = "baseline" => {e \in edges : e.edge.delta < 0} = {}
            /\ c.did # "baseline" =>
                 /\ c.label # "baseline" => (Redistributed(Series(c), c.label, edges) <=> c.did = c.label)
                 /\ \E e \in {f \in edges : f.edge.delta < 0} : e.edge.after <= DITHER_LOAD
                 /\ NoHysteresis(edges) <=> 10 * c.kept <= STAND
<1> DEFINE edges == AllEdges(Series(c))
           shown == {[leg |-> e.leg, i |-> e.edge.i, delta |-> e.edge.delta] : e \in edges}
           near(e, jump) == Size(TickOf(c, e.i) - jump[1]) <= LAG + MAX_GAP
           Lift(leg) == <<c.lifted, -Taken(c, leg)>>
           Return(leg) == <<Returned(c), Taken(c, leg) - Left(c, leg)>>
<1>1. PICK a \in Int, b \in Int : Timed(c, a, b)
  BY ContinuousLoss, TimedCapture
<1>2. /\ \A x \in edges : x.leg \in Legs /\ (LiftEdge(c, a, x) \/ ReturnEdge(c, b, x))
      /\ \A leg \in Legs :
           /\ EDGE_COUNTS <= Size(Taken(c, leg)) =>
                \E x \in edges : x.leg = leg /\ LiftEdge(c, a, x)
           /\ EDGE_COUNTS <= Size(Taken(c, leg) - Left(c, leg)) =>
                \E x \in edges : x.leg = leg /\ ReturnEdge(c, b, x)
  BY <1>1, EdgesKnown
<1>3. /\ \A leg \in Legs : Taken(c, leg) \in Int /\ Left(c, leg) \in Int
      /\ STAND \in Int
  BY LossTyped, Loads
<1>4. \A leg \in Legs : \A jump : jump \in TrueSteps(c, leg) <=>
        (jump = Lift(leg) \/ jump = Return(leg)) /\ EDGE_COUNTS <= Size(jump[2])
  BY StepsAre
<1>5. /\ \A i \in Near(a) : Size(TickOf(c, i) - c.lifted) <= LAG + MAX_GAP
      /\ \A i \in Near(b) : Size(TickOf(c, i) - Returned(c)) <= LAG + MAX_GAP
  BY <1>1 DEF Timed
<1> HIDE DEF edges
\* each kind of edge is one of the two steps
<1>6. ASSUME NEW x \in edges, LiftEdge(c, a, x)
      PROVE  /\ x.edge.delta = Lift(x.leg)[2] /\ EDGE_COUNTS <= Size(Lift(x.leg)[2])
             /\ Size(TickOf(c, x.edge.i) - Lift(x.leg)[1]) <= LAG + MAX_GAP
  <2>1. /\ x.edge.i \in Near(a) /\ x.edge.delta = (STAND - Taken(c, x.leg)) - STAND
        /\ EDGE_COUNTS <= Size((STAND - Taken(c, x.leg)) - STAND)
    BY <1>6 DEF LiftEdge, EdgeNear
  <2>2. (STAND - Taken(c, x.leg)) - STAND = -Taken(c, x.leg)
    BY <1>2, <1>3
  <2>3. QED
    BY <1>5, <2>1, <2>2
<1>7. ASSUME NEW x \in edges, ReturnEdge(c, b, x)
      PROVE  /\ x.edge.delta = Return(x.leg)[2] /\ EDGE_COUNTS <= Size(Return(x.leg)[2])
             /\ Size(TickOf(c, x.edge.i) - Return(x.leg)[1]) <= LAG + MAX_GAP
  <2> DEFINE v == STAND - Taken(c, x.leg)
             w == STAND - Left(c, x.leg)
  <2>1. x.edge.i \in Near(b) /\ x.edge.delta = w - v /\ EDGE_COUNTS <= Size(w - v)
    BY <1>7 DEF ReturnEdge, EdgeNear
  <2>2. w - v = Taken(c, x.leg) - Left(c, x.leg)
    BY <1>2, <1>3
  <2>3. QED
    BY <1>5, <2>1, <2>2
<1>8. \A x \in edges : LET e == [leg |-> x.leg, i |-> x.edge.i, delta |-> x.edge.delta]
                       IN e \in shown /\ e.leg = x.leg /\ e.i = x.edge.i /\ e.delta = x.edge.delta
  OBVIOUS
<1>9. \A e \in shown : \E x \in edges : e.leg = x.leg /\ e.i = x.edge.i /\ e.delta = x.edge.delta
  OBVIOUS
<1> HIDE DEF shown
<1>10. ASSUME NEW leg \in Legs, NEW e \in shown, e.leg = leg
       PROVE  \E jump \in TrueSteps(c, leg) : e.delta = jump[2] /\ near(e, jump)
  <2>1. PICK x \in edges : e.leg = x.leg /\ e.i = x.edge.i /\ e.delta = x.edge.delta
    BY <1>9
  <2>2. CASE LiftEdge(c, a, x)
    <3> DEFINE jump == Lift(leg)
    <3>1. jump \in TrueSteps(c, leg) /\ e.delta = jump[2] /\ near(e, jump)
      BY <1>4, <1>6, <1>10, <2>1, <2>2
    <3> HIDE DEF jump
    <3>2. QED
      BY <3>1
  <2>3. CASE ReturnEdge(c, b, x)
    <3> DEFINE jump == Return(leg)
    <3>1. jump \in TrueSteps(c, leg) /\ e.delta = jump[2] /\ near(e, jump)
      BY <1>4, <1>7, <1>10, <2>1, <2>3
    <3> HIDE DEF jump
    <3>2. QED
      BY <3>1
  <2>4. QED
    BY <1>2, <2>2, <2>3
<1>11. ASSUME NEW leg \in Legs, NEW jump \in TrueSteps(c, leg)
       PROVE  \E e \in shown : e.leg = leg /\ e.delta = jump[2] /\ near(e, jump)
  <2>1. (jump = Lift(leg) \/ jump = Return(leg)) /\ EDGE_COUNTS <= Size(jump[2])
    BY <1>4
  <2>2. \A z \in Int : Size(-z) = Size(z)
    BY DEF Size
  <2>3. CASE jump = Lift(leg)
    <3>1. EDGE_COUNTS <= Size(Taken(c, leg))
      BY <1>3, <2>1, <2>2, <2>3
    <3>2. PICK x \in edges : x.leg = leg /\ LiftEdge(c, a, x)
      BY <1>2, <3>1
    <3> DEFINE e == [leg |-> x.leg, i |-> x.edge.i, delta |-> x.edge.delta]
    <3>3. e \in shown /\ e.leg = leg /\ e.i = x.edge.i /\ e.delta = x.edge.delta
      BY <1>8, <3>2
    <3> HIDE DEF e
    <3>4. e.delta = jump[2] /\ near(e, jump)
      BY <1>6, <2>3, <3>2, <3>3
    <3>5. QED
      BY <3>3, <3>4
  <2>4. CASE jump = Return(leg)
    <3>1. EDGE_COUNTS <= Size(Taken(c, leg) - Left(c, leg))
      BY <2>1, <2>4
    <3>2. PICK x \in edges : x.leg = leg /\ ReturnEdge(c, b, x)
      BY <1>2, <3>1
    <3> DEFINE e == [leg |-> x.leg, i |-> x.edge.i, delta |-> x.edge.delta]
    <3>3. e \in shown /\ e.leg = leg /\ e.i = x.edge.i /\ e.delta = x.edge.delta
      BY <1>8, <3>2
    <3> HIDE DEF e
    <3>4. e.delta = jump[2] /\ near(e, jump)
      BY <1>7, <2>4, <3>2, <3>3
    <3>5. QED
      BY <3>3, <3>4
  <2>5. QED
    BY <2>1, <2>3, <2>4
\* PU3: a sharp step is crossed by less than two samples
<1>12. Rises(Arrived(c), edges) = {}
  <2>1. \A x \in edges : ~(Cardinality(x.edge.crossed) >= 2)
    BY <1>2 DEF LiftEdge, ReturnEdge, EdgeNear
  <2>2. QED
    BY <2>1 DEF Rises
<1>13. /\ edges # {} <=> c.did # "baseline"
       /\ c.did # "baseline" /\ c.label # "baseline" =>
            (Redistributed(Series(c), c.label, edges) <=> c.did = c.label)
  BY <1>1, RedistributedIsTrue DEF edges
<1>14. /\ c.did = "baseline" => {e \in edges : e.edge.delta < 0} = {}
       /\ c.did # "baseline" => \E e \in {f \in edges : f.edge.delta < 0} : e.edge.after <= DITHER_LOAD
  BY <1>1, BottomedIsTrue DEF edges
<1>15. /\ Pairs(edges) # {} <=> c.did # "baseline"
       /\ Pairs(edges) # {} => (NoHysteresis(edges) <=> 10 * c.kept <= STAND)
  BY <1>1, ReturnedIsTrue DEF edges
<1>16. QED
  BY <1>10, <1>11, <1>12, <1>13, <1>14, <1>15 DEF edges, shown

\* the verdict is that of the capture it was computed from
VerdictOf(c) == AnalyseCapture(Tick(c), Arrived(c), Series(c), c.label)

VerdictInductive ==
  /\ capture \in Captures
  /\ verdict # None => verdict = VerdictOf(capture)

\* the invariant says what the property does
LEMMA VerdictInductiveTrue ==
  ASSUME VerdictInductive
  PROVE  VerdictIsTrue
<1> DEFINE edges == AllEdges(Series(capture))
<1>1. SUFFICES ASSUME verdict # None, verdict.continuous PROVE VerdictIsTrue
  BY DEF VerdictIsTrue
<1>2. capture \in Captures /\ verdict = VerdictOf(capture)
  BY <1>1 DEF VerdictInductive
<1> DEFINE shown == {[leg |-> e.leg, i |-> e.edge.i, delta |-> e.edge.delta] : e \in edges}
           downs == {e \in edges : e.edge.delta < 0}
           near(e, jump) == Size(TickOf(capture, e.i) - jump[1]) <= LAG + MAX_GAP
<1>3. /\ verdict.continuous <=> Gaps(Tick(capture), Arrived(capture)) = {}
      /\ verdict.edges = shown
      /\ verdict.rises = Rises(Arrived(capture), edges)
      /\ verdict.bottomed = IF downs = {} THEN None ELSE Mark(\E e \in downs : e.edge.after <= DITHER_LOAD)
      /\ verdict.redistributed = IF edges = {} \/ capture.label = "baseline" THEN None
                                 ELSE Mark(Redistributed(Series(capture), capture.label, edges))
      /\ verdict.returned = IF Pairs(edges) = {} THEN None ELSE Mark(NoHysteresis(edges))
  BY <1>2, Zenon DEF VerdictOf, AnalyseCapture
<1>4. Gaps(Tick(capture), Arrived(capture)) = {}
  BY <1>1, <1>3
<1>5. /\ \A leg \in Legs :
           /\ \A e \in {x \in shown : x.leg = leg} : \E jump \in TrueSteps(capture, leg) :
                e.delta = jump[2] /\ near(e, jump)
           /\ \A jump \in TrueSteps(capture, leg) : \E e \in {x \in shown : x.leg = leg} :
                e.delta = jump[2] /\ near(e, jump)
      /\ Rises(Arrived(capture), edges) = {}
      /\ edges # {} <=> capture.did # "baseline"
      /\ Pairs(edges) # {} <=> capture.did # "baseline"
      /\ capture.did = "baseline" => downs = {}
      /\ capture.did # "baseline" =>
           /\ capture.label # "baseline" =>
                (Redistributed(Series(capture), capture.label, edges) <=> capture.did = capture.label)
           /\ \E e \in downs : e.edge.after <= DITHER_LOAD
           /\ NoHysteresis(edges) <=> 10 * capture.kept <= STAND
  BY <1>2, <1>4, VerdictTrue
<1> HIDE DEF edges, near, downs, shown
<1>6. \A leg \in Legs :
        /\ \A e \in {x \in verdict.edges : x.leg = leg} : \E jump \in TrueSteps(capture, leg) :
             e.delta = jump[2] /\ near(e, jump)
        /\ \A jump \in TrueSteps(capture, leg) : \E e \in {x \in verdict.edges : x.leg = leg} :
             e.delta = jump[2] /\ near(e, jump)
  BY <1>3, <1>5
<1>7. verdict.rises = {}
  BY <1>3, <1>5
<1>8. ASSUME capture.did = "baseline"
      PROVE  verdict.redistributed = None /\ verdict.bottomed = None /\ verdict.returned = None
  BY <1>3, <1>5, <1>8
<1>9. ASSUME capture.did # "baseline"
      PROVE  /\ verdict.redistributed =
                  IF capture.label = "baseline" THEN None ELSE Mark(capture.did = capture.label)
             /\ verdict.bottomed = "PASS"
             /\ verdict.returned = Mark(10 * capture.kept <= STAND)
  <2>1. ASSUME capture.label # "baseline"
        PROVE  verdict.redistributed = Mark(capture.did = capture.label)
    BY <1>3, <1>5, <1>9, <2>1 DEF Mark
  <2>2. verdict.redistributed =
          IF capture.label = "baseline" THEN None ELSE Mark(capture.did = capture.label)
    BY <1>3, <2>1
  <2>3. downs # {} /\ verdict.bottomed = "PASS"
    BY <1>3, <1>5, <1>9 DEF Mark
  <2>4. verdict.returned = Mark(10 * capture.kept <= STAND)
    BY <1>3, <1>5, <1>9 DEF Mark
  <2>5. QED
    BY <2>2, <2>3, <2>4
<1>10. QED
  BY <1>6, <1>7, <1>8, <1>9, Zenon DEF VerdictIsTrue, near

(* What the analysis says of a capture that passes the continuity control  *)
(* is true of it, for every setting of the parameters under which a state  *)
(* is held long enough, every spike, and every loss the control lets pass, *)
(* those the warm-up hides included: the edges, their sizes and times, PU2 *)
(* to PU5, None where there is nothing to judge (analyse, find_edges).     *)
THEOREM VerdictCorrect == UnloadSpec => []VerdictIsTrue
<1>1. UnloadInit => VerdictInductive
  BY DEF UnloadInit, VerdictInductive
<1>2. VerdictInductive /\ [Analyse]_<<capture, verdict>> => VerdictInductive'
  <2>1. SUFFICES ASSUME VerdictInductive, [Analyse]_<<capture, verdict>> PROVE VerdictInductive'
    OBVIOUS
  <2>2. CASE Analyse
    BY <2>1, <2>2 DEF Analyse, VerdictInductive, VerdictOf
  <2>3. CASE UNCHANGED <<capture, verdict>>
    BY <2>1, <2>3 DEF VerdictInductive, VerdictOf
  <2>4. QED
    BY <2>1, <2>2, <2>3
<1>3. VerdictInductive => VerdictIsTrue
  BY VerdictInductiveTrue
<1>4. QED
  BY <1>1, <1>2, <1>3, PTL DEF UnloadSpec
=============================================================================
