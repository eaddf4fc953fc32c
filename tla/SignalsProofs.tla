--------------------------- MODULE SignalsProofs ----------------------------
(***************************************************************************)
(* Theorems about the traffic lights, for any number of lights, any set of *)
(* timers and any resolution of time.                                      *)
(***************************************************************************)
EXTENDS Signals, TLAPS

(***************************************************************************)
(* The inductive invariant.  OneTimerPerYellow alone is not inductive: a   *)
(* timer that fires must find how far its light's countdown has come, and  *)
(* the light's age must agree with the countdown and the time to go.       *)
(***************************************************************************)
\* A scheduled timer is the one that its light, which is yellow, refers to.
ScheduledIsHeld ==
  \A t \in Timers : target[t] # NoLight =>
    /\ timer[target[t]] = t
    /\ state[target[t]] = Yellow

\* A light refers to a timer only while it is yellow, and that timer calls it.
HeldIsScheduled ==
  \A l \in Lights :
    IF state[l] = Yellow THEN timer[l] \in Timers /\ target[timer[l]] = l
    ELSE timer[l] = NoTimer

\* The countdown of a yellow light: two to go in its first second, one in its last.
Countdown ==
  \A l \in Lights : state[l] = Yellow =>
    \/ timeLeft[l] = 2 /\ age[l] + due[timer[l]] = TicksPerSecond
    \/ timeLeft[l] = 1 /\ age[l] + due[timer[l]] = 2 * TicksPerSecond

Inv == TypeOK /\ ScheduledIsHeld /\ HeldIsScheduled /\ Countdown

-----------------------------------------------------------------------------
\* The lights come in pairs, so the partner of a light is another light.
LEMMA PartnerIsLight ==
  ASSUME NEW l \in Lights
  PROVE  Partner(l) \in Lights /\ Partner(l) # l
BY LightsAssumption, SMT DEF Lights, Partner

\* The lights start red, without timers.
LEMMA InitInv == Init => Inv
BY TicksAssumption, TimersAssumption, SMT
   DEF Init, Inv, TypeOK, ScheduledIsHeld, HeldIsScheduled, Countdown, Lights, NoLight,
       Red, Yellow, Green

\* A tap: the lights of the pair that were green get one timer each.
LEMMA TapInv ==
  ASSUME Inv, NEW l \in Lights, HandleTap(l)
  PROVE  Inv'
<1> DEFINE pair == {l, Partner(l)}
           G == Greens(pair)
<1>1. PICK new \in [G -> Idle] :
         /\ \A k, m \in G : k # m => new[k] # new[m]
         /\ ChangeState(pair, new)
      BY DEF HandleTap
<1>2. pair \subseteq Lights /\ G \subseteq Lights /\ \A k \in G : state[k] = Green
      BY PartnerIsLight DEF Greens
<1> DEFINE started == {new[k] : k \in G}
<1>3. /\ state' = [k \in Lights |->
            IF k \in pair THEN IF state[k] = Red THEN Green ELSE Yellow ELSE state[k]]
      /\ timeLeft' = [k \in Lights |-> IF k \in G THEN 2 ELSE timeLeft[k]]
      /\ timer' = [k \in Lights |-> IF k \in G THEN new[k] ELSE timer[k]]
      /\ target' = [t \in Timers |->
            IF t \in started THEN CHOOSE k \in G : new[k] = t ELSE target[t]]
      /\ due' = [t \in Timers |-> IF t \in started THEN TicksPerSecond ELSE due[t]]
      /\ age' = [k \in Lights |-> IF k \in G THEN 0 ELSE age[k]]
      BY <1>1 DEF ChangeState, Tapped, Schedule
<1>4. \A k \in G : new[k] \in Timers /\ target[new[k]] = NoLight
      BY <1>1 DEF Idle
<1>5. \A t \in started : target'[t] \in G /\ new[target'[t]] = t
      BY <1>3, <1>4
<1>6. \A k \in G : target'[new[k]] = k
      BY <1>1, <1>5
<1>7. \A k \in Lights \ G : state[k] = Yellow => timer[k] \notin started
  <2> SUFFICES ASSUME NEW k \in Lights \ G, state[k] = Yellow, timer[k] \in started
               PROVE  FALSE
      OBVIOUS
  <2>1. target[timer[k]] = k
        BY DEF Inv, HeldIsScheduled
  <2>2. target[timer[k]] = NoLight
        BY <1>4
  <2>3. k # NoLight
        BY LightsAssumption DEF Lights, NoLight
  <2>4. QED BY <2>1, <2>2, <2>3
<1>8. TypeOK'
  <2>1. target' \in [Timers -> Lights \cup {NoLight}]
        BY <1>2, <1>3, <1>5 DEF Inv, TypeOK
  <2>2. split' \subseteq Lights
        BY <1>2 DEF HandleTap, Inv, TypeOK
  <2>3. timer' \in [Lights -> Timers \cup {NoTimer}]
        BY <1>3, <1>4 DEF Inv, TypeOK
  <2>4. state' \in [Lights -> {Red, Yellow, Green}] /\ timeLeft' \in [Lights -> 0..3]
        BY <1>3 DEF Inv, TypeOK
  <2>5. due' \in [Timers -> 0..TicksPerSecond] /\ age' \in [Lights -> 0..(2 * TicksPerSecond)]
        BY <1>3, TicksAssumption DEF Inv, TypeOK
  <2>6. QED BY <2>1, <2>2, <2>3, <2>4, <2>5 DEF TypeOK
<1>9. \A k \in Lights : state'[k] = Yellow <=> state[k] = Yellow \/ k \in G
      BY <1>2, <1>3 DEF Greens, Inv, TypeOK, Red, Yellow, Green
<1>10. ScheduledIsHeld'
  <2> SUFFICES ASSUME NEW t \in Timers, target'[t] # NoLight
               PROVE  timer'[target'[t]] = t /\ state'[target'[t]] = Yellow
      BY DEF ScheduledIsHeld
  <2>1. CASE t \in started
        BY <2>1, <1>2, <1>3, <1>5, <1>9
  <2>2. CASE t \notin started
    <3>1. target'[t] = target[t] /\ target[t] \in Lights
          BY <2>2, <1>3 DEF Inv, TypeOK
    <3>2. timer[target[t]] = t /\ state[target[t]] = Yellow
          BY <3>1 DEF Inv, ScheduledIsHeld
    <3>3. target[t] \notin G
          BY <3>2, <1>2 DEF Yellow, Green
    <3>4. QED BY <3>1, <3>2, <3>3, <1>3, <1>9
  <2>3. QED BY <2>1, <2>2
<1>11. HeldIsScheduled'
  <2> SUFFICES ASSUME NEW k \in Lights
               PROVE  IF state'[k] = Yellow THEN timer'[k] \in Timers /\ target'[timer'[k]] = k
                      ELSE timer'[k] = NoTimer
      BY DEF HeldIsScheduled
  <2>1. CASE k \in G
    <3>1. timer'[k] = new[k] /\ state'[k] = Yellow
          BY <2>1, <1>3, <1>9
    <3>2. QED BY <2>1, <3>1, <1>4, <1>6
  <2>2. CASE k \notin G
        BY <2>2, <1>3, <1>7, <1>9 DEF Inv, HeldIsScheduled
  <2>3. QED BY <2>1, <2>2
<1>12. Countdown'
  <2> SUFFICES ASSUME NEW k \in Lights, state'[k] = Yellow
               PROVE  \/ timeLeft'[k] = 2 /\ age'[k] + due'[timer'[k]] = TicksPerSecond
                      \/ timeLeft'[k] = 1 /\ age'[k] + due'[timer'[k]] = 2 * TicksPerSecond
      BY DEF Countdown
  <2>1. CASE k \in G
    <3>1. timeLeft'[k] = 2 /\ age'[k] = 0 /\ due'[timer'[k]] = TicksPerSecond
          BY <2>1, <1>3, <1>4
    <3>2. QED BY <3>1, TicksAssumption
  <2>2. CASE k \notin G
    <3>1. state[k] = Yellow
          BY <2>2, <1>9
    <3>2. timer[k] \in Timers /\ timer[k] \notin started
          BY <3>1, <2>2, <1>7 DEF Inv, HeldIsScheduled
    <3>3. timeLeft'[k] = timeLeft[k] /\ age'[k] = age[k] /\ due'[timer'[k]] = due[timer[k]]
          BY <2>2, <3>2, <1>3
    <3>4. QED BY <3>1, <3>3 DEF Inv, Countdown
  <2>3. QED BY <2>1, <2>2
<1> QED BY <1>8, <1>10, <1>11, <1>12 DEF Inv

\* A timer fires: it is the one its light refers to, so "over" ends that timer.
LEMMA FireInv ==
  ASSUME Inv, NEW t \in Timers, OnTimerFires(t)
  PROVE  Inv'
<1> DEFINE l == target[t]
           over == timeLeft[l] - 1 =< 0
<1>1. /\ l \in Lights /\ timer[l] = t /\ state[l] = Yellow /\ due[t] = 0
      BY DEF OnTimerFires, TimeIsUp, Inv, ScheduledIsHeld, TypeOK
<1>2. \/ timeLeft[l] = 2 /\ ~over /\ age[l] = TicksPerSecond
      \/ timeLeft[l] = 1 /\ over /\ age[l] = 2 * TicksPerSecond
      BY <1>1, TicksAssumption DEF Inv, Countdown, TypeOK
<1>3. \A k \in Lights : k # l /\ state[k] = Yellow => timer[k] # t
      BY <1>1 DEF Inv, HeldIsScheduled
<1>4. CASE over
  <2>1. /\ timeLeft' = [timeLeft EXCEPT ![l] = 0]
        /\ target' = [target EXCEPT ![t] = NoLight]
        /\ timer' = [timer EXCEPT ![l] = NoTimer]
        /\ state' = [state EXCEPT ![l] = Red]
        /\ due' = [due EXCEPT ![t] = 0]
        /\ age' = [age EXCEPT ![l] = 0]
        /\ split' = split
    <3>1. timeLeft[l] - 1 = 0
          BY <1>2, <1>4
    <3>2. target' = [u \in Timers |-> IF u = t THEN NoLight ELSE target[u]]
          BY <1>1, <1>4 DEF OnTimerFires, TimeIsUp
    <3>3. target' = [target EXCEPT ![t] = NoLight]
          BY <3>2 DEF Inv, TypeOK
    <3>4. QED BY <3>1, <3>3, <1>1, <1>4 DEF OnTimerFires, TimeIsUp
  <2>2. TypeOK'
        BY <2>1, <1>1, TicksAssumption DEF Inv, TypeOK
  <2>3. ScheduledIsHeld'
        BY <2>1, <1>1 DEF Inv, TypeOK, ScheduledIsHeld
  <2>4. HeldIsScheduled'
        BY <2>1, <1>1, <1>3 DEF Inv, TypeOK, HeldIsScheduled, Red, Yellow
  <2>5. Countdown'
        BY <2>1, <1>1, <1>3 DEF Inv, TypeOK, HeldIsScheduled, Countdown, Red, Yellow
  <2>6. QED BY <2>2, <2>3, <2>4, <2>5 DEF Inv
<1>5. CASE ~over
  <2>1. /\ timeLeft' = [timeLeft EXCEPT ![l] = 1]
        /\ target' = target /\ timer' = timer /\ state' = state /\ age' = age
        /\ due' = [due EXCEPT ![t] = TicksPerSecond]
        /\ split' = split
    <3>1. timeLeft[l] - 1 = 1
          BY <1>2, <1>5
    <3>2. target' = [u \in Timers |-> target[u]]
          BY <1>5 DEF OnTimerFires, TimeIsUp
    <3>3. target' = target
          BY <3>2 DEF Inv, TypeOK
    <3>4. QED BY <3>1, <3>3, <1>1, <1>5 DEF OnTimerFires, TimeIsUp
  <2>2. TypeOK'
        BY <2>1, <1>1, TicksAssumption DEF Inv, TypeOK
  <2>3. ScheduledIsHeld' /\ HeldIsScheduled'
        BY <2>1 DEF Inv, ScheduledIsHeld, HeldIsScheduled
  <2>4. age[l] = TicksPerSecond /\ due'[timer[l]] = TicksPerSecond /\ timeLeft'[l] = 1
        BY <2>1, <1>1, <1>2, <1>5 DEF Inv, TypeOK
  <2>5. Countdown'
    <3> SUFFICES ASSUME NEW k \in Lights, state'[k] = Yellow
                 PROVE  \/ timeLeft'[k] = 2 /\ age'[k] + due'[timer'[k]] = TicksPerSecond
                        \/ timeLeft'[k] = 1 /\ age'[k] + due'[timer'[k]] = 2 * TicksPerSecond
        BY DEF Countdown
    <3>1. CASE k = l
          BY <3>1, <2>1, <2>4, TicksAssumption
    <3>2. CASE k # l
      <4>1. timer[k] \in Timers /\ timer[k] # t
            BY <3>2, <2>1, <1>3 DEF Inv, HeldIsScheduled
      <4>2. timeLeft'[k] = timeLeft[k] /\ due'[timer'[k]] = due[timer[k]]
            BY <4>1, <3>2, <2>1 DEF Inv, TypeOK
      <4>3. QED BY <4>2, <2>1 DEF Inv, Countdown
    <3>3. QED BY <3>1, <3>2
  <2>6. QED BY <2>2, <2>3, <2>5 DEF Inv
<1> QED BY <1>4, <1>5

\* A tick brings every yellow light one tick nearer to the firing of its timer.
LEMMA TickInv ==
  ASSUME Inv, Tick
  PROVE  Inv'
<1>1. /\ state' = state /\ timeLeft' = timeLeft /\ timer' = timer /\ target' = target
      /\ split' = split
      /\ due' = [t \in Timers |-> IF target[t] # NoLight THEN due[t] - 1 ELSE due[t]]
      /\ age' = [l \in Lights |-> IF state[l] = Yellow THEN age[l] + 1 ELSE age[l]]
      BY DEF Tick
<1>2. \A l \in Lights : state[l] = Yellow =>
        /\ timer[l] \in Timers /\ target[timer[l]] # NoLight
        /\ due[timer[l]] \in 1..TicksPerSecond /\ age[l] \in 0..(2 * TicksPerSecond)
  <2> SUFFICES ASSUME NEW l \in Lights, state[l] = Yellow
               PROVE  /\ timer[l] \in Timers /\ target[timer[l]] # NoLight
                      /\ due[timer[l]] \in 1..TicksPerSecond
                      /\ age[l] \in 0..(2 * TicksPerSecond)
      OBVIOUS
  <2>1. timer[l] \in Timers /\ target[timer[l]] = l
        BY DEF Inv, HeldIsScheduled
  <2>2. l # NoLight
        BY LightsAssumption DEF Lights, NoLight
  <2>3. due[timer[l]] > 0 /\ due[timer[l]] \in 0..TicksPerSecond
        BY <2>1, <2>2 DEF Tick, Inv, TypeOK
  <2>4. QED BY <2>1, <2>2, <2>3, TicksAssumption DEF Inv, TypeOK
<1>3. \A l \in Lights : state[l] = Yellow =>
        age'[l] = age[l] + 1 /\ due'[timer[l]] = due[timer[l]] - 1
      BY <1>1, <1>2
<1>4. Countdown'
  <2> SUFFICES ASSUME NEW l \in Lights, state[l] = Yellow
               PROVE  \/ timeLeft[l] = 2 /\ age'[l] + due'[timer[l]] = TicksPerSecond
                      \/ timeLeft[l] = 1 /\ age'[l] + due'[timer[l]] = 2 * TicksPerSecond
      BY <1>1 DEF Countdown
  <2>1. age'[l] + due'[timer[l]] = age[l] + due[timer[l]]
        BY <1>2, <1>3, TicksAssumption
  <2>2. QED BY <2>1 DEF Inv, Countdown
<1>5. TypeOK'
  <2>1. due' \in [Timers -> 0..TicksPerSecond]
        BY <1>1, TicksAssumption DEF Tick, Inv, TypeOK
  <2>2. \A l \in Lights : age'[l] \in 0..(2 * TicksPerSecond)
    <3> SUFFICES ASSUME NEW l \in Lights
                 PROVE  age'[l] \in 0..(2 * TicksPerSecond)
        OBVIOUS
    <3>1. CASE state[l] = Yellow
      <4>1. age[l] + due[timer[l]] =< 2 * TicksPerSecond
            BY <3>1, <1>2, TicksAssumption DEF Inv, Countdown
      <4>2. QED BY <4>1, <3>1, <1>2, <1>3, TicksAssumption
    <3>2. CASE state[l] # Yellow
          BY <3>2, <1>1 DEF Inv, TypeOK
    <3>3. QED BY <3>1, <3>2
  <2>3. age' \in [Lights -> 0..(2 * TicksPerSecond)]
        BY <1>1, <2>2
  <2>4. QED BY <1>1, <2>1, <2>3 DEF Inv, TypeOK
<1>6. ScheduledIsHeld' /\ HeldIsScheduled'
      BY <1>1 DEF Inv, ScheduledIsHeld, HeldIsScheduled
<1> QED BY <1>4, <1>5, <1>6 DEF Inv

\* Every step keeps the invariant.
LEMMA StepInv == Inv /\ [Next]_vars => Inv'
<1> SUFFICES ASSUME Inv, [Next]_vars
             PROVE  Inv'
    OBVIOUS
<1>1. CASE \E l \in Lights : HandleTap(l)
      BY <1>1, TapInv
<1>2. CASE \E t \in Timers : OnTimerFires(t)
      BY <1>2, FireInv
<1>3. CASE Tick
      BY <1>3, TickInv
<1>4. CASE UNCHANGED vars
      BY <1>4 DEF vars, Inv, TypeOK, ScheduledIsHeld, HeldIsScheduled, Countdown
<1> QED BY <1>1, <1>2, <1>3, <1>4 DEF Next

\* The invariant holds throughout, for any number of lights, timers and ticks.
THEOREM InvHolds == Spec => []Inv
BY InitInv, StepInv, PTL DEF Spec

-----------------------------------------------------------------------------
\* Types of the lights' and the timers' state (changeState and onTimerFires never
\* let the countdown of a light run below zero).
THEOREM TypeCorrect == Spec => []TypeOK
BY InvHolds, PTL DEF Inv

\* A light is yellow exactly while one timer calls it: onTimerFires leaves no timer
\* behind that could cut a later yellow short.
THEOREM OneTimer == Spec => []OneTimerPerYellow
<1>1. Inv => OneTimerPerYellow
  <2> SUFFICES ASSUME Inv, NEW l \in Lights
               PROVE  {t \in Timers : target[t] = l} =
                        IF state[l] = Yellow THEN {timer[l]} ELSE {}
      BY DEF OneTimerPerYellow
  <2>1. l # NoLight
        BY LightsAssumption DEF Lights, NoLight
  <2>2. \A t \in Timers : target[t] = l => timer[l] = t /\ state[l] = Yellow
        BY <2>1 DEF Inv, ScheduledIsHeld
  <2>3. state[l] = Yellow => timer[l] \in Timers /\ target[timer[l]] = l
        BY DEF Inv, HeldIsScheduled
  <2>4. QED BY <2>2, <2>3
<1> QED BY <1>1, InvHolds, PTL

\* A yellow light turns red two seconds after it turned yellow, in every cycle and
\* whatever taps come in between (changeState sets timeLeft to 2 each time).
THEOREM TwoSeconds == Spec => YellowLastsTwoSeconds
<1> DEFINE Ends == \A l \in Lights : state[l] = Yellow /\ state'[l] # Yellow =>
                     state'[l] = Red /\ age[l] = 2 * TicksPerSecond
<1>1. Inv /\ [Next]_vars => [Ends]_vars
  <2> SUFFICES ASSUME Inv, Next
               PROVE  Ends
      BY DEF Ends
  <2>1. ASSUME NEW k \in Lights, HandleTap(k)
        PROVE  Ends
    <3>1. \A l \in Lights : state'[l] \in {state[l], Green, Yellow} /\
             (state[l] = Yellow => state'[l] = Yellow)
          BY <2>1 DEF HandleTap, ChangeState, Tapped, Schedule, Red, Yellow, Green, Inv, TypeOK
    <3>2. QED BY <3>1
  <2>2. ASSUME NEW t \in Timers, OnTimerFires(t)
        PROVE  Ends
    <3> SUFFICES ASSUME NEW l \in Lights, state[l] = Yellow, state'[l] # Yellow
                 PROVE  state'[l] = Red /\ age[l] = 2 * TicksPerSecond
        OBVIOUS
    <3>1. l = target[t] /\ timeLeft[l] - 1 =< 0 /\ state'[l] = Red /\ due[t] = 0
          BY <2>2 DEF OnTimerFires, TimeIsUp, Inv, TypeOK
    <3>2. timer[l] = t
          BY <3>1, <2>2 DEF OnTimerFires, TimeIsUp, Inv, ScheduledIsHeld
    <3>3. QED BY <3>1, <3>2, TicksAssumption DEF Inv, TypeOK, Countdown
  <2>3. ASSUME Tick
        PROVE  Ends
        BY <2>3 DEF Tick
  <2>4. QED BY <2>1, <2>2, <2>3 DEF Next
<1>2. QED BY <1>1, InvHolds, PTL DEF Spec, YellowLastsTwoSeconds

-----------------------------------------------------------------------------
(***************************************************************************)
(* The pairs.  PairsAgree is not inductive either: two yellow lights of a  *)
(* pair stay in step because they turned yellow at one tap, so that their  *)
(* ages are the same, and a light whose partner is red already is at the   *)
(* very end of its yellow, where no time can pass.                         *)
(***************************************************************************)
\* Lights l and p are in step.
InStep(l, p) ==
  \/ state[l] = state[p] /\ (state[l] = Yellow => age[l] = age[p])
  \/ state[l] = Yellow /\ state[p] = Red /\ age[l] = 2 * TicksPerSecond
  \/ state[p] = Yellow /\ state[l] = Red /\ age[p] = 2 * TicksPerSecond

\* A tap that splits a pair splits both of its lights; all others are in step.
PairsInStep ==
  /\ \A l \in split : Partner(l) \in split
  /\ \A l \in Lights \ split : InStep(l, Partner(l))

\* The pairs do not overlap.
LEMMA PartnerOfPartner ==
  ASSUME NEW l \in Lights
  PROVE  Partner(Partner(l)) = l
BY LightsAssumption, SMT DEF Lights, Partner

\* A yellow light that is two seconds old has a timer that is due.
LEMMA OldIsDue ==
  ASSUME Inv, NEW l \in Lights, state[l] = Yellow, age[l] = 2 * TicksPerSecond
  PROVE  /\ timer[l] \in Timers /\ target[timer[l]] # NoLight
         /\ due[timer[l]] = 0
<1>1. timer[l] \in Timers /\ target[timer[l]] = l
      BY DEF Inv, HeldIsScheduled
<1>2. l # NoLight
      BY LightsAssumption DEF Lights, NoLight
<1>3. due[timer[l]] \in 0..TicksPerSecond
      BY <1>1 DEF Inv, TypeOK
<1>4. due[timer[l]] = 0
      BY <1>3, TicksAssumption DEF Inv, Countdown
<1>5. QED BY <1>1, <1>2, <1>4

\* A tap keeps the pairs in step, or splits the one it finds out of step.
LEMMA TapInStep ==
  ASSUME Inv, PairsInStep, NEW k \in Lights, HandleTap(k)
  PROVE  PairsInStep'
<1> DEFINE pair == {k, Partner(k)}
<1>1. /\ state' = [l \in Lights |->
            IF l \in pair THEN IF state[l] = Red THEN Green ELSE Yellow ELSE state[l]]
      /\ age' = [l \in Lights |-> IF l \in Greens(pair) THEN 0 ELSE age[l]]
      BY DEF HandleTap, ChangeState, Tapped
<1>2. split' = IF (state[k] = Yellow) # (state[Partner(k)] = Yellow) THEN split \cup pair ELSE split
      BY DEF HandleTap
<1>3. Partner(k) \in Lights /\ Partner(Partner(k)) = k
      BY PartnerIsLight, PartnerOfPartner
<1>4. \A l \in split' : Partner(l) \in split'
      BY <1>2, <1>3 DEF PairsInStep
<1>5. ASSUME NEW l \in Lights \ split'
      PROVE  InStep(l, Partner(l))'
      <2>1. l \notin split /\ InStep(l, Partner(l)) /\ Partner(l) \in Lights
            BY <1>2, <1>5, PartnerIsLight DEF PairsInStep
      <2>2. CASE l \in pair
            <3>1. {l, Partner(l)} = pair
                  BY <1>3, <2>2
            <3>2. (state[l] = Yellow) = (state[Partner(l)] = Yellow)
                  BY <1>2, <1>3, <1>5, <2>2
            <3>3. state[l] = state[Partner(l)] /\ (state[l] = Yellow => age[l] = age[Partner(l)])
                  BY <2>1, <3>2 DEF InStep, Red, Yellow
            <3>4. (l \in Greens(pair)) = (Partner(l) \in Greens(pair))
                  BY <3>1, <3>3 DEF Greens
            <3>5. state'[l] = state'[Partner(l)]
                  BY <1>1, <2>1, <3>1, <3>3
            <3>6. state'[l] = Yellow => age'[l] = age'[Partner(l)]
                  <4>1. CASE l \in Greens(pair)
                        BY <1>1, <2>1, <3>4, <4>1
                  <4>2. CASE l \notin Greens(pair)
                        <5>1. age'[l] = age[l] /\ age'[Partner(l)] = age[Partner(l)]
                              BY <1>1, <2>1, <3>4, <4>2
                        <5>2. state'[l] = Yellow => state[l] = Yellow
                              BY <1>1, <3>1, <4>2 DEF Greens, Green, Yellow, Red, Inv, TypeOK
                        <5>3. QED BY <3>3, <5>1, <5>2
                  <4>3. QED BY <4>1, <4>2
            <3>7. QED BY <3>5, <3>6 DEF InStep
      <2>3. CASE l \notin pair
            <3>1. Partner(l) \notin pair
                  BY <1>3, <2>3, PartnerOfPartner
            <3>2. /\ state'[l] = state[l] /\ state'[Partner(l)] = state[Partner(l)]
                  /\ age'[l] = age[l] /\ age'[Partner(l)] = age[Partner(l)]
                  BY <1>1, <2>1, <2>3, <3>1 DEF Greens
            <3>3. QED BY <2>1, <3>2 DEF InStep
      <2>4. QED BY <2>2, <2>3
<1>6. QED BY <1>4, <1>5 DEF PairsInStep

\* The first of two timers that end a yellow leaves its partner one that is due.
LEMMA FireInStep ==
  ASSUME Inv, PairsInStep, NEW t \in Timers, OnTimerFires(t)
  PROVE  PairsInStep'
<1> DEFINE f == target[t]
<1>1. f \in Lights /\ timer[f] = t /\ state[f] = Yellow /\ due[t] = 0 /\ split' = split
      BY DEF OnTimerFires, TimeIsUp, Inv, ScheduledIsHeld, TypeOK
<1>2. CASE TimeIsUp(f)
      <2>1. age[f] = 2 * TicksPerSecond
            BY <1>1, <1>2, TicksAssumption DEF TimeIsUp, Inv, TypeOK, Countdown
      <2>2. /\ state'[f] = Red
            /\ \A l \in Lights \ {f} : state'[l] = state[l] /\ age'[l] = age[l]
            BY <1>1, <1>2 DEF OnTimerFires, Inv, TypeOK
      <2>3. ASSUME NEW l \in Lights \ split
            PROVE  InStep(l, Partner(l))'
            <3>1. /\ InStep(l, Partner(l)) /\ Partner(l) \in Lights /\ Partner(l) # l
                  BY <2>3, PartnerIsLight DEF PairsInStep
            <3>2. CASE l = f
                  BY <1>1, <2>1, <2>2, <3>1, <3>2 DEF InStep, Red, Yellow
            <3>3. CASE Partner(l) = f
                  BY <1>1, <2>1, <2>2, <3>1, <3>3 DEF InStep, Red, Yellow
            <3>4. CASE l # f /\ Partner(l) # f
                  BY <2>2, <3>1, <3>4 DEF InStep
            <3>5. QED BY <3>2, <3>3, <3>4
      <2>4. QED BY <1>1, <2>3 DEF PairsInStep
<1>3. CASE ~TimeIsUp(f)
      <2>1. state' = state /\ age' = age
            BY <1>3 DEF OnTimerFires
      <2>2. QED BY <1>1, <2>1 DEF PairsInStep, InStep
<1>4. QED BY <1>2, <1>3

\* Time makes both lights of a pair older, and stands still between two due timers.
LEMMA TickInStep ==
  ASSUME Inv, PairsInStep, Tick
  PROVE  PairsInStep'
<1>1. /\ state' = state /\ split' = split
      /\ age' = [l \in Lights |-> IF state[l] = Yellow THEN age[l] + 1 ELSE age[l]]
      BY DEF Tick
<1>2. \A l \in Lights : ~(state[l] = Yellow /\ age[l] = 2 * TicksPerSecond)
      BY OldIsDue DEF Tick
<1>3. ASSUME NEW l \in Lights \ split
      PROVE  InStep(l, Partner(l))'
      <2>1. InStep(l, Partner(l)) /\ Partner(l) \in Lights
            BY PartnerIsLight DEF PairsInStep
      <2>2. state[l] = state[Partner(l)] /\ (state[l] = Yellow => age[l] = age[Partner(l)])
            BY <1>2, <2>1 DEF InStep
      <2>3. QED BY <1>1, <2>1, <2>2 DEF InStep
<1>4. QED BY <1>1, <1>3 DEF PairsInStep

\* For any number of pairs and whatever the taps: the lights of a pair show the same
\* colour, but for the instant between their two timers, unless a tap fell in one.
THEOREM Pairs == Spec => []PairsAgree
<1>1. Init => PairsInStep
      <2> SUFFICES ASSUME Init PROVE PairsInStep
          OBVIOUS
      <2>1. \A l \in Lights : InStep(l, Partner(l))
            BY PartnerIsLight DEF Init, InStep, Red, Yellow
      <2>2. QED BY <2>1 DEF Init, PairsInStep
<1>2. Inv /\ PairsInStep /\ [Next]_vars => PairsInStep'
      <2> SUFFICES ASSUME Inv, PairsInStep, [Next]_vars PROVE PairsInStep'
          OBVIOUS
      <2>1. CASE UNCHANGED vars
            BY <2>1 DEF vars, PairsInStep, InStep
      <2>2. QED BY <2>1, TapInStep, FireInStep, TickInStep DEF Next
<1>3. Inv /\ PairsInStep => PairsAgree
      <2> SUFFICES ASSUME Inv, PairsInStep, NEW l \in Lights \ split
                   PROVE  \/ state[l] = state[Partner(l)]
                          \/ \E y \in {l, Partner(l)} :
                               /\ state[y] = Yellow /\ state[Partner(y)] = Red
                               /\ due[timer[y]] = 0
          BY DEF PairsAgree
      <2>1. /\ InStep(l, Partner(l)) /\ Partner(l) \in Lights
            /\ Partner(Partner(l)) = l
            BY PartnerIsLight, PartnerOfPartner DEF PairsInStep
      <2>2. QED BY <2>1, OldIsDue DEF InStep
<1>4. QED BY <1>1, <1>2, <1>3, InvHolds, PTL DEF Spec

-----------------------------------------------------------------------------
\* The lights implement the abstract cycle: they start red, and every step of theirs
\* moves some lights, one or two, to their next colours, or none.
THEOREM FollowsCycle == Spec => Cycle!Init /\ [][Cycle!Next]_state
<1>1. Init => Cycle!Init
      BY DEF Init, Cycle!Init, Red, Cycle!Red
<1>2. Inv /\ [Next]_vars => [Cycle!Next]_state
      <2> SUFFICES ASSUME Inv, Next, state' # state PROVE Cycle!Next
          BY DEF vars
      <2>1. ASSUME NEW some \in SUBSET Lights,
                   state' = [l \in Lights |-> IF l \in some THEN Cycle!After(state[l]) ELSE state[l]]
            PROVE  Cycle!Next
            <3>1. some # {}
                  BY <2>1 DEF Inv, TypeOK
            <3>2. QED BY <2>1, <3>1 DEF Cycle!Next, Cycle!Change
      <2>2. ASSUME NEW k \in Lights, HandleTap(k)
            PROVE  Cycle!Next
            <3> DEFINE some == {l \in {k, Partner(k)} : state[l] # Yellow}
            <3>1. some \in SUBSET Lights
                  BY PartnerIsLight
            <3>2. \A l \in Lights :
                    state'[l] = IF l \in some THEN Cycle!After(state[l]) ELSE state[l]
                  BY <2>2 DEF HandleTap, ChangeState, Tapped, Cycle!After, Cycle!Red, Cycle!Yellow,
                              Cycle!Green, Red, Yellow, Green, Inv, TypeOK
            <3>3. state' = [l \in Lights |-> state'[l]]
                  BY <2>2 DEF HandleTap, ChangeState
            <3> HIDE DEF some
            <3>4. QED BY <2>1, <3>1, <3>2, <3>3
      <2>3. ASSUME NEW t \in Timers, OnTimerFires(t)
            PROVE  Cycle!Next
            <3> DEFINE some == {target[t]}
            <3>1. target[t] \in Lights /\ state[target[t]] = Yellow
                  BY <2>3 DEF OnTimerFires, TimeIsUp, Inv, ScheduledIsHeld, TypeOK
            <3>2. state' = [state EXCEPT ![target[t]] = Red]
                  BY <2>3 DEF OnTimerFires
            <3>3. Cycle!After(Yellow) = Red
                  BY DEF Cycle!After, Cycle!Red, Cycle!Yellow, Cycle!Green, Red, Yellow
            <3>4. state' = [l \in Lights |-> IF l \in some THEN Red ELSE state[l]]
                  BY <3>1, <3>2 DEF Inv, TypeOK
            <3>5. state' = [l \in Lights |-> IF l \in some THEN Cycle!After(state[l]) ELSE state[l]]
                  BY <3>1, <3>3, <3>4
            <3>6. QED BY <2>1, <3>1, <3>5
      <2>4. CASE Tick
            BY <2>4 DEF Tick
      <2>5. QED BY <2>2, <2>3, <2>4 DEF Next
<1>3. QED BY <1>1, <1>2, InvHolds, PTL DEF Spec
=============================================================================
