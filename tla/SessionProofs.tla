--------------------------- MODULE SessionProofs ----------------------------
(***************************************************************************)
(* Theorems about the game's clock, for any length of the game, any        *)
(* resolution of time and any number of pauses and collisions.             *)
(***************************************************************************)
EXTENDS Session, TLAPS

(***************************************************************************)
(* The inductive invariant.  OneClock needs that the thread in             *)
(* gameOverScreen holds the clock it is about to stop, that a game that    *)
(* was not ended still has time left, and ClockIsHonest how far the        *)
(* running timer has come in its second.                                   *)
(***************************************************************************)
\* A pause leaves a name for the timer of its end.
TimerToCome == paused => made < MaxTimers

HoldsTheClock ==
  ~crossed /\ GameGoesOn /\ ~paused =>
    /\ timer # NoTimer
    /\ pc = "invalidate" => held = timer

TimeIsLeft == ~crossed => timeLeft >= 0 /\ (~pending /\ ~overShown => timeLeft > 0)

Passed(t) == TicksPerSecond - due[t]   \* of the second that timer t counts

Counted ==
  ~crossed =>
    LET ticks == (StartTime - timeLeft) * TicksPerSecond
        most  == (StartTime - timeLeft + made) * TicksPerSecond
    IN IF GameGoesOn /\ ~paused
       THEN ticks + Passed(timer) =< played /\ played =< most - due[timer]
       ELSE ticks =< played /\ (GameGoesOn => played =< most)

Inv == TypeOK /\ TimerToCome /\ OneClock /\ HoldsTheClock /\ TimeIsLeft /\ Counted

-----------------------------------------------------------------------------
\* A second more, in ticks.
LEMMA OneSecondMore ==
  ASSUME NEW n \in Int
  PROVE  /\ n * TicksPerSecond \in Int
         /\ (n + 1) * TicksPerSecond = n * TicksPerSecond + TicksPerSecond
BY TimeAssumption, SMT

LEMMA InitInv == Init => Inv
<1> SUFFICES ASSUME Init PROVE Inv
    OBVIOUS
<1>1. TypeOK
  <2>1. 1 \in TimerId /\ {1} \subseteq 1..1
        BY BoundsAssumption DEF TimerId
  <2>2. timeLeft \in (-Overtime)..StartTime /\ timeLeft >= 0
        BY TimeAssumption, BoundsAssumption DEF Init
  <2>3. due \in [TimerId -> 0..TicksPerSecond]
        BY TimeAssumption DEF Init
  <2>4. contacts \in 0..MaxContacts /\ played \in Nat
        BY BoundsAssumption DEF Init
  <2>5. QED BY <2>1, <2>2, <2>3, <2>4 DEF Init, TypeOK
<1>2. TimerToCome /\ OneClock /\ HoldsTheClock /\ TimeIsLeft
      BY TimeAssumption DEF Init, TimerToCome, OneClock, HoldsTheClock, TimeIsLeft, GameGoesOn, NoTimer
<1>3. Counted
  <2>1. GameGoesOn /\ ~paused /\ timer = 1 /\ due[timer] = TicksPerSecond
        BY BoundsAssumption DEF Init, GameGoesOn, TimerId
  <2>2. (StartTime - timeLeft) * TicksPerSecond = 0
        BY TimeAssumption DEF Init
  <2>3. (StartTime - timeLeft + made) * TicksPerSecond = TicksPerSecond
        BY TimeAssumption DEF Init
  <2>4. QED BY <2>1, <2>2, <2>3, TimeAssumption DEF Init, Counted, Passed
<1>4. QED BY <1>1, <1>2, <1>3 DEF Inv

\* A timer fires: it is the clock, and the game goes on.
LEMMA FiresInv ==
  ASSUME Inv, NEW t \in TimerId, OnTimerFires(t)
  PROVE  Inv'
<1>1. TypeOK' /\ TimerToCome'
  <2>1. timeLeft' \in (-Overtime)..StartTime
        BY TimeAssumption, BoundsAssumption DEF Inv, TypeOK, OnTimerFires, CountedDown
  <2>2. crossed \/ timeLeft' >= 0
        BY DEF Inv, TypeOK, OnTimerFires, CountedDown, OneClock, TimeIsLeft, GameGoesOn
  <2>3. /\ running' \subseteq 1..made /\ due' \in [TimerId -> 0..TicksPerSecond]
        /\ timer' \in TimerId \cup {NoTimer} /\ pending' \in BOOLEAN
        BY TimeAssumption DEF Inv, TypeOK, OnTimerFires, Invalidated, TimeIsUp
  <2>4. QED BY <2>1, <2>2, <2>3 DEF Inv, TypeOK, TimerToCome, OnTimerFires
<1>2. CASE crossed
      BY <1>1, <1>2 DEF OnTimerFires, Inv, OneClock, HoldsTheClock, TimeIsLeft, Counted
<1>3. CASE ~crossed
  <2>1. GameGoesOn /\ ~paused /\ t = timer /\ running = {timer} /\ timeLeft > 0 /\ due[timer] = 0
        BY <1>3 DEF Inv, OneClock, OnTimerFires, TimeIsLeft, GameGoesOn
  <2>2. timeLeft \in Int /\ due \in [TimerId -> Int] /\ timer \in TimerId /\ timeLeft' = timeLeft - 1
        BY <2>1, TimeAssumption, BoundsAssumption DEF Inv, TypeOK, OnTimerFires, CountedDown
  <2> DEFINE s == StartTime - timeLeft
  <2>3. /\ s \in Int /\ StartTime - timeLeft' = s + 1 /\ s + made \in Int
        /\ StartTime - timeLeft' + made = (s + made) + 1
        BY <2>2, TimeAssumption, BoundsAssumption DEF Inv, TypeOK, OnTimerFires, TimerId
  <2> HIDE DEF s
  <2>4. /\ s * TicksPerSecond + TicksPerSecond =< played
        /\ played =< (s + made) * TicksPerSecond
    <3>1. /\ s * TicksPerSecond + (TicksPerSecond - 0) =< played
          /\ played =< (s + made) * TicksPerSecond - 0
          BY <1>3, <2>1 DEF Inv, Counted, Passed, s
    <3>2. QED BY <3>1, <2>3, OneSecondMore, TimeAssumption
  <2>5. /\ (s + 1) * TicksPerSecond =< played
        /\ played =< ((s + made) + 1) * TicksPerSecond - TicksPerSecond
        BY <2>3, <2>4, OneSecondMore, TimeAssumption DEF Inv, TypeOK
  <2>6. played' = played /\ made' = made /\ ~crossed' /\ paused' = paused /\ overShown' = overShown
        /\ pc' = pc /\ held' = held
        BY <1>3 DEF OnTimerFires
  <2>7. CASE timeLeft - 1 =< 0
    <3>1. running' = {} /\ pending' /\ ~GameGoesOn'
          BY <2>1, <2>7 DEF OnTimerFires, TimeIsUp, Invalidated, GameGoesOn
    <3>2. Counted'
          BY <2>3, <2>5, <2>6, <3>1 DEF Counted
    <3>3. OneClock' /\ HoldsTheClock' /\ TimeIsLeft'
          BY <2>1, <2>2, <3>1 DEF OneClock, HoldsTheClock, TimeIsLeft
    <3>4. QED BY <1>1, <3>2, <3>3 DEF Inv
  <2>8. CASE ~(timeLeft - 1 =< 0)
    <3>1. running' = running /\ timer' = timer /\ pending' = pending /\ GameGoesOn' = GameGoesOn
          BY <2>6, <2>8 DEF OnTimerFires, TimeIsUp, GameGoesOn, Inv, TypeOK
    <3>2. due'[timer'] = TicksPerSecond
          BY <2>1, <2>2, <3>1 DEF OnTimerFires
    <3>3. Counted'
      <4>1. Passed(timer)' = 0
            BY <3>2, TimeAssumption DEF Passed
      <4>2. ((s + made) + 1) * TicksPerSecond \in Int /\ (s + 1) * TicksPerSecond \in Int
            BY <2>3, OneSecondMore
      <4>3. QED BY <2>1, <2>3, <2>5, <2>6, <3>1, <3>2, <4>1, <4>2 DEF Counted
    <3>4. OneClock' /\ HoldsTheClock' /\ TimeIsLeft'
          BY <1>3, <2>1, <2>2, <2>6, <2>8, <3>1 DEF Inv, OneClock, HoldsTheClock, TimeIsLeft
    <3>5. QED BY <1>1, <3>3, <3>4 DEF Inv
  <2>9. QED BY <2>7, <2>8
<1>4. QED BY <1>2, <1>3 DEF Inv, TypeOK

LEMMA PauseInv == Inv /\ PauseGame => Inv'
<1> SUFFICES ASSUME Inv, PauseGame PROVE Inv'
    OBVIOUS
<1>1. TypeOK' /\ TimerToCome'
      BY DEF Inv, TypeOK, PauseGame, Invalidated, TimerToCome
<1>2. OneClock'
      BY DEF Inv, OneClock, PauseGame, Invalidated, GameGoesOn
<1>3. HoldsTheClock' /\ TimeIsLeft'
      BY DEF Inv, HoldsTheClock, TimeIsLeft, PauseGame
<1>4. Counted'
  <2>1. CASE ~crossed /\ GameGoesOn
    <3>1. timer \in TimerId /\ due[timer] \in 0..TicksPerSecond /\ GameGoesOn'
          BY <2>1 DEF Inv, HoldsTheClock, TypeOK, PauseGame, GameGoesOn
    <3> DEFINE a == (StartTime - timeLeft) * TicksPerSecond
               b == (StartTime - timeLeft + made) * TicksPerSecond
    <3>2. a + (TicksPerSecond - due[timer]) =< played /\ played =< b - due[timer]
          BY <2>1 DEF Inv, Counted, Passed, PauseGame
    <3>3. a \in Int /\ b \in Int /\ played \in Int
          BY TimeAssumption, BoundsAssumption, OneSecondMore DEF Inv, TypeOK, TimerId
    <3> HIDE DEF a, b
    <3>4. a =< played /\ played =< b
          BY <3>1, <3>2, <3>3, TimeAssumption
    <3>5. QED BY <3>4 DEF a, b, Counted, PauseGame
  <2>2. CASE crossed \/ ~GameGoesOn
        BY <2>2 DEF Inv, Counted, PauseGame, GameGoesOn
  <2>3. QED BY <2>1, <2>2
<1>5. QED BY <1>1, <1>2, <1>3, <1>4 DEF Inv

LEMMA ResumeInv == Inv /\ ResumeGame => Inv'
<1> SUFFICES ASSUME Inv, ResumeGame PROVE Inv'
    OBVIOUS
<1>1. made' = made + 1 /\ made' \in TimerId /\ made \in TimerId
      BY BoundsAssumption DEF Inv, TimerToCome, TypeOK, TimerId, ResumeGame
<1>2. TypeOK' /\ TimerToCome'
  <2>1. running' \subseteq 1..made'
        BY <1>1 DEF Inv, TypeOK, ResumeGame, Scheduled, TimerId
  <2>2. due' \in [TimerId -> 0..TicksPerSecond] /\ crossed' \in BOOLEAN
        BY <1>1, TimeAssumption DEF Inv, TypeOK, ResumeGame
  <2>3. crossed' \/ timeLeft' >= 0
        BY DEF Inv, TypeOK, ResumeGame
  <2>4. QED BY <1>1, <2>1, <2>2, <2>3 DEF Inv, TypeOK, ResumeGame, TimerToCome
<1>3. CASE crossed'
      BY <1>2, <1>3 DEF Inv, OneClock, HoldsTheClock, TimeIsLeft, Counted
<1>4. CASE ~crossed'
  <2>1. /\ ~crossed /\ pc \in {"idle", "load"} /\ ~pending /\ ~overShown /\ paused
        /\ GameGoesOn /\ GameGoesOn'
        BY <1>4 DEF Inv, TypeOK, ResumeGame, EndHasBegun, GameGoesOn
  <2>2. running' = {made'} /\ timer' = made' /\ ~paused' /\ pc' = pc /\ due'[made'] = TicksPerSecond
        BY <1>1, <2>1 DEF Inv, OneClock, ResumeGame, Scheduled, TypeOK
  <2>3. OneClock' /\ HoldsTheClock' /\ TimeIsLeft'
        BY <1>1, <2>1, <2>2 DEF Inv, OneClock, HoldsTheClock, TimeIsLeft, ResumeGame, NoTimer, TimerId
  <2>4. Counted'
    <3> DEFINE s == StartTime - timeLeft
    <3>1. s \in Int /\ s + made \in Int /\ StartTime - timeLeft' = s
          /\ StartTime - timeLeft' + made' = (s + made) + 1
          BY <1>1, TimeAssumption, BoundsAssumption DEF Inv, TypeOK, ResumeGame, TimerId
    <3>2. s * TicksPerSecond =< played /\ played =< (s + made) * TicksPerSecond
          BY <2>1 DEF Inv, Counted
    <3> HIDE DEF s
    <3>3. /\ s * TicksPerSecond + 0 =< played
          /\ played =< ((s + made) + 1) * TicksPerSecond - TicksPerSecond
          BY <3>1, <3>2, OneSecondMore, TimeAssumption DEF Inv, TypeOK
    <3>4. Passed(timer)' = 0 /\ due'[timer'] = TicksPerSecond /\ played' = played
          BY <2>2, TimeAssumption DEF Passed, ResumeGame
    <3>5. QED BY <2>1, <2>2, <3>1, <3>3, <3>4 DEF Counted
  <2>5. QED BY <1>2, <2>3, <2>4 DEF Inv
<1>5. QED BY <1>3, <1>4

LEMMA TickInv == Inv /\ Tick => Inv'
<1> SUFFICES ASSUME Inv, Tick PROVE Inv'
    OBVIOUS
<1>1. TypeOK' /\ TimerToCome'
  <2>1. due' \in [TimerId -> 0..TicksPerSecond] /\ played' \in Nat
    <3>1. ASSUME NEW t \in TimerId
          PROVE  (IF t \in running THEN due[t] - 1 ELSE due[t]) \in 0..TicksPerSecond
      <4>1. due[t] \in 0..TicksPerSecond /\ (t \in running => due[t] > 0)
            BY DEF Inv, TypeOK, Tick
      <4>2. QED BY <4>1, TimeAssumption
    <3>2. played' \in Nat
          BY DEF Inv, TypeOK, Tick
    <3>3. QED BY <3>1, <3>2 DEF Tick
  <2>2. QED BY <2>1 DEF Inv, TypeOK, Tick, TimerToCome
<1>2. OneClock' /\ HoldsTheClock' /\ TimeIsLeft'
      BY DEF Inv, OneClock, HoldsTheClock, TimeIsLeft, GameGoesOn, Tick
<1>3. Counted'
  <2>1. CASE crossed
        BY <2>1 DEF Counted, Tick
  <2>2. CASE ~crossed
    <3>1. GameGoesOn /\ ~paused /\ running = {timer} /\ GameGoesOn' = GameGoesOn /\ ~overShown
          BY <2>2 DEF Inv, OneClock, Tick, GameGoesOn
    <3>2. timer \in TimerId /\ due[timer] \in Int /\ due'[timer] = due[timer] - 1 /\ timer' = timer
          BY <2>2, <3>1 DEF Inv, TypeOK, HoldsTheClock, Tick
    <3> DEFINE a == (StartTime - timeLeft) * TicksPerSecond
               b == (StartTime - timeLeft + made) * TicksPerSecond
    <3>3. a + (TicksPerSecond - due[timer]) =< played /\ played =< b - due[timer]
          BY <2>2, <3>1 DEF Inv, Counted, Passed
    <3>4. a \in Int /\ b \in Int /\ played \in Int
          BY TimeAssumption, BoundsAssumption, OneSecondMore DEF Inv, TypeOK, TimerId
    <3>5. played' = played + 1 /\ timeLeft' = timeLeft /\ made' = made /\ paused' = paused
          BY <2>2, <3>1 DEF Tick
    <3> HIDE DEF a, b
    <3>6. a + (TicksPerSecond - due'[timer]) =< played' /\ played' =< b - due'[timer]
          BY <3>2, <3>3, <3>4, <3>5, TimeAssumption
    <3>7. QED BY <3>1, <3>2, <3>5, <3>6 DEF a, b, Counted, Passed
  <2>3. QED BY <2>1, <2>2 DEF Inv, TypeOK
<1>4. QED BY <1>1, <1>2, <1>3 DEF Inv

\* The steps that end the game, on either thread, leave the time left as it is.
LEMMA EndingInv ==
  ASSUME Inv, ShowGameOver \/ DidBegin \/ GameOverScreen
  PROVE  Inv'
<1>1. CASE ShowGameOver
  <2>1. TypeOK' /\ TimerToCome' /\ ~GameGoesOn' /\ ~GameGoesOn
        BY <1>1 DEF Inv, TypeOK, TimerToCome, ShowGameOver, GameGoesOn
  <2>2. QED BY <1>1, <2>1 DEF Inv, OneClock, HoldsTheClock, TimeIsLeft, Counted, ShowGameOver
<1>2. CASE DidBegin
  <2>1. TypeOK' /\ TimerToCome' /\ (GameGoesOn' <=> GameGoesOn)
        BY <1>2, BoundsAssumption DEF Inv, TypeOK, TimerToCome, DidBegin, GameGoesOn
  <2>2. QED BY <1>2, <2>1 DEF Inv, OneClock, HoldsTheClock, TimeIsLeft, Counted, Passed, DidBegin
<1>3. CASE LoadTimer
  <2>1. TypeOK' /\ TimerToCome' /\ (GameGoesOn' <=> GameGoesOn)
        BY <1>3 DEF Inv, TypeOK, TimerToCome, LoadTimer, GameGoesOn
  <2>2. QED BY <1>3, <2>1 DEF Inv, OneClock, HoldsTheClock, TimeIsLeft, Counted, Passed, LoadTimer
<1>4. CASE InvalidateTimer
  <2>1. TypeOK' /\ TimerToCome' /\ ~GameGoesOn'
        BY <1>4 DEF Inv, TypeOK, TimerToCome, InvalidateTimer, Invalidated, GameGoesOn
  <2>2. ~crossed => running' = {}
        BY <1>4 DEF Inv, OneClock, HoldsTheClock, InvalidateTimer, Invalidated
  <2>3. ~crossed => (StartTime - timeLeft) * TicksPerSecond =< played
    <3>1. CASE ~crossed /\ GameGoesOn /\ ~paused
      <4>1. timer \in TimerId /\ due[timer] \in 0..TicksPerSecond
            BY <3>1 DEF Inv, TypeOK, HoldsTheClock
      <4> DEFINE a == (StartTime - timeLeft) * TicksPerSecond
      <4>2. a + (TicksPerSecond - due[timer]) =< played
            BY <3>1 DEF Inv, Counted, Passed
      <4>3. a \in Int /\ played \in Int
            BY TimeAssumption, OneSecondMore DEF Inv, TypeOK
      <4> HIDE DEF a
      <4>4. a =< played
            BY <4>1, <4>2, <4>3, TimeAssumption
      <4>5. QED BY <4>4 DEF a
    <3>2. CASE ~crossed /\ ~(GameGoesOn /\ ~paused)
          BY <3>2 DEF Inv, Counted
    <3>3. QED BY <3>1, <3>2
  <2>4. QED BY <1>4, <2>1, <2>2, <2>3 DEF Inv, OneClock, HoldsTheClock, TimeIsLeft, Counted, InvalidateTimer
<1>5. CASE ClearTimer
  <2>1. TypeOK' /\ TimerToCome' /\ ~GameGoesOn' /\ ~GameGoesOn
        BY <1>5 DEF Inv, TypeOK, TimerToCome, ClearTimer, GameGoesOn
  <2>2. QED BY <1>5, <2>1 DEF Inv, OneClock, HoldsTheClock, TimeIsLeft, Counted, ClearTimer
<1>6. CASE Dispatch
  <2>1. TypeOK' /\ TimerToCome' /\ ~GameGoesOn' /\ ~GameGoesOn
        BY <1>6 DEF Inv, TypeOK, TimerToCome, Dispatch, GameGoesOn
  <2>2. QED BY <1>6, <2>1 DEF Inv, OneClock, HoldsTheClock, TimeIsLeft, Counted, Dispatch
<1>7. QED BY <1>1, <1>2, <1>3, <1>4, <1>5, <1>6 DEF GameOverScreen

LEMMA NextInv == Inv /\ [Next]_vars => Inv'
<1> SUFFICES ASSUME Inv, [Next]_vars PROVE Inv'
    OBVIOUS
<1>1. ASSUME NEW t \in TimerId, OnTimerFires(t) PROVE Inv'
      BY <1>1, FiresInv
<1>2. CASE PauseGame \/ ResumeGame \/ Tick
      BY <1>2, PauseInv, ResumeInv, TickInv
<1>3. CASE ShowGameOver \/ DidBegin \/ GameOverScreen
      BY <1>3, EndingInv
<1>4. CASE RestartGame \/ UNCHANGED vars
  <2>1. UNCHANGED vars
        BY <1>4 DEF RestartGame
  <2>2. TypeOK' /\ TimerToCome'
        BY <2>1 DEF vars, Inv, TypeOK, TimerToCome
  <2>3. OneClock' /\ HoldsTheClock' /\ TimeIsLeft' /\ (GameGoesOn' <=> GameGoesOn)
        BY <2>1 DEF vars, Inv, OneClock, HoldsTheClock, TimeIsLeft, GameGoesOn
  <2>4. Counted'
        BY <2>1, <2>3 DEF vars, Inv, Counted, Passed
  <2>5. QED BY <2>2, <2>3, <2>4 DEF Inv
<1>5. QED BY <1>1, <1>2, <1>3, <1>4 DEF Next

LEMMA Invariance == Spec => []Inv
BY InitInv, NextInv, PTL DEF Spec

\* The clock's state keeps its types and does not go below zero (onTimerFires).
THEOREM TypeCorrect == Spec => []TypeOK
<1>1. Inv => TypeOK
      BY DEF Inv
<1>2. QED BY <1>1, Invariance, PTL

\* Exactly one timer runs while the game goes on and none while it is paused or over,
\* but for a resume after its end has begun.
THEOREM ClockIsAlone == Spec => []OneClock
<1>1. Inv => OneClock
      BY DEF Inv
<1>2. QED BY <1>1, Invariance, PTL

\* What the clock has taken off has been played, and each pause costs it less than a
\* second (resumeGame), but for a resume after its end has begun.
THEOREM Honest == Spec => []ClockIsHonest
<1>1. Inv => ClockIsHonest
  <2> SUFFICES ASSUME Inv, ~crossed
               PROVE  LET seconds == StartTime - timeLeft IN
                        /\ seconds * TicksPerSecond =< played
                        /\ running # {} => played =< (seconds + made) * TicksPerSecond
      BY DEF ClockIsHonest
  <2> DEFINE a == (StartTime - timeLeft) * TicksPerSecond
             b == (StartTime - timeLeft + made) * TicksPerSecond
  <2>1. a \in Int /\ b \in Int /\ played \in Int
        BY TimeAssumption, BoundsAssumption, OneSecondMore DEF Inv, TypeOK, TimerId
  <2>2. CASE GameGoesOn /\ ~paused
    <3>1. due[timer] \in 0..TicksPerSecond
          BY <2>2 DEF Inv, TypeOK, HoldsTheClock
    <3>2. a + (TicksPerSecond - due[timer]) =< played /\ played =< b - due[timer]
          BY <2>2 DEF Inv, Counted, Passed
    <3> HIDE DEF a, b
    <3>3. a =< played /\ played =< b
          BY <2>1, <3>1, <3>2, TimeAssumption
    <3>4. QED BY <3>3 DEF a, b
  <2>3. CASE ~(GameGoesOn /\ ~paused)
        BY <2>3 DEF Inv, OneClock, Counted
  <2>4. QED BY <2>2, <2>3
<1>2. QED BY <1>1, Invariance, PTL

=============================================================================
