----------------------------- MODULE GameProofs ------------------------------
(***************************************************************************)
(* Theorems about the whole game: its cars are those of Traffic, its       *)
(* lights those of Signals, and what is proved of each alone holds of the  *)
(* two together, on any grid and for any choice of the lights ever tapped. *)
(***************************************************************************)
EXTENDS Game, TLAPS

Proved == INSTANCE SignalsProofs WITH NumLights <- 4 * Len(IntersectionArray)

(***************************************************************************)
(* The cars.                                                               *)
(***************************************************************************)
\* A visit that reads the real light is one that Traffic allows, and the main thread
\* touches no car: so everything proved of Traffic's behaviours holds in the game.
THEOREM GameIsTraffic == GameSpec => Spec
<1>1. GameInit => Init
      BY DEF GameInit
<1>2. [GameNext]_gameVars => [Next]_vars
      <2>1. ASSUME NEW c \in CarId, LookAndMove(c) PROVE Next
            BY <2>1 DEF LookAndMove, GoOn, Next, Visit
      <2>2. BetweenVisits => Next
            BY DEF BetweenVisits, Next
      <2>3. MainThread => UNCHANGED vars
            BY DEF MainThread, Tap, Fire, Tick
      <2>4. UNCHANGED gameVars => UNCHANGED vars
            BY DEF gameVars
      <2>5. QED BY <2>1, <2>2, <2>3, <2>4 DEF GameNext, RenderThread
<1>3. QED BY <1>1, <1>2, PTL DEF GameSpec, Spec

(***************************************************************************)
(* The lights.                                                             *)
(***************************************************************************)
\* There are four lights to each place of the array.
LEMMA LightsOfArray ==
  /\ Len(IntersectionArray) \in Nat
  /\ 4 * Len(IntersectionArray) \in Nat /\ (4 * Len(IntersectionArray)) % 2 = 0
<1>1. Len(IntersectionArray) \in Nat
      BY ArrayAssumption
<1>2. QED BY <1>1

\* The game's lights behave as those of Signals.
LEMMA GameIsSignals == GameSpec => Proved!Spec
<1>1. GameInit => Proved!Init
      BY DEF GameInit, Signal!Init, Proved!Init, Signal!Lights, Proved!Lights, Signal!Red, Proved!Red,
             Signal!NoLight, Proved!NoLight
<1>2. [GameNext]_gameVars => [Proved!Next]_(Proved!vars)
      <2>1. ASSUME NEW l \in TappedLights, Tap(l) PROVE Proved!Next
            <3>1. l \in Proved!Lights
                  BY TapsAssumption DEF Proved!Lights
            <3>2. Proved!HandleTap(l)
                  BY <2>1
                  DEF Tap, Signal!HandleTap, Proved!HandleTap, Signal!Partner, Proved!Partner,
                      Signal!Greens, Proved!Greens, Signal!Green, Proved!Green, Signal!Idle, Proved!Idle,
                      Signal!NoLight, Proved!NoLight, Signal!ChangeState, Proved!ChangeState,
                      Signal!Lights, Proved!Lights, Signal!Tapped, Proved!Tapped, Signal!Red, Proved!Red,
                      Signal!Yellow, Proved!Yellow, Signal!Schedule, Proved!Schedule
            <3>3. QED BY <3>1, <3>2 DEF Proved!Next
      <2>2. ASSUME NEW t \in Timers, Fire(t) PROVE Proved!Next
            <3>1. Proved!OnTimerFires(t)
                  BY <2>2
                  DEF Fire, Signal!OnTimerFires, Proved!OnTimerFires, Signal!TimeIsUp, Proved!TimeIsUp,
                      Signal!NoLight, Proved!NoLight, Signal!Red, Proved!Red
            <3>2. QED BY <3>1 DEF Proved!Next
      <2>3. Tick => Proved!Next
            BY DEF Tick, Signal!Tick, Proved!Next, Proved!Tick, Signal!NoLight, Proved!NoLight,
                   Signal!Lights, Proved!Lights, Signal!Yellow, Proved!Yellow
      <2>4. RenderThread \/ UNCHANGED gameVars => UNCHANGED Proved!vars
            BY DEF RenderThread, BetweenVisits, LookAndMove, gameVars, lightVars, Proved!vars
      <2>5. QED BY <2>1, <2>2, <2>3, <2>4 DEF GameNext, MainThread
<1>3. QED BY <1>1, <1>2, PTL DEF GameSpec, Proved!Spec

\* The assumptions of Signals hold of the game.
LEMMA SignalsAssumptions ==
  Proved!LightsAssumption /\ Proved!TicksAssumption /\ Proved!TimersAssumption
BY LightsOfArray, ClockAssumption
   DEF Proved!LightsAssumption, Proved!TicksAssumption, Proved!TimersAssumption

\* So what is proved of them holds in the game.
LEMMA SignalsInGame == GameSpec => [](Proved!PairsAgree /\ Proved!OneTimerPerYellow)
<1>1. Proved!Spec => []Proved!PairsAgree
      BY Proved!Pairs, SignalsAssumptions
<1>2. Proved!Spec => []Proved!OneTimerPerYellow
      BY Proved!OneTimer, SignalsAssumptions
<1>3. QED BY <1>1, <1>2, GameIsSignals, PTL

\* The lights of opposite streets at an intersection have neighbouring numbers, an even
\* one and the next.
LEMMA OppositeIsPartner ==
  ASSUME NEW k \in Intersections, NEW d \in Dirs
  PROVE  /\ LightAt(k, d) \in Proved!Lights
         /\ LightAt(k, Opposite(d)) = Proved!Partner(LightAt(k, d))
<1> DEFINE i == CHOOSE j \in 1..Len(IntersectionArray) : IntersectionArray[j] = k
<1>1. \E j \in 1..Len(IntersectionArray) : IntersectionArray[j] = k
      BY ArrayAssumption
<1>2. i \in 1..Len(IntersectionArray)
      BY <1>1
<1>3. Place(k) = i - 1
      BY DEF Place
<1> HIDE DEF i
<1>4. Place(k) \in Nat /\ Place(k) < Len(IntersectionArray)
      BY <1>2, <1>3, LightsOfArray
<1>5. \A n \in Nat : (4 * n) % 2 = 0 /\ (4 * n + 1) % 2 = 1 /\ (4 * n + 2) % 2 = 0 /\ (4 * n + 3) % 2 = 1
      OBVIOUS
<1>6. d \in {0, 1, 2, 3}
      BY DEF Dirs
<1>7. LightAt(k, d) \in Proved!Lights
      BY <1>4, <1>6, LightsOfArray DEF LightAt, Proved!Lights
<1>8. LightAt(k, Opposite(d)) = Proved!Partner(LightAt(k, d))
      BY <1>4, <1>5, <1>6 DEF LightAt, Proved!Partner, Opposite, Left, Right, Down, Up
<1>9. QED BY <1>7, <1>8

\* A tap on any light of an intersection switches the light of the opposite street with
\* it, so the two agree, but for the instant between their timers and for a pair that
\* was tapped in such an instant.
THEOREM OppositeAgree == GameSpec => []OppositeStreetsAgree
<1>1. Proved!PairsAgree /\ Proved!OneTimerPerYellow => OppositeStreetsAgree
      <2> SUFFICES ASSUME Proved!PairsAgree, Proved!OneTimerPerYellow,
                          NEW k \in Intersections, NEW d \in Dirs
                   PROVE  LET l == LightAt(k, d)
                              m == LightAt(k, Opposite(d))
                          IN \/ state[l] = state[m]
                             \/ l \in split
                             \/ \E t \in Timers : target[t] \in {l, m} /\ due[t] = 0
          BY DEF OppositeStreetsAgree
      <2> DEFINE l == LightAt(k, d)
                 m == LightAt(k, Opposite(d))
      <2>1. l \in Proved!Lights /\ m = Proved!Partner(l)
            BY OppositeIsPartner
      <2>2. Opposite(d) \in Dirs
            BY DEF Dirs, Opposite, Left, Right, Down, Up
      <2>3. m \in Proved!Lights
            BY <2>2, OppositeIsPartner
      <2> HIDE DEF l, m
      <2>4. ASSUME NEW y \in {l, m}, state[y] = Proved!Yellow, due[timer[y]] = 0
            PROVE  \E t \in Timers : target[t] \in {l, m} /\ due[t] = 0
            <3>1. {t \in Timers : target[t] = y} = {timer[y]}
                  BY <2>1, <2>3, <2>4 DEF Proved!OneTimerPerYellow
            <3>2. timer[y] \in Timers /\ target[timer[y]] = y
                  BY <3>1
            <3>3. QED BY <2>4, <3>2
      <2>5. l \notin split => state[l] = state[m] \/ \E y \in {l, m} : state[y] = Proved!Yellow /\ due[timer[y]] = 0
            BY <2>1 DEF Proved!PairsAgree
      <2>6. QED BY <2>4, <2>5 DEF l, m
<1>2. QED BY <1>1, SignalsInGame, PTL
==============================================================================
