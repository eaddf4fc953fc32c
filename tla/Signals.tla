------------------------------ MODULE Signals -------------------------------
(***************************************************************************)
(* The traffic lights, the taps that switch them and their yellow timers.  *)
(* Everything here runs on the main thread: a tap and the firing of one    *)
(* timer are each one run-loop callback, so each is one action.  A Timer   *)
(* is an object of its own that keeps firing once a second until it is     *)
(* invalidated, whether or not the light still refers to it.               *)
(*                                                                         *)
(* Time passes in ticks, TicksPerSecond to the second, so that timers      *)
(* started at different taps run out of step.  The run loop is idle when a *)
(* timer comes due: no time passes before it fires.  Several callbacks may *)
(* be ready at the same instant, and run in any order.                     *)
(***************************************************************************)
EXTENDS Integers, FiniteSets

CONSTANTS
  NumLights,       \* length of lightArray
  TicksPerSecond,  \* resolution of time
  Timers,          \* names for the Timer objects alive at one time (a bound)
  NoTimer          \* the nil of TrafficLight.timer

\* Every intersection has four lights.
ASSUME LightsAssumption == NumLights \in Nat /\ NumLights % 2 = 0
ASSUME TicksAssumption  == TicksPerSecond \in Nat \ {0}
ASSUME TimersAssumption == NoTimer \notin Timers

Lights == 0..(NumLights - 1)    \* a light's index is the name of its node

NoLight == -1

VARIABLES
  state,     \* TrafficLight.state: -1 red, 0 yellow, 1 green
  timeLeft,  \* TrafficLight.timeLeft
  timer,     \* TrafficLight.timer: the Timer the light refers to
  target,    \* target[t]: the light that Timer t calls; NoLight when t is not scheduled
  due,       \* ticks until Timer t fires
  age,       \* history: ticks since the light turned yellow
  split      \* history: lights tapped when just one of their pair was still yellow

vars == <<state, timeLeft, timer, target, due, age, split>>

Red    == -1
Yellow == 0
Green  == 1

\* Mutant: a tap on an odd light does not reach its neighbour.
PartnerOfEven(l) == IF l % 2 = 0 THEN l + 1 ELSE l

\* handleTap switches the light's neighbour with it: 0 with 1, 2 with 3, ...
Partner(l) == IF l % 2 = 0 THEN l + 1 ELSE l - 1

Idle == {t \in Timers : target[t] = NoLight}

Init ==
  /\ state = [l \in Lights |-> Red]
  /\ timeLeft = [l \in Lights |-> 3]
  /\ timer = [l \in Lights |-> NoTimer]
  /\ target = [t \in Timers |-> NoLight]
  /\ due = [t \in Timers |-> 0]
  /\ age = [l \in Lights |-> 0]
  /\ split = {}

(***************************************************************************)
(* changeState of a set of lights: red turns green; green turns yellow and *)
(* starts a timer (given by new); yellow stays.                            *)
(***************************************************************************)
\* Mutant: a tap on a yellow light starts a timer as well.
GreensAndYellows(some) == {l \in some : state[l] # Red}

Greens(some) == {l \in some : state[l] = Green}

\* Mutant: the branches for green and for the other colours are swapped.
TappedNotGreen(l) == IF state[l] = Green THEN Yellow ELSE Green

Tapped(l) == IF state[l] = Red THEN Green ELSE Yellow

\* Mutant: the Timer is made but not put on the run loop (Timer.init).
NotScheduled(turning, new) == target

\* Timer.scheduledTimer for each of the lights.
Schedule(turning, new) ==
  [t \in Timers |-> IF \E l \in turning : new[l] = t
                    THEN CHOOSE l \in turning : new[l] = t ELSE target[t]]

ChangeState(some, new) ==
  LET turning == Greens(some)
      started == {new[l] : l \in turning}
  IN /\ state' = [l \in Lights |->
           IF l \in some THEN Tapped(l) ELSE state[l]]
     /\ timeLeft' = [l \in Lights |-> IF l \in turning THEN 2 ELSE timeLeft[l]]
     /\ timer' = [l \in Lights |-> IF l \in turning THEN new[l] ELSE timer[l]]
     /\ target' = Schedule(turning, new)
     /\ due' = [t \in Timers |-> IF t \in started THEN TicksPerSecond ELSE due[t]]
     /\ age' = [l \in Lights |-> IF l \in turning THEN 0 ELSE age[l]]

\* handleTap on a light.  Both of its calls are made before anything else runs.
HandleTap(l) ==
  LET pair == {l, Partner(l)} IN
  /\ \E new \in [Greens(pair) -> Idle] :   \* bound: a Timer object for each
        /\ \A k, m \in Greens(pair) : k # m => new[k] # new[m]
        /\ ChangeState(pair, new)
  /\ split' = IF (state[l] = Yellow) # (state[Partner(l)] = Yellow)
              THEN split \cup pair ELSE split

(***************************************************************************)
(* onTimerFires of the light that t calls.  At zero the light invalidates  *)
(* the timer it refers to; a timer that is not invalidated repeats.        *)
(***************************************************************************)
\* Mutants: the comparison with zero is off by one, either way.
TimeIsUpLate(l)  == timeLeft[l] - 1 < 0
TimeIsUpEarly(l) == timeLeft[l] - 1 =< 1

TimeIsUp(l) == timeLeft[l] - 1 =< 0

OnTimerFires(t) ==
  LET l == target[t]
      over == TimeIsUp(l)
  IN /\ target[t] # NoLight /\ due[t] = 0
     /\ timeLeft' = [timeLeft EXCEPT ![l] = @ - 1]
     /\ target' = [u \in Timers |-> IF over /\ u = timer[l] THEN NoLight ELSE target[u]]
     /\ timer' = IF over THEN [timer EXCEPT ![l] = NoTimer] ELSE timer
     /\ state' = IF over THEN [state EXCEPT ![l] = Red] ELSE state
     /\ due' = [due EXCEPT ![t] = IF over /\ t = timer[l] THEN 0 ELSE TicksPerSecond]
     /\ age' = IF over THEN [age EXCEPT ![l] = 0] ELSE age
     /\ UNCHANGED split

\* Time passes when no timer is due.
Tick ==
  /\ \E t \in Timers : target[t] # NoLight
  /\ \A t \in Timers : target[t] # NoLight => due[t] > 0
  /\ due' = [t \in Timers |-> IF target[t] # NoLight THEN due[t] - 1 ELSE due[t]]
  /\ age' = [l \in Lights |-> IF state[l] = Yellow THEN age[l] + 1 ELSE age[l]]
  /\ UNCHANGED <<state, timeLeft, timer, target, split>>

Next ==
  \/ \E l \in Lights : HandleTap(l)
  \/ \E t \in Timers : OnTimerFires(t)
  \/ Tick

Spec == Init /\ [][Next]_vars

\* The run loop fires a timer that is due, and time goes on.
FairSpec == Spec /\ WF_vars(Tick) /\ \A t \in Timers : WF_vars(OnTimerFires(t))

(***************************************************************************)
(* Properties.                                                             *)
(***************************************************************************)
TypeOK ==
  /\ state \in [Lights -> {Red, Yellow, Green}]
  /\ timeLeft \in [Lights -> 0..3]
  /\ timer \in [Lights -> Timers \cup {NoTimer}]
  /\ target \in [Timers -> Lights \cup {NoLight}]
  /\ due \in [Timers -> 0..TicksPerSecond]
  /\ age \in [Lights -> 0..(2 * TicksPerSecond)]
  /\ split \subseteq Lights

\* changeState starts a timer and onTimerFires ends it: a light is yellow exactly
\* while one timer calls it, the one it refers to, so that no timer is left behind
\* to cut a later yellow short.
OneTimerPerYellow ==
  \A l \in Lights :
    {t \in Timers : target[t] = l} = IF state[l] = Yellow THEN {timer[l]} ELSE {}

\* A light that is yellow turns red two seconds after it turned yellow, in every
\* cycle and whatever taps came in between (timeLeft starts at 3 but is 2 here).
YellowLastsTwoSeconds ==
  [][\A l \in Lights :
       state[l] = Yellow /\ state'[l] # Yellow => state'[l] = Red /\ age[l] = 2 * TicksPerSecond]_vars

\* The lights of a pair show the same colour, but for the instant between their two
\* timers, unless a tap fell in such an instant: it turns the red one green, the
\* yellow one ignores it, and from then on the pair is out of step.
PairsAgree ==
  \A l \in Lights \ split :
    \/ state[l] = state[Partner(l)]
    \/ \E y \in {l, Partner(l)} :
         state[y] = Yellow /\ state[Partner(y)] = Red /\ due[timer[y]] = 0

\* Every yellow light turns red.
YellowEndsRed == \A l \in Lights : state[l] = Yellow ~> state[l] = Red

\* The lights implement the abstract cycle.
Cycle == INSTANCE LightCycle WITH colour <- state
ImplementsLightCycle == Cycle!Spec

=============================================================================
