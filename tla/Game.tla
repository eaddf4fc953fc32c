-------------------------------- MODULE Game --------------------------------
(***************************************************************************)
(* The roads and cars of Traffic together with the lights of Signals.  The *)
(* render thread reads a light's colour once in each visit of a car, while *)
(* the main thread handles taps and timers: every order of their steps is  *)
(* a behaviour.  A visit reads the real colour here, which Traffic leaves  *)
(* open, and a light stands at a crossing, which Signals does not know.    *)
(*                                                                         *)
(* Frames are drawn sixty times a second: no car misses its visit for as   *)
(* long as one tick of the lights' clock.                                  *)
(***************************************************************************)
EXTENDS Traffic

CONSTANTS
  IntersectionArray,  \* the intersections in the order intersectionCreator makes them
  TicksPerSecond,     \* as in Signals
  Timers,
  NoTimer,
  TappedLights        \* bound: the lights that are ever tapped

ASSUME ArrayAssumption ==
  /\ IntersectionArray \in Seq(Intersections)
  /\ \A k \in Intersections :
       \E i \in 1..Len(IntersectionArray) :
         /\ IntersectionArray[i] = k
         /\ \A j \in 1..Len(IntersectionArray) : IntersectionArray[j] = k => j = i

\* As in Signals; the taps are taps on lights.
ASSUME ClockAssumption == TicksPerSecond \in Nat \ {0} /\ NoTimer \notin Timers
ASSUME TapsAssumption  == TappedLights \subseteq 0..(4 * Len(IntersectionArray) - 1)

VARIABLES
  state, timeLeft, timer, target, due, age, split,  \* as in Signals
  seen  \* history: the cars visited since the last tick

lightVars == <<state, timeLeft, timer, target, due, age, split>>
gameVars == <<vars, lightVars, seen>>

Signal == INSTANCE Signals WITH NumLights <- 4 * Len(IntersectionArray)

(***************************************************************************)
(* Lights at crossings.                                                    *)
(***************************************************************************)
\* Place of intersection k in the array, from zero.
Place(k) == (CHOOSE i \in 1..Len(IntersectionArray) : IntersectionArray[i] = k) - 1

\* Mutant: the lights are listed in the order in which Intersection.init makes them.
LightAsMade(k, d) ==
  4 * Place(k) + (CASE d = Left -> 0 [] d = Down -> 1 [] d = Right -> 2 [] d = Up -> 3)

\* createLight numbers the lights in the order of getAllLights: left, right, down, up.
LightAt(k, d) == 4 * Place(k) + d

\* findLight and isVehicleCloseToLight: the lights that may hold car c where it is.
LightsOf(c) ==
  IF CloseToLight(street[c], pos[c])
  THEN {LightAt(k, Dir(street[c])) : k \in NearestLights(street[c], pos[c])}
  ELSE {}

\* Mutant: yellow holds a car as well.
HeldUnlessGreen(c) == \E l \in LightsOf(c) : state[l] # Signal!Green

HeldByRed(c) == \E l \in LightsOf(c) : state[l] = Signal!Red

(***************************************************************************)
(* Steps of the render thread.                                             *)
(***************************************************************************)
GoOn(c) ==
  \/ MakeRightTurn(c) \/ MakeLeftTurn(c)
  \/ FinishTurn(c) \/ FollowCurve(c) \/ Advance(c) \/ Leave(c)

LookAndMove(c) ==
  /\ IF HeldByRed(c) THEN StopAtRed(c) ELSE GoOn(c)
  /\ seen' = seen \cup {c}
  /\ UNCHANGED lightVars

\* What happens before and after the loop does not look at the lights.
BetweenVisits ==
  /\ BeginFrame \/ EndFrame \/ BoundReached \/ \E a, b \in cars : Contact(a, b)
  /\ UNCHANGED <<lightVars, seen>>

RenderThread == BetweenVisits \/ \E c \in CarId : LookAndMove(c)

(***************************************************************************)
(* Steps of the main thread, which run between any two of those.           *)
(***************************************************************************)
Tap(l)  == Signal!HandleTap(l) /\ UNCHANGED <<vars, seen>>
Fire(t) == Signal!OnTimerFires(t) /\ UNCHANGED <<vars, seen>>

Tick ==
  /\ Signal!Tick
  /\ cars \subseteq seen
  /\ seen' = {}
  /\ UNCHANGED vars

MainThread ==
  \/ \E l \in TappedLights : Tap(l)
  \/ \E t \in Timers : Fire(t)
  \/ Tick

GameInit == Init /\ Signal!Init /\ seen = {}
GameNext == RenderThread \/ MainThread
GameSpec == GameInit /\ [][GameNext]_gameVars

(***************************************************************************)
(* Fairness.  Both threads go on, a car that is let go again and again     *)
(* gets on (Traffic), and the player taps a red light again and again at   *)
(* which a car is held.  Nobody taps any other light of necessity, and any *)
(* light may be tapped at any time, the same one included.                 *)
(***************************************************************************)
TapFor(c) == \E l \in LightsOf(c) : HeldByRed(c) /\ l \in TappedLights /\ Tap(l)
CarGetsOn(c) == LookAndMove(c) /\ Where(c)' # Where(c)

FairGame ==
  /\ GameSpec
  /\ WF_gameVars(BetweenVisits /\ BeginFrame) /\ WF_gameVars(BetweenVisits /\ EndFrame)
  /\ \A c \in CarId :
       /\ WF_gameVars(LookAndMove(c))
       /\ SF_gameVars(CarGetsOn(c)) /\ SF_gameVars(TapFor(c))
  /\ WF_gameVars(Tick) /\ \A t \in Timers : WF_gameVars(Fire(t))

(***************************************************************************)
(* Properties.                                                             *)
(***************************************************************************)
\* The two lights that one tap switches (handleTap: neighbours in lightArray) are
\* those of opposite streets at one intersection, so that opposite streets show the
\* same colour, but for the instants PairsAgree of Signals allows.
OppositeStreetsAgree ==
  \A k \in Intersections, d \in Dirs :
    LET l == LightAt(k, d)
        m == LightAt(k, Opposite(d))
    IN \/ state[l] = state[m]
       \/ l \in split
       \/ \E t \in Timers : target[t] \in {l, m} /\ due[t] = 0

\* Traffic takes for granted that a car held by a light is let go in the end.  With
\* the real lights it is: a red light someone waits at is tapped, and the green and
\* yellow that follow last for longer than a frame, however often it is tapped.
ImplementsTraffic == FairSpec

=============================================================================
