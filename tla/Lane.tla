-------------------------------- MODULE Lane ---------------------------------
(***************************************************************************)
(* The exact kinematics that Traffic abstracts: cars that follow one       *)
(* another along one street towards a light, with their speeds.  Lengths   *)
(* are thousandths of a unit, speeds thousandths of a unit per frame, the  *)
(* distance from the lane is in ten-thousandths.  A quotient is rounded    *)
(* away from zero, so that what moves at all in the code moves here.       *)
(*                                                                         *)
(* pos is measured along the heading, from the centre of the intersection. *)
(* speed is currentSpeed along the heading as well: where the code writes  *)
(* a signed constant, heading tells whether that is forwards.              *)
(***************************************************************************)
EXTENDS Integers, FiniteSets

CONSTANTS
  NumCars,      \* cars on the street, in the order of carArray
  NoCar,        \* the nil of closestCar
  StartPlaces,  \* where the cars may be at first
  StartSpeeds,  \* 0 for a car just created, 100 for one that comes out of a turn
  StartOffs,    \* how far from the lane a car may be (2510 after a left turn)
  Wrecks,       \* the sets of cars that may stand there after a collision
  FarEdge,      \* a car that is here has left the street
  MinClear,     \* frames between red and the next red: the two seconds of yellow
  MaxChanges    \* bound: how often the light changes (the last change opens it)

CarId == 1..NumCars
Dist(a, b) == IF a > b THEN a - b ELSE b - a     \* absoluteValue of a difference

ASSUME CarsAssumption  == NumCars \in Nat /\ NoCar \notin CarId
\* Two seconds are more than twenty frames.
ASSUME ClearAssumption ==
  MinClear \in Nat /\ MinClear >= 20 /\ MaxChanges \in Nat /\ FarEdge \in Nat
ASSUME SpeedAssumption == StartSpeeds \subseteq 0..100 /\ StartOffs \subseteq -2510..2510
\* createCar keeps two units between cars.
ASSUME PlacesAssumption ==
  \A p \in StartPlaces :
    p \in [CarId -> Int] /\ \A c, d \in CarId : c # d => Dist(p[c], p[d]) >= 2000

VARIABLES
  heading,  \* 1 on right and up streets, -1 on left and down streets
  cars,     \* the street's carArray
  todo,     \* cars the loop of this frame has still to visit
  pos,      \* place along the street
  speed,    \* Car.currentSpeed
  off,      \* distance from the lane
  closest,  \* Car.closestCar
  crashed,  \* cars whose Car.intersected is true
  red,      \* TrafficLight.isRed
  clear,    \* frames since the light was last red
  changes,  \* how often the light has changed
  front     \* history: the furthest each car has been

carVars == <<cars, pos, speed, off, closest, front>>
vars == <<heading, todo, crashed, red, clear, changes, carVars>>

(***************************************************************************)
(* findClosestCar, as in Traffic.                                          *)
(***************************************************************************)
CarsAhead(some, c) == {d \in some : pos[d] > pos[c]}
Nearest(some, c) ==
  IF CarsAhead(some, c) = {} THEN NoCar
  ELSE CHOOSE d \in CarsAhead(some, c) : \A e \in CarsAhead(some, c) : pos[d] =< pos[e]

Init ==
  /\ heading \in {-1, 1}
  /\ cars = CarId /\ todo = {}
  /\ pos \in StartPlaces
  /\ speed \in [CarId -> StartSpeeds]
  /\ off \in [CarId -> StartOffs]
  /\ closest = [c \in CarId |-> Nearest(CarId, c)]
  /\ crashed \in Wrecks
  /\ red \in BOOLEAN
  /\ clear = 0 /\ changes = 0
  /\ front = pos

(***************************************************************************)
(* speedModifier, times topSpeed: nothing up to two units, everything from *)
(* 4.25 on, linear in between.                                             *)
(***************************************************************************)
TopSpeed == 150
HighSpeedDistance == 4250

\* Mutant: the cars close up to one and a half units.
ShortDistance == 1500

MinDistance == 2000

TargetSpeed(c) ==
  LET d == Dist(pos[closest[c]], pos[c]) IN
  IF closest[c] = NoCar THEN TopSpeed
  ELSE IF d =< MinDistance THEN 0
  ELSE IF d =< HighSpeedDistance
       THEN (TopSpeed * (d - MinDistance) + (HighSpeedDistance - MinDistance - 1))
              \div (HighSpeedDistance - MinDistance)
  ELSE TopSpeed

(***************************************************************************)
(* adjustSpeed: slowing down is immediate, gaining speed is not, and a car *)
(* that moves backwards gains it from below zero.                          *)
(***************************************************************************)
Gain(v) == IF v \in -49..49 THEN 2 ELSE 1

\* Mutant: the sign is that of the present speed.
AdjustSpeedEitherWay(v, target) ==
  IF Dist(v, 0) < target THEN (IF v < 0 THEN v - Gain(v) ELSE v + Gain(v)) ELSE target

AdjustSpeed(v, target) ==
  LET next == IF Dist(v, 0) < target THEN v + Gain(v) ELSE target
  IN IF next > TopSpeed THEN TopSpeed ELSE next

(***************************************************************************)
(* fixPosOnStreet.                                                         *)
(***************************************************************************)
Straighten(o) ==
  IF o \in -50..50 \/ Dist(o, 0) >= 5000 THEN 0
  ELSE IF o > 0 THEN (29 * o + 29) \div 30 ELSE -((29 * (-o) + 29) \div 30)

(***************************************************************************)
(* The frame and the light.                                                *)
(***************************************************************************)
BeginFrame ==
  /\ todo = {} /\ cars # {}
  /\ todo' = cars
  /\ clear' = IF red \/ clear >= MinClear THEN clear ELSE clear + 1
  /\ UNCHANGED <<heading, crashed, red, changes, carVars>>

Visited(c) ==
  /\ c \in todo /\ \A d \in todo : c =< d
  /\ todo' = todo \ {c}

\* isVehicleCloseToLight: past the one end of the band and before the other.
StopLine == -3500

\* Mutant: the band is a twentieth of a unit wide.
BandStartLate == StopLine - 50

BandStart == -4000
CloseToLight(c) == BandStart < pos[c] /\ pos[c] < StopLine

\* Mutant: 0.06 is written for 0.02.
FastRelease == 60

\* setCurrentSpeed(speed: 0.02), which is backwards on left and down streets.
ReleaseSpeed == 20

HoldAtRed(c) ==
  /\ Visited(c)
  /\ CloseToLight(c) /\ red
  /\ speed' = [speed EXCEPT ![c] = ReleaseSpeed * heading]
  /\ UNCHANGED <<heading, cars, pos, off, closest, crashed, red, clear, changes, front>>

\* Mutant: the speed is compared with topSpeed.
StraightensFast(v) == heading * v > TopSpeed

\* "if (currentSpeed > 0.02)" in Car.move: a signed speed, never so on left and down.
Straightens(v) == heading * v > 20

\* Mutant: the street does not tell its cars that one has gone.
NobodyLooksAgain(some) == closest

\* removeCar, and updateClosestCar of the street.
LookAgain(some) == [d \in CarId |-> IF d \in some THEN Nearest(some, d) ELSE closest[d]]

\* moveCarForward and Car.move.  A car that crashed keeps its speed up to date but
\* not its place.  At the edge it is taken off the street, whose cars look again.
Drive(c) ==
  LET v == AdjustSpeed(speed[c], TargetSpeed(c))
      to == IF c \in crashed THEN pos[c] ELSE pos[c] + v
  IN /\ Visited(c)
     /\ ~(CloseToLight(c) /\ red)
     /\ speed' = [speed EXCEPT ![c] = v]
     /\ pos' = [pos EXCEPT ![c] = to]
     /\ off' = [off EXCEPT ![c] = IF c \notin crashed /\ Straightens(v) THEN Straighten(@) ELSE @]
     /\ front' = [front EXCEPT ![c] = IF to > @ THEN to ELSE @]
     /\ IF to >= FarEdge
        THEN /\ cars' = cars \ {c}
             /\ closest' = LookAgain(cars')
        ELSE UNCHANGED <<cars, closest>>
     /\ UNCHANGED <<heading, crashed, red, clear, changes>>

\* The main thread changes the light between any two visits.  From red it is green
\* or yellow for two seconds at least.
LightOpens ==
  /\ red /\ changes < MaxChanges
  /\ red' = FALSE /\ clear' = 0 /\ changes' = changes + 1
  /\ UNCHANGED <<heading, todo, crashed, carVars>>

LightTurnsRed ==
  /\ ~red /\ clear >= MinClear /\ changes + 1 < MaxChanges
  /\ red' = TRUE /\ changes' = changes + 1
  /\ UNCHANGED <<heading, todo, crashed, clear, carVars>>

\* Bound: no new cars come.
StreetIsEmpty == cars = {} /\ todo = {} /\ UNCHANGED vars

Visit(c) == HoldAtRed(c) \/ Drive(c)

Next ==
  \/ BeginFrame
  \/ \E c \in CarId : Visit(c)
  \/ LightOpens \/ LightTurnsRed
  \/ StreetIsEmpty

Spec == Init /\ [][Next]_vars

\* The renderer goes on and the player lets a red light not stay red for ever.
FairSpec ==
  /\ Spec
  /\ WF_vars(BeginFrame) /\ \A c \in CarId : WF_vars(Visit(c))
  /\ WF_vars(LightOpens)

(***************************************************************************)
(* Properties.                                                             *)
(***************************************************************************)
\* Types.  No speed is ever above topSpeed (adjustSpeed), nor further below zero than
\* the 0.02 set at a red light.
TypeOK ==
  /\ heading \in {-1, 1}
  /\ cars \subseteq CarId /\ todo \subseteq cars
  /\ pos \in [CarId -> Int] /\ front \in [CarId -> Int]
  /\ speed \in [CarId -> (-ReleaseSpeed)..TopSpeed]
  /\ off \in [CarId -> Int]
  /\ closest \in [CarId -> CarId \cup {NoCar}]
  /\ red \in BOOLEAN
  /\ clear \in 0..MinClear /\ changes \in 0..MaxChanges

\* No car crosses the stop line while its light is red, whenever the light changes:
\* isVehicleCloseToLight holds a car in a band half a unit wide only, which no car
\* may step over in one frame.
NobodyRunsTheRed ==
  [][\A c \in CarId : red /\ pos[c] < StopLine => pos'[c] < StopLine]_vars

\* Cars that follow one another do not touch: their places stay further apart than a
\* car's physics body is long (1.8 * 0.35 / 0.4 in addCarToScene), although a car may
\* roll back at a light and the speeds of speedModifier are followed with a delay.
BodyLength == 1575
KeepsGap ==
  \A c \in cars : closest[c] # NoCar => pos[closest[c]] - pos[c] > BodyLength

\* A car that is let go by a light rolls back by less than a tenth of a unit, and only
\* on left and down streets (setCurrentSpeed(speed: 0.02) has no sign).
RollsBackLittle ==
  \A c \in CarId : front[c] - pos[c] =< IF heading = 1 THEN 0 ELSE 90

\* A left turn puts a car a quarter of a unit beside its lane.  Even after the last
\* crossing of an up street, with six units to go, it comes to within a twentieth of it
\* before it leaves: createCar copies its place across the lane to the cars that replace
\* it.  On left and down streets no car straightens, but none is further off either.
LeavesNearLane ==
  [][\A c \in cars \ cars' : Dist(off'[c], 0) =< IF heading = 1 THEN 500 ELSE 2510]_vars

\* Every car on a street without a wreck gets past the light and leaves.
EveryCarGetsThrough == crashed = {} => \A c \in CarId : <>(c \notin cars)

=============================================================================
