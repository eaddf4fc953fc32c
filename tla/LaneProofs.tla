----------------------------- MODULE LaneProofs ------------------------------
(***************************************************************************)
(* Theorems about the cars of one street, for any number of them, any      *)
(* starting places two units apart and any way the light is switched.      *)
(***************************************************************************)
EXTENDS Lane, TLAPS, FiniteSetTheorems, WellFoundedInduction

(***************************************************************************)
(* Finite sets of cars have a nearest one.  The sets of what is below an   *)
(* element are ordered by inclusion, which is well-founded.                *)
(***************************************************************************)
LEMMA LeastOfFinite ==
  ASSUME NEW S, IsFiniteSet(S), S # {}, NEW f, \A x \in S : f[x] \in Int
  PROVE  \E x \in S : \A y \in S : f[x] =< f[y]
<1> DEFINE Below(x) == {y \in S : f[y] < f[x]}
           T == {Below(x) : x \in S}
<1>1. IsWellFoundedOn(StrictSubsetOrdering(S), FiniteSubsetsOf(S))
      BY FS_StrictSubsetOrderingWellFounded
<1>2. T \subseteq FiniteSubsetsOf(S) /\ T # {}
  <2>1. FiniteSubsetsOf(S) = SUBSET S
        BY FS_FiniteSubsetsOfFinite
  <2>2. T \subseteq SUBSET S
        OBVIOUS
  <2>3. PICK x \in S : TRUE
        OBVIOUS
  <2>4. Below(x) \in T
        BY <2>3
  <2>5. QED BY <2>1, <2>2, <2>4
<1>3. PICK b \in T : \A t \in T : <<t, b>> \notin StrictSubsetOrdering(S)
  <2> HIDE DEF T
  <2> QED BY <1>1, <1>2, WFMin
<1>4. PICK x \in S : b = Below(x)
      OBVIOUS
<1>5. ASSUME NEW y \in S, f[y] < f[x] PROVE FALSE
  <2>1. Below(y) \subseteq Below(x) /\ y \in Below(x) /\ y \notin Below(y)
        BY <1>5
  <2>2. <<Below(y), Below(x)>> \in StrictSubsetOrdering(S)
        BY <2>1 DEF StrictSubsetOrdering
  <2>3. QED BY <1>3, <1>4, <2>2
<1>6. QED BY <1>5

\* findClosestCar finds a nearest car ahead when there is one.
LEMMA NearestIsNearest ==
  ASSUME pos \in [CarId -> Int], NEW some, some \subseteq CarId, NEW c \in CarId
  PROVE  IF Nearest(some, c) = NoCar THEN CarsAhead(some, c) = {}
         ELSE /\ Nearest(some, c) \in CarsAhead(some, c)
              /\ \A e \in CarsAhead(some, c) : pos[Nearest(some, c)] =< pos[e]
<1> DEFINE ahead == CarsAhead(some, c)
<1>1. ahead \subseteq CarId
      BY DEF CarsAhead
<1>2. CASE ahead = {}
      BY <1>2 DEF Nearest
<1>3. CASE ahead # {}
  <2>1. IsFiniteSet(CarId)
    <3>1. NumCars \in Int \/ CarId = {}
          BY CarsAssumption
    <3>2. QED BY <3>1, CarsAssumption, FS_Interval, FS_EmptySet DEF CarId
  <2>2. IsFiniteSet(ahead)
        BY <1>1, <2>1, FS_Subset
  <2>3. \E d \in ahead : \A e \in ahead : pos[d] =< pos[e]
        BY <1>1, <1>3, <2>2, LeastOfFinite
  <2>4. /\ Nearest(some, c) \in ahead
        /\ \A e \in ahead : pos[Nearest(some, c)] =< pos[e]
        BY <1>3, <2>3 DEF Nearest
  <2>5. Nearest(some, c) # NoCar
        BY <1>1, <2>4, CarsAssumption
  <2>6. QED BY <2>4, <2>5
<1>4. QED BY <1>2, <1>3

LEMMA NearestType ==
  ASSUME pos \in [CarId -> Int], NEW some, some \subseteq CarId, NEW c \in CarId
  PROVE  Nearest(some, c) \in CarId \cup {NoCar}
BY NearestIsNearest DEF CarsAhead

(***************************************************************************)
(* Speeds.                                                                 *)
(***************************************************************************)
\* speedModifier never asks for more than topSpeed, nor for a movement backwards.
LEMMA TargetRange ==
  ASSUME TypeOK, NEW c \in CarId
  PROVE  TargetSpeed(c) \in 0..TopSpeed
<1> DEFINE d == Dist(pos[closest[c]], pos[c])
<1>1. CASE closest[c] = NoCar
      BY <1>1 DEF TargetSpeed, TopSpeed
<1>2. CASE closest[c] # NoCar
  <2>1. d \in Nat
        BY <1>2 DEF TypeOK, Dist
  <2>2. ASSUME d > 2000, d =< 4250
        PROVE  (150 * (d - 2000) + 2249) \div 2250 \in 0..150
    <3> HIDE DEF d
    <3> QED BY <2>1, <2>2
  <2> HIDE DEF d
  <2>3. TargetSpeed(c) = IF d =< MinDistance THEN 0
                         ELSE IF d =< HighSpeedDistance
                              THEN (150 * (d - 2000) + 2249) \div 2250
                         ELSE TopSpeed
        BY <1>2 DEF TargetSpeed, d, TopSpeed, MinDistance, HighSpeedDistance
  <2>4. QED BY <2>1, <2>2, <2>3 DEF TopSpeed, MinDistance, HighSpeedDistance
<1>3. QED BY <1>1, <1>2

\* adjustSpeed stays between the speed set at a red light and topSpeed, follows the
\* target within one step, and does not start to move backwards.
LEMMA AdjustSpeedRange ==
  ASSUME NEW v \in (-ReleaseSpeed)..TopSpeed, NEW target \in 0..TopSpeed
  PROVE  /\ AdjustSpeed(v, target) \in (-ReleaseSpeed)..TopSpeed
         /\ AdjustSpeed(v, target) =< target + 1
         /\ target = 0 => AdjustSpeed(v, target) = 0
         /\ v >= 0 => AdjustSpeed(v, target) >= 0
BY SMT DEF AdjustSpeed, Dist, Gain, TopSpeed, ReleaseSpeed

LEMMA StraightenType ==
  ASSUME NEW o \in Int
  PROVE  Straighten(o) \in Int
<1>1. \A n \in Int : n \div 30 \in Int
      OBVIOUS
<1>2. QED BY <1>1 DEF Straighten

(***************************************************************************)
(* Types.                                                                  *)
(***************************************************************************)
LEMMA InitTypes == Init => TypeOK
<1> SUFFICES ASSUME Init PROVE TypeOK
    OBVIOUS
<1>1. pos \in [CarId -> Int]
      BY PlacesAssumption DEF Init
<1>2. closest \in [CarId -> CarId \cup {NoCar}]
      BY <1>1, NearestType DEF Init
<1>3. speed \in [CarId -> (-ReleaseSpeed)..TopSpeed] /\ off \in [CarId -> Int]
  <2>1. StartSpeeds \subseteq (-ReleaseSpeed)..TopSpeed /\ StartOffs \subseteq Int
        BY SpeedAssumption DEF ReleaseSpeed, TopSpeed
  <2>2. QED BY <2>1 DEF Init
<1>4. QED BY <1>1, <1>2, <1>3, ClearAssumption DEF Init, TypeOK

\* What a car does when it is told to move.
LEMMA DriveStep ==
  ASSUME TypeOK, NEW c \in CarId, Drive(c)
  PROVE  /\ speed'[c] \in (-ReleaseSpeed)..TopSpeed
         /\ pos'[c] \in {pos[c], pos[c] + speed'[c]}
         /\ pos' = [pos EXCEPT ![c] = pos'[c]]
         /\ speed' = [speed EXCEPT ![c] = AdjustSpeed(speed[c], TargetSpeed(c))]
         /\ ~(CloseToLight(c) /\ red)
BY TargetRange, AdjustSpeedRange DEF Drive, TypeOK

LEMMA DriveTypes ==
  ASSUME TypeOK, NEW c \in CarId, Drive(c)
  PROVE  TypeOK'
<1>1. pos' \in [CarId -> Int] /\ speed' \in [CarId -> (-ReleaseSpeed)..TopSpeed]
      BY DriveStep DEF TypeOK
<1>2. front' \in [CarId -> Int]
  <2>1. pos'[c] \in Int /\ front' = [front EXCEPT ![c] = IF pos'[c] > @ THEN pos'[c] ELSE @]
        BY <1>1 DEF Drive, TypeOK
  <2>2. QED BY <2>1 DEF TypeOK
<1>3. off' \in [CarId -> Int]
      BY StraightenType DEF Drive, TypeOK
<1>4. cars' \subseteq CarId /\ todo' \subseteq cars' /\ cars' \subseteq cars
      BY DEF Drive, Visited, TypeOK
<1>5. closest' \in [CarId -> CarId \cup {NoCar}]
  <2>1. \A d \in CarId : Nearest(cars', d) \in CarId \cup {NoCar}
        BY <1>4, NearestType DEF TypeOK
  <2>2. QED BY <2>1 DEF Drive, LookAgain, TypeOK
<1>6. QED BY <1>1, <1>2, <1>3, <1>4, <1>5 DEF Drive, TypeOK

LEMMA NextTypes == TypeOK /\ [Next]_vars => TypeOK'
<1> SUFFICES ASSUME TypeOK, [Next]_vars PROVE TypeOK'
    OBVIOUS
<1>1. CASE BeginFrame
      BY <1>1, ClearAssumption DEF BeginFrame, carVars, TypeOK
<1>2. ASSUME NEW c \in CarId, HoldAtRed(c) PROVE TypeOK'
  <2>1. ReleaseSpeed * heading \in (-ReleaseSpeed)..TopSpeed
        BY DEF TypeOK, ReleaseSpeed, TopSpeed
  <2>2. QED BY <1>2, <2>1 DEF HoldAtRed, Visited, TypeOK
<1>3. ASSUME NEW c \in CarId, Drive(c) PROVE TypeOK'
      BY <1>3, DriveTypes
<1>4. CASE LightOpens
  <2>1. clear' \in 0..MinClear /\ changes' \in 0..MaxChanges
        BY <1>4, ClearAssumption DEF LightOpens, TypeOK
  <2>2. red' \in BOOLEAN
        BY <1>4 DEF LightOpens
  <2>3. QED BY <1>4, <2>1, <2>2 DEF LightOpens, carVars, TypeOK
<1>5. CASE LightTurnsRed
      BY <1>5, ClearAssumption DEF LightTurnsRed, carVars, TypeOK
<1>6. CASE StreetIsEmpty \/ UNCHANGED vars
      BY <1>6 DEF StreetIsEmpty, vars, carVars, TypeOK
<1>7. QED BY <1>1, <1>2, <1>3, <1>4, <1>5, <1>6 DEF Next, Visit

\* No speed exceeds topSpeed, and none is further below zero than a red light sets it
\* (adjustSpeed, setCurrentSpeed), for any number of cars.
THEOREM TypeCorrect == Spec => []TypeOK
<1>1. QED BY InitTypes, NextTypes, PTL DEF Spec

(***************************************************************************)
(* Red lights.  A step is at most 150 long and the band is 500 wide.       *)
(***************************************************************************)
LEMMA StepStopsAtRed ==
  ASSUME TypeOK, [Next]_vars, NEW c \in CarId, red, pos[c] < StopLine
  PROVE  pos'[c] < StopLine
<1>1. ASSUME Drive(c) PROVE pos'[c] < StopLine
  <2>1. pos[c] =< BandStart
        BY <1>1, DriveStep DEF CloseToLight, TypeOK, BandStart
  <2>2. pos'[c] =< pos[c] + TopSpeed
        BY <1>1, DriveStep DEF TypeOK, TopSpeed, ReleaseSpeed
  <2>3. pos[c] \in Int /\ pos'[c] \in Int
        BY <1>1, DriveTypes DEF TypeOK
  <2>4. QED BY <2>1, <2>2, <2>3 DEF BandStart, StopLine, TopSpeed
<1>2. ASSUME NEW d \in CarId, Drive(d), d # c PROVE pos'[c] = pos[c]
      BY <1>2, DriveStep DEF TypeOK
<1>3. ASSUME NEW d \in CarId, HoldAtRed(d) PROVE pos' = pos
      BY <1>3 DEF HoldAtRed
<1>4. CASE BeginFrame \/ LightOpens \/ LightTurnsRed \/ StreetIsEmpty \/ UNCHANGED vars
      BY <1>4 DEF BeginFrame, LightOpens, LightTurnsRed, StreetIsEmpty, vars, carVars
<1>5. QED BY <1>1, <1>2, <1>3, <1>4 DEF Next, Visit

\* isVehicleCloseToLight: no car crosses the stop line while the light is red, for any
\* number of cars and any way the light changes under them.
THEOREM RedIsObeyed == Spec => NobodyRunsTheRed
<1>1. TypeOK /\ [Next]_vars => [\A c \in CarId : red /\ pos[c] < StopLine => pos'[c] < StopLine]_vars
      BY StepStopsAtRed
<1>2. QED BY <1>1, TypeCorrect, PTL DEF Spec, NobodyRunsTheRed

(***************************************************************************)
(* Rolling back.  A car held at red on a left or down street is let go with *)
(* a speed of 20 backwards and gains 2 in each frame.  After j frames it    *)
(* is j * (19 - j) behind the place it was held at, and after 19 it is back *)
(* there: long before the light, yellow for two seconds, can be red again.  *)
(* Meanwhile nobody is within 2300 of it: who is let go with a car nearer   *)
(* ahead stops at once.                                                    *)
(***************************************************************************)
Behind(c) == front[c] - pos[c]

Recovering(c) == c \notin crashed /\ (Behind(c) > 0 \/ speed[c] < 0)

InBand(p) == BandStart < p /\ p < StopLine

Rolled(j) == j * (19 - j)

\* The car has been told to move j times since it was let go.
RollStep(c, j) ==
  /\ speed[c] = 2 * j - 20 /\ Behind(c) = Rolled(j)
  /\ InBand(front[c])
  /\ IF red THEN j = 0 ELSE clear =< IF c \in todo THEN j + 1 ELSE j
  /\ j > 0 /\ closest[c] # NoCar => pos[closest[c]] - front[c] > 2300

RollInv ==
  \A c \in CarId :
    /\ Behind(c) >= 0
    /\ c \in crashed => Behind(c) = 0
    /\ Recovering(c) => c \in cars /\ heading = -1 /\ \E j \in 0..18 : RollStep(c, j)

\* The places the cars have been at are a step's rounding less than two units apart,
\* and closest is right.
Apart == \A c, d \in cars : c # d => Dist(front[c], front[d]) >= 1999

ClosestIsNearest ==
  \A c \in cars :
    /\ closest[c] = NoCar => CarsAhead(cars, c) = {}
    /\ closest[c] # NoCar =>
         /\ closest[c] \in CarsAhead(cars, c)
         /\ \A e \in CarsAhead(cars, c) : pos[closest[c]] =< pos[e]

QueueInv == RollInv /\ Apart /\ ClosestIsNearest

LEMMA RolledRange ==
  ASSUME NEW j \in 0..19
  PROVE  /\ Rolled(j) \in 0..90
         /\ j < 19 => Rolled(j + 1) = Rolled(j) - (2 * j - 18)
         /\ Rolled(0) = 0 /\ Rolled(19) = 0
<1>1. \/ j = 0 \/ j = 1 \/ j = 2 \/ j = 3 \/ j = 4 \/ j = 5 \/ j = 6 \/ j = 7 \/ j = 8 \/ j = 9
      \/ j = 10 \/ j = 11 \/ j = 12 \/ j = 13 \/ j = 14 \/ j = 15 \/ j = 16 \/ j = 17 \/ j = 18
      \/ j = 19
      OBVIOUS
<1>2. QED BY <1>1 DEF Rolled

\* No car is ever more than 90 behind the furthest place it has been at.
LEMMA BehindLittle ==
  ASSUME TypeOK, RollInv, NEW c \in CarId
  PROVE  Behind(c) \in 0..90 /\ (heading = 1 => Behind(c) = 0)
<1>1. Behind(c) \in Int /\ Behind(c) >= 0
      BY DEF TypeOK, RollInv, Behind
<1>2. CASE Recovering(c)
  <2>1. PICK j \in 0..18 : Behind(c) = Rolled(j)
        BY <1>2 DEF RollInv, RollStep
  <2>2. heading = -1
        BY <1>2 DEF RollInv
  <2>3. QED BY <2>1, <2>2, RolledRange
<1>3. CASE ~Recovering(c)
      BY <1>1, <1>3 DEF Recovering, RollInv
<1>4. QED BY <1>2, <1>3

\* The order of the cars is that of the places they have been at.
LEMMA SameOrder ==
  ASSUME TypeOK, RollInv, Apart, NEW c \in cars, NEW d \in cars, c # d
  PROVE  /\ pos[c] > pos[d] <=> front[c] > front[d]
         /\ pos[c] > pos[d] => pos[c] - front[d] >= 1909
<1>1. c \in CarId /\ d \in CarId
      BY DEF TypeOK
<1>2. Behind(c) \in 0..90 /\ Behind(d) \in 0..90
      BY <1>1, BehindLittle
<1>3. QED BY <1>1, <1>2 DEF Behind, Apart, Dist, TypeOK

LEMMA SameOrderAll ==
  TypeOK /\ RollInv /\ Apart =>
    \A c, d \in cars : c # d => (pos[c] > pos[d] <=> front[c] > front[d])
BY SameOrder

LEMMA SameOrderNext ==
  (TypeOK /\ RollInv /\ Apart =>
     \A c, d \in cars : c # d => (pos[c] > pos[d] <=> front[c] > front[d]))'
BY SameOrderAll, PTL

\* Two cars are never let go at once, and a car ahead of one that rolls back does not.
LEMMA OneRecovers ==
  ASSUME TypeOK, RollInv, Apart, NEW c \in CarId, NEW d \in CarId,
         Recovering(c), Recovering(d)
  PROVE  c = d
<1>1. c \in cars /\ d \in cars /\ InBand(front[c]) /\ InBand(front[d])
      BY DEF RollInv, RollStep
<1>2. QED BY <1>1 DEF Apart, InBand, BandStart, StopLine, Dist, TypeOK

LEMMA InitQueue == Init => QueueInv
<1> SUFFICES ASSUME Init PROVE QueueInv
    OBVIOUS
<1>1. pos \in [CarId -> Int] /\ front = pos
      BY PlacesAssumption DEF Init
<1>2. RollInv
  <2>1. \A c \in CarId : Behind(c) = 0
        BY <1>1 DEF Behind
  <2>2. ASSUME NEW c \in CarId PROVE ~Recovering(c)
    <3>1. speed[c] \in StartSpeeds
          BY DEF Init
    <3>2. speed[c] \in Int /\ speed[c] >= 0
      <4>1. \A x \in StartSpeeds : x \in Int /\ x >= 0
            BY SpeedAssumption
      <4>2. QED BY <3>1, <4>1
    <3>3. ~(speed[c] < 0)
          BY <3>2
    <3>4. ~(Behind(c) > 0)
          BY <2>1
    <3>5. QED BY <3>3, <3>4 DEF Recovering
  <2>3. QED BY <2>1, <2>2 DEF RollInv
<1>3. Apart
      BY <1>1, PlacesAssumption DEF Init, Apart, Dist
<1>4. ClosestIsNearest
      BY <1>1, NearestIsNearest DEF Init, ClosestIsNearest
<1>5. QED BY <1>2, <1>3, <1>4 DEF QueueInv

(***************************************************************************)
(* One step of a car.                                                      *)
(***************************************************************************)
\* What speedModifier asks for, in terms of the distance.
LEMMA TargetOfDistance ==
  ASSUME TypeOK, NEW c \in CarId, closest[c] # NoCar,
         NEW g \in Nat, g = pos[closest[c]] - pos[c]
  PROVE  /\ g =< 2000 => TargetSpeed(c) = 0
         /\ g > 2000 => TargetSpeed(c) =< g - 2000
         /\ g > 2300 <=> TargetSpeed(c) > 20
<1>1. Dist(pos[closest[c]], pos[c]) = g
      BY DEF TypeOK, Dist
<1>2. TargetSpeed(c) = IF g =< 2000 THEN 0
                       ELSE IF g =< 4250
                            THEN (150 * (g - 2000) + 2249) \div 2250
                       ELSE 150
      BY <1>1 DEF TargetSpeed, TopSpeed, MinDistance, HighSpeedDistance
<1>3. ASSUME g > 2000, g =< 4250
      PROVE  /\ (150 * (g - 2000) + 2249) \div 2250 =< g - 2000
             /\ g > 2300 <=> (150 * (g - 2000) + 2249) \div 2250 > 20
      BY <1>3
<1>4. QED BY <1>2, <1>3

\* A follower's step forward leaves 1999 of the distance.
LEMMA StepLeavesRoom ==
  ASSUME TypeOK, NEW c \in CarId, closest[c] # NoCar, pos[closest[c]] > pos[c],
         NEW v, v = AdjustSpeed(speed[c], TargetSpeed(c)), v > 0
  PROVE  pos[closest[c]] - (pos[c] + v) >= 1999
<1> DEFINE g == pos[closest[c]] - pos[c]
           t == TargetSpeed(c)
<1>1. g \in Nat /\ pos[c] \in Int /\ pos[closest[c]] \in Int
      BY DEF TypeOK
<1>2. /\ g =< 2000 => t = 0
      /\ g > 2000 => t =< g - 2000
      BY <1>1, TargetOfDistance
<1>3. t \in 0..TopSpeed /\ speed[c] \in (-ReleaseSpeed)..TopSpeed
      BY TargetRange DEF TypeOK
<1> HIDE DEF t
<1>4. /\ v \in (-ReleaseSpeed)..TopSpeed /\ v =< t + 1
      /\ t = 0 => v = 0
      BY <1>3, AdjustSpeedRange DEF t
<1> HIDE DEF g
<1>5. g - v >= 1999
      BY <1>1, <1>2, <1>3, <1>4 DEF TopSpeed, ReleaseSpeed
<1>6. QED BY <1>1, <1>4, <1>5 DEF g, TopSpeed, ReleaseSpeed

\* A car that moves and is not on its way back goes no further back.
LEMMA ForwardsOtherwise ==
  ASSUME TypeOK, RollInv, NEW c \in CarId, Drive(c), ~Recovering(c)
  PROVE  /\ pos'[c] >= pos[c]
         /\ Behind(c)' = 0 /\ (c \notin crashed => speed'[c] >= 0)
<1>1. Behind(c) = 0 /\ (c \notin crashed => speed[c] >= 0)
      BY BehindLittle DEF RollInv, Recovering, TypeOK
<1>2. TargetSpeed(c) \in 0..TopSpeed
      BY TargetRange
<1>3. /\ c \notin crashed => speed'[c] >= 0 /\ pos'[c] = pos[c] + speed'[c]
      /\ c \in crashed => pos'[c] = pos[c]
  <2>1. speed'[c] = AdjustSpeed(speed[c], TargetSpeed(c)) /\ speed[c] \in (-ReleaseSpeed)..TopSpeed
        BY DriveStep DEF TypeOK
  <2>2. c \notin crashed => speed'[c] >= 0
        BY <1>1, <1>2, <2>1, AdjustSpeedRange
  <2>3. QED BY <2>1, <2>2 DEF Drive, TypeOK
<1>4. pos[c] \in Int /\ front[c] \in Int /\ speed'[c] \in Int /\ pos'[c] \in Int
      BY DriveStep, DriveTypes DEF TypeOK
<1>5. front'[c] = IF pos'[c] > front[c] THEN pos'[c] ELSE front[c]
      BY DEF Drive, TypeOK
<1>6. QED BY <1>1, <1>3, <1>4, <1>5 DEF Behind

\* The next of the nineteen frames, or the car does not roll at all.
LEMMA RollsOn ==
  ASSUME TypeOK, QueueInv, NEW c \in CarId, Drive(c), Recovering(c)
  PROVE  /\ cars' = cars /\ closest' = closest
         /\ Behind(c)' >= 0
         /\ Recovering(c)' => \E j \in 0..18 : RollStep(c, j)'
<1>1. PICK j \in 0..18 : RollStep(c, j)
      BY DEF QueueInv, RollInv
<1>2. c \in cars /\ c \notin crashed /\ ClosestIsNearest
      BY DEF QueueInv, RollInv, Recovering
<1> DEFINE t == TargetSpeed(c)
           v == AdjustSpeed(speed[c], t)
<1>3. /\ speed' = [speed EXCEPT ![c] = v]
      /\ pos' = [pos EXCEPT ![c] = pos[c] + v]
      /\ t \in 0..TopSpeed /\ v \in (-ReleaseSpeed)..TopSpeed
      /\ pos[c] \in Int /\ front[c] \in Int /\ clear \in Int /\ FarEdge \in Nat
  <2>1. t \in 0..TopSpeed
        BY TargetRange
  <2>2. QED BY <1>2, <2>1, AdjustSpeedRange, ClearAssumption DEF Drive, TypeOK
<1>4. Behind(c) = Rolled(j) /\ speed[c] = 2 * j - 20 /\ InBand(front[c])
      BY <1>1 DEF RollStep
\* The light is not red: the car would be held.
<1>5. ~red /\ clear =< j + 1
  <2>1. ASSUME red PROVE FALSE
    <3>1. Behind(c) = 0
          BY <1>1, <2>1, RolledRange DEF RollStep
    <3>2. CloseToLight(c)
          BY <1>3, <1>4, <3>1 DEF Behind, InBand, CloseToLight
    <3>3. QED BY <2>1, <3>2, DriveStep
  <2>2. QED BY <1>1, <1>3, <2>1 DEF RollStep
\* Either nothing within 2300, and it gains 2, or it stops rolling at once.
<1>6. \/ v = speed[c] + 2 /\ (closest[c] # NoCar => pos[closest[c]] - front[c] > 2300)
      \/ j = 0 /\ v >= 0 /\ v =< 20
  <2> DEFINE far == closest[c] # NoCar => pos[closest[c]] - pos[c] > 2300
  <2>1. far <=> t > 20
    <3>1. CASE closest[c] = NoCar
          BY <3>1 DEF t, TargetSpeed, TopSpeed
    <3>2. CASE closest[c] # NoCar
      <4>1. pos[closest[c]] - pos[c] \in Nat
            BY <1>2, <3>2 DEF ClosestIsNearest, CarsAhead, TypeOK
      <4>2. QED BY <3>2, <4>1, TargetOfDistance
    <3>3. QED BY <3>1, <3>2
  <2>2. CASE j > 0
    <3>1. closest[c] # NoCar => pos[closest[c]] - front[c] > 2300
          BY <1>1, <2>2 DEF RollStep
    <3>2. front[c] >= pos[c]
          BY <1>3, <1>4, RolledRange DEF Behind
    <3>3. far
          BY <1>3, <3>1, <3>2 DEF TypeOK
    <3> HIDE DEF t, far
    <3>4. speed[c] \in -18..16
          BY <1>4, <2>2
    <3>5. AdjustSpeed(speed[c], t) = speed[c] + 2
          BY <1>3, <2>1, <3>3, <3>4 DEF AdjustSpeed, Dist, Gain, TopSpeed
    <3>6. QED BY <3>1, <3>5
  <2>3. CASE j = 0
    <3>1. front[c] = pos[c] /\ speed[c] = -20
          BY <1>3, <1>4, <2>3, RolledRange DEF Behind
    <3> HIDE DEF t
    <3>2. t > 20 => AdjustSpeed(speed[c], t) = speed[c] + 2
          BY <1>3, <3>1 DEF AdjustSpeed, Dist, Gain, TopSpeed
    <3>3. t =< 20 => AdjustSpeed(speed[c], t) = t
          BY <1>3, <3>1 DEF AdjustSpeed, Dist, Gain, TopSpeed
    <3>4. QED BY <1>3, <2>1, <2>3, <3>1, <3>2, <3>3
  <2>4. QED BY <2>2, <2>3
<1> HIDE DEF t, v
\* It is not at the edge, and never in front of where it was held.
<1>7. pos[c] + v =< front[c] + 20 /\ pos[c] + v < FarEdge
  <2>1. pos[c] = front[c] - Rolled(j) /\ Rolled(j) \in 0..90
        BY <1>3, <1>4, RolledRange DEF Behind
  <2>2. v =< Rolled(j) \/ v =< 20
        BY <1>3, <1>4, <1>6, <2>1
  <2>3. QED BY <1>3, <1>4, <2>1, <2>2 DEF InBand, StopLine
<1>8. cars' = cars /\ closest' = closest
      BY <1>2, <1>3, <1>7 DEF Drive, v, t
<1>9. front'[c] = IF pos'[c] > front[c] THEN pos'[c] ELSE front[c]
      BY DEF Drive, TypeOK
<1>10. pos'[c] = pos[c] + v /\ speed'[c] = v
      BY <1>3 DEF TypeOK
<1>11. CASE v = speed[c] + 2 /\ (closest[c] # NoCar => pos[closest[c]] - front[c] > 2300)
  <2>1. pos'[c] = front[c] - Rolled(j + 1) /\ Rolled(j + 1) \in 0..90
        BY <1>3, <1>4, <1>10, <1>11, RolledRange DEF Behind
  <2>2. front'[c] = front[c] /\ Behind(c)' = Rolled(j + 1)
        BY <1>3, <1>9, <2>1 DEF Behind
  <2>3. CASE j < 18
    <3>1. speed'[c] = 2 * (j + 1) - 20
          BY <1>4, <1>10, <1>11
    <3>2. closest[c] # NoCar => pos'[closest[c]] = pos[closest[c]]
      <4>1. closest[c] # NoCar => closest[c] # c /\ closest[c] \in CarId
            BY <1>2, <1>3 DEF ClosestIsNearest, CarsAhead, TypeOK
      <4>2. QED BY <1>3, <4>1 DEF TypeOK
    <3>3. red' = red /\ clear' = clear
          BY DEF Drive
    <3>4. RollStep(c, j + 1)'
      <4>1. closest'[c] # NoCar => pos'[closest'[c]] - front'[c] > 2300
            BY <1>8, <1>11, <2>2, <3>2
      <4>2. clear' =< j + 1 /\ ~red' /\ clear' \in Int
            BY <1>3, <1>5, <3>3
      <4>3. clear' =< IF c \in todo' THEN (j + 1) + 1 ELSE j + 1
            BY <4>2
      <4>4. QED BY <1>4, <2>2, <3>1, <4>1, <4>2, <4>3 DEF RollStep
    <3>5. QED BY <1>8, <2>1, <2>2, <2>3, <3>4
  <2>4. CASE j = 18
    <3>1. speed'[c] = 18 /\ Behind(c)' = 0
          BY <1>4, <1>10, <1>11, <2>2, <2>4, RolledRange
    <3>2. QED BY <1>8, <3>1 DEF Recovering
  <2>5. QED BY <2>3, <2>4
<1>12. CASE j = 0 /\ v >= 0 /\ v =< 20
  <2>1. pos'[c] = front[c] + v
        BY <1>3, <1>4, <1>10, <1>12, RolledRange DEF Behind
  <2>2. Behind(c)' = 0 /\ speed'[c] >= 0
        BY <1>3, <1>9, <1>10, <1>12, <2>1 DEF Behind
  <2>3. speed'[c] \in Int
        BY <1>3, <1>10
  <2>4. ~(Behind(c)' > 0) /\ ~(speed'[c] < 0)
        BY <2>2, <2>3
  <2>5. ~Recovering(c)'
        BY <2>4 DEF Recovering
  <2>6. QED BY <1>8, <2>2, <2>5
<1>13. QED BY <1>6, <1>11, <1>12

\* The other cars are where they were, and stay in step.
LEMMA OthersRoll ==
  ASSUME TypeOK, QueueInv, NEW c \in CarId, Drive(c), NEW e \in CarId, e # c
  PROVE  /\ Behind(e)' = Behind(e) /\ (Recovering(e)' <=> Recovering(e))
         /\ Recovering(e) => e \in cars' /\ \E j \in 0..18 : RollStep(e, j)'
<1>1. /\ pos'[e] = pos[e] /\ speed'[e] = speed[e] /\ front'[e] = front[e]
      /\ crashed' = crashed /\ red' = red /\ clear' = clear /\ heading' = heading
      /\ e \in todo' <=> e \in todo
      BY DEF Drive, Visited, TypeOK
<1>2. Behind(e)' = Behind(e) /\ (Recovering(e)' <=> Recovering(e))
      BY <1>1 DEF Behind, Recovering
<1>3. ASSUME Recovering(e)
      PROVE  e \in cars' /\ \E j \in 0..18 : RollStep(e, j)'
  <2>1. PICK j \in 0..18 : RollStep(e, j)
        BY <1>3 DEF QueueInv, RollInv
  <2>2. e \in cars /\ c \in cars
        BY <1>3 DEF QueueInv, RollInv, Drive, Visited, TypeOK
  <2>3. e \in cars'
        BY <2>2 DEF Drive
  \* c does not roll back, since e does.
  <2>4. pos'[c] >= pos[c] /\ \A d \in CarId : d # c => pos'[d] = pos[d]
    <3>1. ~Recovering(c)
          BY <1>3, OneRecovers DEF QueueInv
    <3>2. QED BY <3>1, ForwardsOtherwise DEF QueueInv, Drive, TypeOK
  <2>5. ASSUME j > 0, closest'[e] # NoCar PROVE pos'[closest'[e]] - front'[e] > 2300
    <3>1. pos \in [CarId -> Int] /\ pos' \in [CarId -> Int] /\ front[e] \in Int
          BY DriveTypes DEF TypeOK
    <3>2. closest[e] # NoCar => pos[closest[e]] - front[e] > 2300
          BY <2>1, <2>5 DEF RollStep
    <3>3. CASE closest'[e] = closest[e]
      <4>1. closest[e] \in CarId
            BY <2>5, <3>3 DEF TypeOK
      <4>2. QED BY <1>1, <2>4, <2>5, <3>1, <3>2, <3>3, <4>1
    <3>4. CASE closest'[e] # closest[e]
      <4>1. cars' \subseteq cars /\ cars' \subseteq CarId /\ closest'[e] = Nearest(cars', e)
            BY <2>3, <3>4 DEF Drive, LookAgain, TypeOK
      <4>2. closest'[e] \in CarsAhead(cars', e)
            BY <2>5, <3>1, <4>1, NearestIsNearest
      <4>3. closest'[e] \in CarsAhead(cars, e) /\ closest'[e] \in CarId
            BY <4>1, <4>2 DEF CarsAhead
      <4>4. closest[e] # NoCar /\ pos[closest[e]] =< pos[closest'[e]] /\ closest[e] \in CarId
            BY <2>2, <4>3 DEF QueueInv, ClosestIsNearest, TypeOK
      <4>5. pos'[closest'[e]] >= pos[closest'[e]]
            BY <2>4, <3>1, <4>3
      <4>6. QED BY <1>1, <3>1, <3>2, <4>3, <4>4, <4>5
    <3>5. QED BY <3>3, <3>4
  <2>6. RollStep(e, j)'
    <3>1. Behind(e)' = Behind(e) /\ speed'[e] = speed[e] /\ front'[e] = front[e]
          BY <1>1, <1>2
    <3>2. IF red' THEN j = 0 ELSE clear' =< IF e \in todo' THEN j + 1 ELSE j
          BY <1>1, <2>1 DEF RollStep
    <3>3. QED BY <2>1, <2>5, <3>1, <3>2 DEF RollStep
  <2>7. QED BY <2>3, <2>6
<1>4. QED BY <1>2, <1>3

LEMMA DriveRolls ==
  ASSUME TypeOK, QueueInv, NEW c \in CarId, Drive(c)
  PROVE  RollInv'
<1> SUFFICES ASSUME NEW e \in CarId
             PROVE  /\ Behind(e)' >= 0
                    /\ e \in crashed' => Behind(e)' = 0
                    /\ Recovering(e)' => e \in cars' /\ heading' = -1 /\ \E j \in 0..18 : RollStep(e, j)'
    BY DEF RollInv
<1>1. crashed' = crashed /\ heading' = heading
      BY DEF Drive
<1>2. CASE e # c
      BY <1>1, <1>2, OthersRoll DEF QueueInv, RollInv
<1>3. CASE e = c /\ ~Recovering(c)
  <2>1. Behind(c)' = 0 /\ (c \notin crashed => speed'[c] >= 0) /\ speed'[c] \in Int
        BY <1>3, ForwardsOtherwise, DriveTypes DEF QueueInv, TypeOK
  <2>2. ~Recovering(c)'
        BY <1>1, <2>1 DEF Recovering
  <2>3. QED BY <1>3, <2>1, <2>2
<1>4. CASE e = c /\ Recovering(c)
  <2>1. c \notin crashed /\ c \in cars /\ heading = -1
        BY <1>4 DEF Recovering, QueueInv, RollInv
  <2>2. QED BY <1>1, <1>4, <2>1, RollsOn
<1>5. QED BY <1>2, <1>3, <1>4

\* Nobody comes nearer than 1999 to a place another car has been at.
LEMMA DriveApart ==
  ASSUME TypeOK, QueueInv, NEW c \in CarId, Drive(c)
  PROVE  /\ Apart'
         /\ \A d \in cars : d # c => (front'[c] > front'[d] <=> front[c] > front[d])
<1>1. c \in cars /\ cars' \subseteq cars /\ cars \subseteq CarId
      BY DEF Drive, Visited, TypeOK
<1>2. /\ front'[c] = IF pos'[c] > front[c] THEN pos'[c] ELSE front[c]
      /\ \A d \in CarId : d # c => front'[d] = front[d]
      /\ front \in [CarId -> Int] /\ front' \in [CarId -> Int]
      /\ pos \in [CarId -> Int] /\ pos' \in [CarId -> Int]
      BY DriveTypes DEF Drive, TypeOK
<1>3. ASSUME NEW d \in cars, d # c, front[d] > front[c] PROVE front[d] - front'[c] >= 1999
  <2>1. front[d] - front[c] >= 1999
        BY <1>1, <1>2, <1>3 DEF QueueInv, Apart, Dist
  <2>2. ASSUME pos'[c] > front[c] PROVE front[d] - pos'[c] >= 1999
    <3> DEFINE v == AdjustSpeed(speed[c], TargetSpeed(c))
    <3>1. front[c] >= pos[c] /\ front[d] >= pos[d]
          BY <1>1, <1>2, BehindLittle DEF QueueInv, Behind
    <3>2. v \in Int /\ pos'[c] = pos[c] + v
      <4>1. v \in (-ReleaseSpeed)..TopSpeed
            BY TargetRange, AdjustSpeedRange DEF TypeOK
      <4>2. pos'[c] = pos[c] \/ pos'[c] = pos[c] + v
            BY DEF Drive, TypeOK
      <4>3. QED BY <1>1, <1>2, <2>2, <3>1, <4>1, <4>2 DEF ReleaseSpeed, TopSpeed
    <3>3. pos[d] > pos[c] /\ d \in CarsAhead(cars, c)
          BY <1>1, <1>3, SameOrder DEF QueueInv, CarsAhead
    <3>4. /\ closest[c] # NoCar /\ closest[c] \in CarId
          /\ pos[closest[c]] > pos[c] /\ pos[closest[c]] =< pos[d]
          BY <1>1, <3>3 DEF QueueInv, ClosestIsNearest, CarsAhead, TypeOK
    <3>5. v > 0
          BY <1>1, <1>2, <2>2, <3>1, <3>2
    <3>6. pos[closest[c]] - (pos[c] + v) >= 1999
          BY <3>4, <3>5, StepLeavesRoom
    <3> HIDE DEF v
    <3>7. QED BY <1>1, <1>2, <3>1, <3>2, <3>4, <3>6
  <2>3. QED BY <1>1, <1>2, <2>1, <2>2
<1>4. \A d \in cars : d # c /\ ~(front[d] > front[c]) => front'[c] - front[d] >= 1999
      BY <1>1, <1>2 DEF QueueInv, Apart, Dist
<1>5. ASSUME NEW d \in cars, d # c
      PROVE  /\ Dist(front'[c], front'[d]) >= 1999 /\ Dist(front'[d], front'[c]) >= 1999
             /\ front'[c] > front'[d] <=> front[c] > front[d]
  <2>1. /\ front[c] \in Int /\ front[d] \in Int /\ front'[c] \in Int
        /\ front'[d] = front[d]
        BY <1>1, <1>2, <1>5
  <2>2. front[d] - front[c] >= 1999 \/ front[c] - front[d] >= 1999
        BY <1>1, <1>5, <2>1 DEF QueueInv, Apart, Dist
  <2>3. CASE front[d] > front[c]
    <3>1. front[d] - front'[c] >= 1999
          BY <1>3, <1>5, <2>3
    <3>2. QED BY <2>1, <2>3, <3>1 DEF Dist
  <2>4. CASE ~(front[d] > front[c])
    <3>1. front'[c] - front[d] >= 1999
          BY <1>4, <1>5, <2>4
    <3>2. QED BY <2>1, <2>2, <2>4, <3>1 DEF Dist
  <2>5. QED BY <2>3, <2>4
<1>6. Apart'
      BY <1>1, <1>2, <1>5 DEF QueueInv, Apart
<1>7. QED BY <1>5, <1>6

\* Nobody passes anybody, and the search for the closest car starts again when one leaves.
LEMMA DriveClosest ==
  ASSUME TypeOK, QueueInv, NEW c \in CarId, Drive(c)
  PROVE  ClosestIsNearest'
<1>1. /\ cars \subseteq CarId /\ cars' \subseteq cars /\ c \in cars
      /\ pos \in [CarId -> Int] /\ pos' \in [CarId -> Int]
      /\ \A d \in CarId : d # c => pos'[d] = pos[d]
  <2>1. cars \subseteq CarId /\ cars' \subseteq cars /\ c \in cars
        BY DEF Drive, Visited, TypeOK
  <2>2. pos \in [CarId -> Int] /\ pos' \in [CarId -> Int]
        BY DriveTypes DEF TypeOK
  <2>3. \A d \in CarId : d # c => pos'[d] = pos[d]
        BY <2>2 DEF Drive
  <2>4. QED BY <2>1, <2>2, <2>3
<1>2. \A a, b \in cars' : pos'[a] > pos'[b] <=> pos[a] > pos[b]
  <2> SUFFICES ASSUME NEW a \in cars', NEW b \in cars', a # b
               PROVE  pos'[a] > pos'[b] <=> pos[a] > pos[b]
      BY <1>1
  <2>1. pos[a] > pos[b] <=> front[a] > front[b]
        BY <1>1, SameOrder DEF QueueInv
  <2>2. pos'[a] > pos'[b] <=> front'[a] > front'[b]
    <3>1. TypeOK' /\ RollInv' /\ Apart'
          BY DriveTypes, DriveRolls, DriveApart
    <3>2. QED BY <3>1, SameOrderNext
  <2>3. front'[a] > front'[b] <=> front[a] > front[b]
    <3>1. /\ \A d \in CarId : d # c => front'[d] = front[d]
          /\ front[a] \in Int /\ front[b] \in Int /\ front'[a] \in Int /\ front'[b] \in Int
          BY <1>1, DriveTypes DEF Drive, TypeOK
    <3>2. CASE a = c
          BY <1>1, <3>2, DriveApart
    <3>3. CASE b = c
      <4>1. front'[c] > front'[a] <=> front[c] > front[a]
            BY <1>1, <3>3, DriveApart
      <4>2. front'[c] # front'[a] /\ front[c] # front[a]
            BY <1>1, <3>1, <3>3, DriveApart DEF QueueInv, Apart, Dist
      <4>3. QED BY <3>1, <3>3, <4>1, <4>2
    <3>4. CASE a # c /\ b # c
          BY <1>1, <3>1, <3>4
    <3>5. QED BY <3>2, <3>3, <3>4
  <2>4. QED BY <2>1, <2>2, <2>3
<1>3. SUFFICES ASSUME NEW d \in cars'
               PROVE  /\ closest'[d] = NoCar => \A e \in cars' : ~(pos'[e] > pos'[d])
                      /\ closest'[d] # NoCar =>
                           /\ closest'[d] \in cars' /\ pos'[closest'[d]] > pos'[d]
                           /\ \A e \in cars' : pos'[e] > pos'[d] => pos'[closest'[d]] =< pos'[e]
      BY DEF ClosestIsNearest, CarsAhead
<1> DEFINE n == closest'[d]
\* It is right for the places before the step ...
<1>4. /\ n = NoCar => \A e \in cars' : ~(pos[e] > pos[d])
      /\ n # NoCar => /\ n \in cars' /\ pos[n] > pos[d]
                      /\ \A e \in cars' : pos[e] > pos[d] => pos[n] =< pos[e]
  <2>1. CASE cars' = cars /\ closest' = closest
        BY <1>1, <2>1 DEF QueueInv, ClosestIsNearest, CarsAhead
  <2>2. CASE closest' = LookAgain(cars')
    <3>1. n = Nearest(cars', d) /\ cars' \subseteq CarId
          BY <1>1, <2>2 DEF LookAgain
    <3>2. QED BY <1>1, <3>1, NearestIsNearest DEF CarsAhead
  <2>3. QED BY <2>1, <2>2 DEF Drive
<1> HIDE DEF n
\* ... and so for those after it.
<1>5. /\ n = NoCar => \A e \in cars' : ~(pos'[e] > pos'[d])
      /\ n # NoCar => n \in cars' /\ pos'[n] > pos'[d]
      BY <1>2, <1>4
<1>6. ASSUME n # NoCar, NEW e \in cars', pos'[e] > pos'[d] PROVE pos'[n] =< pos'[e]
  <2>1. ~(pos[n] > pos[e]) /\ n \in cars'
        BY <1>1, <1>2, <1>4, <1>6
  <2>2. ~(pos'[n] > pos'[e])
        BY <1>2, <2>1
  <2>3. QED BY <1>1, <2>1, <2>2
<1>7. QED BY <1>5, <1>6 DEF n

(***************************************************************************)
(* The other steps.                                                        *)
(***************************************************************************)
\* A light lets nobody go who is on its way back.
LEMMA HoldQueue ==
  ASSUME TypeOK, QueueInv, NEW c \in CarId, HoldAtRed(c)
  PROVE  QueueInv'
<1>1. /\ UNCHANGED <<heading, cars, pos, closest, crashed, red, clear, front>>
      /\ speed' = [speed EXCEPT ![c] = ReleaseSpeed * heading]
      /\ c \in cars /\ red /\ InBand(pos[c]) /\ \A e \in CarId : e # c => (e \in todo' <=> e \in todo)
      BY DEF HoldAtRed, Visited, TypeOK, CloseToLight, InBand
<1>2. \A e \in CarId : Behind(e)' = Behind(e)
      BY <1>1 DEF Behind
<1>3. \A e \in CarId : e # c => (Recovering(e)' <=> Recovering(e)) /\ speed'[e] = speed[e]
      BY <1>1, <1>2 DEF Recovering, TypeOK
<1>4. ASSUME NEW e \in CarId, e # c, Recovering(e) PROVE \E j \in 0..18 : RollStep(e, j)'
  <2>1. PICK j \in 0..18 : RollStep(e, j)
        BY <1>4 DEF QueueInv, RollInv
  <2>2. RollStep(e, j)'
        BY <1>1, <1>2, <1>3, <1>4, <2>1 DEF RollStep
  <2>3. QED BY <2>2
<1>5. Behind(c) = 0 /\ front[c] = pos[c]
  <2>1. Behind(c) = 0
    <3>1. CASE Recovering(c)
      <4>1. PICK j \in 0..18 : RollStep(c, j)
            BY <3>1 DEF QueueInv, RollInv
      <4>2. QED BY <1>1, <4>1, RolledRange DEF RollStep
    <3>2. CASE ~Recovering(c)
          BY <3>2, BehindLittle DEF Recovering, QueueInv, RollInv
    <3>3. QED BY <3>1, <3>2
  <2>2. QED BY <2>1 DEF Behind, TypeOK
<1>6. ASSUME Recovering(c)' PROVE heading' = -1 /\ \E j \in 0..18 : RollStep(c, j)'
  <2>1. Behind(c)' = 0 /\ speed'[c] = 20 * heading
        BY <1>1, <1>2, <1>5 DEF ReleaseSpeed, TypeOK
  <2>2. heading = -1
        BY <1>6, <2>1 DEF Recovering, TypeOK
  <2>3. RollStep(c, 0)'
        BY <1>1, <1>5, <2>1, <2>2, RolledRange DEF RollStep
  <2>4. QED BY <1>1, <2>2, <2>3
<1>7. RollInv'
      BY <1>1, <1>2, <1>3, <1>4, <1>6 DEF QueueInv, RollInv
<1>8. QED BY <1>1, <1>7 DEF QueueInv, Apart, ClosestIsNearest, CarsAhead

\* Time and the light: who rolls back is back before the light may be red again.
LEMMA OtherQueue ==
  ASSUME TypeOK, QueueInv, BeginFrame \/ LightOpens \/ LightTurnsRed \/ StreetIsEmpty \/ UNCHANGED vars
  PROVE  QueueInv'
<1>1. UNCHANGED carVars /\ heading' = heading /\ crashed' = crashed
      BY DEF BeginFrame, LightOpens, LightTurnsRed, StreetIsEmpty, vars
<1>2. Apart' /\ ClosestIsNearest' /\ \A e \in CarId : Behind(e)' = Behind(e) /\ (Recovering(e)' <=> Recovering(e))
      BY <1>1 DEF carVars, QueueInv, Apart, ClosestIsNearest, CarsAhead, Behind, Recovering
<1>3. ASSUME NEW e \in CarId, NEW j \in 0..18, RollStep(e, j), e \in cars
      PROVE  RollStep(e, j)'
  <2>1. SUFFICES IF red' THEN j = 0 ELSE clear' =< IF e \in todo' THEN j + 1 ELSE j
        BY <1>1, <1>2, <1>3 DEF RollStep, carVars
  <2>2. IF red THEN j = 0 ELSE clear =< IF e \in todo THEN j + 1 ELSE j
        BY <1>3 DEF RollStep
  <2>3. clear \in Nat
        BY ClearAssumption DEF TypeOK
  <2>4. CASE BeginFrame
        BY <1>3, <2>2, <2>3, <2>4 DEF BeginFrame
  <2>5. CASE LightOpens
        BY <2>2, <2>5 DEF LightOpens
  <2>6. CASE LightTurnsRed
    <3>1. ~red /\ clear >= 20
          BY <2>3, <2>6, ClearAssumption DEF LightTurnsRed
    <3>2. QED BY <2>2, <2>3, <3>1
  <2>7. CASE StreetIsEmpty \/ UNCHANGED vars
        BY <2>2, <2>7 DEF StreetIsEmpty, vars
  <2>8. QED BY <2>4, <2>5, <2>6, <2>7
<1>4. RollInv'
      BY <1>1, <1>2, <1>3 DEF QueueInv, RollInv, carVars
<1>5. QED BY <1>2, <1>4 DEF QueueInv

LEMMA NextQueue == TypeOK /\ QueueInv /\ [Next]_vars => QueueInv'
<1> SUFFICES ASSUME TypeOK, QueueInv, [Next]_vars PROVE QueueInv'
    OBVIOUS
<1>1. ASSUME NEW c \in CarId, HoldAtRed(c) PROVE QueueInv'
      BY <1>1, HoldQueue
<1>2. ASSUME NEW c \in CarId, Drive(c) PROVE QueueInv'
      BY <1>2, DriveRolls, DriveApart, DriveClosest DEF QueueInv
<1>3. CASE BeginFrame \/ LightOpens \/ LightTurnsRed \/ StreetIsEmpty \/ UNCHANGED vars
      BY <1>3, OtherQueue
<1>4. QED BY <1>1, <1>2, <1>3 DEF Next, Visit

LEMMA QueueAlways == Spec => []QueueInv
<1>1. QED BY InitQueue, NextQueue, TypeCorrect, PTL DEF Spec

\* setCurrentSpeed(speed: 0.02) at a red light, which has no sign: a car rolls back by
\* 90 at most and only on left and down streets, since two seconds of yellow are enough
\* to be back where it was held before it can be held again.
THEOREM RollsBackAtMost90 == Spec => []RollsBackLittle
<1>1. TypeOK /\ QueueInv => RollsBackLittle
  <2> SUFFICES ASSUME TypeOK, QueueInv, NEW c \in CarId
               PROVE  front[c] - pos[c] =< IF heading = 1 THEN 0 ELSE 90
      BY DEF RollsBackLittle
  <2>1. Behind(c) \in 0..90 /\ (heading = 1 => Behind(c) = 0)
        BY BehindLittle DEF QueueInv
  <2>2. QED BY <2>1 DEF Behind
<1>2. QED BY <1>1, QueueAlways, TypeCorrect, PTL

\* Cars that follow one another never touch, on streets of all four headings, for any
\* number of cars, whatever the light does and wherever wrecks stand (adjustSpeed,
\* speedModifier, setCurrentSpeed).
THEOREM GapIsKept == Spec => []KeepsGap
<1>1. TypeOK /\ QueueInv => KeepsGap
  <2> SUFFICES ASSUME TypeOK, QueueInv, NEW c \in cars, closest[c] # NoCar
               PROVE  pos[closest[c]] - pos[c] > BodyLength
      BY DEF KeepsGap
  <2>1. closest[c] \in cars /\ pos[closest[c]] > pos[c] /\ c \in CarId /\ closest[c] \in CarId
        BY DEF QueueInv, ClosestIsNearest, CarsAhead, TypeOK
  <2>2. pos[closest[c]] - front[c] >= 1909
        BY <2>1, SameOrder DEF QueueInv, TypeOK
  <2>3. front[c] >= pos[c]
        BY <2>1, BehindLittle DEF QueueInv, Behind, TypeOK
  <2>4. QED BY <2>1, <2>2, <2>3 DEF BodyLength, TypeOK
<1>2. QED BY <1>1, QueueAlways, TypeCorrect, PTL

=============================================================================
