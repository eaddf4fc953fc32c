---------------------------- MODULE StreetLists -----------------------------
(***************************************************************************)
(* The lists a street keeps and the loops over them, element by element.   *)
(* LeftStreet, RightStreet, DownStreet and UpStreet are four copies of the *)
(* same code with the axis and the sense of the comparisons changed; here  *)
(* a street has a heading and Beyond is that comparison.  Positions are    *)
(* coordinates on the street's axis.  Traffic uses what is checked here:   *)
(* that the loops find what their set-based definitions there say.         *)
(***************************************************************************)
EXTENDS Integers, FiniteSets, SequencesExt

CONSTANTS
  Cars,       \* cars that may be on the street
  Places,     \* coordinates a car or a light may have
  MaxLights,  \* bound: lights on the street
  Nobody      \* nil

ASSUME PlacesAssumption == Places \subseteq Int
ASSUME BoundsAssumption == MaxLights \in Nat /\ IsFiniteSet(Cars)
ASSUME NobodyAssumption == Nobody \notin Cars /\ Nobody \notin Places

Left  == 0
Right == 1
Down  == 2
Up    == 3

VARIABLES
  direction,   \* StreetProtocol.direction
  lightArray,  \* StreetProtocol.lightArray: the places of the lights
  carArray,    \* StreetProtocol.carArray
  place        \* where each car is

vars == <<direction, lightArray, carArray, place>>

\* Coordinate a is further along the street than b.
Beyond(a, b) == IF direction \in {Left, Down} THEN a < b ELSE a > b

(***************************************************************************)
(* addLight: the new light goes before the first light that it is not      *)
(* beyond; the flag "added" keeps the rest of the loop from inserting it   *)
(* again.                                                                  *)
(***************************************************************************)
\* Mutants: the flag is not tested; the scan is left out.
InsertBeforeEach(light, state, i) ==
  IF Beyond(state.lights[i], light)
  THEN [added |-> TRUE, lights |-> InsertAt(state.lights, i, light)]
  ELSE state
AppendedLight(light) == Append(lightArray, light)

InsertBefore(light, state, i) ==
  IF ~state.added /\ Beyond(state.lights[i], light)
  THEN [added |-> TRUE, lights |-> InsertAt(state.lights, i, light)]
  ELSE state

WithLight(light) ==
  LET scan[i \in 0..Len(lightArray)] ==
        IF i = 0 THEN [added |-> FALSE, lights |-> lightArray]
        ELSE InsertBefore(light, scan[i - 1], i)
      end == scan[Len(lightArray)]
  IN IF end.added THEN end.lights ELSE Append(lightArray, light)

\* lightFinder: the first light of the list that is beyond the car.
LightFinder(at) ==
  LET i == SelectInSeq(lightArray, LAMBDA light : Beyond(light, at))
  IN IF i = 0 THEN Nobody ELSE lightArray[i]

\* Mutant: the second comparison is the wrong way round.
KeepFarther(car, closest, c) ==
  IF /\ Beyond(place[c], place[car])
     /\ closest # Nobody => Beyond(place[c], place[closest])
  THEN c ELSE closest

\* findClosestCar keeps a car beyond the first one, replaced by any nearer one.
KeepNearer(car, closest, c) ==
  IF /\ Beyond(place[c], place[car])
     /\ closest # Nobody => Beyond(place[closest], place[c])
  THEN c ELSE closest

FindClosestCar(car) ==
  LET closest[i \in 0..Len(carArray)] ==
        IF i = 0 THEN Nobody ELSE KeepNearer(car, closest[i - 1], carArray[i])
  IN closest[Len(carArray)]

\* isStreetFree: of the cars strictly inside the window, the one furthest along.
Inside(at, a, b) == IF a < b THEN a < at /\ at < b ELSE b < at /\ at < a

KeepFurthest(a, b, closeCar, c) ==
  IF /\ Inside(place[c], a, b)
     /\ closeCar # Nobody => Beyond(place[c], place[closeCar])
  THEN c ELSE closeCar

IsStreetFree(startingPos, endingPos) ==
  LET closeCar[i \in 0..Len(carArray)] ==
        IF i = 0 THEN Nobody
        ELSE KeepFurthest(startingPos, endingPos, closeCar[i - 1], carArray[i])
  IN closeCar[Len(carArray)]

\* The loop of move() over the first n cars notes the indices of those that leave; cars
\* are appended to the list meanwhile.
NoteIndex(gone, noted, i) == IF carArray[i] \in gone THEN Append(noted, i) ELSE noted

ElementsToRemove(gone, n) ==
  LET noted[i \in 0..n] == IF i = 0 THEN <<>> ELSE NoteIndex(gone, noted[i - 1], i)
  IN noted[n]

\* Mutant: the indices are not reversed.
RemoveForwards(indices, array) ==
  FoldLeft(LAMBDA rest, i : IF i =< Len(rest) THEN RemoveAt(rest, i) ELSE rest, array, indices)

\* removeElementsFromArray: indices in the order the loop of move() found them,
\* taken out from the last to the first.
RemoveElements(indices, array) ==
  LET rest[i \in 0..Len(indices)] ==
        IF i = 0 THEN array ELSE RemoveAt(rest[i - 1], Reverse(indices)[i])
  IN rest[Len(indices)]

(***************************************************************************)
(* A street's life: lights are placed by the intersections in any order,   *)
(* cars are added, removed and move in between.                            *)
(***************************************************************************)
Init ==
  /\ direction \in {Left, Right, Down, Up}
  /\ lightArray = <<>> /\ carArray = <<>>
  /\ place \in [Cars -> Places]

\* Two lights of a street belong to two intersections: they are never at one place.
AddLight(light) ==
  /\ Len(lightArray) < MaxLights
  /\ light \notin ToSet(lightArray)
  /\ lightArray' = WithLight(light)
  /\ UNCHANGED <<direction, carArray, place>>

AddCar(car) ==
  /\ car \notin ToSet(carArray)
  /\ carArray' = Append(carArray, car)
  /\ UNCHANGED <<direction, lightArray, place>>

\* removeCar: the first entry of the car.
RemoveCar(car) ==
  /\ carArray # <<>>
  /\ carArray' = RemoveFirst(carArray, car)
  /\ UNCHANGED <<direction, lightArray, place>>

Next ==
  \/ \E p \in Places : AddLight(p)
  \/ \E c \in Cars : AddCar(c) \/ RemoveCar(c)

Spec == Init /\ [][Next]_vars

(***************************************************************************)
(* Properties.                                                             *)
(***************************************************************************)
\* Nothing is in the list twice.
Once(list) == \A i, j \in 1..Len(list) : list[i] = list[j] => i = j

\* Types.  Each light is listed once, although addLight goes on scanning after it has
\* inserted one, and so is each car.
TypeOK ==
  /\ direction \in 0..3
  /\ lightArray \in BoundedSeq(Places, MaxLights) /\ Once(lightArray)
  /\ carArray \in BoundedSeq(Cars, Cardinality(Cars)) /\ Once(carArray)
  /\ place \in [Cars -> Places]

\* A light placed later finds its place in the driving order, so that the first
\* light beyond a car is the nearest one, wherever the car is.
LightFinderIsNearest ==
  \A at \in Places :
    LET beyond == {p \in ToSet(lightArray) : Beyond(p, at)} IN
      IF beyond = {} THEN LightFinder(at) = Nobody
      ELSE /\ LightFinder(at) \in beyond
           /\ \A p \in beyond : ~Beyond(LightFinder(at), p)

\* No light is lost or placed twice by the loop that inserts while it scans.
AddLightKeepsLights ==
  [][lightArray' # lightArray =>
       /\ Len(lightArray') = Len(lightArray) + 1
       /\ ToSet(lightArray) \subseteq ToSet(lightArray')]_vars

\* The search for the closest car returns a nearest car ahead, in any order of the
\* list, and the one for a free street a car in the window with none beyond it.
SearchesFindNearest ==
  /\ \A car \in Cars :
       LET ahead == {c \in ToSet(carArray) : Beyond(place[c], place[car])}
           found == FindClosestCar(car)
       IN IF ahead = {} THEN found = Nobody
          ELSE found \in ahead /\ \A c \in ahead : ~Beyond(place[found], place[c])
  /\ \A a, b \in Places :
       LET inside == {c \in ToSet(carArray) : place[c] \in (a+1)..(b-1) \cup (b+1)..(a-1)}
           found == IsStreetFree(a, b)
       IN IF inside = {} THEN found = Nobody
          ELSE found \in inside /\ \A c \in inside : ~Beyond(place[c], place[found])

\* Taking cars out by the indices noted earlier takes out those cars and no other,
\* although each removal moves what is behind it, and keeps the others in order.
RemovalTakesTheRightOnes ==
  \A n \in 0..Len(carArray) : \A gone \in SUBSET {carArray[i] : i \in 1..n} :
    LET rest == RemoveElements(ElementsToRemove(gone, n), carArray) IN
      /\ ToSet(rest) = ToSet(carArray) \ gone
      /\ \A i, j \in 1..Len(rest) : i < j =>
           \E p, q \in 1..Len(carArray) :
             p < q /\ carArray[p] = rest[i] /\ carArray[q] = rest[j]

=============================================================================
