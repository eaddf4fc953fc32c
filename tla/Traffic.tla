------------------------------ MODULE Traffic -------------------------------
(***************************************************************************)
(* The cars and the loop that moves them.  SceneKit's render thread calls  *)
(* GameViewController.move() once per frame; the loop visits every car     *)
(* that was in carArray when the frame began, and each visit is one action *)
(* here: the car is held by a red light, or is told to turn, or drives on, *)
(* and a car that drove off the far edge is replaced by two new ones.      *)
(*                                                                         *)
(* Abstractions.  A light is changed by the main thread while this thread  *)
(* runs, so a visit may read either colour.  Speed is not kept: a car that *)
(* may drive covers the next cell or is still on its way to it, and one    *)
(* whose closest car is two units ahead or nearer stays (speedModifier).   *)
(* Lane has the exact kinematics.  Cars are numbered in the order of their *)
(* creation, which is their order in carArray.  A street's carArray is a   *)
(* bag: the loops over it are checked in StreetLists.                      *)
(***************************************************************************)
EXTENDS Roads, Sequences

CONSTANTS
  MaxCars,         \* bound: how many Car objects can be created
  NoCar,           \* the nil of closestCar
  NoIntersection,  \* the nil of currentIntersection
  TurnCount,       \* length of turnArray (21 in updateTurnArray)
  StartStreet,     \* the streets of the cars viewDidLoad creates, in order
  StartPos,        \* and the places given to createCar
  MaxThrough       \* bound: no frame begins after this many cars went through

CarId == 1..MaxCars
StartCars == 1..Len(StartStreet)

ASSUME CarsAssumption  == MaxCars \in Nat /\ NoCar \notin CarId
ASSUME CrossAssumption == NoIntersection \notin Intersections
ASSUME TurnsAssumption == TurnCount \in Nat /\ Cardinality(Intersections) < TurnCount
ASSUME StartAssumption ==
  /\ StartStreet \in Seq(Streets) /\ Len(StartStreet) \in 1..MaxCars
  /\ StartPos \in [StartCars -> Point]
\* viewDidLoad creates its cars away from the intersections, and createCar refuses a
\* place near another car.
ASSUME PlacesAssumption ==
  \A c \in StartCars :
    LET place(d) == OnLane(StartStreet[d], StartPos[d]) IN
      /\ IntersectionsAt(place(c)) = {}
      /\ \A d \in StartCars \ {c} : ~Overlaps(place(c), place(d))

Straight == 0
RightTurn == 1
LeftTurn == 2
Turns == 0..2

TurnArrays == [1..TurnCount -> Turns]

VARIABLES
  cars,        \* GameViewController.carArray
  todo,        \* the cars the loop of this frame has still to visit
  gone,        \* elementsToRemove: cars that left during this frame
  carsThrough, \* the score
  created,     \* number of the last car created so far
  on,          \* on[s][c]: how often street s lists car c in its carArray
  upset,       \* history: streets where a turn let closestCar fall behind, see Refreshed
  street,      \* Car.currentStreet
  prev,        \* Car.previousStreet
  pos,         \* Car.xPos, Car.yPos
  closest,     \* Car.closestCar
  turns,       \* Car.turnArray
  completed,   \* indices at which Car.completedTurnsArray is true
  visited,     \* Car.intersectionArray
  inter,       \* Car.currentIntersection
  turning,     \* Car.currentTurn: Straight when nil, else which of the two curves
  point,       \* TurnProtocol.pointReached: cells of the curve reached so far
  crashed,     \* Car.intersected
  turnedAt     \* history: the intersections at which the car began a turn, in order

carVars == <<street, prev, pos, closest, turns, completed, visited, inter,
             turning, point, crashed, turnedAt>>
vars == <<cars, todo, gone, carsThrough, created, on, upset, carVars>>

(***************************************************************************)
(* Reading the street lists.                                               *)
(***************************************************************************)
Listed(lists, s) == {c \in CarId : lists[s][c] > 0}

\* findClosestCar: the nearest car strictly ahead among those on the car's street.
\* Which of two at the same place the loop keeps is left to CHOOSE.
CarsAhead(lists, s, c, where) ==
  {d \in Listed(lists, s) : Along(Dir(s), where[d]) > Along(Dir(s), where[c])}

NearestAhead(lists, s, c, where) ==
  {d \in CarsAhead(lists, s, c, where) :
     \A e \in CarsAhead(lists, s, c, where) :
        Along(Dir(s), where[d]) =< Along(Dir(s), where[e])}

FindClosestCar(lists, s, c, where) ==
  IF NearestAhead(lists, s, c, where) = {} THEN NoCar
  ELSE CHOOSE d \in NearestAhead(lists, s, c, where) : TRUE

\* Mutant: only cars that have no closest car yet look for one.
UpdateClosestCarOnce(s, lists, streets, where) ==
  [c \in CarId |->
     IF lists[s][c] > 0 /\ Dir(streets[c]) = Dir(s) /\ closest[c] = NoCar
     THEN FindClosestCar(lists, streets[c], c, where)
     ELSE closest[c]]

\* updateClosestCar of street s, run after each change of its list: only the
\* cars that now drive in its direction are refreshed, each from its own street.
UpdateClosestCar(s, lists, streets, where) ==
  [c \in CarId |->
     IF lists[s][c] > 0 /\ Dir(streets[c]) = Dir(s)
     THEN FindClosestCar(lists, streets[c], c, where)
     ELSE closest[c]]

\* Mutant: removeCar does not find the car.
RemoveCarMissed(lists, s, c) == lists

\* addCar appends; removeCar takes out the first entry of the car.
AddCar(lists, s, c)    == [lists EXCEPT ![s][c] = @ + 1]
RemoveCar(lists, s, c) == [lists EXCEPT ![s][c] = IF @ > 0 THEN @ - 1 ELSE 0]

\* isStreetFree: the cars of a street's list inside a window of cells ...
InWindow(s, first, last) ==
  {d \in Listed(on, s) : Along(Dir(s), pos[d]) \in first..last}

\* ... of which it returns one that is furthest along.
FrontMost(s, ds) ==
  {d \in ds : \A e \in ds : Along(Dir(s), pos[e]) =< Along(Dir(s), pos[d])}

(***************************************************************************)
(* A car's list of turns.                                                  *)
(***************************************************************************)
\* Index of the turn of the last intersection of a list of them (the first turn
\* when there is none yet).
TurnIndex(seen) == IF seen = <<>> THEN 1 ELSE Len(seen)

\* Mutant: the next turn is looked up instead.
IsNextTurnCompleted(c, seen) == Len(seen) + 1 \in completed[c]

GetLastTurn(c, seen) == turns[c][TurnIndex(seen)]
GetNextTurn(c, seen) == turns[c][Len(seen) + 1]
IsLastTurnCompleted(c, seen) == TurnIndex(seen) \in completed[c]

\* Mutants: the car only knows the last intersection; currentIntersection is appended
\* before it is set.
VisitedSinceLast(c) ==
  LET here == IntersectionsAt(pos[c]) IN
  IF here = {} \/ (visited[c] # <<>> /\ visited[c][Len(visited[c])] \in here)
  THEN visited[c]
  ELSE Append(visited[c], CHOOSE k \in here : TRUE)
VisitedTooSoon(c) ==
  LET here == IntersectionsAt(pos[c]) IN
  IF here = {} \/ \E i \in 1..Len(visited[c]) : visited[c][i] \in here
  THEN visited[c]
  ELSE Append(visited[c], inter[c])

\* addToIntersectionArray, when the car is at an intersection: the intersection is
\* appended unless the list has it.
VisitedNow(c) ==
  LET here == IntersectionsAt(pos[c]) IN
  IF here = {} \/ \E i \in 1..Len(visited[c]) : visited[c][i] \in here
  THEN visited[c]
  ELSE Append(visited[c], CHOOSE k \in here : TRUE)
InterNow(c) ==
  IF IntersectionsAt(pos[c]) = {} THEN inter[c]
  ELSE CHOOSE k \in IntersectionsAt(pos[c]) : TRUE

NoteIntersection(c) ==
  /\ visited' = [visited EXCEPT ![c] = VisitedNow(c)]
  /\ inter' = [inter EXCEPT ![c] = InterNow(c)]

\* The branches of move(): the car has a turn to make here, or it drives on.
MustTurn(c, turn) ==
  /\ IntersectionsAt(pos[c]) # {}
  /\ GetLastTurn(c, VisitedNow(c)) = turn
  /\ ~IsLastTurnCompleted(c, VisitedNow(c))

DrivesOn(c) == ~MustTurn(c, RightTurn) /\ ~MustTurn(c, LeftTurn)

(***************************************************************************)
(* viewDidLoad: every starting car is on its street, all lists are built.  *)
(***************************************************************************)
StartLists ==
  [s \in Streets |-> [c \in CarId |-> IF c \in StartCars /\ StartStreet[c] = s THEN 1 ELSE 0]]

\* What an identity that no car uses holds.
NoStreet == CHOOSE s \in Streets : TRUE
StartStreets == [c \in CarId |-> IF c \in StartCars THEN StartStreet[c] ELSE NoStreet]
StartPlaces ==
  [c \in CarId |-> IF c \in StartCars THEN OnLane(StartStreet[c], StartPos[c]) ELSE <<0, 0>>]

NoTurns == [i \in 1..TurnCount |-> Straight]
StraightOn(ts) == {i \in DOMAIN ts : ts[i] = Straight}

Init ==
  /\ cars = StartCars
  /\ todo = {} /\ gone = {} /\ carsThrough = 0 /\ created = Len(StartStreet)
  /\ on = StartLists /\ upset = {}
  /\ street = StartStreets /\ prev = StartStreets
  /\ pos = StartPlaces
  /\ closest = [c \in CarId |->
       IF c \in StartCars THEN FindClosestCar(StartLists, StartStreets[c], c, StartPlaces)
       ELSE NoCar]
  /\ turns \in {ts \in [CarId -> TurnArrays] :
                  \A c \in CarId \ StartCars : ts[c] = NoTurns}
  /\ completed = [c \in CarId |-> StraightOn(turns[c])]
  /\ visited = [c \in CarId |-> <<>>]
  /\ inter = [c \in CarId |-> NoIntersection]
  /\ turning = [c \in CarId |-> Straight]
  /\ point = [c \in CarId |-> 0]
  /\ crashed = [c \in CarId |-> FALSE]
  /\ turnedAt = [c \in CarId |-> <<>>]

(***************************************************************************)
(* The frame.  0...carArray.count-1 is evaluated once, so cars created     *)
(* during the loop wait for the next frame; the cars that left are taken   *)
(* out of carArray after the loop.                                         *)
(***************************************************************************)
BeginFrame ==
  /\ todo = {} /\ gone = {}
  /\ carsThrough < MaxThrough
  /\ todo' = cars
  /\ UNCHANGED <<cars, gone, carsThrough, created, on, upset, carVars>>

\* Bound: the game is not followed any further (it keeps deadlock checking useful).
BoundReached ==
  /\ todo = {} /\ gone = {}
  /\ carsThrough >= MaxThrough
  /\ UNCHANGED vars

Forget(f, default) == [c \in CarId |-> IF c \in gone THEN default ELSE f[c]]

\* removeElementsFromArray.  The objects are freed, with all they held.
EndFrame ==
  /\ todo = {} /\ gone # {}
  /\ cars' = cars \ gone
  /\ gone' = {}
  /\ street' = Forget(street, NoStreet) /\ prev' = Forget(prev, NoStreet)
  /\ pos' = Forget(pos, <<0, 0>>)
  /\ closest' = Forget(closest, NoCar)
  /\ turns' = Forget(turns, NoTurns) /\ completed' = Forget(completed, StraightOn(NoTurns))
  /\ visited' = Forget(visited, <<>>) /\ inter' = Forget(inter, NoIntersection)
  /\ turning' = Forget(turning, Straight) /\ point' = Forget(point, 0)
  /\ crashed' = Forget(crashed, FALSE) /\ turnedAt' = Forget(turnedAt, <<>>)
  /\ UNCHANGED <<todo, carsThrough, created, on, upset>>

\* The loop's next car.
Visited(c) ==
  /\ c \in todo /\ \A d \in todo : c =< d
  /\ todo' = todo \ {c}

(***************************************************************************)
(* One visit.                                                              *)
(***************************************************************************)
\* findLight, isVehicleCloseToLight and isRed: the car is not even told to move.
StopAtRed(c) ==
  /\ Visited(c)
  /\ CloseToLight(street[c], pos[c])
  /\ UNCHANGED <<cars, gone, carsThrough, created, on, upset, carVars>>

\* Mutants: the window is one cell too short; the street searched is the one the car
\* is listed on, where it finds itself.
TurnCellFree(c, s) == InWindow(s, Along(Dir(s), pos[c]), Along(Dir(s), pos[c])) = {}
OldStreetFree(c, s) ==
  InWindow(prev[c], Along(Dir(prev[c]), pos[c]), Along(Dir(prev[c]), pos[c]) + 1) = {}

\* turnAreaFree, for the street the car is about to enter.
TurnAreaFree(c, s) ==
  InWindow(s, Along(Dir(s), pos[c]), Along(Dir(s), pos[c]) + 1) = {}

\* History.  A car that begins a turn is put on the lane of its new street, which is two
\* units ahead on the old one, until the curve's first point takes it back.  Lists
\* searched in that frame can make a car follow one it has not come to yet.
Swings(s) ==
  \E d \in Listed(on, s) :
    prev[d] = s /\ street[d] # s /\ turning[d] # Straight /\ point[d] = 0

\* All that street s lists drives on it, two units apart or more.
Settled(s, lists, streets, prevs, where) ==
  \A d \in Listed(lists, s) :
    /\ streets[d] = s /\ prevs[d] = s
    /\ \A e \in Listed(lists, s) \ {d} :
         Along(Dir(s), where[d]) - Along(Dir(s), where[e]) \notin -1..1

\* The upset streets after the closest cars of s were searched for anew: a settled street
\* is right again.
Refreshed(s, lists, streets, prevs, where) ==
  IF Settled(s, lists, streets, prevs, where) THEN upset \ {s}
  ELSE IF Swings(s) THEN upset \cup {s} ELSE upset

\* The common part of makeRightTurn and leftTurner once the way is free.  A left curve
\* runs across what drives on either street: both are upset.
EnterTurn(c, turn, s) ==
  /\ street' = [street EXCEPT ![c] = s]
  /\ on' = AddCar(on, s, c)
  /\ closest' = UpdateClosestCar(s, on', street', pos)
  /\ pos' = [pos EXCEPT ![c] = OnLane(s, @)]
  /\ completed' = [completed EXCEPT ![c] = @ \cup {TurnIndex(VisitedNow(c))}]
  /\ turning' = [turning EXCEPT ![c] = turn]
  /\ point' = [point EXCEPT ![c] = 0]
  /\ turnedAt' = [turnedAt EXCEPT ![c] = Append(@, InterNow(c))]
  /\ upset' = IF turn = LeftTurn THEN upset \cup {street[c], s}
              ELSE IF Swings(s) THEN upset \cup {s} ELSE upset
  /\ NoteIntersection(c)
  /\ UNCHANGED <<cars, gone, carsThrough, created, prev, turns, crashed>>

\* The way is not free: currentStreet is put back to previousStreet.
WaitForTurn(c) ==
  /\ street' = [street EXCEPT ![c] = prev[c]]
  /\ NoteIntersection(c)
  /\ UNCHANGED <<cars, gone, carsThrough, created, on, upset, prev, pos, closest, turns,
                 completed, turning, point, crashed, turnedAt>>

\* The turn is not even tried: nothing changes but the notes.
KeepWaiting(c) ==
  /\ NoteIntersection(c)
  /\ UNCHANGED <<cars, gone, carsThrough, created, on, upset, street, prev, pos, closest,
                 turns, completed, turning, point, crashed, turnedAt>>

MakeRightTurn(c) ==
  /\ Visited(c)
  /\ MustTurn(c, RightTurn)
  /\ LET s == StreetAt(InterNow(c), RightOf(Dir(street[c])))
     IN IF TurnAreaFree(c, s) THEN EnterTurn(c, RightTurn, s) ELSE WaitForTurn(c)

\* makeLeftTurn yields to the front-most opposing car within five units before
\* the centre, unless that car is about to turn left as well.
Opposing(c) ==
  LET s == OppositeStreet(InterNow(c), street[c])
      centre == Along(Dir(s), InterNow(c))
  IN FrontMost(s, InWindow(s, centre - 4, centre))

\* Mutant: a left turn yields to every opposing car.
NeverTurnsLeft(d) == FALSE

TurnsLeftToo(d) ==
  \/ GetLastTurn(d, visited[d]) = LeftTurn /\ ~IsLastTurnCompleted(d, visited[d])
  \/ GetNextTurn(d, visited[d]) = LeftTurn

MakeLeftTurn(c) ==
  /\ Visited(c)
  /\ MustTurn(c, LeftTurn)
  /\ \/ /\ Opposing(c) = {} \/ \E d \in Opposing(c) : TurnsLeftToo(d)
        /\ LET s == StreetAt(InterNow(c), LeftOf(Dir(street[c])))
           IN IF TurnAreaFree(c, s) THEN EnterTurn(c, LeftTurn, s) ELSE WaitForTurn(c)
     \/ /\ \E d \in Opposing(c) : ~TurnsLeftToo(d)
        /\ KeepWaiting(c)

(***************************************************************************)
(* moveCarForward and Car.move.                                            *)
(***************************************************************************)
\* The turn is over once the car has left the intersection: it leaves its old
\* street, whose other cars look for their closest car again.
TurnIsOver(c) ==
  /\ InterNow(c) # NoIntersection
  /\ Dir(street[c]) # Dir(prev[c])
  /\ ~InFrame(InterNow(c), pos[c])

\* calcXDistance and calcYDistance, and the range in which speedModifier is zero.
MinDistance == 2
HasRoom(c) ==
  closest[c] # NoCar =>
    Along(Dir(street[c]), pos[closest[c]]) - Along(Dir(street[c]), pos[c])
      \notin (-MinDistance)..MinDistance

\* The cells the car may be in after the frame when it drives straight.
StraightCells(c) ==
  IF HasRoom(c) THEN {pos[c], Ahead(Dir(street[c]), pos[c], 1)} ELSE {pos[c]}

Curve(c) == IF turning[c] = RightTurn THEN RightCurve ELSE LeftCurve
OnCurve(c) == turning[c] # Straight /\ point[c] < Len(Curve(c))

FinishTurn(c) ==
  /\ Visited(c)
  /\ DrivesOn(c) /\ TurnIsOver(c)
  /\ on' = RemoveCar(on, prev[c], c)
  /\ closest' = UpdateClosestCar(prev[c], on', street, pos)
  /\ prev' = [prev EXCEPT ![c] = street[c]]
  /\ upset' = Refreshed(prev[c], on', street, prev', pos)
  /\ inter' = [inter EXCEPT ![c] = NoIntersection]
  /\ turning' = [turning EXCEPT ![c] = Straight]
  /\ point' = [point EXCEPT ![c] = 0]
  /\ \E p \in IF crashed[c] THEN {pos[c]} ELSE StraightCells(c) :
        pos' = [pos EXCEPT ![c] = p]
  /\ visited' = [visited EXCEPT ![c] = VisitedNow(c)]
  /\ UNCHANGED <<cars, gone, carsThrough, created, street, turns, completed, crashed, turnedAt>>

\* turnCar: the next point of the curve replaces the straight movement, whatever
\* is ahead.  The car stays in a cell for several points.
FollowCurve(c) ==
  /\ Visited(c)
  /\ DrivesOn(c) /\ ~TurnIsOver(c) /\ ~crashed[c] /\ OnCurve(c)
  /\ \E n \in {point[c], point[c] + 1} \ {0} :
       /\ point' = [point EXCEPT ![c] = n]
       /\ pos' = [pos EXCEPT ![c] = CurvePoint(InterNow(c), Dir(prev[c]), Curve(c)[n])]
  /\ NoteIntersection(c)
  /\ UNCHANGED <<cars, gone, carsThrough, created, on, upset, street, prev, closest, turns,
                 completed, turning, crashed, turnedAt>>

\* Plain driving, and the visit of a car that crashed, which no longer moves.
DriveTo(c, p) ==
  /\ Visited(c)
  /\ DrivesOn(c) /\ ~TurnIsOver(c) /\ (crashed[c] \/ ~OnCurve(c))
  /\ p \in IF crashed[c] THEN {pos[c]} ELSE StraightCells(c)
  /\ NoteIntersection(c)

Advance(c) ==
  \E p \in StraightCells(c) \cup {pos[c]} :
    /\ DriveTo(c, p)
    /\ ~Leaving(street[c], p)
    /\ pos' = [pos EXCEPT ![c] = p]
    /\ UNCHANGED <<cars, gone, carsThrough, created, on, upset, street, prev, closest, turns,
                   completed, turning, point, crashed, turnedAt>>

(***************************************************************************)
(* A car leaves: move() creates two cars on the same street, as far behind *)
(* the start of the screen as the constants say, and removeCar takes the   *)
(* car off its street.  carArray keeps it until the frame ends, so the     *)
(* second createCar still sees the leaving car and the first new one.  All *)
(* three changes are to one list, and the last search for closest cars     *)
(* overwrites the others.                                                  *)
(***************************************************************************)
FirstNew  == created + 1
SecondNew == created + 2

NewPlace(s, p, n) == OnLane(s, SpawnPoint(s, p, IF n = FirstNew THEN 1 ELSE 2))

\* createCar refuses a place too near to any car of carArray.
Created(s, p, where) ==
  LET clear(q) == \A d \in cars : ~Overlaps(q, where[d])
      first == IF clear(NewPlace(s, p, FirstNew)) THEN {FirstNew} ELSE {}
  IN {n \in {FirstNew, SecondNew} :
        /\ clear(NewPlace(s, p, n))
        /\ n = SecondNew =>
             \A d \in first : ~Overlaps(NewPlace(s, p, n), NewPlace(s, p, d))}

Leave(c) ==
  /\ SecondNew \in CarId   \* bound
  /\ \E p \in StraightCells(c) :
       /\ DriveTo(c, p)
       /\ Leaving(street[c], p)
       /\ LET s == street[c]
              new == Created(s, p, [pos EXCEPT ![c] = p])
              lists == [on EXCEPT ![s] = [d \in CarId |-> IF d \in new THEN @[d] + 1 ELSE @[d]]]
          IN /\ cars' = cars \cup new
             /\ pos' = [d \in CarId |->
                  IF d \in new THEN NewPlace(s, p, d) ELSE IF d = c THEN p ELSE pos[d]]
             /\ street' = [d \in CarId |-> IF d \in new THEN s ELSE street[d]]
             /\ prev' = [d \in CarId |-> IF d \in new THEN s ELSE prev[d]]
             /\ \E ts \in [new -> TurnArrays] :
                  /\ turns' = [d \in CarId |-> IF d \in new THEN ts[d] ELSE turns[d]]
                  /\ completed' = [d \in CarId |->
                       IF d \in new THEN StraightOn(ts[d]) ELSE completed[d]]
             /\ on' = RemoveCar(lists, s, c)
             /\ closest' = UpdateClosestCar(s, on', street', pos')
             /\ upset' = Refreshed(s, on', street', prev', pos')
  /\ gone' = gone \cup {c}
  /\ carsThrough' = carsThrough + 1
  /\ created' = SecondNew
  /\ UNCHANGED <<turning, point, crashed, turnedAt>>

(***************************************************************************)
(* physicsWorld(didBegin:), called between two frames: SceneKit reports    *)
(* that the bodies of two cars touch, and neither moves again.             *)
(***************************************************************************)
Contact(a, b) ==
  /\ todo = {} /\ gone = {}
  /\ a # b /\ Overlaps(pos[a], pos[b])
  /\ ~(crashed[a] /\ crashed[b])
  /\ crashed' = [crashed EXCEPT ![a] = TRUE, ![b] = TRUE]
  /\ UNCHANGED <<cars, todo, gone, carsThrough, created, on, upset, street, prev, pos, closest,
                 turns, completed, visited, inter, turning, point, turnedAt>>

Visit(c) ==
  \/ StopAtRed(c) \/ MakeRightTurn(c) \/ MakeLeftTurn(c)
  \/ FinishTurn(c) \/ FollowCurve(c) \/ Advance(c) \/ Leave(c)

Next ==
  \/ BeginFrame
  \/ BoundReached
  \/ EndFrame
  \/ \E c \in CarId : Visit(c)
  \/ \E a, b \in cars : Contact(a, b)

Spec == Init /\ [][Next]_vars

(***************************************************************************)
(* Fairness.  The display link keeps calling the renderer, the loop visits *)
(* its next car, and a car that may go on in frame after frame covers the  *)
(* next unit, since its speed grows in each of them.  What lets it go on   *)
(* is the player's part: a car is shown green again and again.             *)
(***************************************************************************)
Where(c) == <<pos[c], point[c], street[c], prev[c]>>
GetsOn(c) == Visit(c) /\ Where(c)' # Where(c)

FairSpec ==
  /\ Spec
  /\ WF_vars(BeginFrame) /\ WF_vars(EndFrame)
  /\ \A c \in CarId : WF_vars(Visit(c)) /\ SF_vars(GetsOn(c))

(***************************************************************************)
(* Properties.                                                             *)
(***************************************************************************)
\* Types of the loop's state and of the cars; nil is NoCar or NoIntersection.
TypeOK ==
  /\ cars \subseteq CarId /\ todo \subseteq cars /\ gone \subseteq cars
  /\ carsThrough \in Nat /\ created \in CarId /\ upset \subseteq Streets
  /\ on \in [Streets -> [CarId -> Nat]]
  /\ street \in [CarId -> Streets] /\ prev \in [CarId -> Streets]
  /\ pos \in [CarId -> Point]
  /\ closest \in [CarId -> CarId \cup {NoCar}]
  /\ turns \in [CarId -> TurnArrays]
  /\ completed \in [CarId -> SUBSET Nat]
  /\ visited \in [CarId -> Seq(Intersections)] /\ turnedAt \in [CarId -> Seq(Intersections)]
  /\ inter \in [CarId -> Intersections \cup {NoIntersection}]
  /\ turning \in [CarId -> Turns] /\ point \in [CarId -> 0..5]
  /\ crashed \in [CarId -> BOOLEAN]

\* A car that has not left is listed exactly once on the street it drives on and,
\* while it turns, exactly once on the street it comes from, and nowhere else; a
\* car that left, or does not exist, is listed nowhere (addCar and removeCar in
\* Car.init, the two turns, Car.move and removeCar of the view controller).
ListedOnce ==
  \A s \in Streets, c \in CarId :
    on[s][c] = IF c \in cars \ gone /\ s \in {street[c], prev[c]} THEN 1 ELSE 0

\* closestCar is not out of date: after every visit it is the nearest car ahead that
\* drives on the car's street, although it is only recomputed when a list changes
\* (updateClosestCar), every car moves in between, and cars join in the middle.  A car
\* on its way to another street may be overlooked, and streets that a left turn or an
\* early search upset are left out until they are settled.
ClosestIsNearest ==
  \A c \in cars \ gone :
    LET s == street[c]
        ahead == {e \in CarsAhead(on, s, c, pos) : street[e] = s}
    IN s \notin upset =>
         IF closest[c] = NoCar THEN ahead = {}
         ELSE /\ closest[c] \in Listed(on, s)
              /\ Along(Dir(s), pos[c]) < Along(Dir(s), pos[closest[c]])
              /\ \A e \in ahead : Along(Dir(s), pos[closest[c]]) =< Along(Dir(s), pos[e])

\* carArray is not empty when a frame begins: move() would trap on its range
\* 0...carArray.count-1.  The two cars created for one that leaves may both be
\* refused, but only because of a car that stays.
CarsNeverEmpty == cars \ gone # {}

\* A car is between two streets only inside the intersection it turns at or on
\* its first visit after it, so it never starts a turn while it is still listed
\* on a third street (makeRightTurn and leftTurner restore previousStreet).
TurnStartsClean ==
  [][\A c \in CarId : street'[c] # street[c] /\ c \in cars \ gone /\ c \in cars' =>
        prev[c] = street[c] /\ prev'[c] = street[c]]_vars

\* A car never reaches one that is ahead of it on its street, nor does one that turns
\* right into a street with traffic reach what is ahead of it there.
NoOvertaking ==
  [][\A a, b \in cars \ gone :
       LET s == street[a] IN
       /\ s = street[b] /\ s \notin upset
       /\ Along(Dir(s), pos[a]) < Along(Dir(s), pos[b])
       /\ street'[a] = s /\ street'[b] = s /\ {a, b} \subseteq cars' \ gone'
       => Along(Dir(s), pos'[a]) < Along(Dir(s), pos'[b])]_vars

\* "A car cannot turn at the same intersection twice" (Car.intersectionArray), also
\* when its turns take it round a block and back to where it began.
TurnsOnceAtEach ==
  \A c \in cars : \A i, j \in 1..Len(turnedAt[c]) :
    turnedAt[c][i] = turnedAt[c][j] => i = j

\* getNextTurn reads the entry after those of the intersections noted so far, also of
\* another car: turnArray always has one more.
TurnsSuffice == \A c \in cars : Len(visited[c]) < TurnCount

\* "It cannot stay on the screen forever" (addToIntersectionArray): whatever turns
\* it has drawn, a car alone on the roads comes to the edge it leaves by.
AtFarEdge(c) == Leaving(street[c], Ahead(Dir(street[c]), pos[c], 1))
EveryCarGetsOut == \A c \in StartCars : <>AtFarEdge(c)

\* Cars that wait for one another's turns (makeLeftTurn, turnAreaFree, speedModifier)
\* do not wait for ever: each comes to the edge it leaves by, or to the car that
\* stands there, unless two of them have met before.
NoGridlock ==
  \A c \in StartCars :
    <>(\/ AtFarEdge(c)
       \/ closest[c] # NoCar /\ AtFarEdge(closest[c])
       \/ \E d \in CarId : crashed[d])

\* What the comment of isLastTurnCompleted says: it is true "in all scenarios, unless
\* the car is waiting to complete a left or right turn after already entering the
\* intersection".
CompletedUnlessWaiting ==
  \A c \in cars : ~IsLastTurnCompleted(c, visited[c]) => IntersectionsAt(pos[c]) # {}

=============================================================================
