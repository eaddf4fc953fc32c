---------------------------- MODULE TrafficProofs ----------------------------
(***************************************************************************)
(* Proofs about the traffic model, for every road network, number of cars  *)
(* and list of turns.  TypeOK and ListedOnce are not inductive: a car that *)
(* follows its curve needs an intersection, and the list of its old street *)
(* must still be right when it leaves the square.  What makes them so is   *)
(* that a car between two streets stays within a cell of the square of the *)
(* intersection it turns at (BetweenStreets), where it has no turn left to *)
(* make and no edge of the screen to leave by.                             *)
(***************************************************************************)
EXTENDS Traffic, SequenceTheorems, TLAPS

(***************************************************************************)
(* The road network.                                                       *)
(***************************************************************************)
\* Inside the square of an intersection or one cell outside it.
Near(k, p) ==
  /\ p[1] \in (k[1] - 4)..(k[1] + 4)
  /\ p[2] \in (k[2] - 4)..(k[2] + 4)

\* A turn leads to another street of the intersection, of another heading.
LEMMA TurnedHeadings ==
  ASSUME NEW d \in Dirs
  PROVE  /\ RightOf(d) \in Dirs /\ RightOf(d) # d
         /\ LeftOf(d) \in Dirs /\ LeftOf(d) # d
BY DEF Dirs, RightOf, LeftOf, Opposite, Left, Right, Down, Up

\* The streets that meet at an intersection are streets of the network.
LEMMA StreetAtIsStreet ==
  ASSUME NEW k \in Intersections, NEW d \in Dirs
  PROVE  StreetAt(k, d) \in Streets /\ Dir(StreetAt(k, d)) = d
BY DEF Intersections, Dirs, StreetAt, Streets, Dir, Horizontal, Left, Right, Down, Up

\* A street has a heading and a lane.
LEMMA StreetTypes ==
  ASSUME NEW s \in Streets
  PROVE  Dir(s) \in Dirs /\ s[2] \in Int /\ LanePosition(s) \in Int
<1>1. s[1] \in {Left, Right, Down, Up} /\ s[2] \in HMids \cup VMids
      BY DEF Streets
<1>2. s[2] \in Int
      BY <1>1, MidsAssumption
<1>3. QED BY <1>1, <1>2 DEF Dirs, Dir, LanePosition, Left, Right, Down, Up

\* Putting a car on its lane leaves it at a point.
LEMMA OnLaneIsPoint ==
  ASSUME NEW s \in Streets, NEW p \in Point
  PROVE  OnLane(s, p) \in Point
BY StreetTypes DEF OnLane, Point

\* So does moving it along a heading.
LEMMA AheadIsPoint ==
  ASSUME NEW d \in Dirs, NEW p \in Point, NEW n \in Int
  PROVE  Ahead(d, p, n) \in Point
BY DEF Ahead, Point, Dirs, Left, Right, Down, Up

\* The centre of an intersection is a point.
LEMMA IntersectionIsPoint == Intersections \subseteq Point
BY MidsAssumption DEF Intersections, Point

\* At most four and at most three units from the same place are at most seven apart.
LEMMA SevenApart ==
  ASSUME NEW a \in Int, NEW b \in Int, NEW q \in Int, q \in (a - 4)..(a + 4), q \in (b - 3)..(b + 3)
  PROVE  a - b \in -7..7
OBVIOUS

\* The squares are so far apart that a car near one is in no other.
LEMMA FramesApart ==
  ASSUME NEW k \in Intersections, NEW j \in Intersections, NEW p \in Point,
         Near(k, p), InFrame(j, p)
  PROVE  j = k
<1>1. /\ k[1] \in VMids /\ j[1] \in VMids /\ k[2] \in HMids /\ j[2] \in HMids
      /\ k = <<k[1], k[2]>> /\ j = <<j[1], j[2]>>
      BY DEF Intersections
<1>2. k[1] \in Int /\ j[1] \in Int /\ k[2] \in Int /\ j[2] \in Int /\ p[1] \in Int /\ p[2] \in Int
      BY <1>1, MidsAssumption DEF Point
<1>3. /\ p[1] \in (k[1] - 4)..(k[1] + 4) /\ p[2] \in (k[2] - 4)..(k[2] + 4)
      /\ p[1] \in (j[1] - 3)..(j[1] + 3) /\ p[2] \in (j[2] - 3)..(j[2] + 3)
      BY DEF Near, InFrame, FrameHalf
<1>4. k[1] - j[1] \in -7..7 /\ k[2] - j[2] \in -7..7
      BY <1>2, <1>3, SevenApart
<1>5. k[1] = j[1] /\ k[2] = j[2]
      BY <1>1, <1>4, SpacingAssumption
<1>6. QED BY <1>1, <1>5

\* The square of an intersection is part of what is near it.
LEMMA InFrameIsNear ==
  ASSUME NEW k \in Intersections, NEW p \in Point, InFrame(k, p)
  PROVE  Near(k, p)
BY IntersectionIsPoint DEF Near, InFrame, FrameHalf, Point

\* So is every cell one beyond it.
LEMMA OneCellOn ==
  ASSUME NEW k \in Intersections, NEW p \in Point, NEW d \in Dirs, InFrame(k, p)
  PROVE  Near(k, Ahead(d, p, 1))
BY IntersectionIsPoint DEF Near, InFrame, FrameHalf, Point, Ahead, Dirs, Left, Right, Down, Up

\* The lanes of an intersection's streets run through its square.
LEMMA LaneInFrame ==
  ASSUME NEW k \in Intersections, NEW p \in Point, NEW d \in Dirs, InFrame(k, p)
  PROVE  InFrame(k, OnLane(StreetAt(k, d), p))
BY IntersectionIsPoint
   DEF InFrame, FrameHalf, Point, OnLane, StreetAt, LanePosition, Horizontal, Dirs,
       Left, Right, Down, Up

\* The points of the two curves.
Offsets == {<<-3, -1>>, <<-2, -1>>, <<-1, -2>>, <<-1, 0>>, <<0, 1>>, <<1, 2>>}

\* They run through the square as well.
LEMMA CurveInFrame ==
  ASSUME NEW k \in Intersections, NEW d \in Dirs, NEW offset \in Offsets
  PROVE  CurvePoint(k, d, offset) \in Point /\ InFrame(k, CurvePoint(k, d, offset))
BY IntersectionIsPoint, SMTT(30)
   DEF Offsets, CurvePoint, InFrame, FrameHalf, Point, Ahead, LeftOf, RightOf, Opposite, Dirs,
       Left, Right, Down, Up

\* A car near an intersection is on the screen.
LEMMA NearIsInside ==
  ASSUME NEW k \in Intersections, NEW p \in Point, Near(k, p)
  PROVE  ~OutsideScreen(p)
<1>1. k[1] \in VMids /\ k[2] \in HMids /\ k[1] \in Int /\ k[2] \in Int
      BY IntersectionIsPoint DEF Intersections, Point
<1>2. QED BY <1>1, ScreenAssumption DEF Near, OutsideScreen, Point

(***************************************************************************)
(* The inductive invariant.                                                *)
(***************************************************************************)
\* Cars are numbered in the order of creation; a car that left is not visited again.
Loop ==
  /\ cars \subseteq 1..created
  /\ gone \cap todo = {}

\* An object that does not exist is on no turn.
AtRest == \A c \in CarId \ cars : street[c] = prev[c]

\* Only a car between two streets has a curve to follow.
TurningIsBetween == \A c \in CarId : turning[c] # Straight => street[c] # prev[c]

\* What is known of a car that has entered its new street and is still listed on the old.
Between(c) ==
  /\ Dir(street[c]) # Dir(prev[c])
  /\ inter[c] \in Intersections
  /\ \E i \in 1..Len(visited[c]) : visited[c][i] = inter[c]
  /\ TurnIndex(visited[c]) \in completed[c]
  /\ Near(inter[c], pos[c])

BetweenStreets == \A c \in CarId : street[c] # prev[c] => Between(c)

Inv == TypeOK /\ ListedOnce /\ Loop /\ AtRest /\ TurningIsBetween /\ BetweenStreets

(***************************************************************************)
(* The operators of the model.                                             *)
(***************************************************************************)
\* The search for the closest car returns a car or nil.
LEMMA FindType ==
  ASSUME NEW lists, NEW s, NEW c, NEW where
  PROVE  FindClosestCar(lists, s, c, where) \in CarId \cup {NoCar}
<1>1. NearestAhead(lists, s, c, where) \subseteq CarId
      BY DEF NearestAhead, CarsAhead, Listed
<1>2. QED BY <1>1 DEF FindClosestCar

\* So refreshing the closest cars keeps the type of closest.
LEMMA UpdateType ==
  ASSUME NEW s, NEW lists, NEW streets, NEW where,
         closest \in [CarId -> CarId \cup {NoCar}]
  PROVE  UpdateClosestCar(s, lists, streets, where) \in [CarId -> CarId \cup {NoCar}]
BY FindType DEF UpdateClosestCar

\* What is upset are streets.
LEMMA UpsetType ==
  ASSUME TypeOK, NEW s \in Streets, NEW lists, NEW streets, NEW prevs, NEW where
  PROVE  Refreshed(s, lists, streets, prevs, where) \subseteq Streets
BY DEF TypeOK, Refreshed

\* A car is at intersections only.
LEMMA HereType ==
  ASSUME NEW p
  PROVE  IntersectionsAt(p) \subseteq Intersections
BY DEF IntersectionsAt

\* The index of a turn is a natural number.
LEMMA IndexType ==
  ASSUME NEW seen \in Seq(Intersections)
  PROVE  TurnIndex(seen) \in Nat
BY DEF TurnIndex

\* The list of intersections, extended or not, holds intersections.
LEMMA VisitedType ==
  ASSUME TypeOK, NEW c \in CarId
  PROVE  VisitedNow(c) \in Seq(Intersections)
<1>1. visited[c] \in Seq(Intersections)
      BY DEF TypeOK
<1> DEFINE here == IntersectionsAt(pos[c])
<1>2. CASE here = {} \/ \E i \in 1..Len(visited[c]) : visited[c][i] \in here
      BY <1>1, <1>2 DEF VisitedNow
<1>3. CASE ~(here = {} \/ \E i \in 1..Len(visited[c]) : visited[c][i] \in here)
      <2>1. (CHOOSE k \in here : TRUE) \in Intersections
            BY <1>3, HereType
      <2>2. VisitedNow(c) = Append(visited[c], CHOOSE k \in here : TRUE)
            BY <1>3 DEF VisitedNow
      <2>3. QED BY <1>1, <2>1, <2>2, AppendProperties
<1>4. QED BY <1>2, <1>3

\* The intersection noted is one, or still nil.
LEMMA InterType ==
  ASSUME TypeOK, NEW c \in CarId
  PROVE  InterNow(c) \in Intersections \cup {NoIntersection}
BY HereType DEF TypeOK, InterNow

\* Noting the intersection keeps the types.
LEMMA NotesType ==
  ASSUME TypeOK, NEW c \in CarId, NoteIntersection(c)
  PROVE  /\ visited' \in [CarId -> Seq(Intersections)]
         /\ inter' \in [CarId -> Intersections \cup {NoIntersection}]
BY VisitedType, InterType DEF TypeOK, NoteIntersection

\* A car between two streets learns nothing new from where it is.
LEMMA NothingNew ==
  ASSUME TypeOK, NEW c \in CarId, Between(c)
  PROVE  /\ VisitedNow(c) = visited[c]
         /\ InterNow(c) = inter[c]
         /\ DrivesOn(c)
<1>1. pos[c] \in Point /\ IntersectionsAt(pos[c]) \subseteq {inter[c]}
      BY FramesApart DEF TypeOK, Between, IntersectionsAt
<1>2. VisitedNow(c) = visited[c]
      BY <1>1 DEF Between, VisitedNow
<1>3. InterNow(c) = inter[c]
      BY <1>1 DEF InterNow
<1>4. DrivesOn(c)
      BY <1>2 DEF DrivesOn, MustTurn, IsLastTurnCompleted, Between
<1>5. QED BY <1>2, <1>3, <1>4

\* A car that must turn is at the intersection it has just noted, on one street.
LEMMA TurnPlace ==
  ASSUME TypeOK, BetweenStreets, NEW c \in CarId, NEW turn \in {RightTurn, LeftTurn},
         MustTurn(c, turn)
  PROVE  /\ street[c] = prev[c]
         /\ InterNow(c) \in Intersections /\ InFrame(InterNow(c), pos[c])
         /\ \E i \in 1..Len(VisitedNow(c)) : VisitedNow(c)[i] = InterNow(c)
<1> DEFINE here == IntersectionsAt(pos[c])
<1>1. street[c] = prev[c]
      BY NothingNew DEF BetweenStreets, DrivesOn
<1>2. here # {} /\ InterNow(c) = CHOOSE k \in here : TRUE
      BY DEF MustTurn, InterNow
<1>3. InterNow(c) \in here
      BY <1>2
<1>4. InterNow(c) \in Intersections /\ InFrame(InterNow(c), pos[c])
      BY <1>3 DEF IntersectionsAt
<1>5. \E i \in 1..Len(VisitedNow(c)) : VisitedNow(c)[i] = InterNow(c)
      <2>1. CASE \E i \in 1..Len(visited[c]) : visited[c][i] \in here
            <3>1. PICK i \in 1..Len(visited[c]) : visited[c][i] \in here
                  BY <2>1
            <3>2. visited[c][i] = InterNow(c)
                  BY <1>4, <3>1, InFrameIsNear, FramesApart DEF IntersectionsAt, TypeOK
            <3>3. VisitedNow(c) = visited[c]
                  BY <2>1 DEF VisitedNow
            <3>4. QED BY <3>2, <3>3
      <2>2. CASE ~ \E i \in 1..Len(visited[c]) : visited[c][i] \in here
            <3>1. VisitedNow(c) = Append(visited[c], InterNow(c))
                  BY <1>2, <2>2 DEF VisitedNow
            <3>2. visited[c] \in Seq(Intersections)
                  BY DEF TypeOK
            <3>3. QED BY <1>4, <3>1, <3>2, AppendProperties
      <2>3. QED BY <2>1, <2>2
<1>6. QED BY <1>1, <1>4, <1>5

(***************************************************************************)
(* The first state.                                                        *)
(***************************************************************************)
\* viewDidLoad establishes the invariant.
LEMMA InitInv == Init => Inv
<1> SUFFICES ASSUME Init PROVE Inv
    OBVIOUS
<1>1. /\ Len(StartStreet) \in 1..MaxCars /\ StartCars \subseteq CarId
      /\ \A c \in StartCars : StartStreet[c] \in Streets /\ StartPos[c] \in Point
      <2>1. Len(StartStreet) \in 1..MaxCars /\ MaxCars \in Nat
            BY CarsAssumption, StartAssumption
      <2>2. StartCars \subseteq CarId
            BY <2>1 DEF StartCars, CarId
      <2>3. \A c \in StartCars : StartStreet[c] \in Streets
            BY StartAssumption, ElementOfSeq DEF StartCars
      <2>4. QED BY <2>1, <2>2, <2>3, StartAssumption
<1> USE DEF Init
<1>2. NoStreet \in Streets
      <2>1. 1 \in StartCars
            BY StartAssumption DEF StartCars
      <2>2. QED BY <1>1, <2>1 DEF NoStreet
<1>3. StartStreets \in [CarId -> Streets]
      BY <1>1, <1>2 DEF StartStreets
<1>4. StartPlaces \in [CarId -> Point]
      BY <1>1, OnLaneIsPoint DEF StartPlaces, Point
<1>5. StartLists \in [Streets -> [CarId -> Nat]]
      BY DEF StartLists
<1>6. /\ turns \in [CarId -> TurnArrays]
      /\ \A c \in CarId : StraightOn(turns[c]) \in SUBSET Nat
      BY TurnsAssumption DEF TurnArrays, StraightOn
<1>7. TypeOK
      <2>1. closest \in [CarId -> CarId \cup {NoCar}]
            BY FindType
      <2>2. /\ inter \in [CarId -> Intersections \cup {NoIntersection}]
            /\ turning \in [CarId -> Turns] /\ point \in [CarId -> 0..5]
            BY DEF Turns, Straight
      <2>3. created \in CarId
            BY <1>1, StartAssumption DEF CarId
      <2>4. /\ visited \in [CarId -> Seq(Intersections)]
            /\ turnedAt \in [CarId -> Seq(Intersections)]
            BY EmptySeq
      <2>5. completed \in [CarId -> SUBSET Nat] /\ crashed \in [CarId -> BOOLEAN]
            BY <1>6
      <2>6. QED BY <1>1, <1>3, <1>4, <1>5, <1>6, <2>1, <2>2, <2>3, <2>4, <2>5 DEF TypeOK
<1>8. ListedOnce
      BY DEF ListedOnce, StartLists, StartStreets
<1>9. Loop
      BY DEF Loop, StartCars
<1>10. AtRest /\ TurningIsBetween /\ BetweenStreets
      BY DEF AtRest, TurningIsBetween, BetweenStreets
<1>11. QED BY <1>7, <1>8, <1>9, <1>10 DEF Inv

(***************************************************************************)
(* The frame.                                                              *)
(***************************************************************************)
\* A step that only moves the loop on.
LEMMA StillInv ==
  ASSUME Inv, UNCHANGED <<cars, gone, carsThrough, created, on, upset, carVars>>,
         todo' \subseteq cars, gone \cap todo' = {}
  PROVE  Inv'
<1> USE DEF carVars
<1>1. TypeOK'
      BY DEF Inv, TypeOK
<1>2. ListedOnce'
      BY DEF Inv, ListedOnce
<1>3. (Loop /\ AtRest /\ TurningIsBetween)'
      BY DEF Inv, Loop, AtRest, TurningIsBetween
<1>4. BetweenStreets'
      <2>1. \A c \in CarId : street[c] # prev[c] => Between(c)
            BY DEF Inv, BetweenStreets
      <2>2. \A c \in CarId : Between(c) => Between(c)'
            BY DEF Between
      <2>3. QED BY <2>1, <2>2 DEF BetweenStreets
<1>5. QED BY <1>1, <1>2, <1>3, <1>4 DEF Inv

\* Stuttering steps keep the invariant.
LEMMA UnchangedInv == Inv /\ UNCHANGED vars => Inv'
BY StillInv DEF vars, Inv, TypeOK, Loop

\* The start of a frame keeps it.
LEMMA BeginFrameInv == Inv /\ BeginFrame => Inv'
BY StillInv DEF BeginFrame, Inv, TypeOK, Loop

\* Freeing the objects that left keeps the type of what they held.
LEMMA ForgetType ==
  ASSUME NEW S, NEW f \in [CarId -> S], NEW default \in S
  PROVE  Forget(f, default) \in [CarId -> S]
BY DEF Forget

\* The end of a frame keeps it.
LEMMA EndFrameInv == Inv /\ EndFrame => Inv'
<1> SUFFICES ASSUME Inv, EndFrame PROVE Inv'
    OBVIOUS
<1>0. TypeOK
      BY DEF Inv
<1>1. TypeOK'
      <2>1. /\ (cars \subseteq CarId /\ todo \subseteq cars /\ gone \subseteq cars)'
            /\ (carsThrough \in Nat /\ created \in CarId)'
            /\ (on \in [Streets -> [CarId -> Nat]])'
            BY <1>0 DEF EndFrame, TypeOK
      <2>2. created \in CarId /\ NoStreet \in Streets
            <3>1. street[created] \in Streets /\ created \in CarId
                  BY <1>0 DEF TypeOK
            <3>2. QED BY <3>1 DEF NoStreet
      <2>3. street' \in [CarId -> Streets] /\ prev' \in [CarId -> Streets]
            BY <1>0, <2>2, ForgetType DEF EndFrame, TypeOK
      <2>4. pos' \in [CarId -> Point]
            <3>1. <<0, 0>> \in Point
                  BY DEF Point
            <3>2. QED BY <1>0, <3>1, ForgetType DEF EndFrame, TypeOK
      <2>5. closest' \in [CarId -> CarId \cup {NoCar}]
            BY <1>0, ForgetType DEF EndFrame, TypeOK
      <2>6. turns' \in [CarId -> TurnArrays] /\ completed' \in [CarId -> SUBSET Nat]
            <3>1. NoTurns \in TurnArrays
                  BY DEF NoTurns, TurnArrays, Turns, Straight
            <3>2. StraightOn(NoTurns) \in SUBSET Nat
                  BY TurnsAssumption DEF NoTurns, StraightOn
            <3>3. QED BY <1>0, <3>1, <3>2, ForgetType DEF EndFrame, TypeOK
      <2>7. visited' \in [CarId -> Seq(Intersections)] /\ turnedAt' \in [CarId -> Seq(Intersections)]
            BY <1>0, EmptySeq, ForgetType DEF EndFrame, TypeOK
      <2>8. inter' \in [CarId -> Intersections \cup {NoIntersection}]
            BY <1>0, ForgetType DEF EndFrame, TypeOK
      <2>9. turning' \in [CarId -> Turns] /\ point' \in [CarId -> 0..5]
            <3>1. Straight \in Turns /\ 0 \in 0..5
                  BY DEF Turns, Straight
            <3>2. QED BY <1>0, <3>1, ForgetType DEF EndFrame, TypeOK
      <2>10. crashed' \in [CarId -> BOOLEAN]
            BY <1>0, ForgetType DEF EndFrame, TypeOK
      <2>11. upset' \subseteq Streets
            BY <1>0 DEF EndFrame, TypeOK
      <2>12. QED BY <2>1, <2>3, <2>4, <2>5, <2>6, <2>7, <2>8, <2>9, <2>10, <2>11 DEF TypeOK
<1>2. \A c \in CarId :
        IF c \in gone THEN street'[c] = prev'[c] /\ turning'[c] = Straight
        ELSE /\ street'[c] = street[c] /\ prev'[c] = prev[c] /\ pos'[c] = pos[c]
             /\ inter'[c] = inter[c] /\ visited'[c] = visited[c] /\ completed'[c] = completed[c]
             /\ turning'[c] = turning[c]
      BY DEF EndFrame, Forget
<1>3. ListedOnce'
      BY <1>2 DEF EndFrame, Inv, ListedOnce
<1>4. (Loop /\ AtRest /\ TurningIsBetween)'
      BY <1>2 DEF EndFrame, Inv, Loop, AtRest, TurningIsBetween
<1>5. BetweenStreets'
      <2>1. \A c \in CarId : street[c] # prev[c] => Between(c)
            BY DEF Inv, BetweenStreets
      <2>2. QED BY <1>2, <2>1 DEF BetweenStreets, Between
<1>6. QED BY <1>1, <1>3, <1>4, <1>5 DEF Inv

\* So does the visit of a car held by a red light.
LEMMA StopAtRedInv ==
  ASSUME Inv, NEW c \in CarId, StopAtRed(c)
  PROVE  Inv'
BY StillInv DEF StopAtRed, Visited, Inv, TypeOK, Loop

(***************************************************************************)
(* The visits that change one car.                                         *)
(***************************************************************************)
\* Nothing the invariant says of car e has changed.
Kept(e) ==
  /\ street'[e] = street[e] /\ prev'[e] = prev[e] /\ pos'[e] = pos[e]
  /\ inter'[e] = inter[e] /\ visited'[e] = visited[e] /\ completed'[e] = completed[e]
  /\ turning'[e] = turning[e]

\* What a visit that changes car c only has to show.
LEMMA OneCarInv ==
  ASSUME Inv, NEW c \in CarId, Visited(c), UNCHANGED <<cars, gone, created>>,
         TypeOK', ListedOnce',
         \A e \in CarId \ {c} : Kept(e),
         turning'[c] # Straight => street'[c] # prev'[c],
         street'[c] # prev'[c] => Between(c)'
  PROVE  Inv'
<1>1. c \in cars /\ todo' = todo \ {c}
      BY DEF Visited, Inv, TypeOK
<1>2. Loop'
      BY <1>1 DEF Inv, Loop
<1>3. AtRest'
      BY <1>1 DEF Inv, AtRest, Kept
<1>4. TurningIsBetween'
      BY DEF Inv, TurningIsBetween, Kept
<1>5. BetweenStreets'
      <2> SUFFICES ASSUME NEW e \in CarId, (street[e] # prev[e])' PROVE Between(e)'
          BY DEF BetweenStreets
      <2>1. CASE e = c
            BY <2>1
      <2>2. CASE e # c
            <3>1. Kept(e)
                  BY <2>2
            <3>2. Between(e)
                  BY <3>1 DEF Kept, Inv, BetweenStreets
            <3>3. QED BY <3>1, <3>2 DEF Kept, Between
      <2>3. QED BY <2>1, <2>2
<1>6. QED BY <1>2, <1>3, <1>4, <1>5 DEF Inv

\* The lists are right when neither they nor the streets have changed.
LEMMA SameLists ==
  ASSUME ListedOnce, UNCHANGED <<cars, gone, on, street, prev>>
  PROVE  ListedOnce'
BY DEF ListedOnce

\* Noting the intersection of c changes the notes of c only.
LEMMA NotesKept ==
  ASSUME TypeOK, NEW c \in CarId, NoteIntersection(c)
  PROVE  /\ visited'[c] = VisitedNow(c) /\ inter'[c] = InterNow(c)
         /\ \A e \in CarId \ {c} : visited'[e] = visited[e] /\ inter'[e] = inter[e]
BY DEF TypeOK, NoteIntersection

\* Putting currentStreet back changes nothing, since the car was on one street.
LEMMA WaitForTurnInv ==
  ASSUME Inv, NEW c \in CarId, Visited(c), NEW turn \in {RightTurn, LeftTurn}, MustTurn(c, turn),
         WaitForTurn(c)
  PROVE  Inv'
<1>1. TypeOK /\ BetweenStreets /\ ListedOnce
      BY DEF Inv
<1>2. street[c] = prev[c]
      BY <1>1, TurnPlace
<1>3. street' = street
      BY <1>1, <1>2 DEF WaitForTurn, TypeOK
<1>4. NoteIntersection(c) /\ todo' \subseteq cars
      BY <1>1 DEF WaitForTurn, Visited, TypeOK
<1>5. TypeOK'
      BY <1>1, <1>3, <1>4, NotesType DEF WaitForTurn, TypeOK
<1>6. ListedOnce'
      BY <1>1, <1>3, SameLists DEF WaitForTurn
<1>7. /\ \A e \in CarId \ {c} : Kept(e)
      /\ turning'[c] = turning[c]
      BY <1>1, <1>3, <1>4, NotesKept DEF WaitForTurn, Kept
<1>8. QED BY <1>2, <1>3, <1>5, <1>6, <1>7, OneCarInv DEF WaitForTurn, Inv, TurningIsBetween

\* Waiting for opposing traffic has the same effect.
LEMMA KeepWaitingInv ==
  ASSUME Inv, NEW c \in CarId, Visited(c), NEW turn \in {RightTurn, LeftTurn}, MustTurn(c, turn),
         KeepWaiting(c)
  PROVE  Inv'
<1>1. TypeOK /\ BetweenStreets
      BY DEF Inv
<1>2. street[c] = prev[c]
      BY <1>1, TurnPlace
<1>3. WaitForTurn(c)
      BY <1>1, <1>2 DEF KeepWaiting, WaitForTurn, TypeOK
<1>4. QED BY <1>3, WaitForTurnInv

\* Entering a turn adds the second list and everything said of a car between streets.
LEMMA EnterTurnInv ==
  ASSUME Inv, NEW c \in CarId, Visited(c), NEW turn \in {RightTurn, LeftTurn}, MustTurn(c, turn),
         NEW d \in Dirs, d # Dir(street[c]), EnterTurn(c, turn, StreetAt(InterNow(c), d))
  PROVE  Inv'
<1> DEFINE k == InterNow(c)
           s == StreetAt(k, d)
<1>1. TypeOK /\ BetweenStreets /\ ListedOnce /\ NoteIntersection(c) /\ c \in cars \ gone
      BY DEF Inv, EnterTurn, Visited, TypeOK, Loop
<1>2. /\ street[c] = prev[c] /\ k \in Intersections /\ InFrame(k, pos[c])
      /\ \E i \in 1..Len(VisitedNow(c)) : VisitedNow(c)[i] = k
      BY <1>1, TurnPlace
<1>3. s \in Streets /\ Dir(s) = d
      BY <1>2, StreetAtIsStreet
<1>4. OnLane(s, pos[c]) \in Point /\ Near(k, OnLane(s, pos[c]))
      BY <1>1, <1>2, <1>3, OnLaneIsPoint, LaneInFrame, InFrameIsNear DEF TypeOK
<1>5. TypeOK'
      <2>1. /\ (cars \subseteq CarId /\ todo \subseteq cars /\ gone \subseteq cars)'
            /\ carsThrough' \in Nat /\ created' \in CarId
            BY <1>1 DEF EnterTurn, Visited, TypeOK
      <2>2. on' \in [Streets -> [CarId -> Nat]]
            BY <1>1, <1>3, SMTT(30) DEF EnterTurn, AddCar, TypeOK
      <2>3. /\ street' \in [CarId -> Streets] /\ prev' \in [CarId -> Streets]
            /\ pos' \in [CarId -> Point] /\ turns' \in [CarId -> TurnArrays]
            BY <1>1, <1>3, <1>4 DEF EnterTurn, TypeOK
      <2>4. closest' \in [CarId -> CarId \cup {NoCar}]
            BY <1>1, UpdateType DEF EnterTurn, TypeOK
      <2>5. completed' \in [CarId -> SUBSET Nat]
            BY <1>1, VisitedType, IndexType DEF EnterTurn, TypeOK
      <2>6. turnedAt' \in [CarId -> Seq(Intersections)]
            BY <1>1, <1>2, AppendProperties DEF EnterTurn, TypeOK
      <2>7. turning' \in [CarId -> Turns] /\ point' \in [CarId -> 0..5] /\ crashed' \in [CarId -> BOOLEAN]
            BY <1>1, SMTT(30) DEF EnterTurn, TypeOK, Turns, RightTurn, LeftTurn
      <2>8. upset' \subseteq Streets
            <3>1. upset \subseteq Streets /\ street[c] \in Streets
                  BY <1>1 DEF TypeOK
            <3>2. QED BY <1>1, <1>3, <3>1 DEF EnterTurn
      <2>9. QED BY <1>1, <2>1, <2>2, <2>3, <2>4, <2>5, <2>6, <2>7, <2>8, NotesType DEF TypeOK
<1>6. /\ street'[c] = s /\ prev'[c] = prev[c] /\ pos'[c] = OnLane(s, pos[c])
      /\ TurnIndex(VisitedNow(c)) \in completed'[c]
      /\ \A e \in CarId \ {c} : Kept(e)
      BY <1>1, NotesKept DEF EnterTurn, TypeOK, Kept
<1>7. s # prev[c]
      BY <1>2, <1>3
<1>8. ListedOnce'
      <2> SUFFICES ASSUME NEW r \in Streets, NEW e \in CarId
                   PROVE  on'[r][e] = IF e \in cars' \ gone' /\ r \in {street'[e], prev'[e]} THEN 1 ELSE 0
          BY DEF ListedOnce
      <2>1. on[r][e] = IF e \in cars \ gone /\ r \in {street[e], prev[e]} THEN 1 ELSE 0
            BY <1>1 DEF ListedOnce
      <2>2. on'[r][e] = IF r = s /\ e = c THEN on[r][e] + 1 ELSE on[r][e]
            BY <1>1, <1>3 DEF EnterTurn, AddCar, TypeOK
      <2>3. cars' = cars /\ gone' = gone
            BY DEF EnterTurn
      <2>4. CASE e = c
            BY <1>1, <1>2, <1>6, <1>7, <2>1, <2>2, <2>3, <2>4
      <2>5. CASE e # c
            BY <1>6, <2>1, <2>2, <2>3, <2>5 DEF Kept
      <2>6. QED BY <2>4, <2>5
<1>9. Between(c)'
      BY <1>1, <1>2, <1>3, <1>4, <1>6, NotesKept DEF Between
<1>10. QED BY <1>5, <1>6, <1>7, <1>8, <1>9, OneCarInv DEF EnterTurn

\* A visit of a car with a right turn to make keeps the invariant.
LEMMA MakeRightTurnInv ==
  ASSUME Inv, NEW c \in CarId, MakeRightTurn(c)
  PROVE  Inv'
<1>1. Visited(c) /\ MustTurn(c, RightTurn)
      BY DEF MakeRightTurn
<1>2. Dir(street[c]) \in Dirs
      BY StreetTypes DEF Inv, TypeOK
<1>3. RightOf(Dir(street[c])) \in Dirs /\ RightOf(Dir(street[c])) # Dir(street[c])
      BY <1>2, TurnedHeadings
<1>4. \/ EnterTurn(c, RightTurn, StreetAt(InterNow(c), RightOf(Dir(street[c]))))
      \/ WaitForTurn(c)
      BY DEF MakeRightTurn
<1>5. QED BY <1>1, <1>3, <1>4, EnterTurnInv, WaitForTurnInv

\* A visit of a car with a left turn to make keeps it.
LEMMA MakeLeftTurnInv ==
  ASSUME Inv, NEW c \in CarId, MakeLeftTurn(c)
  PROVE  Inv'
<1>1. Visited(c) /\ MustTurn(c, LeftTurn)
      BY DEF MakeLeftTurn
<1>2. Dir(street[c]) \in Dirs
      BY StreetTypes DEF Inv, TypeOK
<1>3. LeftOf(Dir(street[c])) \in Dirs /\ LeftOf(Dir(street[c])) # Dir(street[c])
      BY <1>2, TurnedHeadings
<1>4. \/ EnterTurn(c, LeftTurn, StreetAt(InterNow(c), LeftOf(Dir(street[c]))))
      \/ WaitForTurn(c)
      \/ KeepWaiting(c)
      BY DEF MakeLeftTurn
<1>5. QED BY <1>1, <1>3, <1>4, EnterTurnInv, WaitForTurnInv, KeepWaitingInv

(***************************************************************************)
(* Driving.                                                                *)
(***************************************************************************)
\* Driving straight, a car stays or moves one cell ahead.
LEMMA CellsType ==
  ASSUME TypeOK, NEW c \in CarId, NEW p \in StraightCells(c)
  PROVE  p \in Point /\ p \in {pos[c], Ahead(Dir(street[c]), pos[c], 1)}
<1>1. p \in {pos[c], Ahead(Dir(street[c]), pos[c], 1)}
      BY DEF StraightCells
<1>2. pos[c] \in Point /\ Dir(street[c]) \in Dirs
      BY StreetTypes DEF TypeOK
<1>3. QED BY <1>1, <1>2, AheadIsPoint

\* Taking the car off its old street leaves it on one list.
LEMMA FinishTurnInv ==
  ASSUME Inv, NEW c \in CarId, FinishTurn(c)
  PROVE  Inv'
<1>1. TypeOK /\ ListedOnce /\ c \in cars \ gone /\ Visited(c) /\ TurnIsOver(c)
      BY DEF Inv, FinishTurn, Visited, TypeOK, Loop
<1>2. PICK p \in IF crashed[c] THEN {pos[c]} ELSE StraightCells(c) : pos' = [pos EXCEPT ![c] = p]
      BY DEF FinishTurn
<1>3. p \in Point
      BY <1>1, <1>2, CellsType DEF TypeOK
<1>4. street[c] # prev[c] /\ street[c] \in Streets /\ prev[c] \in Streets
      BY <1>1 DEF TurnIsOver, TypeOK
<1>5. TypeOK'
      <2>1. /\ (cars \subseteq CarId /\ todo \subseteq cars /\ gone \subseteq cars)'
            /\ carsThrough' \in Nat /\ created' \in CarId
            BY <1>1 DEF FinishTurn, Visited, TypeOK
      <2>2. on' \in [Streets -> [CarId -> Nat]]
            BY <1>1, <1>4, SMTT(30) DEF FinishTurn, RemoveCar, TypeOK
      <2>3. /\ street' \in [CarId -> Streets] /\ prev' \in [CarId -> Streets]
            /\ pos' \in [CarId -> Point] /\ turns' \in [CarId -> TurnArrays]
            BY <1>1, <1>2, <1>3, <1>4 DEF FinishTurn, TypeOK
      <2>4. closest' \in [CarId -> CarId \cup {NoCar}]
            BY <1>1, UpdateType DEF FinishTurn, TypeOK
      <2>5. visited' \in [CarId -> Seq(Intersections)] /\ turnedAt' \in [CarId -> Seq(Intersections)]
            BY <1>1, VisitedType DEF FinishTurn, TypeOK
      <2>6. /\ inter' \in [CarId -> Intersections \cup {NoIntersection}]
            /\ turning' \in [CarId -> Turns] /\ point' \in [CarId -> 0..5]
            /\ crashed' \in [CarId -> BOOLEAN] /\ completed' \in [CarId -> SUBSET Nat]
            BY <1>1 DEF FinishTurn, TypeOK, Turns, Straight
      <2>7. upset' \subseteq Streets
            BY <1>1, <1>4, UpsetType DEF FinishTurn
      <2>8. QED BY <2>1, <2>2, <2>3, <2>4, <2>5, <2>6, <2>7 DEF TypeOK
<1>6. /\ street'[c] = street[c] /\ prev'[c] = street[c] /\ turning'[c] = Straight
      /\ \A e \in CarId \ {c} : Kept(e)
      BY <1>1, <1>2 DEF FinishTurn, TypeOK, Kept
<1>7. ListedOnce'
      <2> SUFFICES ASSUME NEW r \in Streets, NEW e \in CarId
                   PROVE  on'[r][e] = IF e \in cars' \ gone' /\ r \in {street'[e], prev'[e]} THEN 1 ELSE 0
          BY DEF ListedOnce
      <2>1. on[r][e] = IF e \in cars \ gone /\ r \in {street[e], prev[e]} THEN 1 ELSE 0
            BY <1>1 DEF ListedOnce
      <2>2. on'[r][e] = IF r = prev[c] /\ e = c THEN IF on[r][e] > 0 THEN on[r][e] - 1 ELSE 0
                        ELSE on[r][e]
            BY <1>1, <1>4 DEF FinishTurn, RemoveCar, TypeOK
      <2>3. cars' = cars /\ gone' = gone
            BY DEF FinishTurn
      <2>4. CASE e = c
            BY <1>1, <1>4, <1>6, <2>1, <2>2, <2>3, <2>4
      <2>5. CASE e # c
            BY <1>6, <2>1, <2>2, <2>3, <2>5 DEF Kept
      <2>6. QED BY <2>4, <2>5
<1>8. QED BY <1>1, <1>5, <1>6, <1>7, OneCarInv DEF FinishTurn

\* The points of both curves.
LEMMA CurvePoints ==
  ASSUME NEW c \in CarId, NEW n \in 1..Len(Curve(c))
  PROVE  Curve(c)[n] \in Offsets /\ Len(Curve(c)) =< 5
<1>1. CASE turning[c] = RightTurn
      <2>1. Curve(c) = RightCurve /\ Len(RightCurve) = 3
            BY <1>1 DEF Curve, RightCurve
      <2>2. RightCurve[1] \in Offsets /\ RightCurve[2] \in Offsets /\ RightCurve[3] \in Offsets
            BY DEF RightCurve, Offsets
      <2>3. n \in 1..3
            BY <2>1
      <2>4. QED BY <2>1, <2>2, <2>3
<1>2. CASE turning[c] # RightTurn
      <2>1. Curve(c) = LeftCurve /\ Len(LeftCurve) = 5
            BY <1>2 DEF Curve, LeftCurve
      <2>2. LeftCurve[1] \in Offsets /\ LeftCurve[2] \in Offsets /\ LeftCurve[3] \in Offsets
            /\ LeftCurve[4] \in Offsets /\ LeftCurve[5] \in Offsets
            BY DEF LeftCurve, Offsets
      <2>3. n \in 1..5
            BY <2>1
      <2>4. QED BY <2>1, <2>2, <2>3
<1>3. QED BY <1>1, <1>2

\* Following the curve keeps the car in the square of its intersection.
LEMMA FollowCurveInv ==
  ASSUME Inv, NEW c \in CarId, FollowCurve(c)
  PROVE  Inv'
<1>1. /\ TypeOK /\ ListedOnce /\ TurningIsBetween /\ BetweenStreets
      /\ Visited(c) /\ NoteIntersection(c) /\ OnCurve(c)
      BY DEF Inv, FollowCurve
<1>2. street[c] # prev[c] /\ Between(c)
      BY <1>1 DEF OnCurve, TurningIsBetween, BetweenStreets
<1>3. VisitedNow(c) = visited[c] /\ InterNow(c) = inter[c]
      BY <1>1, <1>2, NothingNew
<1>4. PICK n \in {point[c], point[c] + 1} \ {0} :
        /\ point' = [point EXCEPT ![c] = n]
        /\ pos' = [pos EXCEPT ![c] = CurvePoint(InterNow(c), Dir(prev[c]), Curve(c)[n])]
      BY DEF FollowCurve
<1> DEFINE p == CurvePoint(inter[c], Dir(prev[c]), Curve(c)[n])
<1>5. /\ n \in 1..5 /\ p \in Point /\ Near(inter[c], p)
      <2>1. Len(Curve(c)) \in Nat /\ point[c] \in Nat /\ point[c] < Len(Curve(c))
            <3>1. Len(RightCurve) = 3 /\ Len(LeftCurve) = 5
                  BY DEF RightCurve, LeftCurve
            <3>2. Curve(c) = RightCurve \/ Curve(c) = LeftCurve
                  BY DEF Curve
            <3>3. point[c] < Len(Curve(c))
                  BY <1>1 DEF OnCurve
            <3>4. point[c] \in 0..5
                  BY <1>1 DEF TypeOK
            <3>5. QED BY <3>1, <3>2, <3>3, <3>4
      <2>2. n \in 1..Len(Curve(c))
            BY <1>4, <2>1
      <2>3. Dir(prev[c]) \in Dirs
            BY <1>1, StreetTypes DEF TypeOK
      <2>4. QED BY <1>2, <2>1, <2>2, <2>3, CurvePoints, CurveInFrame, InFrameIsNear DEF Between
<1>6. TypeOK'
      <2>1. (cars \subseteq CarId /\ todo \subseteq cars /\ gone \subseteq cars)'
            BY <1>1 DEF FollowCurve, Visited, TypeOK
      <2>2. pos' \in [CarId -> Point] /\ point' \in [CarId -> 0..5]
            <3>1. n \in 0..5
                  BY <1>5
            <3>2. pos \in [CarId -> Point] /\ point \in [CarId -> 0..5]
                  BY <1>1 DEF TypeOK
            <3>3. pos' = [pos EXCEPT ![c] = p]
                  BY <1>3, <1>4
            <3>4. pos' \in [CarId -> Point]
                  BY <1>5, <3>2, <3>3
            <3>5. point' \in [CarId -> 0..5]
                  BY <1>4, <3>1, <3>2
            <3>6. QED BY <3>4, <3>5
      <2>3. UNCHANGED <<carsThrough, created, on, upset, street, prev, closest, turns, completed,
                        turning, crashed, turnedAt>>
            BY DEF FollowCurve
      <2>4. QED BY <1>1, <2>1, <2>2, <2>3, NotesType DEF TypeOK
<1>7. ListedOnce'
      BY <1>1, SameLists DEF FollowCurve
<1>8. /\ \A e \in CarId \ {c} : Kept(e)
      /\ street'[c] = street[c] /\ prev'[c] = prev[c] /\ pos'[c] = p
      /\ completed'[c] = completed[c] /\ turning'[c] = turning[c]
      BY <1>1, <1>3, <1>4, NotesKept DEF FollowCurve, Kept, TypeOK
<1>9. Between(c)'
      BY <1>1, <1>2, <1>3, <1>5, <1>8, NotesKept DEF Between
<1>10. QED BY <1>1, <1>2, <1>6, <1>7, <1>8, <1>9, OneCarInv DEF FollowCurve

\* Driving on between two streets, a car gets no further than one cell out of the
\* square of its intersection.
LEMMA StaysNear ==
  ASSUME TypeOK, NEW c \in CarId, NEW p \in StraightCells(c) \cup {pos[c]}, Between(c),
         ~TurnIsOver(c)
  PROVE  Near(inter[c], p)
<1>1. InterNow(c) = inter[c] /\ inter[c] # NoIntersection
      BY NothingNew, CrossAssumption DEF Between
<1>2. InFrame(inter[c], pos[c])
      BY <1>1 DEF TurnIsOver, Between
<1>3. pos[c] \in Point /\ Dir(street[c]) \in Dirs
      BY StreetTypes DEF TypeOK
<1>4. p \in {pos[c], Ahead(Dir(street[c]), pos[c], 1)}
      BY CellsType
<1>5. QED BY <1>2, <1>3, <1>4, OneCellOn DEF Between

\* Plain driving keeps the invariant.
LEMMA AdvanceInv ==
  ASSUME Inv, NEW c \in CarId, Advance(c)
  PROVE  Inv'
<1>1. PICK p \in StraightCells(c) \cup {pos[c]} :
        /\ DriveTo(c, p)
        /\ pos' = [pos EXCEPT ![c] = p]
      BY DEF Advance
<1>2. /\ TypeOK /\ ListedOnce /\ TurningIsBetween /\ BetweenStreets
      /\ Visited(c) /\ NoteIntersection(c) /\ ~TurnIsOver(c)
      BY <1>1 DEF Inv, DriveTo
<1>3. UNCHANGED <<cars, gone, carsThrough, created, on, upset, street, prev, closest, turns,
                  completed, turning, point, crashed, turnedAt>>
      BY DEF Advance
<1>4. p \in Point
      BY <1>1, <1>2, CellsType, SMTT(30) DEF TypeOK
<1>5. TypeOK'
      <2>1. (cars \subseteq CarId /\ todo \subseteq cars /\ gone \subseteq cars)'
            BY <1>2, <1>3 DEF Visited, TypeOK
      <2>2. pos' \in [CarId -> Point]
            BY <1>1, <1>2, <1>4 DEF TypeOK
      <2>3. QED BY <1>2, <1>3, <2>1, <2>2, NotesType DEF TypeOK
<1>6. ListedOnce'
      BY <1>2, <1>3, SameLists
<1>7. (\A e \in CarId \ {c} : Kept(e)) /\ pos'[c] = p
      BY <1>1, <1>2, <1>3, NotesKept DEF Kept, TypeOK
<1>8. street'[c] # prev'[c] => Between(c)'
      <2> SUFFICES ASSUME street'[c] # prev'[c] PROVE Between(c)'
          OBVIOUS
      <2>1. Between(c)
            BY <1>2, <1>3 DEF BetweenStreets
      <2>2. visited'[c] = visited[c] /\ inter'[c] = inter[c]
            BY <1>2, <2>1, NothingNew, NotesKept
      <2>3. Near(inter[c], p)
            BY <1>2, <2>1, StaysNear
      <2>4. QED BY <1>3, <1>7, <2>1, <2>2, <2>3 DEF Between
<1>9. QED BY <1>2, <1>3, <1>5, <1>6, <1>7, <1>8, OneCarInv DEF TurningIsBetween

(***************************************************************************)
(* A car leaves, and the cars that take its place.                         *)
(***************************************************************************)
\* New cars are created at points.
LEMMA NewPlaceType ==
  ASSUME NEW s \in Streets, NEW p \in Point, NEW n \in Nat
  PROVE  NewPlace(s, p, n) \in Point
<1>1. Dir(s) \in Dirs /\ SpawnX[1] \in Int /\ SpawnX[2] \in Int /\ SpawnY[1] \in Int /\ SpawnY[2] \in Int
      BY StreetTypes, SpawnAssumption
<1>2. \A i \in {1, 2} : SpawnPoint(s, p, i) \in Point
      BY <1>1 DEF SpawnPoint, Point, Dirs, Left, Right, Down, Up
<1>3. QED BY <1>2, OnLaneIsPoint DEF NewPlace

\* A car that leaves is on one list only, and its successors are new objects.
LEMMA LeaveInv ==
  ASSUME Inv, NEW c \in CarId, Leave(c)
  PROVE  Inv'
<1>1. PICK p \in StraightCells(c) :
        /\ DriveTo(c, p)
        /\ Leaving(street[c], p)
        /\ LET s == street[c]
               new == Created(s, p, [pos EXCEPT ![c] = p])
               lists == [on EXCEPT ![s] = [d \in CarId |-> IF d \in new THEN @[d] + 1 ELSE @[d]]]
           IN /\ cars' = cars \cup new
              /\ pos' = [d \in CarId |->
                   IF d \in new THEN NewPlace(s, p, d) ELSE IF d = c THEN p ELSE pos[d]]
              /\ street' = [d \in CarId |-> IF d \in new THEN s ELSE street[d]]
              /\ prev' = [d \in CarId |-> IF d \in new THEN s ELSE prev[d]]
              /\ \E ts \in [new -> TurnArrays] :
                   /\ turns' = [d \in CarId |-> IF d \in new THEN ts[d] ELSE turns[d]]
                   /\ completed' = [d \in CarId |->
                        IF d \in new THEN StraightOn(ts[d]) ELSE completed[d]]
              /\ on' = RemoveCar(lists, s, c)
              /\ closest' = UpdateClosestCar(s, on', street', pos')
              /\ upset' = Refreshed(s, on', street', prev', pos')
      BY DEF Leave
<1>2. /\ SecondNew \in CarId /\ gone' = gone \cup {c} /\ carsThrough' = carsThrough + 1
      /\ created' = SecondNew /\ UNCHANGED <<turning, point, crashed, turnedAt>>
      BY DEF Leave
<1> DEFINE s == street[c]
           new == Created(s, p, [pos EXCEPT ![c] = p])
           lists == [on EXCEPT ![s] = [d \in CarId |-> IF d \in new THEN @[d] + 1 ELSE @[d]]]
<1>3. /\ TypeOK /\ ListedOnce /\ Loop /\ AtRest /\ TurningIsBetween /\ BetweenStreets
      /\ Visited(c) /\ NoteIntersection(c) /\ ~TurnIsOver(c)
      BY <1>1 DEF Inv, DriveTo
<1>4. c \in cars \ gone /\ c \in todo /\ todo' = todo \ {c} /\ s \in Streets
      BY <1>3 DEF Visited, TypeOK, Loop
<1>5. new \subseteq {created + 1, created + 2} /\ new \subseteq CarId /\ new \cap cars = {}
      <2>1. created \in Nat /\ FirstNew = created + 1 /\ SecondNew = created + 2
            BY <1>3 DEF TypeOK, FirstNew, SecondNew, CarId
      <2>2. new \subseteq {FirstNew, SecondNew}
            BY DEF Created
      <2>3. FirstNew \in CarId
            BY <1>2, <2>1, CarsAssumption DEF CarId
      <2>4. cars \subseteq 1..created
            BY <1>3 DEF Loop
      <2>5. created + 1 \notin 1..created /\ created + 2 \notin 1..created
            BY <2>1
      <2>6. new \subseteq {created + 1, created + 2} /\ {created + 1, created + 2} \subseteq CarId
            BY <1>2, <2>1, <2>2, <2>3
      <2> HIDE DEF new
      <2>7. QED BY <2>4, <2>5, <2>6
<1>6. p \in Point
      BY <1>3, CellsType
\* A car that leaves is between no two streets.
<1>7. s = prev[c]
      <2> SUFFICES ASSUME s # prev[c] PROVE FALSE
          OBVIOUS
      <2>1. Between(c)
            BY <1>3 DEF BetweenStreets
      <2>2. Near(inter[c], p)
            BY <1>3, <2>1, StaysNear
      <2>3. ~OutsideScreen(p)
            BY <1>6, <2>1, <2>2, NearIsInside DEF Between
      <2>4. QED BY <1>1, <2>3 DEF Leaving
<1> HIDE DEF new
<1>8. /\ cars' = cars \cup new
      /\ pos' = [d \in CarId |->
                   IF d \in new THEN NewPlace(s, p, d) ELSE IF d = c THEN p ELSE pos[d]]
      /\ street' = [d \in CarId |-> IF d \in new THEN s ELSE street[d]]
      /\ prev' = [d \in CarId |-> IF d \in new THEN s ELSE prev[d]]
      /\ on' = RemoveCar(lists, s, c)
      /\ closest' = UpdateClosestCar(s, on', street', pos')
      /\ upset' = Refreshed(s, on', street', prev', pos')
      BY <1>1 DEF new
<1>9. PICK ts \in [new -> TurnArrays] :
        /\ turns' = [d \in CarId |-> IF d \in new THEN ts[d] ELSE turns[d]]
        /\ completed' = [d \in CarId |-> IF d \in new THEN StraightOn(ts[d]) ELSE completed[d]]
      BY <1>1 DEF new
<1>10. lists \in [Streets -> [CarId -> Nat]]
       <2> DEFINE added == [d \in CarId |-> IF d \in new THEN on[s][d] + 1 ELSE on[s][d]]
       <2>1. on \in [Streets -> [CarId -> Nat]] /\ s \in Streets
             BY <1>3, <1>4 DEF TypeOK
       <2>2. added \in [CarId -> Nat]
             BY <2>1
       <2>3. lists = [on EXCEPT ![s] = added]
             BY <2>1
       <2> HIDE DEF added, lists
       <2>4. QED BY <2>1, <2>2, <2>3
<1>11. \A d \in CarId : \A r \in Streets :
         on'[r][d] = IF r = s /\ d = c THEN IF on[r][d] > 0 THEN on[r][d] - 1 ELSE 0
                     ELSE IF r = s /\ d \in new THEN on[r][d] + 1 ELSE on[r][d]
       <2>1. \A d \in CarId : \A r \in Streets :
               lists[r][d] = IF r = s /\ d \in new THEN on[r][d] + 1 ELSE on[r][d]
             BY <1>3, <1>4 DEF TypeOK
       <2>2. c \notin new
             BY <1>4, <1>5
       <2> HIDE DEF lists
       <2>3. QED BY <1>4, <1>8, <1>10, <2>1, <2>2 DEF RemoveCar
<1>12. TypeOK'
       <2>1. (cars \subseteq CarId /\ todo \subseteq cars /\ gone \subseteq cars)'
             BY <1>2, <1>3, <1>4, <1>5, <1>8 DEF TypeOK
       <2>2. carsThrough' \in Nat /\ created' \in CarId
             BY <1>2, <1>3 DEF TypeOK
       <2>3. on' \in [Streets -> [CarId -> Nat]]
             <3> HIDE DEF lists
             <3>1. QED BY <1>4, <1>8, <1>10 DEF RemoveCar
       <2>4. street' \in [CarId -> Streets] /\ prev' \in [CarId -> Streets]
             BY <1>3, <1>4, <1>8 DEF TypeOK
       <2>5. pos' \in [CarId -> Point]
             <3>1. \A d \in new : NewPlace(s, p, d) \in Point
                   BY <1>4, <1>5, <1>6, NewPlaceType DEF CarId
             <3>2. QED BY <1>3, <1>6, <1>8, <3>1 DEF TypeOK
       <2>6. closest' \in [CarId -> CarId \cup {NoCar}]
             BY <1>3, <1>8, UpdateType DEF TypeOK
       <2>7. turns' \in [CarId -> TurnArrays]
             BY <1>3, <1>9 DEF TypeOK
       <2>8. completed' \in [CarId -> SUBSET Nat]
             <3>1. \A d \in new : StraightOn(ts[d]) \in SUBSET Nat
                   BY TurnsAssumption DEF StraightOn, TurnArrays
             <3>2. QED BY <1>3, <1>9, <3>1 DEF TypeOK
       <2>9. /\ turnedAt' \in [CarId -> Seq(Intersections)] /\ turning' \in [CarId -> Turns]
             /\ point' \in [CarId -> 0..5] /\ crashed' \in [CarId -> BOOLEAN]
             BY <1>2, <1>3 DEF TypeOK
       <2>10. upset' \subseteq Streets
             BY <1>3, <1>4, <1>8, UpsetType
       <2>11. QED BY <1>3, <2>1, <2>2, <2>3, <2>4, <2>5, <2>6, <2>7, <2>8, <2>9, <2>10, NotesType DEF TypeOK
<1>13. ListedOnce'
       <2> SUFFICES ASSUME NEW r \in Streets, NEW e \in CarId
                    PROVE  on'[r][e] = IF e \in cars' \ gone' /\ r \in {street'[e], prev'[e]} THEN 1 ELSE 0
           BY DEF ListedOnce
       <2>1. on[r][e] = IF e \in cars \ gone /\ r \in {street[e], prev[e]} THEN 1 ELSE 0
             BY <1>3 DEF ListedOnce
       <2>2. gone \subseteq cars
             BY <1>3 DEF TypeOK
       <2>3. CASE e = c
             BY <1>2, <1>4, <1>7, <1>11, <2>1, <2>3
       <2>4. CASE e \in new
             BY <1>2, <1>4, <1>5, <1>8, <1>11, <2>1, <2>2, <2>4
       <2>5. CASE e # c /\ e \notin new
             BY <1>2, <1>8, <1>11, <2>1, <2>5
       <2>6. QED BY <2>3, <2>4, <2>5
<1>14. Loop'
       <2>1. created \in Nat
             BY <1>3 DEF TypeOK, CarId
       <2>2. cars' \subseteq 1..created'
             <3>1. created' = created + 2 /\ cars \subseteq 1..created
                   BY <1>2, <1>3 DEF Loop, SecondNew
             <3>2. 1..created \subseteq 1..created' /\ {created + 1, created + 2} \subseteq 1..created'
                   BY <2>1, <3>1
             <3>3. QED BY <1>5, <1>8, <3>1, <3>2
       <2>3. gone' \cap todo' = {}
             BY <1>2, <1>3, <1>4 DEF Loop
       <2>4. QED BY <2>2, <2>3 DEF Loop
<1>15. AtRest'
       BY <1>3, <1>8 DEF AtRest
<1>16. TurningIsBetween'
       <2>1. \A d \in new : turning[d] = Straight
             BY <1>3, <1>5 DEF AtRest, TurningIsBetween
       <2>2. QED BY <1>2, <1>3, <1>8, <2>1 DEF TurningIsBetween
<1>17. BetweenStreets'
       <2> SUFFICES ASSUME NEW e \in CarId, street'[e] # prev'[e] PROVE Between(e)'
           BY DEF BetweenStreets
       <2>1. e \notin new /\ e # c
             BY <1>7, <1>8
       <2>2. Kept(e)
             BY <1>2, <1>3, <1>8, <1>9, <2>1, NotesKept DEF Kept
       <2>3. Between(e)
             BY <1>3, <2>2 DEF Kept, BetweenStreets
       <2>4. QED BY <2>2, <2>3 DEF Kept, Between
<1>18. QED BY <1>12, <1>13, <1>14, <1>15, <1>16, <1>17 DEF Inv

\* A collision changes no list and no street.
LEMMA ContactInv ==
  ASSUME Inv, NEW a \in cars, NEW b \in cars, Contact(a, b)
  PROVE  Inv'
<1>1. TypeOK'
      <2>1. crashed' \in [CarId -> BOOLEAN]
            BY DEF Contact, Inv, TypeOK
      <2>2. QED BY <2>1 DEF Contact, Inv, TypeOK
<1>2. ListedOnce'
      BY SameLists DEF Contact, Inv
<1>3. (Loop /\ AtRest /\ TurningIsBetween)'
      BY DEF Contact, Inv, Loop, AtRest, TurningIsBetween
<1>4. BetweenStreets'
      <2>1. \A c \in CarId : street[c] # prev[c] => Between(c)
            BY DEF Inv, BetweenStreets
      <2>2. \A c \in CarId : Between(c) => Between(c)'
            BY DEF Contact, Between
      <2>3. QED BY <2>1, <2>2 DEF Contact, BetweenStreets
<1>5. QED BY <1>1, <1>2, <1>3, <1>4 DEF Inv

(***************************************************************************)
(* The invariant of the traffic.                                           *)
(***************************************************************************)
\* Every step keeps the invariant.
LEMMA StepInv == Inv /\ [Next]_vars => Inv'
<1> SUFFICES ASSUME Inv, [Next]_vars PROVE Inv'
    OBVIOUS
<1>1. CASE BeginFrame
      BY <1>1, BeginFrameInv
<1>2. CASE EndFrame
      BY <1>2, EndFrameInv
<1>3. ASSUME NEW c \in CarId, Visit(c) PROVE Inv'
      BY <1>3, StopAtRedInv, MakeRightTurnInv, MakeLeftTurnInv, FinishTurnInv, FollowCurveInv,
         AdvanceInv, LeaveInv DEF Visit
<1>4. ASSUME NEW a \in cars, NEW b \in cars, Contact(a, b) PROVE Inv'
      BY <1>4, ContactInv
<1>5. CASE UNCHANGED vars
      BY <1>5, UnchangedInv
<1>6. CASE BoundReached
      BY <1>6, UnchangedInv DEF BoundReached
<1>7. QED BY <1>1, <1>2, <1>3, <1>4, <1>5, <1>6 DEF Next

\* The invariant holds throughout, for any road network, any set of starting cars
\* and any turns they draw.
THEOREM InvHolds == Spec => []Inv
BY InitInv, StepInv, PTL DEF Spec

\* The state of the loop and of every car keeps its types; in particular the car
\* that follows a curve always has the intersection the curve belongs to.
THEOREM TypeCorrect == Spec => []TypeOK
<1>1. Inv => TypeOK
      BY DEF Inv
<1>2. QED BY <1>1, InvHolds, PTL

\* A car is on the list of its street once, on that of the street it comes from once
\* while it turns, and on no other, whatever the other cars do meanwhile.
THEOREM Listing == Spec => []ListedOnce
<1>1. Inv => ListedOnce
      BY DEF Inv
<1>2. QED BY <1>1, InvHolds, PTL

\* No car ever starts a turn before the street of its last turn has been tidied up:
\* it is between two streets only near the intersection it turns at, where it has
\* nothing left to turn.
THEOREM CleanTurns == Spec => TurnStartsClean
<1> DEFINE Clean == \A c \in CarId : street'[c] # street[c] /\ c \in cars \ gone /\ c \in cars' =>
                      prev[c] = street[c] /\ prev'[c] = street[c]
<1>1. Inv /\ [Next]_vars => [Clean]_vars
      <2> SUFFICES ASSUME Inv, [Next]_vars, NEW c \in CarId, street'[c] # street[c],
                          c \in cars \ gone, c \in cars'
                   PROVE  prev[c] = street[c] /\ prev'[c] = street[c]
          OBVIOUS
      <2>1. TypeOK /\ BetweenStreets
            BY DEF Inv
      <2>2. CASE EndFrame
            BY <2>2 DEF EndFrame, Forget
      <2>3. ASSUME NEW e \in CarId, NEW turn \in {RightTurn, LeftTurn}, MustTurn(e, turn), NEW s,
                   EnterTurn(e, turn, s)
            PROVE  prev[c] = street[c] /\ prev'[c] = street[c]
            <3>1. e = c
                  BY <2>1, <2>3 DEF EnterTurn, TypeOK
            <3>2. street[c] = prev[c]
                  BY <2>1, <2>3, <3>1, TurnPlace
            <3>3. QED BY <2>3, <3>2 DEF EnterTurn
      <2>4. ASSUME NEW e \in CarId, NEW turn \in {RightTurn, LeftTurn}, MustTurn(e, turn),
                   WaitForTurn(e)
            PROVE  FALSE
            BY <2>1, <2>4, TurnPlace DEF WaitForTurn, TypeOK
      <2>5. ASSUME NEW e \in CarId, MakeRightTurn(e)
            PROVE  prev[c] = street[c] /\ prev'[c] = street[c]
            BY <2>3, <2>4, <2>5 DEF MakeRightTurn
      <2>6. ASSUME NEW e \in CarId, MakeLeftTurn(e)
            PROVE  prev[c] = street[c] /\ prev'[c] = street[c]
            BY <2>3, <2>4, <2>6 DEF MakeLeftTurn, KeepWaiting
      <2>7. ASSUME NEW e \in CarId, Leave(e)
            PROVE  FALSE
            <3>1. PICK p \in StraightCells(e) :
                    street' = [d \in CarId |->
                      IF d \in Created(street[e], p, [pos EXCEPT ![e] = p]) THEN street[e] ELSE street[d]]
                  BY <2>7 DEF Leave
            <3> DEFINE new == Created(street[e], p, [pos EXCEPT ![e] = p])
            <3>2. c \in new
                  BY <3>1
            <3>3. created \in Nat /\ c \in 1..created
                  BY DEF Inv, TypeOK, Loop, CarId
            <3>4. new \subseteq {FirstNew, SecondNew}
                  BY DEF Created
            <3>5. c = created + 1 \/ c = created + 2
                  BY <3>2, <3>4 DEF FirstNew, SecondNew
            <3>6. QED BY <3>3, <3>5
      <2>8. CASE UNCHANGED street
            BY <2>8
      <2>9. QED
            BY <2>2, <2>5, <2>6, <2>7, <2>8
            DEF Next, Visit, BeginFrame, BoundReached, StopAtRed, FinishTurn, FollowCurve, Advance,
                Contact, carVars, vars
<1>2. QED BY <1>1, InvHolds, PTL DEF Spec, TurnStartsClean
==============================================================================
