------------------------------ MODULE CarsProofs -----------------------------
(***************************************************************************)
(* Proofs about single cars, for every road network.                       *)
(*                                                                         *)
(* carArray is never empty when a frame begins.  When a car leaves,        *)
(* createCar may refuse the two new ones, because some car is too near to  *)
(* where they would appear; the proof shows that such a car is one that    *)
(* stays.  A car that is leaving cannot be in the way: it is past the far  *)
(* edge of the street it drives on and on its lane, and the first new car  *)
(* appears behind the near edge of its own street and on its own lane.  So *)
(* what has to be known is that a car that is not turning is on its lane,  *)
(* which takes the points where the curves end (OnCourse).                 *)
(*                                                                         *)
(* A car turns only once at each intersection.  That is not inductive: a   *)
(* car remembers the intersections it has been at and the numbers of the   *)
(* turns it has completed, not where it completed them.  What relates the  *)
(* two is that a turn still to be made is the one at the intersection      *)
(* noted last, and that the car has not left its square (LastIsHere):      *)
(* addToIntersectionArray notes no other in between.                       *)
(***************************************************************************)
EXTENDS TrafficProofs, FiniteSetTheorems

(***************************************************************************)
(* The courses of the cars.                                                *)
(***************************************************************************)
\* The position is on the lane of the street.
OnItsLane(s, p) == p = OnLane(s, p)

\* The street by which a car leaves the intersection it turns at.
Exit(c) ==
  StreetAt(inter[c], IF turning[c] = RightTurn THEN RightOf(Dir(prev[c])) ELSE LeftOf(Dir(prev[c])))

\* A car drives on the lane of its street, except on the curve of a turn, which is
\* in the square of the intersection.
OnCourse(c) ==
  IF street[c] = prev[c] THEN OnItsLane(street[c], pos[c])
  ELSE /\ turning[c] # Straight /\ street[c] = Exit(c)
       /\ IF OnCurve(c) THEN InFrame(inter[c], pos[c]) ELSE OnItsLane(street[c], pos[c])

AllOnCourse == \A c \in cars : OnCourse(c)

\* A car that left in this frame is past the far edge.
GoneAreOut == \A c \in gone : street[c] = prev[c] /\ Leaving(street[c], pos[c])

LanesInv == AllOnCourse /\ GoneAreOut /\ CarsNeverEmpty

(***************************************************************************)
(* Lanes.                                                                  *)
(***************************************************************************)
\* Being put on the lane is being on it.
LEMMA PutOnLane ==
  ASSUME NEW s \in Streets, NEW p \in Point
  PROVE  OnItsLane(s, OnLane(s, p))
BY StreetTypes DEF OnItsLane, OnLane, Point

\* Driving ahead keeps to the lane.
LEMMA AheadOnLane ==
  ASSUME NEW s \in Streets, NEW p \in Point, OnItsLane(s, p)
  PROVE  OnItsLane(s, Ahead(Dir(s), p, 1))
<1>1. s[1] \in {Left, Right, Down, Up} /\ LanePosition(s) \in Int
      BY StreetTypes DEF Dirs, Dir, Left, Right, Down, Up
<1>2. QED BY <1>1 DEF OnItsLane, OnLane, Ahead, Dir, Point, Horizontal, Left, Right, Down, Up

\* The right curve ends on the lane of the street to the right ...
LEMMA RightCurveEnd ==
  ASSUME NEW k \in Intersections, NEW d \in Dirs
  PROVE  OnItsLane(StreetAt(k, RightOf(d)), CurvePoint(k, d, <<-1, -2>>))
BY IntersectionIsPoint, SMTT(30)
   DEF OnItsLane, OnLane, StreetAt, LanePosition, CurvePoint, Ahead, LeftOf, RightOf, Opposite,
       Horizontal, Point, Dirs, Left, Right, Down, Up

\* ... and the left curve on that of the street to the left.
LEMMA LeftCurveEnd ==
  ASSUME NEW k \in Intersections, NEW d \in Dirs
  PROVE  OnItsLane(StreetAt(k, LeftOf(d)), CurvePoint(k, d, <<1, 2>>))
BY IntersectionIsPoint, SMTT(30)
   DEF OnItsLane, OnLane, StreetAt, LanePosition, CurvePoint, Ahead, LeftOf, RightOf, Opposite,
       Horizontal, Point, Dirs, Left, Right, Down, Up

\* A new car is on its lane, before the middle of the screen along its heading.
LEMMA NewPlaceBehind ==
  ASSUME NEW s \in Streets, NEW p \in Point, NEW n \in Nat
  PROVE  /\ NewPlace(s, p, n) \in Point /\ OnItsLane(s, NewPlace(s, p, n))
         /\ Along(Dir(s), NewPlace(s, p, n)) < 0
<1>1. s[1] \in {Left, Right, Down, Up} /\ LanePosition(s) \in Int
      BY StreetTypes DEF Dirs, Dir, Left, Right, Down, Up
<1>2. PICK i \in {1, 2} : NewPlace(s, p, n) = OnLane(s, SpawnPoint(s, p, i))
      BY DEF NewPlace
<1>3. SpawnX[i] \in Nat \ {0} /\ SpawnY[i] \in Nat \ {0}
      BY SpawnAssumption
<1>4. SpawnPoint(s, p, i) \in Point
      BY <1>1, <1>3 DEF SpawnPoint, Dir, Point, Left, Right, Down, Up
<1>5. NewPlace(s, p, n) \in Point /\ OnItsLane(s, NewPlace(s, p, n))
      BY <1>2, <1>4, OnLaneIsPoint, PutOnLane
<1>6. Along(Dir(s), OnLane(s, SpawnPoint(s, p, i))) < 0
      BY <1>1, <1>3 DEF SpawnPoint, OnLane, Along, Dir, Point, Horizontal, Left, Right, Down, Up
<1>7. QED BY <1>2, <1>5, <1>6

\* A car past the far edge of its street is not near a new one: on the same street it
\* is on the other side of the middle, on a parallel one on another lane, and on a
\* crossing one it is beyond the edge, where no lane of this direction runs.
LEMMA OutOfTheWay ==
  ASSUME NEW s \in Streets, NEW q \in Point, OnItsLane(s, q), Along(Dir(s), q) < 0,
         NEW r \in Streets, NEW p \in Point, OnItsLane(r, p), Leaving(r, p)
  PROVE  ~Overlaps(q, p)
<1>1. /\ s[1] \in Dirs /\ s[2] \in Int /\ r[1] \in Dirs /\ r[2] \in Int
      /\ Horizontal(s[1]) => s[2] \in HMids
      /\ ~Horizontal(s[1]) => s[2] \in VMids
      /\ Horizontal(r[1]) => r[2] \in HMids
      /\ ~Horizontal(r[1]) => r[2] \in VMids
      BY StreetTypes DEF Streets, Dir, Dirs, Horizontal, Left, Right, Down, Up
<1>2. q[1] \in Int /\ q[2] \in Int /\ p[1] \in Int /\ p[2] \in Int
      BY DEF Point
<1>3. /\ Horizontal(s[1]) => q[2] \in {s[2] - 1, s[2] + 1}
      /\ ~Horizontal(s[1]) => q[1] \in {s[2] - 1, s[2] + 1}
      /\ Horizontal(r[1]) => p[2] \in {r[2] - 1, r[2] + 1}
      /\ ~Horizontal(r[1]) => p[1] \in {r[2] - 1, r[2] + 1}
      BY <1>2 DEF OnItsLane, OnLane, LanePosition
<1>4. CASE s[1] = r[1] /\ s[2] = r[2]
      <2>1. Along(s[1], q) < 0 /\ Along(s[1], p) > 0
            BY <1>4 DEF Leaving, Dir
      <2>2. QED BY <1>1, <1>2, <2>1 DEF Along, Overlaps, Dirs, Left, Right, Down, Up
<1>5. CASE (Horizontal(s[1]) <=> Horizontal(r[1])) /\ s[1] # r[1] /\ s[2] = r[2]
      BY <1>1, <1>2, <1>5 DEF OnItsLane, OnLane, LanePosition, Overlaps, Horizontal, Dirs, Left, Right, Down, Up
<1>6. CASE (Horizontal(s[1]) <=> Horizontal(r[1])) /\ s[2] # r[2]
      <2>1. s[2] - r[2] \notin -7..7
            BY <1>1, <1>6, SpacingAssumption
      <2>2. s[2] > r[2] + 7 \/ r[2] > s[2] + 7
            BY <1>1, <2>1
      <2>3. CASE Horizontal(s[1])
            BY <1>1, <1>2, <1>3, <1>6, <2>2, <2>3 DEF Overlaps
      <2>4. CASE ~Horizontal(s[1])
            BY <1>1, <1>2, <1>3, <1>6, <2>2, <2>4 DEF Overlaps
      <2>5. QED BY <2>3, <2>4
<1>7. CASE Horizontal(s[1]) /\ ~Horizontal(r[1])
      <2>1. /\ Screen.left < r[2] - 5 /\ r[2] + 5 < Screen.right
            /\ Screen.bottom < s[2] - 5 /\ s[2] + 5 < Screen.top
            /\ Screen.left \in Int /\ Screen.right \in Int
            /\ Screen.bottom \in Int /\ Screen.top \in Int
            BY <1>1, <1>7, ScreenAssumption
      <2>2. p[2] =< Screen.bottom \/ p[2] >= Screen.top
            BY <1>1, <1>2, <1>3, <1>7, <2>1 DEF Leaving, OutsideScreen
      <2>3. QED BY <1>1, <1>2, <1>3, <1>7, <2>1, <2>2 DEF Overlaps
<1>8. CASE ~Horizontal(s[1]) /\ Horizontal(r[1])
      <2>1. /\ Screen.left < s[2] - 5 /\ s[2] + 5 < Screen.right
            /\ Screen.bottom < r[2] - 5 /\ r[2] + 5 < Screen.top
            /\ Screen.left \in Int /\ Screen.right \in Int
            /\ Screen.bottom \in Int /\ Screen.top \in Int
            BY <1>1, <1>8, ScreenAssumption
      <2>2. p[1] =< Screen.left \/ p[1] >= Screen.right
            BY <1>1, <1>2, <1>3, <1>8, <2>1 DEF Leaving, OutsideScreen
      <2>3. QED BY <1>1, <1>2, <1>3, <1>8, <2>1, <2>2 DEF Overlaps
<1>9. QED BY <1>4, <1>5, <1>6, <1>7, <1>8

(***************************************************************************)
(* The first state and the frame.                                          *)
(***************************************************************************)
\* createCar puts the starting cars on their lanes.
LEMMA InitLanes == Init => LanesInv
<1> SUFFICES ASSUME Init PROVE LanesInv
    OBVIOUS
<1> USE DEF Init
<1>1. StartCars # {} /\ StartCars \subseteq CarId
      <2>1. Len(StartStreet) \in 1..MaxCars /\ MaxCars \in Nat
            BY CarsAssumption, StartAssumption
      <2>2. QED BY <2>1 DEF StartCars, CarId
<1>2. \A c \in StartCars : StartStreet[c] \in Streets /\ StartPos[c] \in Point
      BY StartAssumption, ElementOfSeq DEF StartCars
<1>3. \A c \in cars : street[c] = prev[c] /\ OnItsLane(street[c], pos[c])
      BY <1>1, <1>2, PutOnLane DEF StartStreets, StartPlaces
<1>4. QED BY <1>1, <1>3 DEF LanesInv, AllOnCourse, OnCourse, GoneAreOut, CarsNeverEmpty

\* Nothing OnCourse says of car e has changed.
CourseKept(e) == Kept(e) /\ point'[e] = point[e]

\* So it stays on its course.
LEMMA KeptOnCourse ==
  ASSUME NEW e \in CarId, OnCourse(e), CourseKept(e)
  PROVE  OnCourse(e)'
BY DEF CourseKept, Kept, OnCourse, OnCurve, Curve, Exit

\* What a visit of car c that does not leave has to show.
LEMMA OneCarLanes ==
  ASSUME Inv, LanesInv, NEW c \in CarId, Visited(c), UNCHANGED <<cars, gone>>,
         \A e \in CarId \ {c} : CourseKept(e),
         OnCourse(c)'
  PROVE  LanesInv'
<1>1. c \in cars \ gone /\ cars \subseteq CarId /\ gone \subseteq cars
      BY DEF Inv, TypeOK, Loop, Visited
<1>2. AllOnCourse'
      BY <1>1, KeptOnCourse DEF LanesInv, AllOnCourse
<1>3. GoneAreOut'
      BY <1>1 DEF LanesInv, GoneAreOut, CourseKept, Kept
<1>4. CarsNeverEmpty'
      BY DEF LanesInv, CarsNeverEmpty
<1>5. QED BY <1>2, <1>3, <1>4 DEF LanesInv

\* A step that moves no car and takes none away.
LEMMA SameCarsLanes ==
  ASSUME Inv, LanesInv, UNCHANGED <<cars, gone, street, prev, pos, inter, turning, point>>
  PROVE  LanesInv'
<1>1. AllOnCourse'
      BY DEF LanesInv, AllOnCourse, OnCourse, OnCurve, Curve, Exit
<1>2. GoneAreOut' /\ CarsNeverEmpty'
      BY DEF LanesInv, GoneAreOut, CarsNeverEmpty
<1>3. QED BY <1>1, <1>2 DEF LanesInv

\* The cars that stay keep all they have when the others are freed.
LEMMA EndFrameLanes == Inv /\ LanesInv /\ EndFrame => LanesInv'
<1> SUFFICES ASSUME Inv, LanesInv, EndFrame PROVE LanesInv'
    OBVIOUS
<1>1. cars' = cars \ gone /\ gone' = {} /\ cars \subseteq CarId
      BY DEF EndFrame, Inv, TypeOK
<1>2. \A e \in cars \ gone : CourseKept(e)
      BY <1>1 DEF EndFrame, Forget, CourseKept, Kept
<1>3. AllOnCourse'
      BY <1>1, <1>2, KeptOnCourse DEF LanesInv, AllOnCourse
<1>4. QED BY <1>1, <1>3 DEF LanesInv, GoneAreOut, CarsNeverEmpty

(***************************************************************************)
(* Turns.                                                                  *)
(***************************************************************************)
\* A car that waits for its turn stays where it is, on one street.
LEMMA WaitLanes ==
  ASSUME Inv, LanesInv, NEW c \in CarId, Visited(c), NEW turn \in {RightTurn, LeftTurn},
         MustTurn(c, turn), WaitForTurn(c) \/ KeepWaiting(c)
  PROVE  LanesInv'
<1>1. TypeOK /\ BetweenStreets /\ c \in cars
      BY DEF Inv, Visited, TypeOK
<1>2. street[c] = prev[c]
      BY <1>1, TurnPlace
<1>3. street' = street
      BY <1>1, <1>2 DEF WaitForTurn, KeepWaiting, TypeOK
<1>4. \A e \in CarId \ {c} : CourseKept(e)
      BY <1>1, <1>3, NotesKept DEF WaitForTurn, KeepWaiting, CourseKept, Kept
<1>5. street'[c] = prev'[c] /\ OnItsLane(street'[c], pos'[c])
      BY <1>1, <1>2, <1>3 DEF WaitForTurn, KeepWaiting, LanesInv, AllOnCourse, OnCourse
<1>6. QED BY <1>4, <1>5, OneCarLanes DEF OnCourse, WaitForTurn, KeepWaiting

\* A car that enters a turn is at the beginning of its curve, in the square.
LEMMA EnterLanes ==
  ASSUME Inv, LanesInv, NEW c \in CarId, Visited(c), NEW turn \in {RightTurn, LeftTurn},
         MustTurn(c, turn), NEW d \in Dirs, d # Dir(street[c]),
         d = IF turn = RightTurn THEN RightOf(Dir(street[c])) ELSE LeftOf(Dir(street[c])),
         EnterTurn(c, turn, StreetAt(InterNow(c), d))
  PROVE  LanesInv'
<1> DEFINE k == InterNow(c)
           s == StreetAt(k, d)
<1>1. TypeOK /\ BetweenStreets /\ NoteIntersection(c)
      BY DEF Inv, EnterTurn
<1>2. street[c] = prev[c] /\ k \in Intersections /\ InFrame(k, pos[c])
      BY <1>1, TurnPlace
<1>3. s \in Streets /\ Dir(s) = d
      BY <1>2, StreetAtIsStreet
<1>4. InFrame(k, OnLane(s, pos[c]))
      BY <1>1, <1>2, LaneInFrame DEF TypeOK
<1>5. /\ street'[c] = s /\ prev'[c] = prev[c] /\ pos'[c] = OnLane(s, pos[c])
      /\ inter'[c] = k /\ turning'[c] = turn /\ point'[c] = 0
      /\ \A e \in CarId \ {c} : CourseKept(e)
      BY <1>1, NotesKept DEF EnterTurn, TypeOK, CourseKept, Kept
<1>6. OnCurve(c)'
      <2>1. Len(RightCurve) = 3 /\ Len(LeftCurve) = 5
            BY DEF RightCurve, LeftCurve
      <2>2. turning'[c] # Straight
            BY <1>5 DEF RightTurn, LeftTurn, Straight
      <2>3. Curve(c)' = RightCurve \/ Curve(c)' = LeftCurve
            BY DEF Curve
      <2>4. 0 < Len(RightCurve) /\ 0 < Len(LeftCurve)
            BY <2>1
      <2>5. 0 < Len(Curve(c)')
            BY <2>3, <2>4
      <2>6. QED BY <1>5, <2>2, <2>5 DEF OnCurve
<1>7. turning'[c] # Straight /\ street'[c] = Exit(c)' /\ street'[c] # prev'[c]
      BY <1>2, <1>3, <1>5 DEF Exit, RightTurn, LeftTurn, Straight
<1>8. OnCourse(c)'
      BY <1>4, <1>5, <1>6, <1>7 DEF OnCourse
<1>9. QED BY <1>5, <1>8, OneCarLanes DEF EnterTurn

\* A visit of a car with a right turn to make keeps the cars on their courses.
LEMMA MakeRightTurnLanes ==
  ASSUME Inv, LanesInv, NEW c \in CarId, MakeRightTurn(c)
  PROVE  LanesInv'
<1> DEFINE d == RightOf(Dir(street[c]))
<1>1. Visited(c) /\ MustTurn(c, RightTurn)
      BY DEF MakeRightTurn
<1>2. d \in Dirs /\ d # Dir(street[c])
      BY StreetTypes, TurnedHeadings DEF Inv, TypeOK
<1>3. EnterTurn(c, RightTurn, StreetAt(InterNow(c), d)) \/ WaitForTurn(c)
      BY DEF MakeRightTurn
<1>4. QED BY <1>1, <1>2, <1>3, EnterLanes, WaitLanes

\* A visit of a car with a left turn to make does.
LEMMA MakeLeftTurnLanes ==
  ASSUME Inv, LanesInv, NEW c \in CarId, MakeLeftTurn(c)
  PROVE  LanesInv'
<1> DEFINE d == LeftOf(Dir(street[c]))
<1>1. Visited(c) /\ MustTurn(c, LeftTurn) /\ LeftTurn # RightTurn
      BY DEF MakeLeftTurn, LeftTurn, RightTurn
<1>2. d \in Dirs /\ d # Dir(street[c])
      BY StreetTypes, TurnedHeadings DEF Inv, TypeOK
<1>3. EnterTurn(c, LeftTurn, StreetAt(InterNow(c), d)) \/ WaitForTurn(c) \/ KeepWaiting(c)
      BY DEF MakeLeftTurn
<1>4. QED BY <1>1, <1>2, <1>3, EnterLanes, WaitLanes

\* A car whose turn is over is not on the curve any more, hence on its new lane.
LEMMA FinishTurnLanes ==
  ASSUME Inv, LanesInv, NEW c \in CarId, FinishTurn(c)
  PROVE  LanesInv'
<1>1. TypeOK /\ BetweenStreets /\ Visited(c) /\ c \in cars /\ TurnIsOver(c)
      BY DEF Inv, FinishTurn, Visited, TypeOK
<1>2. PICK p \in IF crashed[c] THEN {pos[c]} ELSE StraightCells(c) : pos' = [pos EXCEPT ![c] = p]
      BY DEF FinishTurn
<1>3. street[c] # prev[c] /\ Between(c)
      BY <1>1 DEF TurnIsOver, BetweenStreets
<1>4. ~InFrame(inter[c], pos[c])
      BY <1>1, <1>3, NothingNew DEF TurnIsOver
<1>5. OnItsLane(street[c], pos[c])
      BY <1>1, <1>3, <1>4 DEF LanesInv, AllOnCourse, OnCourse
<1>6. street[c] \in Streets /\ pos[c] \in Point
      BY <1>1 DEF TypeOK
<1>7. OnItsLane(street[c], p)
      BY <1>1, <1>2, <1>5, <1>6, CellsType, AheadOnLane
<1>8. /\ street'[c] = street[c] /\ prev'[c] = street[c] /\ pos'[c] = p
      /\ \A e \in CarId \ {c} : CourseKept(e)
      BY <1>1, <1>2 DEF FinishTurn, TypeOK, CourseKept, Kept
<1>9. OnCourse(c)'
      BY <1>7, <1>8 DEF OnCourse
<1>10. QED BY <1>1, <1>8, <1>9, OneCarLanes DEF FinishTurn

\* A car that follows its curve is in the square until it reaches the end, which is on
\* the lane of the street it enters.
LEMMA FollowCurveLanes ==
  ASSUME Inv, LanesInv, NEW c \in CarId, FollowCurve(c)
  PROVE  LanesInv'
<1>1. /\ TypeOK /\ TurningIsBetween /\ BetweenStreets /\ c \in cars
      /\ Visited(c) /\ NoteIntersection(c) /\ OnCurve(c)
      BY DEF Inv, FollowCurve, Visited, TypeOK
<1>2. street[c] # prev[c] /\ Between(c)
      BY <1>1 DEF OnCurve, TurningIsBetween, BetweenStreets
<1>3. InterNow(c) = inter[c] /\ inter[c] \in Intersections /\ Dir(prev[c]) \in Dirs
      BY <1>1, <1>2, NothingNew, StreetTypes DEF Between, TypeOK
<1>4. PICK n \in {point[c], point[c] + 1} \ {0} :
        /\ point' = [point EXCEPT ![c] = n]
        /\ pos' = [pos EXCEPT ![c] = CurvePoint(InterNow(c), Dir(prev[c]), Curve(c)[n])]
      BY DEF FollowCurve
<1> DEFINE p == CurvePoint(inter[c], Dir(prev[c]), Curve(c)[n])
<1>5. street[c] = Exit(c) /\ turning[c] # Straight
      BY <1>1, <1>2 DEF LanesInv, AllOnCourse, OnCourse
<1>6. /\ street'[c] = street[c] /\ prev'[c] = prev[c] /\ pos'[c] = p
      /\ turning'[c] = turning[c] /\ inter'[c] = inter[c] /\ point'[c] = n
      /\ \A e \in CarId \ {c} : CourseKept(e)
      BY <1>1, <1>3, <1>4, NotesKept DEF FollowCurve, CourseKept, Kept, TypeOK
<1>7. Len(RightCurve) = 3 /\ Len(LeftCurve) = 5
      BY DEF RightCurve, LeftCurve
<1>8. Curve(c) = (IF turning[c] = RightTurn THEN RightCurve ELSE LeftCurve) /\ Curve(c)' = Curve(c)
      BY <1>6 DEF Curve
<1>9. n \in 1..Len(Curve(c))
      <2>1. point[c] \in 0..5 /\ point[c] < Len(Curve(c))
            BY <1>1 DEF TypeOK, OnCurve
      <2>2. QED BY <1>4, <1>7, <1>8, <2>1
<1>10. CASE n < Len(Curve(c))
       <2>1. InFrame(inter[c], p)
             BY <1>3, <1>9, CurvePoints, CurveInFrame
       <2>2. OnCurve(c)'
             BY <1>5, <1>6, <1>8, <1>10 DEF OnCurve
       <2>3. OnCourse(c)'
             BY <1>2, <1>5, <1>6, <2>1, <2>2 DEF OnCourse, Exit
       <2>4. QED BY <1>1, <1>6, <2>3, OneCarLanes DEF FollowCurve
<1>11. CASE n = Len(Curve(c))
       <2>1. ~OnCurve(c)'
             BY <1>6, <1>8, <1>11, <1>7 DEF OnCurve
       <2>2. OnItsLane(street[c], p)
             <3>1. CASE turning[c] = RightTurn
                   <4>1. Curve(c)[n] = <<-1, -2>>
                         BY <1>7, <1>8, <1>11, <3>1 DEF RightCurve
                   <4>2. QED BY <1>3, <1>5, <3>1, <4>1, RightCurveEnd DEF Exit
             <3>2. CASE turning[c] # RightTurn
                   <4>1. Curve(c)[n] = <<1, 2>>
                         BY <1>7, <1>8, <1>11, <3>2 DEF LeftCurve
                   <4>2. QED BY <1>3, <1>5, <3>2, <4>1, LeftCurveEnd DEF Exit
             <3>3. QED BY <3>1, <3>2
       <2>3. OnCourse(c)'
             BY <1>2, <1>5, <1>6, <2>1, <2>2 DEF OnCourse, Exit
       <2>4. QED BY <1>1, <1>6, <2>3, OneCarLanes DEF FollowCurve
<1>12. Len(Curve(c)) = 3 \/ Len(Curve(c)) = 5
       BY <1>7, <1>8
<1>13. n < Len(Curve(c)) \/ n = Len(Curve(c))
       BY <1>9, <1>12
<1>14. QED BY <1>10, <1>11, <1>13

\* Plain driving keeps a car on its lane; one that crashed on its curve stays there.
LEMMA AdvanceLanes ==
  ASSUME Inv, LanesInv, NEW c \in CarId, Advance(c)
  PROVE  LanesInv'
<1>1. PICK p \in StraightCells(c) \cup {pos[c]} :
        /\ DriveTo(c, p)
        /\ pos' = [pos EXCEPT ![c] = p]
      BY DEF Advance
<1>2. /\ TypeOK /\ BetweenStreets /\ c \in cars /\ OnCourse(c)
      /\ Visited(c) /\ NoteIntersection(c) /\ (crashed[c] \/ ~OnCurve(c))
      BY <1>1 DEF Inv, DriveTo, Visited, TypeOK, LanesInv, AllOnCourse
<1>3. UNCHANGED <<cars, gone, street, prev, completed, turning, point>>
      BY DEF Advance
<1>4. /\ pos'[c] = p /\ inter'[c] = InterNow(c)
      /\ \A e \in CarId \ {c} : CourseKept(e)
      BY <1>1, <1>2, <1>3, NotesKept DEF CourseKept, Kept, TypeOK
<1>5. street[c] # prev[c] => inter'[c] = inter[c]
      BY <1>2, <1>4, NothingNew DEF BetweenStreets
<1>6. crashed[c] => p = pos[c]
      BY <1>1 DEF DriveTo
<1>7. OnItsLane(street[c], pos[c]) => OnItsLane(street[c], p)
      <2>1. street[c] \in Streets /\ pos[c] \in Point
            BY <1>2 DEF TypeOK
      <2>2. p = pos[c] \/ p = Ahead(Dir(street[c]), pos[c], 1)
            BY <1>1 DEF StraightCells
      <2>3. QED BY <2>1, <2>2, AheadOnLane
<1>8. OnCurve(c)' <=> OnCurve(c)
      BY <1>3 DEF OnCurve, Curve
<1>9. OnCourse(c)'
      <2>1. CASE street[c] = prev[c]
            BY <1>2, <1>3, <1>4, <1>7, <2>1 DEF OnCourse
      <2>2. CASE street[c] # prev[c]
            BY <1>2, <1>3, <1>4, <1>5, <1>6, <1>7, <1>8, <2>2 DEF OnCourse, Exit
      <2>3. QED BY <2>1, <2>2
<1>10. QED BY <1>2, <1>3, <1>4, <1>9, OneCarLanes

(***************************************************************************)
(* A car leaves.                                                           *)
(***************************************************************************)
\* The car that leaves is past the far edge, like those that left before it in this
\* frame; if no other car stays, nothing is in the way of the first new one.
LEMMA LeaveLanes ==
  ASSUME Inv, LanesInv, NEW c \in CarId, Leave(c)
  PROVE  LanesInv'
<1>1. PICK p \in StraightCells(c) :
        /\ DriveTo(c, p)
        /\ Leaving(street[c], p)
        /\ LET s == street[c]
               new == Created(s, p, [pos EXCEPT ![c] = p])
               lists == [on EXCEPT ![s] = [d \in CarId |-> IF d \in new THEN @[d] + 1 ELSE @[d]]]
           IN /\ cars' = cars \cup new
              /\ pos' = [d \in CarId |->
                   IF d \in new THEN NewPlace(s, p, d) ELSE IF d = c THEN p ELSE pos[d]]
              /\ street' = [d \in CarId |-> IF d \in new THEN s ELSE street[d]]
              /\ prev' = [d \in CarId |-> IF d \in new THEN s ELSE prev[d]]
              /\ \E ts \in [new -> TurnArrays] :
                   /\ turns' = [d \in CarId |-> IF d \in new THEN ts[d] ELSE turns[d]]
                   /\ completed' = [d \in CarId |->
                        IF d \in new THEN StraightOn(ts[d]) ELSE completed[d]]
              /\ on' = RemoveCar(lists, s, c)
              /\ closest' = UpdateClosestCar(s, on', street', pos')
      BY DEF Leave
<1>2. gone' = gone \cup {c} /\ SecondNew \in CarId /\ UNCHANGED <<turning, point>>
      BY DEF Leave
<1> DEFINE s == street[c]
           where == [pos EXCEPT ![c] = p]
           new == Created(s, p, where)
<1>3. /\ TypeOK /\ Loop /\ AtRest /\ TurningIsBetween /\ BetweenStreets
      /\ Visited(c) /\ NoteIntersection(c) /\ ~TurnIsOver(c)
      /\ c \in cars \ gone /\ gone \subseteq cars /\ cars \subseteq CarId
      BY <1>1 DEF Inv, DriveTo, Visited, TypeOK, Loop
<1>4. p \in Point /\ s \in Streets
      BY <1>3, CellsType DEF TypeOK
<1>5. s = prev[c]
      <2> SUFFICES ASSUME s # prev[c] PROVE FALSE
          OBVIOUS
      <2>1. Between(c)
            BY <1>3 DEF BetweenStreets
      <2>2. Near(inter[c], p)
            BY <1>3, <2>1, StaysNear
      <2>3. ~OutsideScreen(p)
            BY <1>4, <2>1, <2>2, NearIsInside DEF Between
      <2>4. QED BY <1>1, <2>3 DEF Leaving
<1>6. OnItsLane(s, p)
      <2>1. OnItsLane(s, pos[c]) /\ pos[c] \in Point
            BY <1>3, <1>5 DEF LanesInv, AllOnCourse, OnCourse, TypeOK
      <2>2. QED BY <1>3, <1>4, <2>1, CellsType, AheadOnLane
<1>7. created \in Nat /\ cars \subseteq 1..created /\ FirstNew = created + 1 /\ SecondNew = created + 2
      BY <1>3 DEF TypeOK, Loop, FirstNew, SecondNew, CarId
<1>8. FirstNew \in CarId /\ FirstNew \notin cars /\ SecondNew \notin cars
      <2>1. created + 1 \notin 1..created /\ created + 2 \notin 1..created
            BY <1>7
      <2>2. FirstNew \in CarId
            BY <1>2, <1>7, CarsAssumption DEF CarId
      <2>3. QED BY <1>7, <2>1, <2>2
<1>9. new \subseteq {FirstNew, SecondNew} /\ new \subseteq CarId /\ new \cap cars = {}
      <2>1. new \subseteq {FirstNew, SecondNew}
            BY DEF Created
      <2> HIDE DEF new
      <2>2. QED BY <1>2, <1>8, <2>1
\* A car in the way of the first new one stays.
<1>10. ASSUME NEW d \in gone \cup {c}
       PROVE  ~Overlaps(NewPlace(s, p, FirstNew), where[d])
       <2>1. FirstNew \in Nat
             BY <1>7
       <2>2. /\ NewPlace(s, p, FirstNew) \in Point /\ OnItsLane(s, NewPlace(s, p, FirstNew))
             /\ Along(Dir(s), NewPlace(s, p, FirstNew)) < 0
             BY <1>4, <2>1, NewPlaceBehind
       <2>3. CASE d = c
             <3>1. where[d] = p
                   BY <1>3, <2>3 DEF TypeOK
             <3>2. QED BY <1>1, <1>4, <1>6, <2>2, <3>1, OutOfTheWay
       <2>4. CASE d \in gone
             <3>1. where[d] = pos[d]
                   BY <1>3, <2>4 DEF TypeOK
             <3>2. /\ d \in cars /\ pos[d] \in Point /\ street[d] \in Streets
                   /\ street[d] = prev[d] /\ Leaving(street[d], pos[d])
                   BY <1>3, <2>4 DEF LanesInv, GoneAreOut, TypeOK
             <3>3. OnItsLane(street[d], pos[d])
                   BY <3>2 DEF LanesInv, AllOnCourse, OnCourse
             <3>4. QED BY <1>4, <2>2, <3>1, <3>2, <3>3, OutOfTheWay
       <2>5. QED BY <2>3, <2>4
<1>11. cars \subseteq gone \cup {c} => FirstNew \in new
       <2> SUFFICES ASSUME cars \subseteq gone \cup {c} PROVE FirstNew \in new
           OBVIOUS
       <2>1. \A d \in cars : ~Overlaps(NewPlace(s, p, FirstNew), where[d])
             BY <1>10
       <2>2. FirstNew # SecondNew
             BY <1>7
       <2>3. QED BY <2>1, <2>2 DEF Created
<1>12. /\ cars' = cars \cup new
       /\ \A d \in new : street'[d] = s /\ prev'[d] = s /\ pos'[d] = NewPlace(s, p, d)
       /\ street'[c] = s /\ prev'[c] = s /\ pos'[c] = p
       /\ \A e \in cars \ {c} : CourseKept(e)
       <2> HIDE DEF new, where
       <2>1. cars' = cars \cup new
             BY <1>1 DEF new, where
       <2>2. /\ pos' = [d \in CarId |->
                   IF d \in new THEN NewPlace(s, p, d) ELSE IF d = c THEN p ELSE pos[d]]
             /\ street' = [d \in CarId |-> IF d \in new THEN s ELSE street[d]]
             /\ prev' = [d \in CarId |-> IF d \in new THEN s ELSE prev[d]]
             BY <1>1 DEF new, where
       <2>3. \A e \in CarId \ new : completed'[e] = completed[e]
             <3>1. PICK ts \in [new -> TurnArrays] :
                     completed' = [d \in CarId |-> IF d \in new THEN StraightOn(ts[d]) ELSE completed[d]]
                   BY <1>1 DEF new, where
             <3>2. QED BY <3>1
       <2>4. \A e \in cars \ {c} : CourseKept(e)
             BY <1>2, <1>3, <1>9, <2>2, <2>3, NotesKept DEF CourseKept, Kept
       <2>5. QED BY <1>3, <1>5, <1>9, <2>1, <2>2, <2>4
<1> HIDE DEF new, where
<1>13. CarsNeverEmpty'
       <2>1. CASE cars \subseteq gone \cup {c}
             <3>1. FirstNew \in cars'
                   BY <1>11, <1>12, <2>1
             <3>2. FirstNew \notin gone'
                   BY <1>2, <1>3, <1>8
             <3>3. QED BY <3>1, <3>2 DEF CarsNeverEmpty
       <2>2. CASE ~(cars \subseteq gone \cup {c})
             BY <1>2, <1>12, <2>2 DEF CarsNeverEmpty
       <2>3. QED BY <2>1, <2>2
<1>14. GoneAreOut'
       <2>1. \A d \in gone : street'[d] = prev'[d] /\ Leaving(street'[d], pos'[d])
             BY <1>3, <1>12 DEF LanesInv, GoneAreOut, CourseKept, Kept
       <2>2. QED BY <1>1, <1>2, <1>12, <2>1 DEF GoneAreOut
<1>15. AllOnCourse'
       <2> SUFFICES ASSUME NEW e \in cars' PROVE OnCourse(e)'
           BY DEF AllOnCourse
       <2>1. CASE e \in new
             <3>1. e \in Nat
                   BY <1>7, <1>9, <2>1
             <3>2. OnItsLane(s, NewPlace(s, p, e))
                   BY <1>4, <3>1, NewPlaceBehind
             <3>3. QED BY <1>12, <2>1, <3>2 DEF OnCourse
       <2>2. CASE e = c
             BY <1>6, <1>12, <2>2 DEF OnCourse
       <2>3. CASE e \in cars \ {c}
             BY <1>3, <1>12, <2>3, KeptOnCourse DEF LanesInv, AllOnCourse
       <2>4. QED BY <1>12, <2>1, <2>2, <2>3
<1>16. QED BY <1>13, <1>14, <1>15 DEF LanesInv

(***************************************************************************)
(* The theorem.                                                            *)
(***************************************************************************)
\* Every step keeps the cars on their courses and leaves one that stays.
LEMMA StepLanes == Inv /\ LanesInv /\ [Next]_vars => LanesInv'
<1> SUFFICES ASSUME Inv, LanesInv, [Next]_vars PROVE LanesInv'
    OBVIOUS
<1>1. CASE BeginFrame
      BY <1>1, SameCarsLanes DEF BeginFrame, carVars
<1>2. CASE EndFrame
      BY <1>2, EndFrameLanes
<1>3. ASSUME NEW c \in CarId, StopAtRed(c) PROVE LanesInv'
      BY <1>3, SameCarsLanes DEF StopAtRed, carVars
<1>4. ASSUME NEW c \in CarId, Visit(c) PROVE LanesInv'
      BY <1>3, <1>4, MakeRightTurnLanes, MakeLeftTurnLanes, FinishTurnLanes, FollowCurveLanes,
         AdvanceLanes, LeaveLanes DEF Visit
<1>5. ASSUME NEW a \in cars, NEW b \in cars, Contact(a, b) PROVE LanesInv'
      BY <1>5, SameCarsLanes DEF Contact
<1>6. CASE UNCHANGED vars
      BY <1>6, SameCarsLanes DEF vars, carVars
<1>7. CASE BoundReached
      BY <1>6, <1>7 DEF BoundReached
<1>8. QED BY <1>1, <1>2, <1>4, <1>5, <1>6, <1>7 DEF Next

\* carArray is never empty when a frame begins: of the two cars created for the last
\* one that leaves, createCar refuses none but for a car that stays.
THEOREM NeverEmpty == Spec => []CarsNeverEmpty
<1>1. LanesInv => CarsNeverEmpty
      BY DEF LanesInv
<1>2. QED BY <1>1, InitLanes, StepLanes, InvHolds, PTL DEF Spec

(***************************************************************************)
(* The intersections a car notes and the turns it makes at them.           *)
(***************************************************************************)
\* While the turn at the last intersection is not completed, the car is there.
LastIsHere(c) ==
  visited[c] # <<>> /\ Len(visited[c]) \notin completed[c] =>
    InFrame(visited[c][Len(visited[c])], pos[c])

\* No intersection is noted twice.
NotedOnce(c) ==
  \A i, j \in 1..Len(visited[c]) : visited[c][i] = visited[c][j] => i = j

\* A car has turned only at intersections it has noted, and has completed those turns.
TurnsNoted(c) ==
  \A j \in 1..Len(turnedAt[c]) :
    \E i \in 1..Len(visited[c]) : i \in completed[c] /\ visited[c][i] = turnedAt[c][j]

TurnedOnce(c) ==
  \A i, j \in 1..Len(turnedAt[c]) : turnedAt[c][i] = turnedAt[c][j] => i = j

\* There is nothing to complete where the car goes straight on.
StraightIsDone(c) == StraightOn(turns[c]) \subseteq completed[c]

Notes(c) ==
  LastIsHere(c) /\ NotedOnce(c) /\ TurnsNoted(c) /\ TurnedOnce(c) /\ StraightIsDone(c)

\* A car that does not exist has noted nothing.
Blank == \A c \in CarId \ cars : visited[c] = <<>> /\ turnedAt[c] = <<>>

NotesInv == Blank /\ \A c \in CarId : Notes(c)

(***************************************************************************)
(* What a visit notes.                                                     *)
(***************************************************************************)
\* A list of intersections without repetition leaves one turn over.
LEMMA NotedFew ==
  ASSUME TypeOK, NEW c \in CarId, NotedOnce(c)
  PROVE  Len(visited[c]) \in Nat /\ Len(visited[c]) < TurnCount
<1> DEFINE n == Len(visited[c])
<1>1. IsFiniteSet(Intersections)
      BY FS_Product, MidsAssumption DEF Intersections
<1>2. visited[c] \in Seq(Intersections)
      BY DEF TypeOK
<1>3. n \in Nat /\ visited[c] \in [1..n -> Intersections]
      BY <1>2
<1>4. IsFiniteSet(1..n) /\ Cardinality(1..n) = n
      <2>1. 1 \in Int /\ n \in Int
            BY <1>3
      <2> HIDE DEF n
      <2>2. /\ IsFiniteSet(1..n)
            /\ Cardinality(1..n) = IF 1 > n THEN 0 ELSE n - 1 + 1
            BY <2>1, FS_Interval
      <2>3. QED BY <1>3, <2>2
<1>5. Cardinality(Intersections) \in Nat
      BY <1>1, FS_CardinalityType
<1>6. ~(Cardinality(Intersections) < n)
      <2> SUFFICES ASSUME Cardinality(Intersections) < n PROVE FALSE
          OBVIOUS
      <2>1. \E x, y \in 1..n : x # y /\ visited[c][x] = visited[c][y]
            BY <1>1, <1>3, <1>4, FS_PigeonHole
      <2>2. QED BY <2>1 DEF NotedOnce
<1>7. QED BY <1>3, <1>5, <1>6, TurnsAssumption

\* The intersection the car is at is the one noted, new or not.
LEMMA NotedNow ==
  ASSUME TypeOK, NEW c \in CarId
  PROVE  \/ /\ VisitedNow(c) = visited[c]
            /\ \/ IntersectionsAt(pos[c]) = {}
               \/ \E i \in 1..Len(visited[c]) : visited[c][i] \in IntersectionsAt(pos[c])
         \/ /\ VisitedNow(c) = Append(visited[c], InterNow(c))
            /\ InterNow(c) \in IntersectionsAt(pos[c])
            /\ \A i \in 1..Len(visited[c]) : visited[c][i] \notin IntersectionsAt(pos[c])
BY DEF VisitedNow, InterNow

\* Two intersections at the same place are one.
LEMMA OneHere ==
  ASSUME TypeOK, NEW c \in CarId,
         NEW j \in IntersectionsAt(pos[c]), NEW k \in IntersectionsAt(pos[c])
  PROVE  j = k
BY InFrameIsNear, FramesApart DEF IntersectionsAt, TypeOK

\* The list with what is noted now: what it held stays, nothing comes twice, and an
\* intersection added is the one the car is at.
LEMMA NotedList ==
  ASSUME TypeOK, NEW c \in CarId, NotedOnce(c)
  PROVE  LET seen == VisitedNow(c) IN
         /\ Len(visited[c]) \in Nat /\ Len(seen) \in {Len(visited[c]), Len(visited[c]) + 1}
         /\ \A i \in 1..Len(visited[c]) : seen[i] = visited[c][i]
         /\ \A i, j \in 1..Len(seen) : seen[i] = seen[j] => i = j
         /\ Len(seen) # Len(visited[c]) => seen[Len(seen)] \in IntersectionsAt(pos[c])
         /\ Len(seen) = Len(visited[c]) => seen = visited[c]
<1>1. visited[c] \in Seq(Intersections) /\ Len(visited[c]) \in Nat
      BY DEF TypeOK
<1>2. CASE VisitedNow(c) = visited[c]
      BY <1>1, <1>2 DEF NotedOnce
<1>3. CASE /\ VisitedNow(c) = Append(visited[c], InterNow(c))
           /\ InterNow(c) \in IntersectionsAt(pos[c])
           /\ \A i \in 1..Len(visited[c]) : visited[c][i] \notin IntersectionsAt(pos[c])
      <2> DEFINE seen == VisitedNow(c)
                 n == Len(visited[c])
      <2>1. InterNow(c) \in Intersections
            BY <1>3 DEF IntersectionsAt
      <2>2. /\ Len(seen) = n + 1 /\ seen[n + 1] = InterNow(c)
            /\ \A i \in 1..n : seen[i] = visited[c][i]
            BY <1>1, <1>3, <2>1, AppendProperties
      <2>3. \A i, j \in 1..Len(seen) : seen[i] = seen[j] => i = j
            BY <1>1, <1>3, <2>2 DEF NotedOnce
      <2>4. QED BY <1>1, <1>3, <2>2, <2>3
<1>4. QED BY <1>2, <1>3, NotedNow

\* A car that drives on has completed the turn at the last intersection it has noted.
LEMMA DrivesOnDone ==
  ASSUME TypeOK, NEW c \in CarId, Notes(c), DrivesOn(c), VisitedNow(c) # <<>>
  PROVE  Len(VisitedNow(c)) \in completed[c]
<1> DEFINE seen == VisitedNow(c)
           here == IntersectionsAt(pos[c])
           n == Len(seen)
<1>1. /\ n \in Nat /\ n # 0 /\ TurnIndex(seen) = n
      BY VisitedType DEF TurnIndex
<1>2. CASE here = {}
      <2>1. seen = visited[c]
            BY <1>2, NotedNow
      <2>2. visited[c][n] \in Intersections
            BY <1>1, <2>1 DEF TypeOK
      <2>3. QED BY <1>1, <1>2, <2>1, <2>2 DEF Notes, LastIsHere, IntersectionsAt
<1>3. CASE here # {}
      <2>1. n \in 1..TurnCount
            <3>1. Len(visited[c]) \in Nat /\ Len(visited[c]) < TurnCount
                  BY NotedFew DEF Notes
            <3>2. n \in {Len(visited[c]), Len(visited[c]) + 1}
                  BY NotedList DEF Notes
            <3>3. QED BY <1>1, <3>1, <3>2, TurnsAssumption
      <2>2. turns[c] \in [1..TurnCount -> Turns]
            BY DEF TypeOK, TurnArrays
      <2>3. turns[c][n] \in {Straight, RightTurn, LeftTurn}
            <3> HIDE DEF n
            <3>1. turns[c][n] \in Turns
                  BY <2>1, <2>2
            <3>2. QED BY <3>1 DEF Turns, Straight, RightTurn, LeftTurn
      <2>4. CASE turns[c][n] = Straight
            BY <2>1, <2>2, <2>4 DEF StraightOn, Notes, StraightIsDone
      <2>5. CASE turns[c][n] \in {RightTurn, LeftTurn}
            BY <1>1, <1>3, <2>5 DEF DrivesOn, MustTurn, GetLastTurn, IsLastTurnCompleted
      <2>6. QED BY <2>3, <2>4, <2>5
<1>4. QED BY <1>2, <1>3

\* A car that must turn has noted the intersection last, and has not turned there.
LEMMA TurnIsNew ==
  ASSUME TypeOK, BetweenStreets, NEW c \in CarId, Notes(c), NEW turn \in {RightTurn, LeftTurn},
         MustTurn(c, turn)
  PROVE  /\ VisitedNow(c) # <<>>
         /\ VisitedNow(c)[Len(VisitedNow(c))] = InterNow(c)
         /\ \A j \in 1..Len(turnedAt[c]) : turnedAt[c][j] # InterNow(c)
<1> DEFINE seen == VisitedNow(c)
           here == IntersectionsAt(pos[c])
           k == InterNow(c)
<1>1. /\ k \in here
      /\ \E i \in 1..Len(seen) : seen[i] = k
      BY TurnPlace DEF IntersectionsAt
<1>2. /\ seen \in Seq(Intersections) /\ Len(seen) \in Nat /\ seen # <<>> /\ Len(seen) # 0
      BY <1>1, VisitedType
<1>3. Len(seen) \notin completed[c]
      BY <1>2 DEF MustTurn, IsLastTurnCompleted, TurnIndex
<1>4. seen[Len(seen)] = k
      <2>1. CASE Len(seen) = Len(visited[c])
            <3>1. seen = visited[c] /\ seen[Len(seen)] \in Intersections
                  BY <1>2, <2>1, NotedList DEF Notes
            <3>2. seen[Len(seen)] \in here
                  BY <1>2, <1>3, <3>1 DEF Notes, LastIsHere, IntersectionsAt
            <3>3. QED BY <1>1, <3>2, OneHere
      <2>2. CASE Len(seen) # Len(visited[c])
            BY <1>1, <2>2, NotedList, OneHere DEF Notes
      <2>3. QED BY <2>1, <2>2
<1>5. ASSUME NEW j \in 1..Len(turnedAt[c]), turnedAt[c][j] = k
      PROVE  FALSE
      <2>1. PICK i \in 1..Len(visited[c]) : i \in completed[c] /\ visited[c][i] = k
            BY <1>5 DEF Notes, TurnsNoted
      <2>2. i \in 1..Len(seen) /\ seen[i] = k
            BY <2>1, NotedList DEF Notes
      <2>3. i = Len(seen)
            BY <1>2, <1>4, <2>2, NotedList DEF Notes
      <2>4. QED BY <1>3, <2>1, <2>3
<1>6. QED BY <1>2, <1>4, <1>5

(***************************************************************************)
(* What a step does to the notes of one car.                               *)
(***************************************************************************)
\* The car's turns and what it has completed of them are as they were.
SamePlan(c) == turns'[c] = turns[c] /\ completed'[c] = completed[c] /\ turnedAt'[c] = turnedAt[c]

\* A car that nothing happens to keeps its notes.
LEMMA NotesStay ==
  ASSUME NEW c \in CarId, Notes(c), SamePlan(c), visited'[c] = visited[c], pos'[c] = pos[c]
  PROVE  Notes(c)'
BY DEF Notes, LastIsHere, NotedOnce, TurnsNoted, TurnedOnce, StraightIsDone, SamePlan

\* An object without a past satisfies them all.
LEMMA NotesBlank ==
  ASSUME NEW c \in CarId, visited'[c] = <<>>, turnedAt'[c] = <<>>,
         StraightOn(turns'[c]) \subseteq completed'[c]
  PROVE  Notes(c)'
BY DEF Notes, LastIsHere, NotedOnce, TurnsNoted, TurnedOnce, StraightIsDone

\* Noting the intersection keeps what is said of the lists.
LEMMA NotesGrow ==
  ASSUME TypeOK, NEW c \in CarId, Notes(c), SamePlan(c), visited'[c] = VisitedNow(c)
  PROVE  NotedOnce(c)' /\ TurnsNoted(c)' /\ TurnedOnce(c)' /\ StraightIsDone(c)'
<1>1. NotedOnce(c)'
      BY NotedList DEF Notes, NotedOnce
<1>2. TurnsNoted(c)'
      <2> SUFFICES ASSUME NEW j \in 1..Len(turnedAt[c])
                   PROVE  \E i \in 1..Len(VisitedNow(c)) :
                            i \in completed[c] /\ VisitedNow(c)[i] = turnedAt[c][j]
          BY DEF TurnsNoted, SamePlan
      <2>1. PICK i \in 1..Len(visited[c]) : i \in completed[c] /\ visited[c][i] = turnedAt[c][j]
            BY DEF Notes, TurnsNoted
      <2>2. i \in 1..Len(VisitedNow(c)) /\ VisitedNow(c)[i] = visited[c][i]
            BY <2>1, NotedList DEF Notes
      <2>3. QED BY <2>1, <2>2
<1>3. TurnedOnce(c)' /\ StraightIsDone(c)'
      BY DEF Notes, TurnedOnce, StraightIsDone, SamePlan
<1>4. QED BY <1>1, <1>2, <1>3

\* A car that drives on, wherever to, has nothing left to turn where it was.
LEMMA NotesDrive ==
  ASSUME TypeOK, NEW c \in CarId, Notes(c), DrivesOn(c), SamePlan(c), visited'[c] = VisitedNow(c)
  PROVE  Notes(c)'
<1>1. LastIsHere(c)'
      BY DrivesOnDone DEF LastIsHere, SamePlan
<1>2. QED BY <1>1, NotesGrow DEF Notes

\* A car that waits is still where it noted its last intersection.
LEMMA NotesWait ==
  ASSUME TypeOK, NEW c \in CarId, Notes(c), SamePlan(c), visited'[c] = VisitedNow(c),
         pos'[c] = pos[c]
  PROVE  Notes(c)'
<1>1. LastIsHere(c)'
      <2>1. CASE Len(VisitedNow(c)) = Len(visited[c])
            BY <2>1, NotedList DEF Notes, LastIsHere, SamePlan
      <2>2. CASE Len(VisitedNow(c)) # Len(visited[c])
            BY <2>2, NotedList DEF Notes, LastIsHere, SamePlan, IntersectionsAt
      <2>3. QED BY <2>1, <2>2
<1>2. QED BY <1>1, NotesGrow DEF Notes

\* A car that begins a turn completes that of the intersection it is at.
LEMMA NotesTurn ==
  ASSUME TypeOK, BetweenStreets, NEW c \in CarId, Notes(c), NEW turn \in {RightTurn, LeftTurn},
         MustTurn(c, turn), NEW s, EnterTurn(c, turn, s)
  PROVE  Notes(c)'
<1> DEFINE seen == VisitedNow(c)
           n == Len(seen)
           k == InterNow(c)
           past == turnedAt[c]
<1>1. /\ visited'[c] = seen /\ turns'[c] = turns[c]
      /\ completed'[c] = completed[c] \cup {TurnIndex(seen)}
      /\ turnedAt'[c] = Append(past, k)
      BY NotesKept DEF EnterTurn, TypeOK
<1>2. /\ seen # <<>> /\ seen[n] = k /\ TurnIndex(seen) = n
      /\ \A j \in 1..Len(past) : past[j] # k
      BY TurnIsNew DEF TurnIndex
<1>3. n \in Nat /\ n # 0
      BY <1>2, VisitedType
<1>4. k \in Intersections /\ past \in Seq(Intersections) /\ Len(past) \in Nat
      BY TurnPlace DEF TypeOK
<1>5. /\ Len(Append(past, k)) = Len(past) + 1 /\ Append(past, k)[Len(past) + 1] = k
      /\ \A j \in 1..Len(past) : Append(past, k)[j] = past[j]
      BY <1>4, AppendProperties
<1>6. LastIsHere(c)'
      BY <1>1, <1>2 DEF LastIsHere
<1>7. NotedOnce(c)'
      BY <1>1, NotedList DEF Notes, NotedOnce
<1>8. TurnsNoted(c)'
      <2> SUFFICES ASSUME NEW j \in 1..Len(past) + 1
                   PROVE  \E i \in 1..n : i \in completed'[c] /\ seen[i] = Append(past, k)[j]
          BY <1>1, <1>5 DEF TurnsNoted
      <2>1. CASE j = Len(past) + 1
            BY <1>1, <1>2, <1>3, <1>5, <2>1
      <2>2. CASE j \in 1..Len(past)
            <3>1. PICK i \in 1..Len(visited[c]) : i \in completed[c] /\ visited[c][i] = past[j]
                  BY <2>2 DEF Notes, TurnsNoted
            <3>2. i \in 1..n /\ seen[i] = visited[c][i]
                  BY <3>1, NotedList DEF Notes
            <3>3. QED BY <1>1, <1>5, <2>2, <3>1, <3>2
      <2>3. QED BY <1>4, <2>1, <2>2
<1>9. TurnedOnce(c)'
      <2> SUFFICES ASSUME NEW i \in 1..Len(past) + 1, NEW j \in 1..Len(past) + 1,
                          Append(past, k)[i] = Append(past, k)[j]
                   PROVE  i = j
          BY <1>1, <1>5 DEF TurnedOnce
      <2>1. i \in 1..Len(past) \/ i = Len(past) + 1
            BY <1>4
      <2>2. j \in 1..Len(past) \/ j = Len(past) + 1
            BY <1>4
      <2>3. QED BY <1>2, <1>5, <2>1, <2>2 DEF Notes, TurnedOnce
<1>10. StraightIsDone(c)'
       BY <1>1 DEF Notes, StraightIsDone
<1>11. QED BY <1>6, <1>7, <1>8, <1>9, <1>10 DEF Notes

(***************************************************************************)
(* The steps.                                                              *)
(***************************************************************************)
\* Cars without notes: no car loses its own while it exists.
LEMMA StepOfOne ==
  ASSUME Inv, NotesInv, NEW c \in CarId, Visited(c), Notes(c)', UNCHANGED cars,
         \A e \in CarId \ {c} : SamePlan(e) /\ visited'[e] = visited[e] /\ pos'[e] = pos[e]
  PROVE  NotesInv'
<1>1. c \in cars
      BY DEF Visited, Inv, TypeOK
<1>2. Blank'
      BY <1>1 DEF NotesInv, Blank, SamePlan
<1>3. \A e \in CarId \ {c} : Notes(e)'
      BY NotesStay DEF NotesInv
<1>4. QED BY <1>2, <1>3 DEF NotesInv

\* A visit of a car that has a turn to make.
LEMMA TurnNotes ==
  ASSUME Inv, NotesInv, NEW c \in CarId, MakeRightTurn(c) \/ MakeLeftTurn(c)
  PROVE  NotesInv'
<1>1. TypeOK /\ BetweenStreets /\ Notes(c) /\ Visited(c)
      BY DEF Inv, NotesInv, MakeRightTurn, MakeLeftTurn
<1>2. PICK turn \in {RightTurn, LeftTurn} :
        /\ MustTurn(c, turn)
        /\ (\E s : EnterTurn(c, turn, s)) \/ WaitForTurn(c) \/ KeepWaiting(c)
      BY DEF MakeRightTurn, MakeLeftTurn
<1>3. ASSUME NEW s, EnterTurn(c, turn, s)
      PROVE  NotesInv'
      <2>1. \A e \in CarId \ {c} : SamePlan(e) /\ visited'[e] = visited[e] /\ pos'[e] = pos[e]
            BY <1>1, <1>3, NotesKept DEF EnterTurn, SamePlan, TypeOK
      <2>2. Notes(c)'
            BY <1>1, <1>2, <1>3, NotesTurn
      <2>3. QED BY <1>1, <1>3, <2>1, <2>2, StepOfOne DEF EnterTurn
<1>4. CASE WaitForTurn(c) \/ KeepWaiting(c)
      <2>1. /\ SamePlan(c) /\ visited'[c] = VisitedNow(c) /\ pos'[c] = pos[c] /\ cars' = cars
            /\ \A e \in CarId \ {c} : SamePlan(e) /\ visited'[e] = visited[e] /\ pos'[e] = pos[e]
            BY <1>1, <1>4, NotesKept DEF WaitForTurn, KeepWaiting, SamePlan
      <2>2. QED BY <1>1, <2>1, NotesWait, StepOfOne
<1>5. QED BY <1>2, <1>3, <1>4

\* A visit of a car that drives on, on a curve, after one or straight.
LEMMA DriveNotes ==
  ASSUME Inv, NotesInv, NEW c \in CarId, FinishTurn(c) \/ FollowCurve(c) \/ Advance(c)
  PROVE  NotesInv'
<1>1. TypeOK /\ Notes(c) /\ Visited(c) /\ DrivesOn(c)
      BY DEF Inv, NotesInv, FinishTurn, FollowCurve, Advance, DriveTo
<1>2. /\ SamePlan(c) /\ visited'[c] = VisitedNow(c) /\ cars' = cars
      /\ \A e \in CarId \ {c} : SamePlan(e) /\ visited'[e] = visited[e] /\ pos'[e] = pos[e]
      <2>1. CASE FinishTurn(c)
            BY <1>1, <2>1 DEF FinishTurn, SamePlan, TypeOK
      <2>2. CASE FollowCurve(c)
            BY <1>1, <2>2, NotesKept DEF FollowCurve, SamePlan, TypeOK
      <2>3. CASE Advance(c)
            BY <1>1, <2>3, NotesKept DEF Advance, DriveTo, SamePlan, TypeOK
      <2>4. QED BY <2>1, <2>2, <2>3
<1>3. QED BY <1>1, <1>2, NotesDrive, StepOfOne

\* A car that leaves drives on; its successors are objects without a past.
LEMMA LeaveNotes ==
  ASSUME Inv, NotesInv, NEW c \in CarId, Leave(c)
  PROVE  NotesInv'
<1>1. PICK p \in StraightCells(c), new \in SUBSET {FirstNew, SecondNew} :
        /\ DriveTo(c, p)
        /\ cars' = cars \cup new
        /\ pos' = [d \in CarId |->
             IF d \in new THEN NewPlace(street[c], p, d) ELSE IF d = c THEN p ELSE pos[d]]
        /\ \E ts \in [new -> TurnArrays] :
             /\ turns' = [d \in CarId |-> IF d \in new THEN ts[d] ELSE turns[d]]
             /\ completed' = [d \in CarId |-> IF d \in new THEN StraightOn(ts[d]) ELSE completed[d]]
      <2>1. \A p : Created(street[c], p, [pos EXCEPT ![c] = p]) \in SUBSET {FirstNew, SecondNew}
            BY DEF Created
      <2>2. PICK p \in StraightCells(c) :
              LET new == Created(street[c], p, [pos EXCEPT ![c] = p]) IN
              /\ DriveTo(c, p)
              /\ cars' = cars \cup new
              /\ pos' = [d \in CarId |->
                   IF d \in new THEN NewPlace(street[c], p, d) ELSE IF d = c THEN p ELSE pos[d]]
              /\ \E ts \in [new -> TurnArrays] :
                   /\ turns' = [d \in CarId |-> IF d \in new THEN ts[d] ELSE turns[d]]
                   /\ completed' = [d \in CarId |->
                        IF d \in new THEN StraightOn(ts[d]) ELSE completed[d]]
            BY DEF Leave
      <2>3. QED BY <2>1, <2>2
<1>2. PICK ts \in [new -> TurnArrays] :
        /\ turns' = [d \in CarId |-> IF d \in new THEN ts[d] ELSE turns[d]]
        /\ completed' = [d \in CarId |-> IF d \in new THEN StraightOn(ts[d]) ELSE completed[d]]
      BY <1>1
<1>3. /\ TypeOK /\ Notes(c) /\ Visited(c) /\ DrivesOn(c) /\ NoteIntersection(c)
      /\ turnedAt' = turnedAt /\ c \in cars
      BY <1>1 DEF Inv, NotesInv, DriveTo, Visited, TypeOK, Leave
<1>4. new \cap cars = {}
      <2>1. created \in Nat /\ cars \subseteq 1..created
            BY DEF Inv, TypeOK, Loop, CarId
      <2>2. new \subseteq {created + 1, created + 2}
            BY <1>1 DEF FirstNew, SecondNew
      <2>3. created + 1 \notin 1..created /\ created + 2 \notin 1..created
            BY <2>1
      <2>4. QED BY <2>1, <2>2, <2>3
<1>5. \A e \in CarId \ {c} : visited'[e] = visited[e]
      BY <1>3, NotesKept
<1>6. Notes(c)'
      <2>1. SamePlan(c) /\ visited'[c] = VisitedNow(c)
            BY <1>2, <1>3, <1>4, NotesKept DEF SamePlan
      <2>2. QED BY <1>3, <2>1, NotesDrive
<1>7. ASSUME NEW e \in CarId, e \in new
      PROVE  Notes(e)'
      <2>1. visited'[e] = <<>> /\ turnedAt'[e] = <<>>
            BY <1>3, <1>4, <1>5, <1>7 DEF NotesInv, Blank
      <2>2. StraightOn(turns'[e]) \subseteq completed'[e]
            BY <1>2, <1>7
      <2>3. QED BY <2>1, <2>2, NotesBlank
<1>8. ASSUME NEW e \in CarId, e \notin new, e # c
      PROVE  Notes(e)'
      <2>1. SamePlan(e) /\ visited'[e] = visited[e] /\ pos'[e] = pos[e]
            BY <1>1, <1>2, <1>3, <1>5, <1>8 DEF SamePlan
      <2>2. QED BY <2>1, NotesStay DEF NotesInv
<1>9. Blank'
      BY <1>1, <1>3, <1>5 DEF NotesInv, Blank
<1>10. QED BY <1>6, <1>7, <1>8, <1>9 DEF NotesInv

\* The end of a frame leaves objects without a past.
LEMMA EndFrameNotes ==
  ASSUME NotesInv, EndFrame
  PROVE  NotesInv'
<1>1. ASSUME NEW e \in CarId, e \in gone
      PROVE  Notes(e)' /\ visited'[e] = <<>> /\ turnedAt'[e] = <<>>
      <2>1. /\ visited'[e] = <<>> /\ turnedAt'[e] = <<>>
            /\ turns'[e] = NoTurns /\ completed'[e] = StraightOn(NoTurns)
            BY <1>1 DEF EndFrame, Forget
      <2>2. QED BY <2>1, NotesBlank
<1>2. ASSUME NEW e \in CarId, e \notin gone
      PROVE  /\ Notes(e)'
             /\ visited'[e] = visited[e] /\ turnedAt'[e] = turnedAt[e]
      <2>1. SamePlan(e) /\ visited'[e] = visited[e] /\ pos'[e] = pos[e]
            BY <1>2 DEF EndFrame, Forget, SamePlan
      <2>2. QED BY <2>1, NotesStay DEF NotesInv, SamePlan
<1>3. Blank'
      BY <1>1, <1>2 DEF EndFrame, NotesInv, Blank
<1>4. QED BY <1>1, <1>2, <1>3 DEF NotesInv

\* Every step keeps the notes.
LEMMA StepNotes == Inv /\ NotesInv /\ [Next]_vars => NotesInv'
<1> SUFFICES ASSUME Inv, NotesInv, [Next]_vars PROVE NotesInv'
    OBVIOUS
<1>1. CASE UNCHANGED <<cars, pos, turns, completed, visited, turnedAt>>
      <2>1. \A e \in CarId : Notes(e)'
            BY <1>1, NotesStay DEF NotesInv, SamePlan
      <2>2. QED BY <1>1, <2>1 DEF NotesInv, Blank
<1>2. ASSUME NEW c \in CarId, Visit(c)
      PROVE  NotesInv'
      <2>1. CASE StopAtRed(c)
            BY <1>1, <2>1 DEF StopAtRed, carVars
      <2>2. QED BY <1>2, <2>1, TurnNotes, DriveNotes, LeaveNotes DEF Visit
<1>3. CASE EndFrame
      BY <1>3, EndFrameNotes
<1>4. CASE BeginFrame \/ BoundReached \/ UNCHANGED vars
      BY <1>1, <1>4 DEF BeginFrame, BoundReached, vars, carVars
<1>5. ASSUME NEW a \in cars, NEW b \in cars, Contact(a, b)
      PROVE  NotesInv'
      BY <1>1, <1>5 DEF Contact
<1>6. QED BY <1>2, <1>3, <1>4, <1>5 DEF Next

\* The cars of viewDidLoad have noted nothing.
LEMMA InitNotes == Init => NotesInv
<1> SUFFICES ASSUME Init PROVE NotesInv
    OBVIOUS
<1>1. ASSUME NEW c \in CarId
      PROVE  Notes(c)
      BY DEF Init, Notes, LastIsHere, NotedOnce, TurnsNoted, TurnedOnce, StraightIsDone
<1>2. QED BY <1>1 DEF Init, NotesInv, Blank

\* The notes are in order throughout.
THEOREM NotesHold == Spec => [](TypeOK /\ NotesInv)
<1>1. Inv => TypeOK
      BY DEF Inv
<1>2. QED BY <1>1, InitNotes, StepNotes, InvHolds, PTL DEF Spec

(***************************************************************************)
(* What follows.                                                           *)
(***************************************************************************)
\* "A car cannot turn at the same intersection twice", on any road network, for any
\* number of cars and any turns they draw.
THEOREM TurnsOnce == Spec => []TurnsOnceAtEach
<1>1. TypeOK /\ NotesInv => TurnsOnceAtEach
      BY DEF NotesInv, Notes, TurnedOnce, TurnsOnceAtEach, TypeOK
<1>2. QED BY <1>1, NotesHold, PTL

\* Whatever the network, a turnArray with one entry more than there are intersections
\* is never read beyond its end.
THEOREM EnoughTurns == Spec => []TurnsSuffice
<1>1. TypeOK /\ NotesInv => TurnsSuffice
      BY NotedFew DEF NotesInv, Notes, TurnsSuffice, TypeOK
<1>2. QED BY <1>1, NotesHold, PTL
==============================================================================
