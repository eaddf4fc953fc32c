----------------------------- MODULE FlowProofs ------------------------------
(***************************************************************************)
(* closestCar is never out of date and no car reaches the one ahead of it, *)
(* on any road network and with any number of cars.  Neither is inductive. *)
(* A car drives on when its closestCar is more than two units ahead, and   *)
(* the closest cars are searched only when a list changes.  In between     *)
(* every car moves, a car that turns off jumps two units ahead and comes   *)
(* back, and others join from the side.  What the proof has to know, for   *)
(* each street, is therefore                                               *)
(*   - where the cars on it may be next to each other (Spread: only where  *)
(*     one joined between two others, which turnAreaFree lets happen);     *)
(*   - that a car which turns off keeps the cells free that it comes back  *)
(*     to (MouthGap), because what is behind it follows it or a car        *)
(*     further behind (MouthFollow), one turning car at a time (OneMouth); *)
(*   - that a car which follows one that has turned off has no other in    *)
(*     between (BehindLeaver);                                             *)
(* and for each car where it enters a turn (AtEntry), where it is on the   *)
(* curve (OnPath) and that a turning car that was visited comes before     *)
(* those still to be visited (InOrder: cars are visited in the order of    *)
(* their creation, and new ones do not turn).  A left turn crosses what    *)
(* drives on either street, so both are left out of all this until they    *)
(* are settled, and so is a street that was searched while a turning car   *)
(* was ahead of itself (upset).                                            *)
(***************************************************************************)
EXTENDS CarsProofs

(***************************************************************************)
(* The flow of traffic on one street.                                      *)
(***************************************************************************)
\* How far car c has come along street s, and where on s the intersection lies at
\* which it turns.
Pace(s, c) == Along(Dir(s), pos[c])
Mark(s, c) == Along(Dir(s), inter[c])

\* The centres of the intersections on street s.
Marks(s) == {Along(Dir(s), k) : k \in {j \in Intersections : s = StreetAt(j, Dir(s))}}

\* The cars that drive on street s, and those on their way from it to another.
Members(s) == {c \in cars \ gone : street[c] = s}
Leavers(s) == {c \in cars \ gone : prev[c] = s /\ street[c] # s}

\* The cars ahead of car c that stay on the street.
MembersAhead(s, c) == {e \in Members(s) : Pace(s, e) > Pace(s, c)}

\* A car that leaves street s is on the part of its curve that lies on s.
InMouth(l) == point[l] < 3

\* Every car that turns from or into the street turns right.
RightOnly(s) ==
  \A c \in Members(s) \cup Leavers(s) : street[c] # prev[c] => turning[c] = RightTurn

\* No two cars of a street are at the same place, and they are next to each other
\* only where one joined between two others.
Spread(s) ==
  \A c, d \in Members(s) : c # d =>
    /\ Pace(s, c) # Pace(s, d)
    /\ Pace(s, d) = Pace(s, c) + 1 => \E m \in Marks(s) : Pace(s, c) = m \/ Pace(s, c) = m + 2

\* closestCar is the nearest of the cars ahead that stay on the street, or one on its
\* way from it that is nearer.
Nearest(s) ==
  \A c \in Members(s) :
    IF closest[c] = NoCar THEN MembersAhead(s, c) = {}
    ELSE /\ closest[c] \in Members(s) \cup Leavers(s)
         /\ Pace(s, c) < Pace(s, closest[c])
         /\ \A e \in MembersAhead(s, c) : Pace(s, closest[c]) =< Pace(s, e)

\* Between a car and the one it follows off the street there is no other.
BehindLeaver(s) ==
  \A c \in Members(s), l \in Leavers(s) : closest[c] = l =>
    \A e \in MembersAhead(s, c) : Pace(s, e) >= Mark(s, l) - 1

\* Car c is visited again before car l is.
StillToGo(c, l) == IF l \in todo THEN c < l /\ c \in todo ELSE c < l \/ c \in todo

\* A car that leaves keeps the place it needs for its curve: put on the lane of its
\* new street it is two cells further along for one frame, and what follows it may use
\* one of them in that frame, or both if it crashed there.
MouthGap(s) ==
  \A c \in Members(s), l \in Leavers(s) : InMouth(l) =>
    \/ Pace(s, c) >= Mark(s, l) - 1
    \/ /\ Pace(s, c) =< Mark(s, l) - 3
       /\ point[l] # 0 \/ ~crashed[l] => Pace(s, c) =< Mark(s, l) - 4
       /\ point[l] = 0 /\ ~crashed[l] /\ StillToGo(c, l) => Pace(s, c) =< Mark(s, l) - 5

\* What is behind it follows it, or a car further behind.
MouthFollow(s) ==
  \A c \in Members(s), l \in Leavers(s) : InMouth(l) /\ Pace(s, c) =< Mark(s, l) - 3 =>
    /\ closest[c] # NoCar
    /\ closest[c] = l \/ Pace(s, closest[c]) =< Mark(s, l) - 3

\* One car at a time is on that part of a curve.
OneMouth(s) ==
  \A l, m \in Leavers(s) : InMouth(l) /\ InMouth(m) /\ Mark(s, l) = Mark(s, m) => l = m

\* Nothing swings: no leaving car is on the lane of its new street before its curve.
NoSwing(s) == \A l \in Leavers(s) : point[l] # 0

\* The street is in order.
Calm(s) ==
  /\ RightOnly(s) /\ Spread(s) /\ Nearest(s) /\ BehindLeaver(s)
  /\ MouthGap(s) /\ MouthFollow(s) /\ OneMouth(s)

\* A car has a turn to make only where it enters the square of an intersection.
AtEntry(c) ==
  \A turn \in {RightTurn, LeftTurn} :
    street[c] = prev[c] /\ MustTurn(c, turn) =>
      Pace(street[c], c) = Along(Dir(street[c]), InterNow(c)) - 3

\* Where the points of the right turn are.
Offset(n) == IF n = 0 THEN <<-1, -1>> ELSE RightCurve[n]

\* A car between two streets comes from a street of the intersection, and one that
\* turns right is at the point of the curve it has reached.
OnPath(c) ==
  street[c] # prev[c] =>
    /\ prev[c] = StreetAt(inter[c], Dir(prev[c]))
    /\ turning[c] = RightTurn /\ OnCurve(c) =>
         pos[c] = CurvePoint(inter[c], Dir(prev[c]), Offset(point[c]))

\* A car that turns and has been visited comes before those still to be visited.
InOrder(c) == turning[c] # Straight /\ c \notin todo => \A d \in todo : c < d

\* What holds of every car.
Paths == \A c \in cars \ gone : AtEntry(c) /\ OnPath(c) /\ InOrder(c)

\* What every step keeps, on the streets that no left turn and no early search upset.
FlowInv == Paths /\ \A s \in Streets \ upset : Calm(s)

(***************************************************************************)
(* Places on a street.                                                     *)
(***************************************************************************)
\* Places are whole numbers of cells.
LEMMA AlongType ==
  ASSUME NEW d \in Dirs, NEW p \in Point
  PROVE  Along(d, p) \in Int
BY DEF Along, Point, Dirs, Left, Right, Down, Up

\* How far a car has come is a whole number.
LEMMA PaceType ==
  ASSUME TypeOK, NEW s \in Streets, NEW c \in CarId
  PROVE  Pace(s, c) \in Int
BY StreetTypes, AlongType DEF Pace, TypeOK

\* Driving ahead is what counts along the heading, and nothing else does.
LEMMA AheadAlong ==
  ASSUME NEW d \in Dirs, NEW p \in Point
  PROVE  /\ Along(d, Ahead(d, p, 1)) = Along(d, p) + 1
         /\ \A e \in Dirs : e # d /\ e # Opposite(d) => Along(e, Ahead(d, p, 1)) = Along(e, p)
BY DEF Along, Ahead, Opposite, Point, Dirs, Left, Right, Down, Up

\* The intersections of a street are more than seven cells apart.
LEMMA MarksApart ==
  ASSUME NEW s \in Streets
  PROVE  /\ Marks(s) \subseteq Int
         /\ \A m, n \in Marks(s) : m # n => m > n + 7 \/ n > m + 7
<1>1. Dir(s) \in Dirs
      BY StreetTypes
<1>2. Marks(s) \subseteq Int
      BY <1>1, AlongType, IntersectionIsPoint DEF Marks
<1>3. ASSUME NEW j \in Intersections, NEW k \in Intersections,
             s = StreetAt(j, Dir(s)), s = StreetAt(k, Dir(s)),
             Along(Dir(s), j) # Along(Dir(s), k)
      PROVE  Along(Dir(s), j) > Along(Dir(s), k) + 7 \/ Along(Dir(s), k) > Along(Dir(s), j) + 7
      <2>1. j[1] \in VMids /\ j[2] \in HMids /\ k[1] \in VMids /\ k[2] \in HMids
            BY DEF Intersections
      <2>2. j[1] \in Int /\ j[2] \in Int /\ k[1] \in Int /\ k[2] \in Int
            BY <2>1, MidsAssumption
      <2>3. j[1] # k[1] => j[1] - k[1] \notin -7..7
            BY <2>1, SpacingAssumption
      <2>4. j[2] # k[2] => j[2] - k[2] \notin -7..7
            BY <2>1, SpacingAssumption
      <2>5. j[1] # k[1] => j[1] > k[1] + 7 \/ k[1] > j[1] + 7
            BY <2>2, <2>3
      <2>6. j[2] # k[2] => j[2] > k[2] + 7 \/ k[2] > j[2] + 7
            BY <2>2, <2>4
      <2>7. QED BY <1>1, <1>3, <2>2, <2>5, <2>6 DEF Along, Dirs, Left, Right, Down, Up
<1>4. ASSUME NEW m \in Marks(s), NEW n \in Marks(s), m # n
      PROVE  m > n + 7 \/ n > m + 7
      <2>1. PICK j \in Intersections : s = StreetAt(j, Dir(s)) /\ m = Along(Dir(s), j)
            BY DEF Marks
      <2>2. PICK k \in Intersections : s = StreetAt(k, Dir(s)) /\ n = Along(Dir(s), k)
            BY DEF Marks
      <2>3. QED BY <1>3, <1>4, <2>1, <2>2
<1>5. QED BY <1>2, <1>4

\* A point of a curve, seen along the old street and along the new one.
LEMMA CurveAlong ==
  ASSUME NEW k \in Intersections, NEW d \in Dirs, NEW o \in {<<-1, -1>>, <<-3, -1>>, <<-2, -1>>, <<-1, -2>>}
  PROVE  /\ Along(d, CurvePoint(k, d, o)) = Along(d, k) + o[1]
         /\ Along(RightOf(d), CurvePoint(k, d, o)) = Along(RightOf(d), k) - o[2]
BY IntersectionIsPoint, SMTT(30)
   DEF Along, CurvePoint, Ahead, LeftOf, RightOf, Opposite, Point, Dirs, Left, Right, Down, Up

\* The lane a car turns right into crosses its old street one cell before the centre.
LEMMA LaneAcross ==
  ASSUME NEW k \in Intersections, NEW d \in Dirs, NEW p \in Point,
         OnItsLane(StreetAt(k, RightOf(d)), p)
  PROVE  Along(d, p) = Along(d, k) - 1
BY IntersectionIsPoint, SMTT(30)
   DEF Along, OnItsLane, OnLane, StreetAt, LanePosition, Horizontal, RightOf, Point, Dirs,
       Left, Right, Down, Up

\* A street with a car in the square of an intersection is one of its streets.
LEMMA StreetOfSquare ==
  ASSUME NEW s \in Streets, NEW k \in Intersections, NEW p \in Point, OnItsLane(s, p), InFrame(k, p)
  PROVE  s = StreetAt(k, Dir(s))
<1>1. /\ s = <<s[1], s[2]>> /\ s[1] \in Dirs /\ s[2] \in Int
      /\ Horizontal(s[1]) => s[2] \in HMids
      /\ ~Horizontal(s[1]) => s[2] \in VMids
      BY StreetTypes DEF Streets, Dir, Dirs, Horizontal, Left, Right, Down, Up
<1>2. k[1] \in VMids /\ k[2] \in HMids /\ k[1] \in Int /\ k[2] \in Int
      BY MidsAssumption DEF Intersections
<1>3. p[1] \in Int /\ p[2] \in Int
      BY DEF Point
<1>4. CASE Horizontal(s[1])
      <2>1. p[2] = s[2] + 1 \/ p[2] = s[2] - 1
            BY <1>1, <1>3, <1>4 DEF OnItsLane, OnLane, LanePosition
      <2>2. p[2] \in (k[2] - 3)..(k[2] + 3)
            BY DEF InFrame, FrameHalf
      <2>3. s[2] - k[2] \in -7..7
            BY <1>1, <1>2, <1>3, <2>1, <2>2
      <2>4. s[2] = k[2]
            BY <1>1, <1>2, <1>4, <2>3, SpacingAssumption
      <2>5. QED BY <1>1, <1>4, <2>4 DEF StreetAt, Dir
<1>5. CASE ~Horizontal(s[1])
      <2>1. p[1] = s[2] + 1 \/ p[1] = s[2] - 1
            BY <1>1, <1>3, <1>5 DEF OnItsLane, OnLane, LanePosition
      <2>2. p[1] \in (k[1] - 3)..(k[1] + 3)
            BY DEF InFrame, FrameHalf
      <2>3. s[2] - k[1] \in -7..7
            BY <1>1, <1>2, <1>3, <2>1, <2>2
      <2>4. s[2] = k[1]
            BY <1>1, <1>2, <1>5, <2>3, SpacingAssumption
      <2>5. QED BY <1>1, <1>5, <2>4 DEF StreetAt, Dir
<1>6. QED BY <1>4, <1>5

\* A car on the lane of one of the streets of an intersection that drives into its
\* square is three cells before the centre.
LEMMA EntersSquare ==
  ASSUME NEW s \in Streets, NEW k \in Intersections, NEW p \in Point, OnItsLane(s, p),
         ~InFrame(k, p), InFrame(k, Ahead(Dir(s), p, 1))
  PROVE  Along(Dir(s), Ahead(Dir(s), p, 1)) = Along(Dir(s), k) - 3
BY StreetTypes, IntersectionIsPoint, SMTT(30)
   DEF InFrame, FrameHalf, Ahead, Along, Point, Dirs, Left, Right, Down, Up

\* At that place a car on its lane is put two cells further along its old street.
LEMMA PutOnNewLane ==
  ASSUME NEW k \in Intersections, NEW d \in Dirs, NEW p \in Point,
         OnItsLane(StreetAt(k, d), p), Along(d, p) = Along(d, k) - 3
  PROVE  OnLane(StreetAt(k, RightOf(d)), p) = CurvePoint(k, d, <<-1, -1>>)
BY IntersectionIsPoint, SMTT(30)
   DEF Along, OnItsLane, OnLane, CurvePoint, Ahead, LeftOf, RightOf, Opposite, StreetAt,
       LanePosition, Horizontal, Point, Dirs, Left, Right, Down, Up

(***************************************************************************)
(* Cars that turn right.                                                   *)
(***************************************************************************)
\* Streets that cross at an intersection.
LEMMA Crossing ==
  ASSUME NEW k \in Intersections, NEW d \in Dirs
  PROVE  /\ StreetAt(k, d) \in Streets /\ Dir(StreetAt(k, d)) = d
         /\ RightOf(d) \in Dirs /\ RightOf(d) # d /\ RightOf(d) # Opposite(d)
         /\ d # Opposite(RightOf(d))
         /\ StreetAt(k, RightOf(d)) \in Streets /\ Dir(StreetAt(k, RightOf(d))) = RightOf(d)
         /\ Along(d, k) \in Marks(StreetAt(k, d))
<1>1. /\ RightOf(d) \in Dirs /\ RightOf(d) # d /\ RightOf(d) # Opposite(d)
      /\ d # Opposite(RightOf(d))
      BY DEF Dirs, RightOf, Opposite, Left, Right, Down, Up
<1>2. Dir(StreetAt(k, d)) = d
      BY StreetAtIsStreet
<1>3. Along(d, k) \in Marks(StreetAt(k, d))
      BY <1>2 DEF Marks
<1>4. QED BY <1>1, <1>2, <1>3, StreetAtIsStreet

\* What holds of a car that is between two streets and turns right.
LEMMA RightTurner ==
  ASSUME Inv, LanesInv, Paths, NEW c \in cars \ gone, street[c] # prev[c], turning[c] = RightTurn
  PROVE  /\ c \in CarId /\ inter[c] \in Intersections /\ pos[c] \in Point
         /\ Dir(prev[c]) \in Dirs
         /\ prev[c] = StreetAt(inter[c], Dir(prev[c]))
         /\ street[c] = StreetAt(inter[c], RightOf(Dir(prev[c])))
         /\ Dir(street[c]) = RightOf(Dir(prev[c]))
         /\ point[c] \in 0..5 /\ (OnCurve(c) <=> InMouth(c))
<1>1. TypeOK /\ BetweenStreets /\ c \in CarId /\ OnCourse(c) /\ OnPath(c)
      BY DEF Inv, TypeOK, LanesInv, AllOnCourse, Paths
<1>2. /\ inter[c] \in Intersections /\ pos[c] \in Point /\ point[c] \in 0..5
      /\ Dir(prev[c]) \in Dirs
      BY <1>1, StreetTypes DEF BetweenStreets, Between, TypeOK
<1>3. /\ prev[c] = StreetAt(inter[c], Dir(prev[c]))
      /\ street[c] = StreetAt(inter[c], RightOf(Dir(prev[c])))
      BY <1>1 DEF OnPath, OnCourse, Exit
<1>4. Dir(street[c]) = RightOf(Dir(prev[c]))
      BY <1>2, <1>3, Crossing
<1>5. OnCurve(c) <=> InMouth(c)
      <2>1. Curve(c) = RightCurve /\ Len(RightCurve) = 3 /\ turning[c] # Straight
            BY DEF Curve, RightCurve, RightTurn, Straight
      <2>2. QED BY <2>1 DEF OnCurve, InMouth
<1>6. QED BY <1>1, <1>2, <1>3, <1>4, <1>5

\* Where the points of the curve are.
LEMMA Offsets3 ==
  /\ Offset(0) = <<-1, -1>> /\ Offset(1) = <<-3, -1>>
  /\ Offset(2) = <<-2, -1>> /\ Offset(3) = <<-1, -2>>
BY DEF Offset, RightCurve

\* A car that leaves a street by a right turn is one cell before the centre, except
\* at the two first points of the curve.
LEMMA LeaverPace ==
  ASSUME Inv, LanesInv, Paths, NEW s \in Streets, RightOnly(s), NEW l \in Leavers(s)
  PROVE  /\ l \in CarId /\ Mark(s, l) \in Marks(s) /\ Mark(s, l) \in Int
         /\ Pace(s, l) = IF point[l] = 1 THEN Mark(s, l) - 3
                         ELSE IF point[l] = 2 THEN Mark(s, l) - 2 ELSE Mark(s, l) - 1
<1>1. l \in cars \ gone /\ prev[l] = s /\ street[l] # prev[l] /\ turning[l] = RightTurn
      BY DEF Leavers, RightOnly
<1> DEFINE k == inter[l]
           d == Dir(s)
<1>2. /\ l \in CarId /\ k \in Intersections /\ pos[l] \in Point /\ d \in Dirs
      /\ s = StreetAt(k, d) /\ street[l] = StreetAt(k, RightOf(d))
      /\ point[l] \in 0..5 /\ (OnCurve(l) <=> InMouth(l))
      BY <1>1, RightTurner
<1>3. Along(d, k) \in Marks(s) /\ Along(d, k) \in Int
      BY <1>2, Crossing, AlongType, IntersectionIsPoint
<1>4. CASE InMouth(l)
      <2>1. pos[l] = CurvePoint(k, d, Offset(point[l]))
            BY <1>1, <1>2, <1>4 DEF Paths, OnPath
      <2>2. point[l] \in {0, 1, 2}
            BY <1>2, <1>4 DEF InMouth
      <2>3. Along(d, pos[l]) = Along(d, k) + Offset(point[l])[1]
            BY <1>2, <2>1, <2>2, Offsets3, CurveAlong
      <2>4. QED BY <1>2, <1>3, <2>2, <2>3, Offsets3 DEF Pace, Mark
<1>5. CASE ~InMouth(l)
      <2>1. OnItsLane(street[l], pos[l])
            BY <1>1, <1>2, <1>5 DEF LanesInv, AllOnCourse, OnCourse
      <2>2. Along(d, pos[l]) = Along(d, k) - 1
            BY <1>2, <2>1, LaneAcross
      <2>3. QED BY <1>2, <1>3, <1>5, <2>2 DEF Pace, Mark, InMouth
<1>6. QED BY <1>4, <1>5

\* A car that joins a street by a right turn is one cell beyond the centre while it
\* leaves its old street.
LEMMA JoinerPace ==
  ASSUME Inv, LanesInv, Paths, NEW s \in Streets, NEW c \in cars \ gone, street[c] = s,
         street[c] # prev[c], turning[c] = RightTurn, InMouth(c)
  PROVE  Mark(s, c) \in Marks(s) /\ Mark(s, c) \in Int /\ Pace(s, c) = Mark(s, c) + 1
<1> DEFINE k == inter[c]
           d == Dir(prev[c])
<1>2. /\ c \in CarId /\ k \in Intersections /\ pos[c] \in Point /\ d \in Dirs
      /\ s = StreetAt(k, RightOf(d)) /\ Dir(s) = RightOf(d)
      /\ point[c] \in 0..5 /\ OnCurve(c)
      BY RightTurner
<1>3. RightOf(d) \in Dirs
      BY <1>2, Crossing
<1>4. Along(Dir(s), k) \in Marks(s) /\ Along(Dir(s), k) \in Int
      BY <1>2, <1>3, Crossing, AlongType, IntersectionIsPoint
<1>5. pos[c] = CurvePoint(k, d, Offset(point[c]))
      BY <1>2 DEF Paths, OnPath
<1>6. point[c] \in {0, 1, 2}
      BY <1>2 DEF InMouth
<1>7. Along(RightOf(d), pos[c]) = Along(RightOf(d), k) - Offset(point[c])[2]
      BY <1>2, <1>5, <1>6, Offsets3, CurveAlong
<1>8. Offset(point[c])[2] = -1
      BY <1>6, Offsets3
<1>9. QED BY <1>2, <1>4, <1>7, <1>8 DEF Pace, Mark

(***************************************************************************)
(* What one visit can do to the flow of a street.  Each lemma speaks of    *)
(* one street and of the one car that moved there.                         *)
(***************************************************************************)
\* Nothing of street s has changed but where car c is.
Steady(s, c) ==
  /\ Members(s)' = Members(s) /\ Leavers(s)' = Leavers(s)
  /\ \A e \in Members(s) : closest'[e] = closest[e]
  /\ \A e \in Members(s) \cup Leavers(s) :
       /\ e # c => Pace(s, e)' = Pace(s, e)
       /\ street'[e] # prev'[e] => street[e] # prev[e] /\ turning'[e] = turning[e]
  /\ \A l \in Leavers(s) :
       /\ Mark(s, l)' = Mark(s, l) /\ (crashed[l] => crashed'[l])
       /\ l # c => point'[l] = point[l]
       /\ l # c /\ point[l] = 0 /\ ~crashed'[l] =>
            \A e \in Members(s) : StillToGo(e, l)' => StillToGo(e, l)

\* Members and leavers are different cars.
LEMMA Attending ==
  ASSUME TypeOK, NEW s
  PROVE  /\ Members(s) \subseteq CarId /\ Leavers(s) \subseteq CarId
         /\ Members(s) \cap Leavers(s) = {}
         /\ NoCar \notin Members(s) \cup Leavers(s)
BY CarsAssumption DEF TypeOK, Members, Leavers

\* A leaver has an intersection it turns at.
LEMMA MarkType ==
  ASSUME Inv, NEW s \in Streets, NEW l \in Leavers(s)
  PROVE  Mark(s, l) \in Int
<1>1. l \in CarId /\ street[l] # prev[l]
      BY DEF Inv, TypeOK, Leavers
<1>2. inter[l] \in Point
      BY <1>1, IntersectionIsPoint DEF Inv, BetweenStreets, Between
<1>3. QED BY <1>2, StreetTypes, AlongType DEF Mark

\* The cars of the street still turn right.
LEMMA SteadyTurns ==
  ASSUME NEW s, NEW c, RightOnly(s), Steady(s, c)
  PROVE  RightOnly(s)'
BY DEF RightOnly, Steady

\* A street no car of which has moved is as it was.
LEMMA Untouched ==
  ASSUME TypeOK, TypeOK', NEW s \in Streets, Calm(s), Steady(s, NoCar)
  PROVE  Calm(s)'
<1>1. /\ Members(s)' = Members(s) /\ Leavers(s)' = Leavers(s)
      /\ NoCar \notin Members(s) \cup Leavers(s)
      BY Attending DEF Steady
<1>2. \A e \in Members(s) \cup Leavers(s) : Pace(s, e)' = Pace(s, e)
      BY <1>1 DEF Steady
<1>3. \A c \in Members(s) : MembersAhead(s, c)' = MembersAhead(s, c)
      BY <1>1, <1>2 DEF MembersAhead
<1>4. /\ \A c \in Members(s) : closest'[c] = closest[c]
      /\ \A l \in Leavers(s) : Mark(s, l)' = Mark(s, l) /\ point'[l] = point[l]
      BY <1>1 DEF Steady
<1>5. RightOnly(s)'
      BY SteadyTurns DEF Calm
<1>6. Spread(s)'
      <2>1. Marks(s)' = Marks(s)
            BY DEF Marks
      <2>2. QED BY <1>1, <1>2, <2>1 DEF Calm, Spread
<1>7. Nearest(s)'
      <2> SUFFICES ASSUME NEW c \in Members(s), closest[c] # NoCar \/ MembersAhead(s, c) # {}
                   PROVE  /\ closest[c] # NoCar /\ closest[c] \in Members(s) \cup Leavers(s)
                          /\ Pace(s, c)' < Pace(s, closest[c])'
                          /\ \A e \in MembersAhead(s, c) : Pace(s, closest[c])' =< Pace(s, e)'
          BY <1>1, <1>3, <1>4 DEF Nearest
      <2>1. /\ closest[c] # NoCar /\ closest[c] \in Members(s) \cup Leavers(s)
            /\ Pace(s, c) < Pace(s, closest[c])
            /\ \A e \in MembersAhead(s, c) : Pace(s, closest[c]) =< Pace(s, e)
            BY DEF Calm, Nearest
      <2>2. MembersAhead(s, c) \subseteq Members(s)
            BY DEF MembersAhead
      <2>3. QED BY <1>2, <1>4, <2>1, <2>2 DEF Pace
<1>8. BehindLeaver(s)'
      <2>1. \A c \in Members(s) : MembersAhead(s, c) \subseteq Members(s)
            BY DEF MembersAhead
      <2>2. QED BY <1>1, <1>2, <1>3, <1>4, <2>1 DEF Calm, BehindLeaver
<1>9. MouthGap(s)'
      <2> SUFFICES ASSUME NEW c \in Members(s), NEW l \in Leavers(s), InMouth(l)
                   PROVE  \/ Pace(s, c) >= Mark(s, l) - 1
                          \/ /\ Pace(s, c) =< Mark(s, l) - 3
                             /\ point[l] # 0 \/ ~crashed'[l] => Pace(s, c) =< Mark(s, l) - 4
                             /\ point[l] = 0 /\ ~crashed'[l] /\ StillToGo(c, l)' =>
                                  Pace(s, c) =< Mark(s, l) - 5
          BY <1>1, <1>2, <1>4 DEF MouthGap, InMouth
      <2>1. \/ Pace(s, c) >= Mark(s, l) - 1
            \/ /\ Pace(s, c) =< Mark(s, l) - 3
               /\ point[l] # 0 \/ ~crashed[l] => Pace(s, c) =< Mark(s, l) - 4
               /\ point[l] = 0 /\ ~crashed[l] /\ StillToGo(c, l) => Pace(s, c) =< Mark(s, l) - 5
            BY DEF Calm, MouthGap
      <2>2. /\ crashed[l] => crashed'[l]
            /\ point[l] = 0 /\ ~crashed'[l] /\ StillToGo(c, l)' => StillToGo(c, l)
            BY <1>1 DEF Steady
      <2>3. QED BY <2>1, <2>2
<1>10. MouthFollow(s)'
       <2> SUFFICES ASSUME NEW c \in Members(s), NEW l \in Leavers(s), InMouth(l),
                           Pace(s, c) =< Mark(s, l) - 3
                    PROVE  /\ closest[c] # NoCar
                           /\ closest[c] = l \/ Pace(s, closest[c])' =< Mark(s, l) - 3
           BY <1>1, <1>2, <1>4 DEF MouthFollow, InMouth
       <2>1. /\ closest[c] # NoCar
             /\ closest[c] = l \/ Pace(s, closest[c]) =< Mark(s, l) - 3
             BY DEF Calm, MouthFollow
       <2>2. closest[c] \in Members(s) \cup Leavers(s)
             BY <2>1 DEF Calm, Nearest
       <2>3. QED BY <1>2, <1>4, <2>1, <2>2 DEF Pace
<1>11. OneMouth(s)'
       BY <1>1, <1>4 DEF Calm, OneMouth, InMouth
<1>12. QED BY <1>5, <1>6, <1>7, <1>8, <1>9, <1>10, <1>11 DEF Calm

\* A car of the street drives on by one cell.  What is ahead of it stays ahead, it stays
\* behind the car it follows, and it does not drive into a place that a leaving car needs.
StaysBehind(s, c) ==
  /\ \A e \in Members(s) : Pace(s, e) > Pace(s, c) =>
       /\ Pace(s, e) > Pace(s, c) + 1
       /\ Pace(s, e) = Pace(s, c) + 2 =>
            \E m \in Marks(s) : Pace(s, c) + 1 = m \/ Pace(s, c) + 1 = m + 2
  /\ closest[c] # NoCar => Pace(s, closest[c]) > Pace(s, c) + 1

KeepsOut(s, c) ==
  \A l \in Leavers(s) : InMouth(l) /\ Pace(s, c) < Mark(s, l) - 1 =>
    /\ Pace(s, c) + 1 =< Mark(s, l) - 3
    /\ point[l] # 0 \/ ~crashed[l] => Pace(s, c) + 1 =< Mark(s, l) - 4
    /\ point[l] = 0 /\ StillToGo(c, l)' => Pace(s, c) + 1 =< Mark(s, l) - 5

\* Then the street is as calm as before.
LEMMA MemberMoves ==
  ASSUME Inv, TypeOK', NEW s \in Streets, Calm(s), NEW c \in Members(s), Steady(s, c),
         Pace(s, c)' = Pace(s, c) + 1, StaysBehind(s, c), KeepsOut(s, c)
  PROVE  Calm(s)'
<1>1. /\ Members(s)' = Members(s) /\ Leavers(s)' = Leavers(s)
      /\ c \in CarId /\ Members(s) \subseteq CarId /\ Leavers(s) \subseteq CarId
      /\ c \notin Leavers(s) /\ NoCar \notin Members(s) \cup Leavers(s)
      BY Attending DEF Steady, Inv
<1>2. /\ \A e \in CarId : Pace(s, e) \in Int
      /\ \A l \in Leavers(s) : Mark(s, l) \in Int
      BY PaceType, MarkType DEF Inv
<1>3. \A e \in Members(s) \cup Leavers(s) : e # c => Pace(s, e)' = Pace(s, e)
      BY DEF Steady
<1>4. \A d \in Members(s) : closest'[d] = closest[d]
      BY DEF Steady
<1>5. \A l \in Leavers(s) : Mark(s, l)' = Mark(s, l) /\ point'[l] = point[l]
      BY <1>1 DEF Steady
<1>6. /\ \A d, e \in Members(s) : d # e => Pace(s, d) # Pace(s, e)
      /\ \A e \in Members(s) : Pace(s, e) > Pace(s, c) => Pace(s, e) > Pace(s, c) + 1
      BY DEF Calm, Spread, StaysBehind
\* The order of the cars has not changed.
<1>7. \A d \in Members(s) : MembersAhead(s, d)' = MembersAhead(s, d)
      <2> SUFFICES ASSUME NEW d \in Members(s), NEW e \in Members(s)
                   PROVE  Pace(s, e)' > Pace(s, d)' <=> Pace(s, e) > Pace(s, d)
          BY <1>1 DEF MembersAhead
      <2>1. CASE d # c /\ e # c
            BY <1>3, <2>1
      <2>2. CASE d = c /\ e # c
            BY <1>1, <1>2, <1>3, <1>6, <2>2
      <2>3. CASE d # c /\ e = c
            BY <1>1, <1>2, <1>3, <1>6, <2>3
      <2>4. CASE d = c /\ e = c
            BY <1>1, <1>2, <2>4
      <2>5. QED BY <2>1, <2>2, <2>3, <2>4
<1>8. RightOnly(s)'
      BY SteadyTurns DEF Calm
<1>9. Spread(s)'
      <2> SUFFICES ASSUME NEW d \in Members(s), NEW e \in Members(s), d # e
                   PROVE  /\ Pace(s, d)' # Pace(s, e)'
                          /\ Pace(s, e)' = Pace(s, d)' + 1 =>
                               \E m \in Marks(s) : Pace(s, d)' = m \/ Pace(s, d)' = m + 2
          BY <1>1 DEF Spread, Marks
      <2>1. CASE d # c /\ e # c
            BY <1>3, <2>1 DEF Calm, Spread
      <2>2. CASE d = c
            BY <1>1, <1>2, <1>3, <1>6, <2>2 DEF StaysBehind
      <2>3. CASE e = c
            BY <1>1, <1>2, <1>3, <1>6, <2>3
      <2>4. QED BY <2>1, <2>2, <2>3
<1>10. Nearest(s)'
       <2> SUFFICES ASSUME NEW d \in Members(s), closest[d] # NoCar \/ MembersAhead(s, d) # {}
                    PROVE  /\ closest[d] # NoCar /\ closest[d] \in Members(s) \cup Leavers(s)
                           /\ Pace(s, d)' < Pace(s, closest[d])'
                           /\ \A e \in MembersAhead(s, d) : Pace(s, closest[d])' =< Pace(s, e)'
           BY <1>1, <1>4, <1>7 DEF Nearest
       <2>1. PICK n \in Members(s) \cup Leavers(s) :
               /\ closest[d] = n /\ closest'[d] = n
               /\ Pace(s, d) < Pace(s, n)
               /\ \A e \in MembersAhead(s, d) : Pace(s, n) =< Pace(s, e)
             BY <1>4 DEF Calm, Nearest
       <2>2. Pace(s, closest[d])' = Pace(s, n)'
             BY <2>1 DEF Pace
       <2>3. MembersAhead(s, d) \subseteq Members(s)
             BY DEF MembersAhead
       <2>4. Pace(s, d)' < Pace(s, n)'
             <3>1. CASE d = c
                   <4>1. Pace(s, n) > Pace(s, c) + 1 /\ n # c
                         BY <1>1, <1>2, <2>1, <3>1 DEF StaysBehind
                   <4>2. QED BY <1>1, <1>3, <2>1, <3>1, <4>1
             <3>2. CASE d # c
                   BY <1>1, <1>2, <1>3, <2>1, <3>2
             <3>3. QED BY <3>1, <3>2
       <2>5. ASSUME NEW e \in MembersAhead(s, d) PROVE Pace(s, n)' =< Pace(s, e)'
             <3>1. e \in Members(s) /\ Pace(s, n) =< Pace(s, e) /\ e \in CarId /\ n \in CarId
                   BY <1>1, <2>1, <2>3
             <3>2. CASE n = c /\ e # c
                   BY <1>1, <1>2, <1>3, <1>6, <3>1, <3>2
             <3>3. CASE n = c /\ e = c
                   BY <1>2, <3>1, <3>3
             <3>4. CASE n # c
                   BY <1>1, <1>2, <1>3, <2>1, <3>1, <3>4
             <3>5. QED BY <3>2, <3>3, <3>4
       <2>6. QED BY <1>1, <2>1, <2>2, <2>4, <2>5
<1>11. BehindLeaver(s)'
       <2> SUFFICES ASSUME NEW d \in Members(s), NEW l \in Leavers(s), closest[d] = l,
                           NEW e \in MembersAhead(s, d)
                    PROVE  Pace(s, e)' >= Mark(s, l)
                             - 1
           BY <1>1, <1>4, <1>5, <1>7 DEF BehindLeaver
       <2>1. e \in Members(s) /\ Pace(s, e) >= Mark(s, l) - 1
             BY DEF Calm, BehindLeaver, MembersAhead
       <2>2. QED BY <1>1, <1>2, <1>3, <2>1
<1>12. MouthGap(s)'
       <2> SUFFICES ASSUME NEW d \in Members(s), NEW l \in Leavers(s), InMouth(l)
                    PROVE  \/ Pace(s, d)' >= Mark(s, l) - 1
                           \/ /\ Pace(s, d)' =< Mark(s, l) - 3
                              /\ point[l] # 0 \/ ~crashed'[l] => Pace(s, d)' =< Mark(s, l) - 4
                              /\ point[l] = 0 /\ ~crashed'[l] /\ StillToGo(d, l)' =>
                                   Pace(s, d)' =< Mark(s, l) - 5
           BY <1>1, <1>5 DEF MouthGap, InMouth
       <2>1. \/ Pace(s, d) >= Mark(s, l) - 1
             \/ /\ Pace(s, d) =< Mark(s, l) - 3
                /\ point[l] # 0 \/ ~crashed[l] => Pace(s, d) =< Mark(s, l) - 4
                /\ point[l] = 0 /\ ~crashed[l] /\ StillToGo(d, l) => Pace(s, d) =< Mark(s, l) - 5
             BY DEF Calm, MouthGap
       <2>2. /\ crashed[l] => crashed'[l]
             /\ point[l] = 0 /\ ~crashed'[l] /\ StillToGo(d, l)' => StillToGo(d, l)
             BY <1>1 DEF Steady
       <2>3. CASE d # c
             BY <1>3, <2>1, <2>2, <2>3
       <2>4. CASE d = c /\ Pace(s, c) >= Mark(s, l) - 1
             BY <1>1, <1>2, <2>4
       <2>5. CASE d = c /\ Pace(s, c) < Mark(s, l) - 1
             BY <2>2, <2>5 DEF KeepsOut
       <2>6. QED BY <1>1, <1>2, <2>3, <2>4, <2>5
<1>13. MouthFollow(s)'
       <2> SUFFICES ASSUME NEW d \in Members(s), NEW l \in Leavers(s), InMouth(l),
                           Pace(s, d)' =< Mark(s, l) - 3
                    PROVE  /\ closest[d] # NoCar
                           /\ closest[d] = l \/ Pace(s, closest[d])' =< Mark(s, l) - 3
           BY <1>1, <1>4, <1>5 DEF MouthFollow, InMouth
       <2>1. Pace(s, d) =< Mark(s, l) - 3
             BY <1>1, <1>2, <1>3
       <2>2. PICK n \in Members(s) \cup Leavers(s) :
               /\ closest[d] = n /\ closest'[d] = n
               /\ n = l \/ Pace(s, n) =< Mark(s, l) - 3
             BY <1>4, <2>1 DEF Calm, MouthFollow, Nearest
       <2>3. Pace(s, closest[d])' = Pace(s, n)'
             BY <2>2 DEF Pace
       <2>4. CASE n # c
             BY <1>1, <1>3, <2>2, <2>3, <2>4
       <2>5. CASE n = c
             <3>1. Pace(s, c) =< Mark(s, l) - 3
                   BY <1>1, <2>2, <2>5
             <3>2. Pace(s, c) < Mark(s, l) - 1
                   BY <1>1, <1>2, <3>1
             <3>3. QED BY <1>1, <2>2, <2>3, <2>5, <3>2 DEF KeepsOut
       <2>6. QED BY <2>4, <2>5
<1>14. OneMouth(s)'
       BY <1>1, <1>5 DEF Calm, OneMouth, InMouth
<1>15. QED BY <1>8, <1>9, <1>10, <1>11, <1>12, <1>13, <1>14 DEF Calm

\* A leaving car is taken from the lane of its new street back to the beginning of its
\* curve, or goes on along it.
LEMMA LeaverMoves ==
  ASSUME Inv, LanesInv, Paths, TypeOK', NEW s \in Streets, Calm(s), NEW c \in Leavers(s),
         Steady(s, c), InMouth(c), ~crashed[c],
         point'[c] \in {1, 2, 3},
         Pace(s, c)' = IF point'[c] = 1 THEN Mark(s, c) - 3
                       ELSE IF point'[c] = 2 THEN Mark(s, c) - 2 ELSE Mark(s, c) - 1
  PROVE  Calm(s)'
<1>1. /\ Members(s)' = Members(s) /\ Leavers(s)' = Leavers(s)
      /\ c \in CarId /\ Members(s) \subseteq CarId /\ Leavers(s) \subseteq CarId
      /\ c \notin Members(s) /\ NoCar \notin Members(s) \cup Leavers(s)
      BY Attending DEF Steady, Inv
<1>2. /\ \A e \in CarId : Pace(s, e) \in Int
      /\ \A l \in Leavers(s) : Mark(s, l) \in Int /\ Mark(s, l) \in Marks(s)
      /\ \A l \in Leavers(s) : Pace(s, l) \in (Mark(s, l) - 3)..(Mark(s, l) - 1)
      <2>1. \A l \in Leavers(s) : /\ Mark(s, l) \in Int /\ Mark(s, l) \in Marks(s)
              /\ Pace(s, l) = IF point[l] = 1 THEN Mark(s, l) - 3
                              ELSE IF point[l] = 2 THEN Mark(s, l) - 2 ELSE Mark(s, l) - 1
            BY LeaverPace DEF Calm
      <2>2. \A l \in Leavers(s) : Pace(s, l) \in (Mark(s, l) - 3)..(Mark(s, l) - 1)
            BY <2>1
      <2>3. QED BY <2>1, <2>2, PaceType DEF Inv
<1>3. \A e \in Members(s) \cup Leavers(s) : e # c => Pace(s, e)' = Pace(s, e)
      BY DEF Steady
<1>4. \A d \in Members(s) : closest'[d] = closest[d]
      BY DEF Steady
<1>5. \A l \in Leavers(s) : Mark(s, l)' = Mark(s, l) /\ (l # c => point'[l] = point[l])
      BY <1>1 DEF Steady
<1>6. \A d \in Members(s) : Pace(s, d)' = Pace(s, d) /\ MembersAhead(s, d)' = MembersAhead(s, d)
      BY <1>1, <1>3 DEF MembersAhead
<1>7. Pace(s, c)' \in (Mark(s, c) - 3)..(Mark(s, c) - 1)
      BY <1>2
\* A car behind it keeps the place free that it needs.
<1>8. \A d \in Members(s) : Pace(s, d) >= Mark(s, c) - 1 \/ Pace(s, d) =< Mark(s, c) - 4
      BY DEF Calm, MouthGap
<1>9. RightOnly(s)'
      BY SteadyTurns DEF Calm
<1>10. Spread(s)'
       <2>1. Marks(s)' = Marks(s)
             BY DEF Marks
       <2>2. QED BY <1>1, <1>6, <2>1 DEF Calm, Spread
<1>11. Nearest(s)'
       <2> SUFFICES ASSUME NEW d \in Members(s), closest[d] # NoCar \/ MembersAhead(s, d) # {}
                    PROVE  /\ closest[d] # NoCar /\ closest[d] \in Members(s) \cup Leavers(s)
                           /\ Pace(s, d)' < Pace(s, closest[d])'
                           /\ \A e \in MembersAhead(s, d) : Pace(s, closest[d])' =< Pace(s, e)'
           BY <1>1, <1>4, <1>6 DEF Nearest
       <2>1. PICK n \in Members(s) \cup Leavers(s) :
               /\ closest[d] = n /\ closest'[d] = n
               /\ Pace(s, d) < Pace(s, n)
               /\ \A e \in MembersAhead(s, d) : Pace(s, n) =< Pace(s, e)
             BY <1>4 DEF Calm, Nearest
       <2>2. Pace(s, closest[d])' = Pace(s, n)'
             BY <2>1 DEF Pace
       <2>3. MembersAhead(s, d) \subseteq Members(s)
             BY DEF MembersAhead
       <2>4. CASE n # c
             BY <1>1, <1>3, <1>6, <2>1, <2>2, <2>3, <2>4
       <2>5. CASE n = c
             <3>1. Pace(s, d) < Mark(s, c) - 1
                   BY <1>1, <1>2, <2>1, <2>5
             <3>2. Pace(s, d)' < Pace(s, c)'
                   BY <1>1, <1>2, <1>6, <1>7, <1>8, <3>1
             <3>3. \A e \in MembersAhead(s, d) : Pace(s, e) >= Mark(s, c) - 1
                   BY <2>1, <2>5 DEF Calm, BehindLeaver
             <3>4. \A e \in MembersAhead(s, d) : Pace(s, c)' =< Pace(s, e)'
                   BY <1>1, <1>2, <1>6, <1>7, <2>3, <3>3
             <3>5. QED BY <1>1, <2>1, <2>2, <2>5, <3>2, <3>4
       <2>6. QED BY <2>4, <2>5
<1>12. BehindLeaver(s)'
       <2>1. \A d \in Members(s) : MembersAhead(s, d) \subseteq Members(s)
             BY DEF MembersAhead
       <2>2. QED BY <1>1, <1>4, <1>5, <1>6, <2>1 DEF Calm, BehindLeaver
<1>13. MouthGap(s)'
       <2> SUFFICES ASSUME NEW d \in Members(s), NEW l \in Leavers(s), InMouth(l)'
                    PROVE  \/ Pace(s, d) >= Mark(s, l) - 1
                           \/ /\ Pace(s, d) =< Mark(s, l) - 3
                              /\ point'[l] # 0 \/ ~crashed'[l] => Pace(s, d) =< Mark(s, l) - 4
                              /\ point'[l] = 0 /\ ~crashed'[l] /\ StillToGo(d, l)' =>
                                   Pace(s, d) =< Mark(s, l) - 5
           BY <1>1, <1>5, <1>6 DEF MouthGap
       <2>1. CASE l = c
             BY <1>1, <1>2, <1>8, <2>1
       <2>2. CASE l # c
             <3>1. InMouth(l) /\ point'[l] = point[l]
                   BY <1>5, <2>2 DEF InMouth
             <3>2. \/ Pace(s, d) >= Mark(s, l) - 1
                   \/ /\ Pace(s, d) =< Mark(s, l) - 3
                      /\ point[l] # 0 \/ ~crashed[l] => Pace(s, d) =< Mark(s, l) - 4
                      /\ point[l] = 0 /\ ~crashed[l] /\ StillToGo(d, l) =>
                           Pace(s, d) =< Mark(s, l) - 5
                   BY <3>1 DEF Calm, MouthGap
             <3>3. /\ crashed[l] => crashed'[l]
                   /\ point[l] = 0 /\ ~crashed'[l] /\ StillToGo(d, l)' => StillToGo(d, l)
                   BY <2>2 DEF Steady
             <3>4. QED BY <3>1, <3>2, <3>3
       <2>3. QED BY <2>1, <2>2
<1>14. MouthFollow(s)'
       <2> SUFFICES ASSUME NEW d \in Members(s), NEW l \in Leavers(s), InMouth(l)',
                           Pace(s, d) =< Mark(s, l) - 3
                    PROVE  /\ closest[d] # NoCar
                           /\ closest[d] = l \/ Pace(s, closest[d])' =< Mark(s, l) - 3
           BY <1>1, <1>4, <1>5, <1>6 DEF MouthFollow
       <2>1. InMouth(l)
             BY <1>5 DEF InMouth
       <2>2. PICK n \in Members(s) \cup Leavers(s) :
               /\ closest[d] = n /\ closest'[d] = n
               /\ n = l \/ Pace(s, n) =< Mark(s, l) - 3
             BY <1>4, <2>1 DEF Calm, MouthFollow, Nearest
       <2>3. Pace(s, closest[d])' = Pace(s, n)'
             BY <2>2 DEF Pace
       <2>4. CASE n = l
             BY <1>1, <2>2, <2>4
       <2>5. CASE n # c
             BY <1>1, <1>3, <2>2, <2>3, <2>5
       <2>6. CASE n = c /\ n # l
             <3>1. Mark(s, c) # Mark(s, l)
                   BY <2>1, <2>6 DEF Calm, OneMouth
             <3>2. Pace(s, c) =< Mark(s, l) - 3
                   BY <2>2, <2>6
             <3>3. Mark(s, c) - 3 =< Mark(s, l) - 3
                   BY <1>1, <1>2, <3>2
             <3>4. Mark(s, l) > Mark(s, c) + 7
                   BY <1>2, <3>1, <3>3, MarksApart
             <3>5. Pace(s, c)' =< Mark(s, l) - 3
                   BY <1>2, <1>7, <3>4
             <3>6. QED BY <1>1, <2>2, <2>3, <2>6, <3>5
       <2>7. QED BY <2>4, <2>5, <2>6
<1>15. OneMouth(s)'
       <2>1. \A l \in Leavers(s) : InMouth(l)' => InMouth(l)
             BY <1>5 DEF InMouth
       <2>2. QED BY <1>1, <1>5, <2>1 DEF Calm, OneMouth
<1>16. QED BY <1>9, <1>10, <1>11, <1>12, <1>13, <1>14, <1>15 DEF Calm

\* Nothing of street s has changed for the cars other than c.
OthersKept(s, c) ==
  /\ \A e \in Members(s) \cup Leavers(s) : e # c =>
       /\ Pace(s, e)' = Pace(s, e) /\ turning'[e] = turning[e]
       /\ street'[e] = street[e] /\ prev'[e] = prev[e]
  /\ \A l \in Leavers(s) : l # c =>
       /\ Mark(s, l)' = Mark(s, l) /\ point'[l] = point[l] /\ crashed'[l] = crashed[l]
       /\ point[l] = 0 => \A e \in Members(s) : StillToGo(e, l)' => StillToGo(e, l)

\* A car of the street begins its right turn: those behind have not come near, and no
\* other car is on the curve it enters.
LEMMA MemberLeaves ==
  ASSUME Inv, LanesInv, Paths, TypeOK', NEW s \in Streets, Calm(s), NEW c \in Members(s),
         NEW m \in Marks(s),
         Members(s)' = Members(s) \ {c}, Leavers(s)' = Leavers(s) \cup {c}, OthersKept(s, c),
         \A e \in Members(s) \ {c} : closest'[e] = closest[e],
         turning'[c] = RightTurn, point'[c] = 0, Mark(s, c)' = m,
         Pace(s, c) = m - 3, Pace(s, c)' = m - 1,
         \A l \in Leavers(s) : InMouth(l) => Mark(s, l) # m
  PROVE  Calm(s)'
<1>1. /\ c \in CarId /\ Members(s) \subseteq CarId /\ Leavers(s) \subseteq CarId
      /\ c \notin Leavers(s) /\ Members(s) \cap Leavers(s) = {}
      /\ NoCar \notin Members(s) \cup Leavers(s) /\ m \in Int
      BY Attending, MarksApart DEF Inv
<1>2. /\ \A e \in CarId : Pace(s, e) \in Int
      /\ \A l \in Leavers(s) : Mark(s, l) \in Int /\ Mark(s, l) \in Marks(s)
      BY PaceType, LeaverPace DEF Inv, Calm
<1>3. \A e \in Members(s) \cup Leavers(s) : e # c => Pace(s, e)' = Pace(s, e)
      BY DEF OthersKept
<1>4. \A d \in Members(s) \ {c} : closest'[d] = closest[d]
      OBVIOUS
<1>5. \A l \in Leavers(s) : Mark(s, l)' = Mark(s, l) /\ point'[l] = point[l] /\ crashed'[l] = crashed[l]
      BY <1>1 DEF OthersKept
<1>6. \A d \in Members(s) \ {c} : MembersAhead(s, d)' = MembersAhead(s, d) \ {c}
      BY <1>3 DEF MembersAhead
\* Nothing is next to the car that leaves.
<1>7. \A d \in Members(s) \ {c} : Pace(s, d) =< m - 5 \/ Pace(s, d) >= m - 1
      <2> SUFFICES ASSUME NEW d \in Members(s) \ {c}
                   PROVE  Pace(s, d) # m - 3 /\ Pace(s, d) # m - 2 /\ Pace(s, d) # m - 4
          BY <1>1, <1>2
      <2>1. Pace(s, d) # m - 3
            BY DEF Calm, Spread
      <2>2. ASSUME NEW n \in Marks(s) PROVE m - 3 # n /\ m - 3 # n + 2 /\ m - 4 # n /\ m - 4 # n + 2
            BY <1>1, MarksApart
      <2>3. Pace(s, d) # m - 2
            <3>1. Pace(s, d) = m - 2 => Pace(s, d) = Pace(s, c) + 1
                  BY <1>1
            <3>2. QED BY <2>2, <3>1 DEF Calm, Spread
      <2>4. Pace(s, d) # m - 4
            <3>1. Pace(s, d) = m - 4 => Pace(s, c) = Pace(s, d) + 1
                  BY <1>1
            <3>2. QED BY <2>2, <3>1 DEF Calm, Spread
      <2>5. QED BY <2>1, <2>3, <2>4
<1>8. RightOnly(s)'
      BY DEF Calm, RightOnly, OthersKept
<1>9. Spread(s)'
      <2>1. Marks(s)' = Marks(s)
            BY DEF Marks
      <2>2. QED BY <1>3, <2>1 DEF Calm, Spread
<1>10. Nearest(s)'
       <2> SUFFICES ASSUME NEW d \in Members(s) \ {c}, closest[d] # NoCar \/ MembersAhead(s, d)' # {}
                    PROVE  /\ closest[d] # NoCar /\ closest[d] \in Members(s) \cup Leavers(s)
                           /\ Pace(s, d)' < Pace(s, closest[d])'
                           /\ \A e \in MembersAhead(s, d)' : Pace(s, closest[d])' =< Pace(s, e)'
           BY <1>4 DEF Nearest
       <2>1. PICK n \in Members(s) \cup Leavers(s) :
               /\ closest[d] = n /\ closest'[d] = n
               /\ Pace(s, d) < Pace(s, n)
               /\ \A e \in MembersAhead(s, d) : Pace(s, n) =< Pace(s, e)
             BY <1>4, <1>6 DEF Calm, Nearest
       <2>2. Pace(s, closest[d])' = Pace(s, n)'
             BY <2>1 DEF Pace
       <2>3. MembersAhead(s, d)' \subseteq Members(s) \ {c} /\ MembersAhead(s, d)' \subseteq MembersAhead(s, d)
             BY <1>6 DEF MembersAhead
       <2>4. CASE n # c
             BY <1>1, <1>3, <2>1, <2>2, <2>3, <2>4
       <2>5. CASE n = c
             <3>1. Pace(s, d)' < Pace(s, c)'
                   BY <1>1, <1>2, <1>3, <2>1, <2>5
             <3>2. \A e \in MembersAhead(s, d)' : Pace(s, c) =< Pace(s, e)
                   BY <2>1, <2>3, <2>5
             <3>3. \A e \in MembersAhead(s, d)' : Pace(s, e) >= m - 1
                   BY <1>1, <1>2, <1>7, <2>3, <3>2
             <3>4. QED BY <1>1, <1>3, <2>1, <2>2, <2>3, <2>5, <3>1, <3>3
       <2>6. QED BY <2>4, <2>5
<1>11. BehindLeaver(s)'
       <2> SUFFICES ASSUME NEW d \in Members(s) \ {c}, NEW l \in Leavers(s) \cup {c}, closest[d] = l,
                           NEW e \in MembersAhead(s, d)'
                    PROVE  Pace(s, e)' >= Mark(s, l)' - 1
           BY <1>4 DEF BehindLeaver
       <2>1. e \in Members(s) \ {c} /\ e \in MembersAhead(s, d) /\ Pace(s, e)' = Pace(s, e)
             BY <1>3, <1>6 DEF MembersAhead
       <2>2. CASE l = c
             <3>1. Pace(s, c) =< Pace(s, e)
                   BY <1>1, <2>1, <2>2 DEF Calm, Nearest
             <3>2. Pace(s, e) >= m - 1
                   BY <1>1, <1>2, <1>7, <2>1, <3>1
             <3>3. QED BY <2>1, <2>2, <3>2
       <2>3. CASE l \in Leavers(s)
             <3>1. Pace(s, e) >= Mark(s, l) - 1
                   BY <2>1, <2>3 DEF Calm, BehindLeaver
             <3>2. QED BY <1>5, <2>1, <2>3, <3>1
       <2>4. QED BY <2>2, <2>3
<1>12. MouthGap(s)'
       <2> SUFFICES ASSUME NEW d \in Members(s) \ {c}, NEW l \in Leavers(s) \cup {c}, InMouth(l)'
                    PROVE  \/ Pace(s, d)' >= Mark(s, l)' - 1
                           \/ /\ Pace(s, d)' =< Mark(s, l)' - 3
                              /\ point'[l] # 0 \/ ~crashed'[l] => Pace(s, d)' =< Mark(s, l)' - 4
                              /\ point'[l] = 0 /\ ~crashed'[l] /\ StillToGo(d, l)' =>
                                   Pace(s, d)' =< Mark(s, l)' - 5
           BY DEF MouthGap
       <2>1. CASE l = c
             <3>1. Pace(s, d)' = Pace(s, d) /\ Pace(s, d) \in Int
                   BY <1>1, <1>2, <1>3
             <3>2. Pace(s, d) =< m - 5 \/ Pace(s, d) >= m - 1
                   BY <1>7
             <3>3. QED BY <1>1, <2>1, <3>1, <3>2
       <2>2. CASE l \in Leavers(s)
             <3>1. InMouth(l) /\ l # c
                   BY <1>1, <1>5, <2>2 DEF InMouth
             <3>2. \/ Pace(s, d) >= Mark(s, l) - 1
                   \/ /\ Pace(s, d) =< Mark(s, l) - 3
                      /\ point[l] # 0 \/ ~crashed[l] => Pace(s, d) =< Mark(s, l) - 4
                      /\ point[l] = 0 /\ ~crashed[l] /\ StillToGo(d, l) =>
                           Pace(s, d) =< Mark(s, l) - 5
                   BY <2>2, <3>1 DEF Calm, MouthGap
             <3>3. point[l] = 0 /\ StillToGo(d, l)' => StillToGo(d, l)
                   BY <2>2, <3>1 DEF OthersKept
             <3>4. QED BY <1>3, <1>5, <2>2, <3>2, <3>3
       <2>3. QED BY <2>1, <2>2
<1>13. MouthFollow(s)'
       <2> SUFFICES ASSUME NEW d \in Members(s) \ {c}, NEW l \in Leavers(s) \cup {c}, InMouth(l)',
                           Pace(s, d)' =< Mark(s, l)' - 3
                    PROVE  /\ closest[d] # NoCar
                           /\ closest[d] = l \/ Pace(s, closest[d])' =< Mark(s, l)' - 3
           BY <1>4 DEF MouthFollow
       <2>1. CASE l = c
             <3>1. Pace(s, d) < Pace(s, c)
                   <4>1. Pace(s, d) =< m - 3
                         BY <1>1, <1>3, <2>1
                   <4>2. QED BY <1>1, <1>2, <1>7, <4>1
             <3>2. c \in MembersAhead(s, d)
                   BY <1>1, <1>2, <3>1 DEF MembersAhead
             <3>3. PICK n \in Members(s) \cup Leavers(s) :
                     closest[d] = n /\ closest'[d] = n /\ Pace(s, n) =< Pace(s, c)
                   BY <1>4, <3>2 DEF Calm, Nearest
             <3>4. Pace(s, closest[d])' = Pace(s, n)'
                   BY <3>3 DEF Pace
             <3>5. CASE n = c
                   BY <1>1, <2>1, <3>3, <3>5
             <3>6. CASE n # c
                   BY <1>1, <1>3, <2>1, <3>3, <3>4, <3>6
             <3>7. QED BY <3>5, <3>6
       <2>2. CASE l \in Leavers(s)
             <3>1. InMouth(l) /\ l # c /\ Mark(s, l)' = Mark(s, l) /\ Pace(s, d)' = Pace(s, d)
                   BY <1>1, <1>3, <1>5, <2>2 DEF InMouth
             <3>2. PICK n \in Members(s) \cup Leavers(s) :
                     /\ closest[d] = n /\ closest'[d] = n
                     /\ n = l \/ Pace(s, n) =< Mark(s, l) - 3
                   BY <1>4, <2>2, <3>1 DEF Calm, MouthFollow, Nearest
             <3>3. Pace(s, closest[d])' = Pace(s, n)'
                   BY <3>2 DEF Pace
             <3>4. CASE n = l
                   BY <1>1, <3>2, <3>4
             <3>5. CASE n # c
                   BY <1>1, <1>3, <3>1, <3>2, <3>3, <3>5
             <3>6. CASE n = c
                   <4>1. m - 3 =< Mark(s, l) - 3 /\ Mark(s, l) # m
                         BY <2>2, <3>1, <3>2, <3>6
                   <4>2. Mark(s, l) > m + 7
                         BY <1>1, <1>2, <2>2, <4>1, MarksApart
                   <4>3. QED BY <1>1, <1>2, <2>2, <3>1, <3>2, <3>3, <3>6, <4>2
             <3>7. QED BY <3>4, <3>5, <3>6
       <2>3. QED BY <2>1, <2>2
<1>14. OneMouth(s)'
       <2> SUFFICES ASSUME NEW l \in Leavers(s) \cup {c}, NEW n \in Leavers(s) \cup {c},
                           InMouth(l)', InMouth(n)', Mark(s, l)' = Mark(s, n)'
                    PROVE  l = n
           BY DEF OneMouth
       <2>1. \A k \in Leavers(s) : InMouth(k)' => InMouth(k)
             BY <1>5 DEF InMouth
       <2>2. QED BY <1>5, <2>1 DEF Calm, OneMouth
<1>15. QED BY <1>8, <1>9, <1>10, <1>11, <1>12, <1>13, <1>14 DEF Calm

(***************************************************************************)
(* What the searches find.                                                 *)
(***************************************************************************)
\* One of the cars of a nonempty set is furthest back.
LEMMA FurthestBack ==
  ASSUME NEW S, S \subseteq CarId, S # {}, NEW f, \A x \in S : f[x] \in Int
  PROVE  \E x \in S : \A y \in S : f[x] =< f[y]
<1> DEFINE Below(x) == {y \in S : f[y] < f[x]}
           T == {Below(x) : x \in S}
<1>1. IsFiniteSet(S)
      <2>1. IsFiniteSet(1..MaxCars)
            BY CarsAssumption, FS_Interval
      <2>2. S \in SUBSET (1..MaxCars)
            BY DEF CarId
      <2>3. QED BY <2>1, <2>2, FS_Subset
<1>2. IsWellFoundedOn(StrictSubsetOrdering(S), FiniteSubsetsOf(S))
      BY <1>1, FS_StrictSubsetOrderingWellFounded
<1>3. T \subseteq FiniteSubsetsOf(S) /\ T # {}
      <2>1. FiniteSubsetsOf(S) = SUBSET S
            BY <1>1, FS_FiniteSubsetsOfFinite
      <2>2. T \subseteq SUBSET S
            OBVIOUS
      <2>3. PICK x \in S : TRUE
            OBVIOUS
      <2>4. Below(x) \in T
            BY <2>3
      <2>5. QED BY <2>1, <2>2, <2>4
<1>4. PICK b \in T : \A t \in T : <<t, b>> \notin StrictSubsetOrdering(S)
      <2> HIDE DEF T
      <2>1. QED BY <1>2, <1>3, WFMin
<1>5. PICK x \in S : b = Below(x)
      OBVIOUS
<1>6. ASSUME NEW y \in S, f[y] < f[x] PROVE FALSE
      <2>1. Below(y) \subseteq Below(x) /\ y \in Below(x) /\ y \notin Below(y)
            BY <1>6
      <2>2. <<Below(y), Below(x)>> \in StrictSubsetOrdering(S)
            BY <2>1 DEF StrictSubsetOrdering
      <2>3. QED BY <1>4, <1>5, <2>2
<1>7. QED BY <1>6

\* findClosestCar finds the nearest car ahead, and none only if there is none.
LEMMA Finds ==
  ASSUME NEW s \in Streets, NEW lists, NEW where \in [CarId -> Point], NEW c \in CarId
  PROVE  LET ahead == CarsAhead(lists, s, c, where)
             found == FindClosestCar(lists, s, c, where)
         IN IF ahead = {} THEN found = NoCar
            ELSE /\ found \in ahead
                 /\ \A e \in ahead : Along(Dir(s), where[found]) =< Along(Dir(s), where[e])
<1> DEFINE ahead == CarsAhead(lists, s, c, where)
           near == NearestAhead(lists, s, c, where)
           f == [e \in CarId |-> Along(Dir(s), where[e])]
<1>1. ahead \subseteq CarId /\ \A e \in ahead : f[e] \in Int
      BY StreetTypes, AlongType DEF CarsAhead, Listed
<1>2. near = {d \in ahead : \A e \in ahead : f[d] =< f[e]}
      BY <1>1 DEF NearestAhead
<1>3. FindClosestCar(lists, s, c, where) = IF near = {} THEN NoCar ELSE CHOOSE d \in near : TRUE
      BY DEF FindClosestCar
<1>4. ahead # {} => near # {}
      <2> HIDE DEF ahead, near, f
      <2>1. QED BY <1>1, <1>2, FurthestBack
<1>5. \A e \in ahead : f[e] = Along(Dir(s), where[e])
      BY <1>1
<1> HIDE DEF ahead, near, f
<1>6. QED BY <1>2, <1>3, <1>4, <1>5 DEF ahead

\* A street lists the cars that drive on it and those on their way from it.
LEMMA ListedCars ==
  ASSUME TypeOK, ListedOnce, NEW s \in Streets
  PROVE  Listed(on, s) = Members(s) \cup Leavers(s)
<1>1. \A c \in CarId : on[s][c] > 0 <=> c \in cars \ gone /\ s \in {street[c], prev[c]}
      BY DEF ListedOnce
<1>2. QED BY <1>1 DEF Listed, Members, Leavers, TypeOK

\* The same of the next state.
LEMMA ListedCarsNext ==
  ASSUME TypeOK', ListedOnce', NEW s \in Streets
  PROVE  Listed(on', s) = Members(s)' \cup Leavers(s)'
<1>1. \A c \in CarId : on'[s][c] > 0 <=> c \in cars' \ gone' /\ s \in {street'[c], prev'[c]}
      BY DEF ListedOnce
<1>2. QED BY <1>1 DEF Listed, Members, Leavers, TypeOK

\* All that the street lists ahead of a car.
AllAhead(s, c) == {e \in Members(s) \cup Leavers(s) : Pace(s, e) > Pace(s, c)}

\* The cars of the street have searched their closest car.
JustSearched(s) ==
  \A c \in Members(s) :
    IF closest[c] = NoCar THEN AllAhead(s, c) = {}
    ELSE /\ closest[c] \in AllAhead(s, c)
         /\ \A e \in AllAhead(s, c) : Pace(s, closest[c]) =< Pace(s, e)

\* updateClosestCar of a street does that, for its cars only.
LEMMA SearchesAnew ==
  ASSUME Inv, Inv', NEW s \in Streets, NEW where \in [CarId -> Point],
         closest' = UpdateClosestCar(s, on', street', where),
         \A d \in Members(s)' \cup Leavers(s)' : Along(Dir(s), where[d]) = Pace(s, d)'
  PROVE  /\ JustSearched(s)'
         /\ \A c \in CarId : c \notin Members(s)' => closest'[c] = closest[c]
<1>1. TypeOK' /\ ListedOnce' /\ BetweenStreets'
      BY DEF Inv
<1>2. /\ Listed(on', s) = Members(s)' \cup Leavers(s)'
      /\ Members(s)' \subseteq CarId /\ Leavers(s)' \subseteq CarId
      /\ NoCar \notin Members(s)' \cup Leavers(s)'
      <2>1. Listed(on', s) = Members(s)' \cup Leavers(s)'
            BY <1>1, ListedCarsNext
      <2>2. QED BY <2>1, CarsAssumption DEF Listed
<1>3. \A c \in CarId : on'[s][c] > 0 /\ Dir(street'[c]) = Dir(s) <=> c \in Members(s)'
      <2> SUFFICES ASSUME NEW c \in CarId
                   PROVE  on'[s][c] > 0 /\ Dir(street'[c]) = Dir(s) <=> c \in Members(s)'
          OBVIOUS
      <2>1. on'[s][c] > 0 <=> c \in Members(s)' \/ c \in Leavers(s)'
            BY <1>2 DEF Listed
      <2>2. c \in Members(s)' => Dir(street'[c]) = Dir(s)
            BY DEF Members
      <2>3. c \in Leavers(s)' => Dir(street'[c]) # Dir(s)
            BY <1>1 DEF Leavers, BetweenStreets, Between
      <2>4. QED BY <2>1, <2>2, <2>3
<1>4. \A c \in CarId : closest'[c] =
        IF c \in Members(s)' THEN FindClosestCar(on', s, c, where) ELSE closest[c]
      <2>1. \A c \in CarId : c \in Members(s)' => street'[c] = s
            BY DEF Members
      <2>2. QED BY <1>3, <2>1 DEF UpdateClosestCar
<1>5. JustSearched(s)'
      <2> SUFFICES ASSUME NEW c \in Members(s)'
                   PROVE  IF closest'[c] = NoCar THEN AllAhead(s, c)' = {}
                          ELSE /\ closest'[c] \in AllAhead(s, c)'
                               /\ \A e \in AllAhead(s, c)' : Pace(s, closest[c])' =< Pace(s, e)'
          BY DEF JustSearched
      <2>1. CarsAhead(on', s, c, where) = AllAhead(s, c)'
            BY <1>2 DEF CarsAhead, AllAhead
      <2>2. c \in CarId /\ AllAhead(s, c)' \subseteq Members(s)' \cup Leavers(s)'
            BY <1>2 DEF AllAhead
      <2> DEFINE found == FindClosestCar(on', s, c, where)
      <2>3. IF AllAhead(s, c)' = {} THEN found = NoCar
            ELSE /\ found \in AllAhead(s, c)'
                 /\ \A e \in AllAhead(s, c)' : Along(Dir(s), where[found]) =< Along(Dir(s), where[e])
            BY <2>1, <2>2, Finds
      <2>4. closest'[c] = found
            BY <1>4, <2>2
      <2> HIDE DEF found
      <2>5. CASE AllAhead(s, c)' = {}
            BY <2>3, <2>4, <2>5
      <2>6. CASE AllAhead(s, c)' # {}
            <3>1. PICK n \in Members(s)' \cup Leavers(s)' : n = found /\ n \in AllAhead(s, c)'
                  BY <2>2, <2>3, <2>6
            <3>2. Pace(s, closest[c])' = Pace(s, n)'
                  BY <2>4, <3>1 DEF Pace
            <3>3. \A e \in AllAhead(s, c)' : Pace(s, n)' =< Pace(s, e)'
                  BY <2>2, <2>3, <2>6, <3>1
            <3>4. QED BY <1>2, <2>4, <3>1, <3>2, <3>3
      <2>7. QED BY <2>5, <2>6
<1>6. QED BY <1>4, <1>5

\* Once its cars have searched their closest cars again, a street is as it should be.
LEMMA Fresh ==
  ASSUME Inv, LanesInv, Paths, NEW s \in Streets, JustSearched(s),
         RightOnly(s), Spread(s), MouthGap(s), OneMouth(s), NoSwing(s)
  PROVE  Calm(s)
<1>1. /\ Members(s) \subseteq CarId /\ Leavers(s) \subseteq CarId
      /\ NoCar \notin Members(s) \cup Leavers(s)
      BY Attending DEF Inv
<1>2. /\ \A e \in CarId : Pace(s, e) \in Int
      /\ \A l \in Leavers(s) :
           /\ Mark(s, l) \in Int /\ Mark(s, l) \in Marks(s) /\ point[l] # 0
           /\ Pace(s, l) = IF point[l] = 1 THEN Mark(s, l) - 3
                           ELSE IF point[l] = 2 THEN Mark(s, l) - 2 ELSE Mark(s, l) - 1
      BY PaceType, LeaverPace DEF Inv, NoSwing
<1>3. \A l \in Leavers(s) : InMouth(l) <=> point[l] \in {1, 2}
      <2>1. \A l \in Leavers(s) : point[l] \in 0..5
            BY <1>1 DEF Inv, TypeOK
      <2>2. QED BY <1>2, <2>1 DEF InMouth
<1>4. \A c \in Members(s), l \in Leavers(s) :
        InMouth(l) => Pace(s, c) >= Mark(s, l) - 1 \/ Pace(s, c) =< Mark(s, l) - 4
      BY <1>2 DEF MouthGap
<1>5. \A c \in Members(s) : MembersAhead(s, c) \subseteq AllAhead(s, c) /\ MembersAhead(s, c) \subseteq Members(s)
      BY DEF MembersAhead, AllAhead
<1>6. Nearest(s)
      BY <1>5 DEF Nearest, JustSearched, AllAhead
<1>7. BehindLeaver(s)
      <2> SUFFICES ASSUME NEW c \in Members(s), NEW l \in Leavers(s), closest[c] = l,
                          NEW e \in MembersAhead(s, c)
                   PROVE  Pace(s, e) >= Mark(s, l) - 1
          BY DEF BehindLeaver
      <2>1. Pace(s, l) =< Pace(s, e) /\ e \in Members(s)
            BY <1>1, <1>5 DEF JustSearched
      <2>2. CASE InMouth(l)
            <3>1. Pace(s, l) >= Mark(s, l) - 3
                  BY <1>2, <1>3, <2>2
            <3>2. QED BY <1>1, <1>2, <1>4, <2>1, <2>2, <3>1
      <2>3. CASE ~InMouth(l)
            <3>1. Pace(s, l) = Mark(s, l) - 1
                  BY <1>2, <1>3, <2>3
            <3>2. QED BY <1>1, <1>2, <2>1, <3>1
      <2>4. QED BY <2>2, <2>3
<1>8. MouthFollow(s)
      <2> SUFFICES ASSUME NEW c \in Members(s), NEW l \in Leavers(s), InMouth(l),
                          Pace(s, c) =< Mark(s, l) - 3
                   PROVE  /\ closest[c] # NoCar
                          /\ closest[c] = l \/ Pace(s, closest[c]) =< Mark(s, l) - 3
          BY DEF MouthFollow
      <2>1. Pace(s, l) \in {Mark(s, l) - 3, Mark(s, l) - 2} /\ (Pace(s, l) = Mark(s, l) - 2 => point[l] = 2)
            BY <1>2, <1>3
      <2>2. Pace(s, c) =< Mark(s, l) - 4
            BY <1>1, <1>2, <1>4
      <2>3. l \in AllAhead(s, c)
            BY <1>1, <1>2, <2>1, <2>2 DEF AllAhead
      <2>4. PICK n \in Members(s) \cup Leavers(s) : n = closest[c] /\ Pace(s, n) =< Pace(s, l)
            BY <2>3 DEF JustSearched, AllAhead
      <2>5. CASE n \in Members(s)
            BY <1>1, <1>2, <1>4, <2>1, <2>4, <2>5
      <2>6. CASE n \in Leavers(s) /\ Pace(s, n) > Mark(s, l) - 3
            <3>1. Pace(s, n) = Mark(s, l) - 2 /\ Pace(s, n) \in (Mark(s, n) - 3)..(Mark(s, n) - 1)
                  BY <1>1, <1>2, <2>1, <2>4, <2>6
            <3>2. Mark(s, n) = Mark(s, l)
                  BY <1>2, <2>6, <3>1, MarksApart
            <3>3. InMouth(n)
                  BY <1>2, <1>3, <2>6, <3>1, <3>2
            <3>4. QED BY <1>1, <2>4, <2>6, <3>2, <3>3 DEF OneMouth
      <2>7. CASE ~(Pace(s, n) > Mark(s, l) - 3)
            BY <1>1, <1>2, <2>4, <2>7
      <2>8. QED BY <2>4, <2>5, <2>6, <2>7
<1>9. QED BY <1>6, <1>7, <1>8 DEF Calm

\* What makes a street fit for that search.
Even(s) == RightOnly(s) /\ Spread(s) /\ MouthGap(s) /\ OneMouth(s) /\ NoSwing(s)
Ready(s) == Inv /\ LanesInv /\ Paths /\ JustSearched(s) /\ Even(s)

\* Fresh, of the next state.
LEMMA FreshNext == (\A s \in Streets : Ready(s) => Calm(s))'
<1>1. \A s \in Streets : Ready(s) => Calm(s)
      BY Fresh DEF Ready, Even
<1>2. QED BY <1>1, PTL

\* A street that is settled is fit for it.
LEMMA SettledEven ==
  ASSUME TypeOK, ListedOnce, NEW s \in Streets, Settled(s, on, street, prev, pos)
  PROVE  Even(s)
<1>1. Listed(on, s) = Members(s) \cup Leavers(s) /\ Members(s) \cup Leavers(s) \subseteq CarId
      BY ListedCars DEF Listed
<1>2. Leavers(s) = {}
      BY <1>1 DEF Settled, Leavers
<1>3. \A c \in Members(s) : street[c] = prev[c]
      BY <1>1 DEF Settled
<1>4. \A c, d \in Members(s) : c # d => Pace(s, c) - Pace(s, d) \notin -1..1
      BY <1>1 DEF Settled, Pace
<1>5. \A c \in Members(s) : Pace(s, c) \in Int
      BY <1>1, PaceType
<1>6. Spread(s)
      BY <1>4, <1>5 DEF Spread
<1>7. QED BY <1>2, <1>3, <1>6 DEF Even, RightOnly, MouthGap, OneMouth, NoSwing

\* The same of the next state.
LEMMA SettledNext ==
  (\A s \in Streets : TypeOK /\ ListedOnce /\ Settled(s, on, street, prev, pos) => Even(s))'
<1>1. \A s \in Streets : TypeOK /\ ListedOnce /\ Settled(s, on, street, prev, pos) => Even(s)
      BY SettledEven
<1>2. QED BY <1>1, PTL

(***************************************************************************)
(* The car a visit moves.                                                  *)
(***************************************************************************)
\* A visit lets no other car come before one that leaves.
LEMMA ToGo ==
  ASSUME TypeOK, NEW c \in CarId, Visited(c), NEW e \in CarId, NEW l \in CarId, l # c,
         StillToGo(e, l)'
  PROVE  StillToGo(e, l)
BY DEF StillToGo, Visited

\* A car that drives on has room: what is ahead of it is further away than it goes, and
\* if a car that leaves is next, it keeps the place that car needs free.
LEMMA RoomAhead ==
  ASSUME Inv, LanesInv, Paths, NEW s \in Streets, Calm(s), NEW c \in Members(s), Visited(c),
         HasRoom(c)
  PROVE  StaysBehind(s, c) /\ KeepsOut(s, c)
<1>1. /\ c \in CarId /\ Members(s) \subseteq CarId /\ Leavers(s) \subseteq CarId
      /\ Members(s) \cap Leavers(s) = {} /\ NoCar \notin Members(s) \cup Leavers(s)
      /\ Dir(street[c]) = Dir(s)
      BY Attending DEF Inv, Members
<1>2. /\ \A e \in CarId : Pace(s, e) \in Int
      /\ \A l \in Leavers(s) :
           /\ Mark(s, l) \in Int
           /\ Pace(s, l) = IF point[l] = 1 THEN Mark(s, l) - 3
                           ELSE IF point[l] = 2 THEN Mark(s, l) - 2 ELSE Mark(s, l) - 1
      BY PaceType, LeaverPace DEF Inv, Calm
<1>3. closest[c] # NoCar =>
        closest[c] \in Members(s) \cup Leavers(s) /\ Pace(s, closest[c]) >= Pace(s, c) + 3
      <2> SUFFICES ASSUME closest[c] # NoCar
                   PROVE  closest[c] \in Members(s) \cup Leavers(s) /\ Pace(s, closest[c]) >= Pace(s, c) + 3
          OBVIOUS
      <2>1. closest[c] \in Members(s) \cup Leavers(s) /\ Pace(s, c) < Pace(s, closest[c])
            BY DEF Calm, Nearest
      <2>2. Pace(s, closest[c]) - Pace(s, c) \notin -2..2
            BY <1>1 DEF HasRoom, MinDistance, Pace
      <2>3. Pace(s, c) \in Int /\ Pace(s, closest[c]) \in Int
            BY <1>1, <1>2, <2>1
      <2>4. QED BY <2>1, <2>2, <2>3
<1>4. StaysBehind(s, c)
      <2>1. ASSUME NEW e \in Members(s), Pace(s, e) > Pace(s, c)
            PROVE  Pace(s, e) >= Pace(s, c) + 3
            <3>1. e \in MembersAhead(s, c)
                  BY <2>1 DEF MembersAhead
            <3>2. closest[c] # NoCar /\ Pace(s, closest[c]) =< Pace(s, e)
                  BY <3>1 DEF Calm, Nearest
            <3>3. Pace(s, closest[c]) \in Int /\ Pace(s, e) \in Int
                  BY <1>1, <1>2, <1>3, <3>2
            <3>4. QED BY <1>1, <1>2, <1>3, <3>2, <3>3
      <2>2. \A e \in Members(s) : Pace(s, e) > Pace(s, c) =>
              Pace(s, e) > Pace(s, c) + 1 /\ Pace(s, e) # Pace(s, c) + 2
            BY <1>1, <1>2, <2>1
      <2>3. closest[c] # NoCar => Pace(s, closest[c]) > Pace(s, c) + 1
            <3>1. closest[c] # NoCar => Pace(s, closest[c]) \in Int
                  BY <1>1, <1>2, <1>3
            <3>2. QED BY <1>1, <1>2, <1>3, <3>1
      <2>4. QED BY <2>2, <2>3 DEF StaysBehind
<1>5. KeepsOut(s, c)
      <2> SUFFICES ASSUME NEW l \in Leavers(s), InMouth(l), Pace(s, c) < Mark(s, l) - 1
                   PROVE  /\ Pace(s, c) + 1 =< Mark(s, l) - 3
                          /\ point[l] # 0 \/ ~crashed[l] => Pace(s, c) + 1 =< Mark(s, l) - 4
                          /\ point[l] = 0 /\ StillToGo(c, l)' => Pace(s, c) + 1 =< Mark(s, l) - 5
          BY DEF KeepsOut
      <2>1. /\ Pace(s, c) =< Mark(s, l) - 3
            /\ point[l] = 0 /\ ~crashed[l] /\ StillToGo(c, l) => Pace(s, c) =< Mark(s, l) - 5
            BY <1>1, <1>2 DEF Calm, MouthGap
      <2>2. /\ closest[c] # NoCar
            /\ closest[c] = l \/ Pace(s, closest[c]) =< Mark(s, l) - 3
            BY <2>1 DEF Calm, MouthFollow
      <2>3. PICK n \in CarId : n = closest[c] /\ Pace(s, n) >= Pace(s, c) + 3
            BY <1>1, <1>3, <2>2
      <2>4. CASE n # l
            <3>1. Pace(s, n) =< Mark(s, l) - 3
                  BY <2>2, <2>3, <2>4
            <3>2. QED BY <1>1, <1>2, <2>3, <3>1
      <2>5. CASE n = l /\ point[l] # 0
            <3>1. point[l] \in {1, 2}
                  <4>1. point[l] \in 0..5
                        BY <1>1 DEF Inv, TypeOK
                  <4>2. QED BY <2>5, <4>1 DEF InMouth
            <3>2. Pace(s, l) =< Mark(s, l) - 2
                  BY <1>2, <3>1
            <3>3. QED BY <1>1, <1>2, <2>3, <2>5, <3>2
      <2>6. CASE n = l /\ point[l] = 0
            <3>1. l # c /\ turning[l] # Straight /\ InOrder(l)
                  <4>1. l \in cars \ gone /\ street[l] # prev[l]
                        BY DEF Leavers
                  <4>2. turning[l] = RightTurn
                        BY <4>1 DEF Calm, RightOnly
                  <4>3. QED BY <1>1, <4>1, <4>2 DEF Paths, RightTurn, Straight
            <3>2. StillToGo(c, l)
                  BY <1>1, <3>1 DEF StillToGo, Visited, CarId
            <3>3. ~StillToGo(c, l)'
                  BY <1>1, <3>1 DEF StillToGo, Visited, InOrder, CarId
            <3>4. Pace(s, c) =< Mark(s, l) - 4
                  BY <1>1, <1>2, <2>3, <2>6
            <3>5. QED BY <1>1, <1>2, <2>1, <2>6, <3>2, <3>3, <3>4
      <2>7. QED BY <2>4, <2>5, <2>6
<1>6. QED BY <1>4, <1>5

\* A car that joins by a right turn enters a place it found free.
LEMMA JoinerAhead ==
  ASSUME Inv, LanesInv, Paths, NEW s \in Streets, Calm(s), NEW c \in Members(s),
         prev[c] # s, InMouth(c)
  PROVE  StaysBehind(s, c) /\ KeepsOut(s, c)
<1> DEFINE m == Mark(s, c)
<1>1. /\ c \in CarId /\ Members(s) \subseteq CarId /\ Leavers(s) \subseteq CarId
      /\ NoCar \notin Members(s) \cup Leavers(s)
      BY Attending DEF Inv
<1>2. /\ \A e \in CarId : Pace(s, e) \in Int
      /\ \A l \in Leavers(s) :
           /\ Mark(s, l) \in Int /\ Mark(s, l) \in Marks(s)
           /\ Pace(s, l) = IF point[l] = 1 THEN Mark(s, l) - 3
                           ELSE IF point[l] = 2 THEN Mark(s, l) - 2 ELSE Mark(s, l) - 1
      BY PaceType, LeaverPace DEF Inv, Calm
<1>3. m \in Marks(s) /\ m \in Int /\ Pace(s, c) = m + 1
      <2>1. c \in cars \ gone /\ street[c] = s /\ street[c] # prev[c] /\ turning[c] = RightTurn
            BY DEF Members, Calm, RightOnly
      <2>2. QED BY <2>1, JoinerPace
<1> HIDE DEF m
<1>4. \A n \in Marks(s) : n = m \/ n > m + 7 \/ m > n + 7
      BY <1>3, MarksApart
<1>5. \A e \in Members(s) : Pace(s, e) > Pace(s, c) => Pace(s, e) >= m + 3
      <2> SUFFICES ASSUME NEW e \in Members(s), Pace(s, e) > Pace(s, c), Pace(s, e) = m + 2 PROVE FALSE
          BY <1>1, <1>2, <1>3
      <2>1. PICK n \in Marks(s) : Pace(s, c) = n \/ Pace(s, c) = n + 2
            BY <1>3 DEF Calm, Spread
      <2>2. n \in Int
            BY MarksApart
      <2>3. QED BY <1>3, <1>4, <2>1, <2>2
<1>6. \A l \in Leavers(s) : Pace(s, c) < Pace(s, l) \/ Pace(s, c) < Mark(s, l) - 1 => Mark(s, l) > m + 7
      <2> SUFFICES ASSUME NEW l \in Leavers(s),
                          Pace(s, c) < Pace(s, l) \/ Pace(s, c) < Mark(s, l) - 1
                   PROVE  Mark(s, l) > m + 7
          OBVIOUS
      <2>1. Pace(s, l) =< Mark(s, l) - 1
            BY <1>2
      <2>2. m + 1 < Mark(s, l) - 1
            BY <1>1, <1>2, <1>3, <2>1
      <2>3. QED BY <1>2, <1>3, <1>4, <2>2
<1>7. StaysBehind(s, c)
      <2>1. \A e \in Members(s) : Pace(s, e) > Pace(s, c) =>
              /\ Pace(s, e) > Pace(s, c) + 1
              /\ Pace(s, c) + 1 = m + 2
            BY <1>1, <1>2, <1>3, <1>5
      <2>2. closest[c] # NoCar => Pace(s, closest[c]) > Pace(s, c) + 1
            <3> SUFFICES ASSUME NEW n \in Members(s) \cup Leavers(s), Pace(s, c) < Pace(s, n)
                         PROVE  Pace(s, n) > Pace(s, c) + 1
                BY DEF Calm, Nearest
            <3>1. CASE n \in Members(s)
                  BY <2>1, <3>1
            <3>2. CASE n \in Leavers(s)
                  <4>1. Mark(s, n) > m + 7 /\ Pace(s, n) >= Mark(s, n) - 3
                        BY <1>2, <1>6, <3>2
                  <4>2. QED BY <1>1, <1>2, <1>3, <3>2, <4>1
            <3>3. QED BY <3>1, <3>2
      <2>3. QED BY <1>3, <2>1, <2>2 DEF StaysBehind
<1>8. KeepsOut(s, c)
      <2> SUFFICES ASSUME NEW l \in Leavers(s), Pace(s, c) < Mark(s, l) - 1
                   PROVE  Pace(s, c) + 1 =< Mark(s, l) - 5
          BY <1>1, <1>2, <1>3 DEF KeepsOut
      <2>1. Mark(s, l) > m + 7
            BY <1>6
      <2>2. QED BY <1>2, <1>3, <2>1
<1>9. QED BY <1>7, <1>8

(***************************************************************************)
(* The paths of the cars.                                                  *)
(***************************************************************************)
\* A car notes an intersection once: what it has to do there stays the same.
LEMMA NotesAgain ==
  ASSUME TypeOK, NEW c \in CarId, visited'[c] = VisitedNow(c),
         IntersectionsAt(pos'[c]) = IntersectionsAt(pos[c]),
         turns'[c] = turns[c], completed'[c] = completed[c], NEW turn
  PROVE  MustTurn(c, turn)' <=> MustTurn(c, turn)
<1> DEFINE here == IntersectionsAt(pos[c])
<1>1. CASE here = {}
      BY <1>1 DEF MustTurn
<1>2. CASE here # {}
      <2>1. \E i \in 1..Len(VisitedNow(c)) : VisitedNow(c)[i] \in here
            <3>1. CASE \E i \in 1..Len(visited[c]) : visited[c][i] \in here
                  BY <3>1 DEF VisitedNow
            <3>2. CASE ~ \E i \in 1..Len(visited[c]) : visited[c][i] \in here
                  <4>1. PICK k \in here : VisitedNow(c) = Append(visited[c], k)
                        BY <1>2, <3>2 DEF VisitedNow
                  <4>2. visited[c] \in Seq(Intersections) /\ k \in Intersections
                        BY HereType DEF TypeOK
                  <4>3. QED BY <4>1, <4>2, AppendProperties
            <3>3. QED BY <3>1, <3>2
      <2>2. VisitedNow(c)' = VisitedNow(c)
            BY <2>1 DEF VisitedNow
      <2>3. QED BY <2>2 DEF MustTurn, GetLastTurn, IsLastTurnCompleted
<1>3. QED BY <1>1, <1>2

\* A car that drives on has its next turn to make where it enters a square.
LEMMA DrivesToEntry ==
  ASSUME TypeOK, NEW c \in CarId, DrivesOn(c), OnItsLane(street[c], pos[c]),
         street'[c] = street[c], pos'[c] \in {pos[c], Ahead(Dir(street[c]), pos[c], 1)},
         visited'[c] = VisitedNow(c), turns'[c] = turns[c], completed'[c] = completed[c]
  PROVE  AtEntry(c)'
<1> SUFFICES ASSUME NEW turn \in {RightTurn, LeftTurn}, MustTurn(c, turn)'
             PROVE  Pace(street[c], c)' = Along(Dir(street'[c]), InterNow(c)') - 3
    BY DEF AtEntry
<1>1. street[c] \in Streets /\ pos[c] \in Point /\ Dir(street[c]) \in Dirs
      BY StreetTypes DEF TypeOK
<1>2. pos'[c] \in Point
      BY <1>1, AheadIsPoint
<1>3. IntersectionsAt(pos'[c]) # {} /\ InterNow(c)' \in IntersectionsAt(pos'[c])
      BY DEF MustTurn, InterNow
<1>4. PICK k \in Intersections : k = InterNow(c)' /\ InFrame(k, pos'[c])
      BY <1>3 DEF IntersectionsAt
<1>5. IntersectionsAt(pos'[c]) = {k}
      BY <1>2, <1>4, InFrameIsNear, FramesApart DEF IntersectionsAt
<1>6. ~InFrame(k, pos[c])
      <2> SUFFICES ASSUME InFrame(k, pos[c]) PROVE FALSE
          OBVIOUS
      <2>1. IntersectionsAt(pos[c]) = {k}
            BY <1>1, <1>4, InFrameIsNear, FramesApart DEF IntersectionsAt
      <2>2. MustTurn(c, turn)
            BY <1>5, <2>1, NotesAgain
      <2>3. QED BY <2>2 DEF DrivesOn
<1>7. pos'[c] = Ahead(Dir(street[c]), pos[c], 1)
      BY <1>4, <1>6
<1>8. QED BY <1>1, <1>4, <1>6, <1>7, EntersSquare DEF Pace

\* Nothing that Paths says of car e has changed.
Held(e) == CourseKept(e) /\ turns'[e] = turns[e]

\* So it stays on its path.
LEMMA HeldPath ==
  ASSUME NEW e \in CarId, Held(e), AtEntry(e), OnPath(e)
  PROVE  AtEntry(e)' /\ OnPath(e)'
<1>1. /\ street'[e] = street[e] /\ prev'[e] = prev[e] /\ pos'[e] = pos[e] /\ inter'[e] = inter[e]
      /\ visited'[e] = visited[e] /\ completed'[e] = completed[e] /\ turning'[e] = turning[e]
      /\ point'[e] = point[e] /\ turns'[e] = turns[e]
      BY DEF Held, CourseKept, Kept
<1>2. InterNow(e)' = InterNow(e) /\ VisitedNow(e)' = VisitedNow(e)
      BY <1>1 DEF InterNow, VisitedNow
<1>3. \A turn : MustTurn(e, turn)' <=> MustTurn(e, turn)
      BY <1>1, <1>2 DEF MustTurn, GetLastTurn, IsLastTurnCompleted
<1>4. AtEntry(e)'
      BY <1>1, <1>2, <1>3 DEF AtEntry, Pace
<1>5. OnPath(e)'
      BY <1>1 DEF OnPath, OnCurve, Curve
<1>6. QED BY <1>4, <1>5

\* What a visit of car c that does not leave has to show.
LEMMA OneCarPaths ==
  ASSUME Inv, Paths, NEW c \in CarId, Visited(c), UNCHANGED <<cars, gone>>,
         \A e \in CarId \ {c} : Held(e),
         AtEntry(c)', OnPath(c)'
  PROVE  Paths'
<1> SUFFICES ASSUME NEW e \in cars \ gone PROVE AtEntry(e)' /\ OnPath(e)' /\ InOrder(e)'
    BY DEF Paths
<1>1. e \in CarId /\ todo \subseteq CarId /\ CarId \subseteq Int
      BY DEF Inv, TypeOK, CarId
<1>2. AtEntry(e)' /\ OnPath(e)'
      BY <1>1, HeldPath DEF Paths
<1>3. InOrder(e)'
      <2>1. CASE e = c
            BY <1>1, <2>1 DEF InOrder, Visited
      <2>2. CASE e # c
            BY <1>1, <2>2 DEF InOrder, Visited, Paths, Held, CourseKept, Kept
      <2>3. QED BY <2>1, <2>2
<1>4. QED BY <1>2, <1>3

(***************************************************************************)
(* What a visit leaves alone.                                              *)
(***************************************************************************)
OthersHeld(c) == \A e \in CarId \ {c} : Held(e) /\ crashed'[e] = crashed[e]

\* A visit that leaves the car on its streets.
SameRoad(c) ==
  /\ street'[c] = street[c] /\ prev'[c] = prev[c]
  /\ turning'[c] = turning[c] /\ crashed'[c] = crashed[c]
  /\ street[c] # prev[c] => inter'[c] = inter[c]

\* What a visit of car c leaves of another car.
LEMMA SteadyOthers ==
  ASSUME TypeOK, NEW c \in CarId, Visited(c), UNCHANGED <<cars, gone>>, OthersHeld(c), NEW s \in Streets,
         NEW e \in CarId \ {c}
  PROVE  /\ e \in Members(s)' <=> e \in Members(s)
         /\ e \in Leavers(s)' <=> e \in Leavers(s)
         /\ Pace(s, e)' = Pace(s, e) /\ Mark(s, e)' = Mark(s, e)
         /\ point'[e] = point[e] /\ crashed'[e] = crashed[e] /\ turning'[e] = turning[e]
         /\ street'[e] = street[e] /\ prev'[e] = prev[e]
         /\ \A d \in CarId : StillToGo(d, e)' => StillToGo(d, e)
<1>1. /\ street'[e] = street[e] /\ prev'[e] = prev[e] /\ pos'[e] = pos[e] /\ inter'[e] = inter[e]
      /\ turning'[e] = turning[e] /\ point'[e] = point[e] /\ crashed'[e] = crashed[e]
      BY DEF OthersHeld, Held, CourseKept, Kept
<1>2. /\ e \in Members(s)' <=> e \in Members(s)
      /\ e \in Leavers(s)' <=> e \in Leavers(s)
      BY <1>1 DEF Members, Leavers
<1>3. Pace(s, e)' = Pace(s, e) /\ Mark(s, e)' = Mark(s, e)
      BY <1>1 DEF Pace, Mark
<1>4. \A d \in CarId : StillToGo(d, e)' => StillToGo(d, e)
      BY ToGo
<1>5. QED BY <1>1, <1>2, <1>3, <1>4

\* Then nothing of any street has changed but where the car is.
LEMMA SameRoadSteady ==
  ASSUME TypeOK, NEW c \in CarId, Visited(c), UNCHANGED <<cars, gone>>, OthersHeld(c), SameRoad(c),
         closest' = closest, NEW s \in Streets
  PROVE  Steady(s, c)
<1>1. Members(s) \subseteq CarId /\ Leavers(s) \subseteq CarId
      BY Attending
<1>2. /\ c \in Members(s)' <=> c \in Members(s)
      /\ c \in Leavers(s)' <=> c \in Leavers(s)
      BY DEF SameRoad, Members, Leavers
<1>3. Members(s)' = Members(s) /\ Leavers(s)' = Leavers(s)
      <2>1. Members(s)' \subseteq CarId /\ Leavers(s)' \subseteq CarId
            BY DEF TypeOK, Members, Leavers
      <2>2. QED BY <1>1, <1>2, <2>1, SteadyOthers
<1>4. c \in Leavers(s) => Mark(s, c)' = Mark(s, c)
      BY DEF SameRoad, Leavers, Mark
<1>5. QED BY <1>1, <1>3, <1>4, SteadyOthers DEF Steady, SameRoad

\* A street the car does not come from, and which it neither enters nor is left by it.
LEMMA BesideSteady ==
  ASSUME TypeOK, NEW c \in CarId, Visited(c), UNCHANGED <<cars, gone>>, OthersHeld(c), NEW s \in Streets,
         \A e \in Members(s) : closest'[e] = closest[e],
         c \notin Leavers(s), c \in Members(s) <=> street'[c] = s,
         prev'[c] = s => street'[c] = s, street'[c] = s => prev'[c] = s
  PROVE  Steady(s, c)
<1>1. Members(s) \subseteq CarId /\ Leavers(s) \subseteq CarId
      BY Attending
<1>3. Members(s)' = Members(s) /\ Leavers(s)' = Leavers(s)
      <2>1. Members(s)' \subseteq CarId /\ Leavers(s)' \subseteq CarId
            BY DEF TypeOK, Members, Leavers
      <2>2. /\ c \in Members(s)' <=> c \in Members(s)
            /\ c \notin Leavers(s)'
            BY DEF Members, Leavers
      <2>3. \A e \in CarId \ {c} :
              (e \in Members(s)' <=> e \in Members(s)) /\ (e \in Leavers(s)' <=> e \in Leavers(s))
            BY SteadyOthers
      <2>4. QED BY <1>1, <2>1, <2>2, <2>3
<1>4. c \in Members(s) => street'[c] = prev'[c]
      OBVIOUS
<1>5. QED BY <1>1, <1>3, <1>4, SteadyOthers DEF Steady

\* The car of the visit stays, or drives on into a place that is free.
MovesOn(s, c) ==
  \/ Pace(s, c)' = Pace(s, c)
  \/ Pace(s, c)' = Pace(s, c) + 1 /\ StaysBehind(s, c) /\ KeepsOut(s, c)

\* Where a car is on its way to another street, it stands still or has left the curve.
Stands(s, c) == Pace(s, c)' = Pace(s, c) /\ point'[c] = point[c] /\ (point[c] # 0 \/ crashed[c])

\* A street where nothing else has changed stays calm.
LEMMA SteadyCalm ==
  ASSUME Inv, LanesInv, Paths, TypeOK', NEW s \in Streets, Calm(s), NEW c \in CarId, Steady(s, c),
         c \in Members(s) => MovesOn(s, c), c \in Leavers(s) => Stands(s, c)
  PROVE  Calm(s)'
<1>1. TypeOK /\ Members(s) \cap Leavers(s) = {}
      BY Attending DEF Inv
<1>2. CASE c \in Members(s) /\ Pace(s, c)' # Pace(s, c)
      BY <1>2, MemberMoves DEF MovesOn
<1>3. CASE c \in Members(s) => Pace(s, c)' = Pace(s, c)
      <2>1. Steady(s, NoCar)
            BY <1>1, <1>3 DEF Steady, Stands
      <2>2. QED BY <1>1, <2>1, Untouched
<1>4. QED BY <1>2, <1>3

(***************************************************************************)
(* Between the visits.                                                     *)
(***************************************************************************)
\* A step that moves no car and lets none be visited before another.
LEMMA IdleFlow ==
  ASSUME TypeOK, TypeOK', FlowInv, todo = {}, todo' = {} \/ cars \ gone \subseteq todo',
         cars' \ gone' = cars \ gone, upset' = upset,
         \A e \in cars \ gone :
           Held(e) /\ closest'[e] = closest[e] /\ (crashed[e] => crashed'[e])
  PROVE  FlowInv'
<1>1. cars \ gone \subseteq CarId
      BY DEF TypeOK
<1>2. Paths'
      <2> SUFFICES ASSUME NEW e \in cars \ gone PROVE AtEntry(e)' /\ OnPath(e)' /\ InOrder(e)'
          BY DEF Paths
      <2>1. AtEntry(e)' /\ OnPath(e)'
            BY <1>1, HeldPath DEF FlowInv, Paths
      <2>2. QED BY <2>1 DEF InOrder
<1>3. ASSUME NEW s \in Streets \ upset PROVE Calm(s)'
      <2>1. \A e \in cars \ gone :
              /\ street'[e] = street[e] /\ prev'[e] = prev[e] /\ pos'[e] = pos[e] /\ inter'[e] = inter[e]
              /\ turning'[e] = turning[e] /\ point'[e] = point[e]
            BY DEF Held, CourseKept, Kept
      <2>2. /\ Members(s) \subseteq cars \ gone /\ Leavers(s) \subseteq cars \ gone
            /\ Members(s)' = Members(s) /\ Leavers(s)' = Leavers(s)
            BY <2>1 DEF Members, Leavers
      <2>3. \A e \in Members(s) \cup Leavers(s) :
              Pace(s, e)' = Pace(s, e) /\ (street'[e] # prev'[e] => street[e] # prev[e] /\ turning'[e] = turning[e])
            BY <2>1, <2>2 DEF Pace
      <2>4. \A l \in Leavers(s) : /\ Mark(s, l)' = Mark(s, l) /\ (crashed[l] => crashed'[l])
                                  /\ point'[l] = point[l]
            BY <2>1, <2>2 DEF Mark
      <2>5. \A e \in Members(s), l \in Leavers(s) : StillToGo(e, l)' => StillToGo(e, l)
            BY <2>2 DEF StillToGo
      <2>6. Steady(s, NoCar)
            BY <2>2, <2>3, <2>4, <2>5 DEF Steady
      <2>7. QED BY <2>6, Untouched DEF FlowInv
<1>4. QED BY <1>2, <1>3 DEF FlowInv

\* The loop begins with all cars to visit ...
LEMMA BeginFrameFlow == Inv /\ Inv' /\ FlowInv /\ BeginFrame => FlowInv'
<1> SUFFICES ASSUME Inv, Inv', FlowInv, BeginFrame PROVE FlowInv'
    OBVIOUS
<1>1. \A e \in cars \ gone : Held(e) /\ closest'[e] = closest[e] /\ crashed'[e] = crashed[e]
      BY DEF BeginFrame, carVars, Held, CourseKept, Kept
<1>2. QED BY <1>1, IdleFlow DEF BeginFrame, Inv

\* ... and frees those that left ...
LEMMA EndFrameFlow == Inv /\ Inv' /\ FlowInv /\ EndFrame => FlowInv'
<1> SUFFICES ASSUME Inv, Inv', FlowInv, EndFrame PROVE FlowInv'
    OBVIOUS
<1>1. \A e \in cars \ gone : Held(e) /\ closest'[e] = closest[e] /\ crashed'[e] = crashed[e]
      BY DEF EndFrame, Forget, Held, CourseKept, Kept, Inv, TypeOK
<1>2. QED BY <1>1, IdleFlow DEF EndFrame, Inv

\* ... and two cars that touch only stop.
LEMMA ContactFlow ==
  ASSUME Inv, Inv', FlowInv, NEW a \in cars, NEW b \in cars, Contact(a, b)
  PROVE  FlowInv'
<1>1. \A e \in cars \ gone : Held(e) /\ closest'[e] = closest[e] /\ (crashed[e] => crashed'[e])
      BY DEF Contact, Held, CourseKept, Kept, Inv, TypeOK
<1>2. QED BY <1>1, IdleFlow DEF Contact, Inv

\* A step that changes nothing.
LEMMA UnchangedFlow == TypeOK /\ FlowInv /\ UNCHANGED vars => FlowInv'
<1> SUFFICES ASSUME TypeOK, FlowInv, UNCHANGED vars PROVE FlowInv'
    OBVIOUS
<1>1. Paths'
      <2> SUFFICES ASSUME NEW e \in cars \ gone PROVE AtEntry(e)' /\ OnPath(e)' /\ InOrder(e)'
          BY DEF Paths, vars
      <2>1. e \in CarId /\ Held(e)
            BY DEF TypeOK, vars, carVars, Held, CourseKept, Kept
      <2>2. InOrder(e)'
            BY DEF FlowInv, Paths, InOrder, vars, carVars
      <2>3. QED BY <2>1, <2>2, HeldPath DEF FlowInv, Paths
<1>2. \A s \in Streets \ upset : Calm(s)'
      BY DEF FlowInv, vars, carVars, Calm, RightOnly, Spread, Nearest, BehindLeaver, MouthGap, MouthFollow,
             OneMouth, Members, Leavers, MembersAhead, Pace, Mark, InMouth, StillToGo, Marks
<1>3. QED BY <1>1, <1>2 DEF FlowInv, vars

(***************************************************************************)
(* Visits of a car that stays where it is.                                 *)
(***************************************************************************)
\* The car of a visit has not left.
LEMMA VisitedStays ==
  ASSUME Inv, NEW c \in CarId, Visited(c)
  PROVE  c \in cars \ gone /\ TypeOK /\ street[c] \in Streets /\ prev[c] \in Streets /\ pos[c] \in Point
BY DEF Inv, TypeOK, Loop, Visited

\* A visit that leaves the car where it is.
LEMMA StayFlow ==
  ASSUME Inv, Inv', LanesInv, FlowInv, NEW c \in CarId, Visited(c),
         UNCHANGED <<cars, gone, closest, upset>>, OthersHeld(c), SameRoad(c),
         pos'[c] = pos[c], point'[c] = point[c], AtEntry(c)', OnPath(c)',
         \A s \in Streets \ upset : c \in Leavers(s) => point[c] # 0 \/ crashed[c]
  PROVE  FlowInv'
<1>1. TypeOK /\ TypeOK' /\ Paths
      BY DEF Inv, FlowInv
<1>2. Paths'
      BY <1>1, OneCarPaths DEF OthersHeld
<1>3. ASSUME NEW s \in Streets \ upset PROVE Calm(s)'
      <2>1. Steady(s, c)
            BY <1>1, SameRoadSteady
      <2>2. Pace(s, c)' = Pace(s, c)
            BY DEF Pace
      <2>3. QED BY <1>1, <2>1, <2>2, SteadyCalm DEF FlowInv, MovesOn, Stands
<1>4. QED BY <1>2, <1>3 DEF FlowInv

\* The light behind the intersection it turns at is the first ahead of a car that turns
\* right: it is past the place where that light would hold it.
LEMMA NotHeldInTurn ==
  ASSUME Inv, LanesInv, Paths, NEW c \in cars \ gone, street[c] # prev[c], turning[c] = RightTurn,
         InMouth(c)
  PROVE  ~CloseToLight(street[c], pos[c])
<1> DEFINE s == street[c]
           k == inter[c]
<1>1. /\ c \in CarId /\ k \in Intersections /\ pos[c] \in Point /\ s \in Streets
      /\ s = StreetAt(k, Dir(s)) /\ Dir(s) \in Dirs
      <2>1. c \in CarId /\ street[c] \in Streets
            BY DEF Inv, TypeOK
      <2>2. QED BY <2>1, RightTurner, StreetTypes
<1>2. Along(Dir(s), k) \in Int /\ Along(Dir(s), pos[c]) = Along(Dir(s), k) + 1
      BY <1>1, JoinerPace DEF Pace, Mark
<1>3. k \in LightsAhead(s, pos[c])
      BY <1>1, <1>2 DEF LightsAhead
<1>4. ASSUME NEW j \in NearestLights(s, pos[c]), Along(Dir(s), pos[c]) = Along(Dir(s), j) - 4
      PROVE  FALSE
      <2>1. j \in Intersections /\ Along(Dir(s), j) =< Along(Dir(s), k)
            BY <1>3 DEF NearestLights, LightsAhead
      <2>2. Along(Dir(s), j) \in Int
            BY <1>1, <2>1, AlongType, IntersectionIsPoint
      <2>3. QED BY <1>2, <1>4, <2>1, <2>2
<1>5. QED BY <1>4 DEF CloseToLight

\* The car is held by a red light.
LEMMA StopAtRedFlow ==
  ASSUME Inv, Inv', LanesInv, FlowInv, NEW c \in CarId, StopAtRed(c)
  PROVE  FlowInv'
<1>1. Visited(c) /\ c \in cars \ gone
      BY VisitedStays DEF StopAtRed
<1>2. \A e \in CarId : Held(e) /\ crashed'[e] = crashed[e]
      BY DEF StopAtRed, carVars, Held, CourseKept, Kept
<1>3. AtEntry(c)' /\ OnPath(c)'
      BY <1>1, <1>2, HeldPath DEF FlowInv, Paths
<1>4. ASSUME NEW s \in Streets \ upset, c \in Leavers(s), point[c] = 0 PROVE FALSE
      <2>1. street[c] # prev[c] /\ turning[c] = RightTurn
            BY <1>4 DEF Leavers, FlowInv, Calm, RightOnly
      <2>2. ~CloseToLight(street[c], pos[c])
            BY <1>1, <1>4, <2>1, NotHeldInTurn DEF FlowInv, InMouth
      <2>3. QED BY <2>2 DEF StopAtRed
<1>5. QED BY <1>1, <1>2, <1>3, <1>4, StayFlow
         DEF StopAtRed, carVars, OthersHeld, SameRoad

\* A car that waits for its turn.
LEMMA WaitFlow ==
  ASSUME Inv, Inv', LanesInv, FlowInv, NEW c \in CarId, Visited(c), NEW turn \in {RightTurn, LeftTurn},
         MustTurn(c, turn), WaitForTurn(c) \/ KeepWaiting(c)
  PROVE  FlowInv'
<1>1. TypeOK /\ BetweenStreets /\ c \in cars \ gone /\ NoteIntersection(c)
      BY VisitedStays DEF Inv, WaitForTurn, KeepWaiting
<1>2. street[c] = prev[c]
      BY <1>1, TurnPlace
<1>3. /\ UNCHANGED <<cars, gone, on, upset, prev, pos, closest, turns, completed, turning, point, crashed>>
      /\ street' = street
      BY <1>1, <1>2 DEF WaitForTurn, KeepWaiting, TypeOK
<1>4. OthersHeld(c) /\ SameRoad(c)
      BY <1>1, <1>2, <1>3, NotesKept DEF OthersHeld, Held, CourseKept, Kept, SameRoad
<1>5. visited'[c] = VisitedNow(c) /\ inter'[c] = InterNow(c)
      BY <1>1, NotesKept
<1>6. \A t : MustTurn(c, t)' <=> MustTurn(c, t)
      BY <1>1, <1>3, <1>5, NotesAgain
<1>7. InterNow(c)' = InterNow(c)
      BY <1>3, <1>5 DEF InterNow
<1>8. AtEntry(c)'
      BY <1>1, <1>3, <1>6, <1>7 DEF FlowInv, Paths, AtEntry, Pace
<1>9. OnPath(c)'
      BY <1>2, <1>3 DEF OnPath
<1>10. \A s : c \notin Leavers(s)
       BY <1>2 DEF Leavers
<1>11. QED BY <1>1, <1>3, <1>4, <1>8, <1>9, <1>10, StayFlow

(***************************************************************************)
(* Visits of a car on its curve.                                           *)
(***************************************************************************)
\* What following the curve changes.
LEMMA CurveVisit ==
  ASSUME Inv, LanesInv, NEW c \in CarId, FollowCurve(c)
  PROVE  /\ Visited(c) /\ c \in cars \ gone /\ OnCurve(c) /\ street[c] # prev[c] /\ ~crashed[c]
         /\ UNCHANGED <<cars, gone, closest, upset>>
         /\ OthersHeld(c) /\ SameRoad(c)
         /\ inter[c] \in Intersections /\ Dir(prev[c]) \in Dirs
         /\ point'[c] \in {point[c], point[c] + 1} \ {0}
         /\ pos'[c] = CurvePoint(inter[c], Dir(prev[c]), Curve(c)[point'[c]])
<1>1. /\ TypeOK /\ TurningIsBetween /\ BetweenStreets /\ c \in cars \ gone
      /\ Visited(c) /\ NoteIntersection(c) /\ OnCurve(c) /\ ~crashed[c]
      BY VisitedStays DEF Inv, FollowCurve
<1>2. street[c] # prev[c] /\ Between(c)
      BY <1>1 DEF OnCurve, TurningIsBetween, BetweenStreets
<1>3. InterNow(c) = inter[c] /\ inter[c] \in Intersections /\ Dir(prev[c]) \in Dirs
      BY <1>1, <1>2, NothingNew, StreetTypes DEF Between, TypeOK
<1>4. PICK n \in {point[c], point[c] + 1} \ {0} :
        /\ point' = [point EXCEPT ![c] = n]
        /\ pos' = [pos EXCEPT ![c] = CurvePoint(InterNow(c), Dir(prev[c]), Curve(c)[n])]
      BY DEF FollowCurve
<1>5. point'[c] = n /\ pos'[c] = CurvePoint(inter[c], Dir(prev[c]), Curve(c)[n])
      BY <1>1, <1>3, <1>4 DEF TypeOK
<1>6. OthersHeld(c)
      BY <1>1, <1>4, NotesKept DEF FollowCurve, OthersHeld, Held, CourseKept, Kept, TypeOK
<1>7. SameRoad(c)
      BY <1>1, <1>3, NotesKept DEF FollowCurve, SameRoad
<1>8. QED BY <1>1, <1>2, <1>3, <1>4, <1>5, <1>6, <1>7 DEF FollowCurve

\* The right curve leads down the old street and on to the new one.
LEMMA RightSteps ==
  ASSUME Inv, LanesInv, Paths, NEW c \in CarId, FollowCurve(c), turning[c] = RightTurn,
         NEW r \in Streets, r = prev[c], NEW s \in Streets, s = street[c]
  PROVE  /\ InMouth(c) /\ point'[c] \in {1, 2, 3}
         /\ Pace(r, c)' = IF point'[c] = 1 THEN Mark(r, c) - 3
                          ELSE IF point'[c] = 2 THEN Mark(r, c) - 2 ELSE Mark(r, c) - 1
         /\ Pace(s, c)' \in {Pace(s, c), Pace(s, c) + 1}
<1> DEFINE k == inter[c]
           d == Dir(r)
           n == point'[c]
<1>1. /\ c \in cars \ gone /\ OnCurve(c) /\ street[c] # prev[c]
      /\ k \in Intersections /\ d \in Dirs
      /\ n \in {point[c], point[c] + 1} \ {0}
      /\ pos'[c] = CurvePoint(k, d, RightCurve[n])
      BY CurveVisit DEF Curve
<1>2. point[c] \in 0..5 /\ InMouth(c) /\ Dir(s) = RightOf(d)
      BY <1>1, RightTurner DEF Inv, TypeOK
<1>3. n \in {1, 2, 3}
      BY <1>1, <1>2 DEF InMouth
<1>4. RightCurve[n] = Offset(n)
      BY <1>3 DEF Offset
<1>5. /\ Along(d, pos'[c]) = Along(d, k) + Offset(n)[1]
      /\ Along(RightOf(d), pos'[c]) = Along(RightOf(d), k) - Offset(n)[2]
      BY <1>1, <1>3, <1>4, Offsets3, CurveAlong
<1>6. Pace(r, c)' = Along(d, pos'[c]) /\ Pace(s, c)' = Along(RightOf(d), pos'[c])
      BY <1>2 DEF Pace
<1>7. Pace(s, c) = Along(RightOf(d), k) + 1 /\ Along(RightOf(d), k) \in Int
      BY <1>1, <1>2, JoinerPace DEF Mark
<1>8. Along(d, k) \in Int
      BY <1>1, AlongType, IntersectionIsPoint
<1> HIDE DEF k, d, n
<1>9. Pace(r, c)' = IF n = 1 THEN Mark(r, c) - 3
                    ELSE IF n = 2 THEN Mark(r, c) - 2 ELSE Mark(r, c) - 1
      BY <1>3, <1>5, <1>6, <1>8, Offsets3 DEF Mark, k, d
<1>10. Pace(s, c)' \in {Pace(s, c), Pace(s, c) + 1}
       <2>1. Offset(n)[2] = -1 \/ Offset(n)[2] = -2
             BY <1>3, Offsets3
       <2>2. QED BY <1>5, <1>6, <1>7, <2>1
<1>11. QED BY <1>2, <1>3, <1>9, <1>10 DEF n

\* On its new street it keeps behind what is ahead.
LEMMA FollowCurveMoves ==
  ASSUME Inv, LanesInv, Paths, NEW c \in CarId, FollowCurve(c), NEW s \in Streets, s = street[c],
         Calm(s)
  PROVE  MovesOn(s, c)
<1>1. c \in cars \ gone /\ prev[c] # s /\ prev[c] \in Streets /\ c \in Members(s)
      BY CurveVisit DEF Inv, TypeOK, Members
<1>2. turning[c] = RightTurn
      BY <1>1 DEF Calm, RightOnly
<1>3. InMouth(c) /\ Pace(s, c)' \in {Pace(s, c), Pace(s, c) + 1}
      BY <1>1, <1>2, RightSteps
<1>4. StaysBehind(s, c) /\ KeepsOut(s, c)
      BY <1>1, <1>3, JoinerAhead
<1>5. QED BY <1>3, <1>4 DEF MovesOn

\* Following the curve keeps the car behind what is ahead on its new street, and what
\* follows it on the old one behind it.
LEMMA FollowCurveFlow ==
  ASSUME Inv, Inv', LanesInv, FlowInv, NEW c \in CarId, FollowCurve(c)
  PROVE  FlowInv'
<1>1. /\ Visited(c) /\ c \in cars \ gone /\ OnCurve(c) /\ street[c] # prev[c] /\ ~crashed[c]
      /\ UNCHANGED <<cars, gone, closest, upset>>
      /\ OthersHeld(c) /\ SameRoad(c)
      /\ pos'[c] = CurvePoint(inter[c], Dir(prev[c]), Curve(c)[point'[c]])
      BY CurveVisit
<1>2. TypeOK /\ TypeOK' /\ Paths
      BY DEF Inv, FlowInv
<1>3. Paths'
      <2>1. AtEntry(c)'
            BY <1>1 DEF AtEntry, SameRoad
      <2>2. OnPath(c)'
            <3>1. prev[c] = StreetAt(inter[c], Dir(prev[c]))
                  BY <1>1, <1>2 DEF Paths, OnPath
            <3>2. turning[c] = RightTurn => Curve(c)[point'[c]] = Offset(point'[c])
                  <4>1. street[c] \in Streets /\ prev[c] \in Streets
                        BY <1>2 DEF TypeOK
                  <4>2. turning[c] = RightTurn => point'[c] \in {1, 2, 3}
                        BY <1>2, <4>1, RightSteps
                  <4>3. QED BY <4>2 DEF Curve, Offset
            <3>3. QED BY <1>1, <3>1, <3>2 DEF OnPath, SameRoad
      <2>3. QED BY <1>1, <1>2, <2>1, <2>2, OneCarPaths DEF OthersHeld
<1>4. ASSUME NEW s \in Streets \ upset PROVE Calm(s)'
      <2>1. Calm(s) /\ Steady(s, c)
            BY <1>1, <1>2, SameRoadSteady DEF FlowInv
      <2>2. CASE c \in Leavers(s)
            <3>1. s = prev[c] /\ turning[c] = RightTurn
                  BY <1>1, <2>1, <2>2 DEF Leavers, Calm, RightOnly
            <3>2. PICK r \in Streets : r = street[c]
                  BY <1>2 DEF TypeOK
            <3>3. /\ InMouth(c) /\ point'[c] \in {1, 2, 3}
                  /\ Pace(s, c)' = IF point'[c] = 1 THEN Mark(s, c) - 3
                                   ELSE IF point'[c] = 2 THEN Mark(s, c) - 2 ELSE Mark(s, c) - 1
                  BY <1>2, <3>1, <3>2, RightSteps
            <3>4. QED BY <1>1, <1>2, <2>1, <2>2, <3>3, LeaverMoves
      <2>3. CASE c \notin Leavers(s)
            <3>1. c \in Members(s) => MovesOn(s, c)
                  BY <1>2, <2>1, FollowCurveMoves DEF Members
            <3>2. QED BY <1>2, <2>1, <2>3, <3>1, SteadyCalm
      <2>4. QED BY <2>2, <2>3
<1>5. QED BY <1>1, <1>3, <1>4 DEF FlowInv

(***************************************************************************)
(* Visits of a car that drives on.                                         *)
(***************************************************************************)
\* The place a car drives to: the next one only if it has room.
DrivesTo(c, p) ==
  \/ p = pos[c]
  \/ p = Ahead(Dir(street[c]), pos[c], 1) /\ HasRoom(c) /\ ~crashed[c]

\* Where it may be after the visit.
LEMMA StraightPlace ==
  ASSUME NEW c, NEW p \in IF crashed[c] THEN {pos[c]} ELSE StraightCells(c)
  PROVE  DrivesTo(c, p)
BY DEF DrivesTo, StraightCells

\* A car that drives on keeps behind what is ahead of it.
LEMMA DriveMoves ==
  ASSUME Inv, LanesInv, Paths, NEW c \in CarId, Visited(c), DrivesTo(c, pos'[c]),
         NEW s \in Streets, s = street[c], Calm(s)
  PROVE  MovesOn(s, c)
<1>1. c \in Members(s) /\ pos[c] \in Point /\ Dir(s) \in Dirs
      BY VisitedStays, StreetTypes DEF Members
<1>2. CASE pos'[c] = pos[c]
      BY <1>2 DEF MovesOn, Pace
<1>3. CASE pos'[c] = Ahead(Dir(s), pos[c], 1) /\ HasRoom(c)
      <2>1. Pace(s, c)' = Pace(s, c) + 1
            BY <1>1, <1>3, AheadAlong DEF Pace
      <2>2. QED BY <1>1, <1>3, <2>1, RoomAhead DEF MovesOn
<1>4. QED BY <1>2, <1>3 DEF DrivesTo

\* What plain driving changes.
LEMMA AdvanceVisit ==
  ASSUME Inv, LanesInv, NEW c \in CarId, Advance(c)
  PROVE  /\ Visited(c) /\ c \in cars \ gone /\ DrivesOn(c) /\ (crashed[c] \/ ~OnCurve(c))
         /\ UNCHANGED <<cars, gone, closest, upset>>
         /\ OthersHeld(c) /\ SameRoad(c)
         /\ point'[c] = point[c] /\ turns'[c] = turns[c] /\ completed'[c] = completed[c]
         /\ visited'[c] = VisitedNow(c) /\ DrivesTo(c, pos'[c])
<1>1. PICK p \in StraightCells(c) \cup {pos[c]} :
        /\ DriveTo(c, p)
        /\ pos' = [pos EXCEPT ![c] = p]
      BY DEF Advance
<1>2. /\ TypeOK /\ BetweenStreets /\ c \in cars \ gone
      /\ Visited(c) /\ NoteIntersection(c) /\ DrivesOn(c) /\ (crashed[c] \/ ~OnCurve(c))
      BY <1>1, VisitedStays DEF Inv, DriveTo
<1>3. UNCHANGED <<cars, gone, closest, upset, street, prev, turns, completed, turning, point, crashed>>
      BY DEF Advance
<1>4. /\ pos'[c] = p /\ inter'[c] = InterNow(c) /\ visited'[c] = VisitedNow(c)
      /\ OthersHeld(c)
      BY <1>1, <1>2, <1>3, NotesKept DEF OthersHeld, Held, CourseKept, Kept, TypeOK
<1>5. SameRoad(c)
      BY <1>2, <1>3, <1>4, NothingNew DEF SameRoad, BetweenStreets
<1>6. DrivesTo(c, p)
      BY <1>1, StraightPlace DEF DriveTo
<1>7. QED BY <1>2, <1>3, <1>4, <1>5, <1>6

\* Plain driving keeps every street calm.
LEMMA AdvanceFlow ==
  ASSUME Inv, Inv', LanesInv, FlowInv, NEW c \in CarId, Advance(c)
  PROVE  FlowInv'
<1>1. /\ Visited(c) /\ c \in cars \ gone /\ DrivesOn(c) /\ (crashed[c] \/ ~OnCurve(c))
      /\ UNCHANGED <<cars, gone, closest, upset>>
      /\ OthersHeld(c) /\ SameRoad(c)
      /\ point'[c] = point[c] /\ turns'[c] = turns[c] /\ completed'[c] = completed[c]
      /\ visited'[c] = VisitedNow(c) /\ DrivesTo(c, pos'[c])
      BY AdvanceVisit
<1>2. TypeOK /\ TypeOK' /\ Paths
      BY DEF Inv, FlowInv
<1>3. OnCurve(c) => pos'[c] = pos[c]
      BY <1>1 DEF DrivesTo
<1>4. Paths'
      <2>1. AtEntry(c)'
            <3>1. CASE street[c] = prev[c]
                  <4>1. OnItsLane(street[c], pos[c])
                        BY <1>1, <3>1 DEF LanesInv, AllOnCourse, OnCourse
                  <4>2. pos'[c] \in {pos[c], Ahead(Dir(street[c]), pos[c], 1)}
                        BY <1>1 DEF DrivesTo
                  <4>3. street'[c] = street[c]
                        BY <1>1 DEF SameRoad
                  <4>4. QED BY <1>1, <1>2, <4>1, <4>2, <4>3, DrivesToEntry
            <3>2. CASE street[c] # prev[c]
                  BY <1>1, <3>2 DEF AtEntry, SameRoad
            <3>3. QED BY <3>1, <3>2
      <2>2. OnPath(c)'
            <3>1. OnCurve(c)' <=> OnCurve(c)
                  BY <1>1 DEF OnCurve, Curve, SameRoad
            <3>2. QED BY <1>1, <1>2, <1>3, <3>1 DEF Paths, OnPath, SameRoad
      <2>3. QED BY <1>1, <1>2, <2>1, <2>2, OneCarPaths DEF OthersHeld
<1>5. ASSUME NEW s \in Streets \ upset PROVE Calm(s)'
      <2>1. Calm(s) /\ Steady(s, c)
            BY <1>1, <1>2, SameRoadSteady DEF FlowInv
      <2>2. c \in Members(s) => MovesOn(s, c)
            BY <1>1, <1>2, <2>1, DriveMoves DEF Members
      <2>3. ASSUME c \in Leavers(s) PROVE Stands(s, c)
            <3>1. s = prev[c] /\ street[c] # prev[c] /\ turning[c] = RightTurn
                  BY <2>1, <2>3 DEF Leavers, Calm, RightOnly
            <3>2. /\ inter[c] \in Intersections /\ Dir(s) \in Dirs /\ Dir(street[c]) = RightOf(Dir(s))
                  /\ point[c] \in 0..5 /\ (OnCurve(c) <=> InMouth(c)) /\ pos[c] \in Point
                  BY <1>1, <1>2, <3>1, RightTurner
            <3>3. point[c] # 0 \/ crashed[c]
                  BY <1>1, <3>2 DEF InMouth
            <3>4. Along(Dir(s), pos'[c]) = Along(Dir(s), pos[c])
                  <4>1. RightOf(Dir(s)) \in Dirs /\ Dir(s) # RightOf(Dir(s)) /\ Dir(s) # Opposite(RightOf(Dir(s)))
                        BY <3>2, Crossing
                  <4>2. Along(Dir(s), Ahead(RightOf(Dir(s)), pos[c], 1)) = Along(Dir(s), pos[c])
                        BY <3>2, <4>1, AheadAlong
                  <4>3. QED BY <1>1, <3>2, <4>2 DEF DrivesTo
            <3>5. QED BY <1>1, <3>3, <3>4 DEF Stands, Pace
      <2>4. QED BY <1>2, <2>1, <2>2, <2>3, SteadyCalm
<1>6. QED BY <1>1, <1>4, <1>5 DEF FlowInv

(***************************************************************************)
(* Visits of a car that begins a turn.                                     *)
(***************************************************************************)
\* Being put on the lane is no movement along it.
LEMMA OnLaneAlong ==
  ASSUME NEW s \in Streets, NEW p \in Point
  PROVE  Along(Dir(s), OnLane(s, p)) = Along(Dir(s), p)
BY StreetTypes DEF Along, OnLane, Dir, Point, Horizontal, Dirs, Left, Right, Down, Up

\* What beginning a turn from street s to street t at intersection k changes.
Enters(c, turn, k, s, t) ==
  /\ Visited(c) /\ c \in cars \ gone /\ MustTurn(c, turn)
  /\ k = InterNow(c) /\ InFrame(k, pos[c]) /\ s = street[c] /\ s = prev[c]
  /\ Dir(t) # Dir(s) /\ t = StreetAt(k, Dir(t))
  /\ UNCHANGED <<cars, gone>> /\ OthersHeld(c)
  /\ street'[c] = t /\ prev'[c] = s /\ pos'[c] = OnLane(t, pos[c])
  /\ inter'[c] = k /\ turning'[c] = turn /\ point'[c] = 0
  /\ closest' = UpdateClosestCar(t, on', street', pos)
  /\ upset' = IF turn = LeftTurn THEN upset \cup {s, t}
              ELSE IF Swings(t) THEN upset \cup {t} ELSE upset

\* Both turns do that.
LEMMA EnterVisit ==
  ASSUME Inv, NEW c \in CarId, Visited(c), NEW turn \in {RightTurn, LeftTurn},
         MustTurn(c, turn), NEW d \in Dirs, d # Dir(street[c]),
         EnterTurn(c, turn, StreetAt(InterNow(c), d)),
         NEW k, k = InterNow(c), NEW s, s = street[c], NEW t, t = StreetAt(k, d)
  PROVE  /\ k \in Intersections /\ s \in Streets /\ t \in Streets
         /\ Enters(c, turn, k, s, t)
<1>1. TypeOK /\ BetweenStreets /\ NoteIntersection(c) /\ c \in cars \ gone /\ s \in Streets
      BY VisitedStays DEF Inv, EnterTurn
<1>2. street[c] = prev[c] /\ k \in Intersections /\ InFrame(k, pos[c])
      BY <1>1, TurnPlace
<1>3. t \in Streets /\ Dir(t) = d
      BY <1>2, StreetAtIsStreet
<1>4. /\ street'[c] = t /\ prev'[c] = prev[c] /\ pos'[c] = OnLane(t, pos[c])
      /\ inter'[c] = k /\ turning'[c] = turn /\ point'[c] = 0
      BY <1>1, <1>3, NotesKept DEF EnterTurn, TypeOK
<1>5. OthersHeld(c)
      BY <1>1, <1>3, NotesKept DEF EnterTurn, TypeOK, OthersHeld, Held, CourseKept, Kept
<1>6. /\ closest' = UpdateClosestCar(t, on', street', pos) /\ UNCHANGED <<cars, gone>>
      /\ upset' = IF turn = LeftTurn THEN upset \cup {s, t}
                  ELSE IF Swings(t) THEN upset \cup {t} ELSE upset
      BY DEF EnterTurn
<1>7. QED BY <1>1, <1>2, <1>3, <1>4, <1>5, <1>6 DEF Enters

\* It is then on its path.
LEMMA EnterPaths ==
  ASSUME Inv, LanesInv, Paths, NEW c \in CarId, NEW turn \in {RightTurn, LeftTurn},
         NEW k \in Intersections, NEW s \in Streets, NEW t \in Streets, Enters(c, turn, k, s, t),
         turn = RightTurn => Dir(t) = RightOf(Dir(s))
  PROVE  /\ Paths'
         /\ s = StreetAt(k, Dir(s)) /\ Pace(s, c) = Along(Dir(s), k) - 3
         /\ turn = RightTurn => pos'[c] = CurvePoint(k, Dir(s), <<-1, -1>>)
<1> USE DEF Enters
<1>1. pos[c] \in Point /\ OnItsLane(s, pos[c]) /\ Dir(s) \in Dirs
      BY StreetTypes DEF Inv, TypeOK, LanesInv, AllOnCourse, OnCourse
<1>2. s = StreetAt(k, Dir(s))
      BY <1>1, StreetOfSquare
<1>3. Pace(s, c) = Along(Dir(s), k) - 3
      BY DEF Paths, AtEntry
<1>4. turn = RightTurn => pos'[c] = CurvePoint(k, Dir(s), <<-1, -1>>)
      BY <1>1, <1>2, <1>3, PutOnNewLane DEF Pace
<1>5. AtEntry(c)'
      BY DEF AtEntry
<1>6. OnPath(c)'
      BY <1>2, <1>4, Offsets3 DEF OnPath
<1>7. Paths'
      BY <1>5, <1>6, OneCarPaths DEF OthersHeld
<1>8. QED BY <1>2, <1>3, <1>4, <1>7

\* The cars of the new street search anew, the others do not.
LEMMA EnterSearch ==
  ASSUME Inv, Inv', NEW c \in CarId, NEW turn, NEW k, NEW s \in Streets, NEW t \in Streets,
         Enters(c, turn, k, s, t)
  PROVE  /\ JustSearched(t)'
         /\ \A r \in Streets \ {t} : \A e \in Members(r) \ {c} : closest'[e] = closest[e]
<1> USE DEF Enters
<1>1. TypeOK /\ TypeOK' /\ pos \in [CarId -> Point]
      BY DEF Inv, TypeOK
<1>2. ASSUME NEW e \in CarId PROVE Along(Dir(t), pos[e]) = Pace(t, e)'
      <2>1. CASE e = c
            BY <1>1, <2>1, OnLaneAlong DEF Pace
      <2>2. CASE e # c
            BY <2>2 DEF OthersHeld, Held, CourseKept, Kept, Pace
      <2>3. QED BY <2>1, <2>2
<1>3. Members(t)' \subseteq CarId /\ Leavers(t)' \subseteq CarId
      BY <1>1 DEF TypeOK, Members, Leavers
<1>4. JustSearched(t)' /\ \A e \in CarId : e \notin Members(t)' => closest'[e] = closest[e]
      BY <1>1, <1>2, <1>3, SearchesAnew
<1>5. ASSUME NEW r \in Streets \ {t}, NEW e \in Members(r) \ {c} PROVE closest'[e] = closest[e]
      <2>1. e \in CarId /\ street'[e] = r
            BY <1>1 DEF OthersHeld, Held, CourseKept, Kept, Members, TypeOK
      <2>2. e \notin Members(t)'
            BY <2>1 DEF Members
      <2>3. QED BY <1>4, <2>1, <2>2
<1>6. QED BY <1>4, <1>5

\* A third street has nothing to do with it.
LEMMA EnterElsewhere ==
  ASSUME Inv, Inv', LanesInv, Paths, NEW c \in CarId, NEW turn, NEW k, NEW s \in Streets, NEW t \in Streets,
         Enters(c, turn, k, s, t), NEW r \in Streets \ {s, t}, Calm(r)
  PROVE  Calm(r)'
<1>1. TypeOK /\ TypeOK'
      BY DEF Inv
<1>2. c \notin Members(r) /\ c \notin Leavers(r)
      BY DEF Enters, Members, Leavers
<1>3. \A e \in Members(r) : closest'[e] = closest[e]
      BY <1>2, EnterSearch
<1>4. Steady(r, c)
      BY <1>1, <1>2, <1>3, BesideSteady DEF Enters
<1>5. QED BY <1>1, <1>2, <1>4, SteadyCalm

\* The cars of the old street keep behind the turning one as they did.
LEMMA EnterOld ==
  ASSUME Inv, Inv', LanesInv, Paths, NEW c \in CarId, NEW k \in Intersections,
         NEW s \in Streets, NEW t \in Streets, Enters(c, RightTurn, k, s, t), Dir(t) = RightOf(Dir(s)),
         TurnAreaFree(c, t), Calm(s)
  PROVE  Calm(s)'
<1> DEFINE m == Along(Dir(s), k)
<1>1. /\ TypeOK /\ TypeOK' /\ Dir(s) \in Dirs /\ c \in Members(s) /\ c \notin Leavers(s)
      /\ Visited(c) /\ UNCHANGED <<cars, gone>> /\ OthersHeld(c) /\ s # t /\ t = StreetAt(k, Dir(t))
      /\ street'[c] = t /\ prev'[c] = s /\ inter'[c] = k /\ turning'[c] = RightTurn /\ point'[c] = 0
      BY StreetTypes DEF Inv, Enters, Members, Leavers
<1>2. /\ s = StreetAt(k, Dir(s)) /\ Pace(s, c) = m - 3
      /\ pos'[c] = CurvePoint(k, Dir(s), <<-1, -1>>)
      BY EnterPaths
<1>3. m \in Marks(s) /\ m \in Int
      BY <1>1, <1>2, Crossing, AlongType, IntersectionIsPoint
<1>4. Pace(s, c)' = m - 1 /\ Mark(s, c)' = m
      BY <1>1, <1>2, <1>3, CurveAlong DEF Pace, Mark
<1>5. Members(s)' = Members(s) \ {c} /\ Leavers(s)' = Leavers(s) \cup {c}
      <2>1. /\ Members(s) \subseteq CarId /\ Leavers(s) \subseteq CarId
            /\ Members(s)' \subseteq CarId /\ Leavers(s)' \subseteq CarId
            BY <1>1 DEF TypeOK, Members, Leavers
      <2>2. c \notin Members(s)' /\ c \in Leavers(s)'
            BY <1>1 DEF Members, Leavers
      <2>3. \A e \in CarId \ {c} :
              (e \in Members(s)' <=> e \in Members(s)) /\ (e \in Leavers(s)' <=> e \in Leavers(s))
            BY <1>1, SteadyOthers
      <2>4. QED BY <1>1, <2>1, <2>2, <2>3
<1>6. OthersKept(s, c)
      <2>1. Members(s) \subseteq CarId /\ Leavers(s) \subseteq CarId
            BY <1>1, Attending
      <2>2. QED BY <1>1, <2>1, SteadyOthers DEF OthersKept
<1>7. \A e \in Members(s) \ {c} : closest'[e] = closest[e]
      BY <1>1, EnterSearch
\* A car on the curve would be in the area turnAreaFree looks at.
<1>8. ASSUME NEW l \in Leavers(s), InMouth(l), Mark(s, l) = m PROVE FALSE
      <2>1. l \in cars \ gone /\ prev[l] = s /\ street[l] # prev[l] /\ turning[l] = RightTurn
            BY <1>8 DEF Leavers, Calm, RightOnly
      <2>2. /\ l \in CarId /\ inter[l] \in Intersections /\ s = StreetAt(inter[l], Dir(s))
            /\ street[l] = StreetAt(inter[l], RightOf(Dir(s)))
            BY <2>1, RightTurner
      <2>3. inter[l] = k
            <3>1. /\ k = <<k[1], k[2]>> /\ inter[l] = <<inter[l][1], inter[l][2]>>
                  /\ k[1] \in Int /\ k[2] \in Int /\ inter[l][1] \in Int /\ inter[l][2] \in Int
                  BY <2>2, IntersectionIsPoint DEF Intersections, Point
            <3>2. StreetAt(k, Dir(s)) = StreetAt(inter[l], Dir(s)) /\ Along(Dir(s), k) = Along(Dir(s), inter[l])
                  BY <1>2, <1>8, <2>2 DEF Mark
            <3>3. k[1] = inter[l][1] /\ k[2] = inter[l][2]
                  BY <1>1, <3>1, <3>2 DEF StreetAt, Along, Horizontal, Dirs, Left, Right, Down, Up
            <3>4. QED BY <3>1, <3>3
      <2>4. street[l] = t
            BY <1>1, <2>2, <2>3
      <2>5. Pace(t, l) = Along(Dir(t), k) + 1 /\ Along(Dir(t), k) \in Int
            BY <1>8, <2>1, <2>3, <2>4, JoinerPace DEF Mark
      <2>6. Along(Dir(t), pos[c]) = Along(Dir(t), k) + 1
            <3>1. Along(Dir(t), pos'[c]) = Along(Dir(t), k) + 1
                  BY <1>1, <1>2, <2>5, CurveAlong
            <3>2. pos'[c] = OnLane(t, pos[c]) /\ pos[c] \in Point
                  BY <1>1 DEF Enters, TypeOK
            <3>3. QED BY <3>1, <3>2, OnLaneAlong
      <2>7. l \in Listed(on, t)
            BY <1>1, <2>1, <2>4, ListedCars DEF Inv, Members
      <2>8. l \in InWindow(t, Along(Dir(t), pos[c]), Along(Dir(t), pos[c]) + 1)
            BY <2>5, <2>6, <2>7 DEF InWindow, Pace
      <2>9. QED BY <2>8 DEF TurnAreaFree
<1>9. QED BY <1>1, <1>3, <1>4, <1>5, <1>6, <1>7, <1>8, <1>2, MemberLeaves

\* Where nothing swings no car that leaves is at the beginning of its turn.
LEMMA NothingSwings ==
  ASSUME TypeOK, ListedOnce, NEW s \in Streets, RightOnly(s), ~Swings(s)
  PROVE  NoSwing(s)
<1> SUFFICES ASSUME NEW l \in Leavers(s) PROVE point[l] # 0
    BY DEF NoSwing
<1>1. l \in Listed(on, s) /\ prev[l] = s /\ street[l] # s
      BY ListedCars DEF Leavers
<1>2. turning[l] # Straight
      BY <1>1 DEF RightOnly, RightTurn, Straight
<1>3. QED BY <1>1, <1>2 DEF Swings

\* The new street is free where the car enters it.
LEMMA EnterNew ==
  ASSUME Inv, Inv', LanesInv, LanesInv', Paths, NEW c \in CarId, NEW k \in Intersections,
         NEW s \in Streets, NEW t \in Streets, Enters(c, RightTurn, k, s, t), Dir(t) = RightOf(Dir(s)),
         TurnAreaFree(c, t), Calm(t), ~Swings(t)
  PROVE  Calm(t)'
<1> DEFINE m == Along(Dir(t), k)
<1>1. /\ TypeOK /\ TypeOK' /\ ListedOnce /\ Dir(s) \in Dirs /\ Dir(t) \in Dirs
      /\ c \in cars \ gone /\ c \notin Members(t) /\ c \notin Leavers(t)
      /\ Visited(c) /\ UNCHANGED <<cars, gone>> /\ OthersHeld(c) /\ s # t /\ t = StreetAt(k, Dir(t))
      /\ street'[c] = t /\ prev'[c] = s /\ inter'[c] = k /\ turning'[c] = RightTurn /\ point'[c] = 0
      /\ pos'[c] = OnLane(t, pos[c]) /\ pos[c] \in Point
      BY StreetTypes DEF Inv, TypeOK, Enters, Members, Leavers
<1>2. Paths' /\ pos'[c] = CurvePoint(k, Dir(s), <<-1, -1>>)
      BY EnterPaths DEF RightTurn, LeftTurn
<1>3. m \in Marks(t) /\ m \in Int
      BY <1>1, Crossing, AlongType, IntersectionIsPoint
<1>4. Pace(t, c)' = m + 1 /\ Along(Dir(t), pos[c]) = m + 1
      <2>1. Along(Dir(t), pos'[c]) = m + 1
            BY <1>1, <1>2, <1>3, CurveAlong
      <2>2. QED BY <1>1, <2>1, OnLaneAlong DEF Pace
<1>5. /\ Members(t) \subseteq CarId /\ Leavers(t) \subseteq CarId
      /\ \A e \in CarId : Pace(t, e) \in Int
      BY <1>1, Attending, PaceType
<1>6. Members(t)' = Members(t) \cup {c} /\ Leavers(t)' = Leavers(t)
      <2>1. Members(t)' \subseteq CarId /\ Leavers(t)' \subseteq CarId
            BY <1>1 DEF TypeOK, Members, Leavers
      <2>2. c \in Members(t)' /\ c \notin Leavers(t)'
            BY <1>1 DEF Members, Leavers
      <2>3. \A e \in CarId \ {c} :
              (e \in Members(t)' <=> e \in Members(t)) /\ (e \in Leavers(t)' <=> e \in Leavers(t))
            BY <1>1, SteadyOthers
      <2>4. QED BY <1>1, <1>5, <2>1, <2>2, <2>3
<1>7. \A e \in Members(t) \cup Leavers(t) :
        /\ e # c /\ Pace(t, e)' = Pace(t, e) /\ Mark(t, e)' = Mark(t, e)
        /\ point'[e] = point[e] /\ crashed'[e] = crashed[e] /\ turning'[e] = turning[e]
        /\ street'[e] = street[e] /\ prev'[e] = prev[e]
      BY <1>1, <1>5, SteadyOthers
\* turnAreaFree has found the two cells empty.
<1>8. \A e \in Members(t) : Pace(t, e) =< m \/ Pace(t, e) >= m + 3
      <2> SUFFICES ASSUME NEW e \in Members(t), Pace(t, e) \in (m + 1)..(m + 2) PROVE FALSE
          BY <1>3, <1>5
      <2>1. e \in Listed(on, t)
            BY <1>1, ListedCars
      <2>2. Pace(t, e) \in Along(Dir(t), pos[c])..(Along(Dir(t), pos[c]) + 1)
            BY <1>3, <1>4, <1>5
      <2>3. e \in InWindow(t, Along(Dir(t), pos[c]), Along(Dir(t), pos[c]) + 1)
            BY <2>1, <2>2 DEF InWindow, Pace
      <2>4. QED BY <2>3 DEF TurnAreaFree
<1>9. NoSwing(t) /\ NoSwing(t)'
      <2>1. NoSwing(t)
            BY <1>1, NothingSwings DEF Calm
      <2>2. QED BY <1>6, <1>7, <2>1 DEF NoSwing
<1>10. RightOnly(t)'
       BY <1>1, <1>6, <1>7 DEF Calm, RightOnly
<1>11. Spread(t)'
       <2> SUFFICES ASSUME NEW d \in Members(t) \cup {c}, NEW e \in Members(t) \cup {c}, d # e
                    PROVE  /\ Pace(t, d)' # Pace(t, e)'
                           /\ Pace(t, e)' = Pace(t, d)' + 1 =>
                                \E n \in Marks(t) : Pace(t, d)' = n \/ Pace(t, d)' = n + 2
           BY <1>6 DEF Spread, Marks
       <2> HIDE DEF m
       <2>1. CASE d \in Members(t) /\ e \in Members(t)
             BY <1>7, <2>1 DEF Calm, Spread
       <2>2. CASE d = c /\ e \in Members(t)
             BY <1>3, <1>4, <1>5, <1>7, <1>8, <2>2
       <2>3. CASE d \in Members(t) /\ e = c
             <3>1. Pace(t, d) =< m \/ Pace(t, d) >= m + 3
                   BY <1>8, <2>3
             <3>2. Pace(t, d)' = Pace(t, d) /\ Pace(t, d) \in Int
                   BY <1>5, <1>7, <2>3
             <3>3. Pace(t, d)' # Pace(t, e)' /\ (Pace(t, e)' = Pace(t, d)' + 1 => Pace(t, d)' = m)
                   BY <1>3, <1>4, <2>3, <3>1, <3>2
             <3>4. QED BY <1>3, <3>3
       <2>4. QED BY <2>1, <2>2, <2>3
<1>12. MouthGap(t)'
       <2> SUFFICES ASSUME NEW d \in Members(t) \cup {c}, NEW l \in Leavers(t), InMouth(l), point[l] # 0
                    PROVE  \/ Pace(t, d)' >= Mark(t, l) - 1
                           \/ Pace(t, d)' =< Mark(t, l) - 4
           <3>1. \A l \in Leavers(t) :
                   /\ Mark(t, l)' = Mark(t, l) /\ point'[l] = point[l] /\ point[l] # 0
                   /\ InMouth(l)' => InMouth(l)
                   /\ Mark(t, l) \in Int
                 BY <1>7, <1>9, MarkType DEF NoSwing, InMouth
           <3>2. \A d \in Members(t) \cup {c} : Pace(t, d)' \in Int
                 BY <1>3, <1>4, <1>5, <1>7
           <3>3. \A d \in Members(t) \cup {c}, l \in Leavers(t) :
                   Pace(t, d)' =< Mark(t, l) - 4 => Pace(t, d)' =< Mark(t, l) - 3
                 BY <3>1, <3>2
           <3>4. QED BY <1>6, <3>1, <3>3 DEF MouthGap
       <2> HIDE DEF m
       <2>1. CASE d \in Members(t)
             BY <1>7, <2>1 DEF Calm, MouthGap
       <2>2. CASE d = c
             <3>1. Mark(t, l) \in Marks(t) /\ Mark(t, l) \in Int
                   BY LeaverPace DEF Calm
             <3>2. Mark(t, l) = m \/ Mark(t, l) > m + 7 \/ m > Mark(t, l) + 7
                   BY <1>3, <3>1, MarksApart
             <3>3. QED BY <1>3, <1>4, <2>2, <3>1, <3>2
       <2>3. QED BY <2>1, <2>2
<1>13. OneMouth(t)'
       BY <1>6, <1>7 DEF Calm, OneMouth, InMouth
<1>14. JustSearched(t)'
       BY EnterSearch
<1>15. Ready(t)'
       BY <1>2, <1>9, <1>10, <1>11, <1>12, <1>13, <1>14 DEF Ready, Even
<1>16. QED BY <1>15, FreshNext

\* A right turn into a free street keeps both streets calm.
LEMMA MakeRightTurnFlow ==
  ASSUME Inv, Inv', LanesInv, LanesInv', FlowInv, NEW c \in CarId, MakeRightTurn(c)
  PROVE  FlowInv'
<1>1. /\ Visited(c) /\ MustTurn(c, RightTurn) /\ RightTurn # LeftTurn /\ Paths
      /\ street[c] \in Streets /\ Dir(street[c]) \in Dirs
      BY StreetTypes DEF MakeRightTurn, RightTurn, LeftTurn, FlowInv, Inv, TypeOK
<1>2. PICK k : k = InterNow(c)
      OBVIOUS
<1>3. PICK s \in Streets : s = street[c]
      BY <1>1
<1>4. PICK t : t = StreetAt(k, RightOf(Dir(s)))
      OBVIOUS
<1>5. CASE WaitForTurn(c)
      BY <1>1, <1>5, WaitFlow
<1>6. CASE TurnAreaFree(c, t) /\ EnterTurn(c, RightTurn, t)
      <2>1. RightOf(Dir(s)) \in Dirs /\ RightOf(Dir(s)) # Dir(s)
            BY <1>1, <1>3, TurnedHeadings
      <2>2. k \in Intersections /\ t \in Streets /\ Enters(c, RightTurn, k, s, t)
            BY <1>1, <1>2, <1>3, <1>4, <1>6, <2>1, EnterVisit
      <2>3. Dir(t) = RightOf(Dir(s))
            BY <1>4, <2>1, <2>2, StreetAtIsStreet
      <2>4. Paths' /\ upset' = IF Swings(t) THEN upset \cup {t} ELSE upset
            BY <1>1, <2>2, <2>3, EnterPaths DEF Enters
      <2>5. ASSUME NEW r \in Streets \ upset' PROVE Calm(r)'
            <3>1. Calm(r) /\ (r = t => ~Swings(t))
                  BY <2>4, <2>5 DEF FlowInv
            <3>2. CASE r = s
                  BY <1>1, <1>6, <2>2, <2>3, <3>1, <3>2, EnterOld
            <3>3. CASE r = t
                  BY <1>1, <1>6, <2>2, <2>3, <3>1, <3>3, EnterNew
            <3>4. CASE r # s /\ r # t
                  BY <1>1, <2>2, <3>1, <3>4, EnterElsewhere
            <3>5. QED BY <3>2, <3>3, <3>4
      <2>6. QED BY <2>4, <2>5 DEF FlowInv
<1>7. QED BY <1>2, <1>3, <1>4, <1>5, <1>6 DEF MakeRightTurn

\* A left turn upsets its two streets, and no other.
LEMMA MakeLeftTurnFlow ==
  ASSUME Inv, Inv', LanesInv, LanesInv', FlowInv, NEW c \in CarId, MakeLeftTurn(c)
  PROVE  FlowInv'
<1>1. /\ Visited(c) /\ MustTurn(c, LeftTurn) /\ RightTurn # LeftTurn /\ Paths
      /\ street[c] \in Streets /\ Dir(street[c]) \in Dirs
      BY StreetTypes DEF MakeLeftTurn, RightTurn, LeftTurn, FlowInv, Inv, TypeOK
<1>2. PICK k : k = InterNow(c)
      OBVIOUS
<1>3. PICK s \in Streets : s = street[c]
      BY <1>1
<1>4. PICK t : t = StreetAt(k, LeftOf(Dir(s)))
      OBVIOUS
<1>5. CASE WaitForTurn(c) \/ KeepWaiting(c)
      BY <1>1, <1>5, WaitFlow
<1>6. CASE EnterTurn(c, LeftTurn, t)
      <2>1. LeftOf(Dir(s)) \in Dirs /\ LeftOf(Dir(s)) # Dir(s)
            BY <1>1, <1>3, TurnedHeadings
      <2>2. k \in Intersections /\ t \in Streets /\ Enters(c, LeftTurn, k, s, t)
            BY <1>1, <1>2, <1>3, <1>4, <1>6, <2>1, EnterVisit
      <2>3. Paths' /\ upset' = upset \cup {s, t}
            BY <1>1, <2>2, EnterPaths DEF Enters
      <2>4. ASSUME NEW r \in Streets \ upset' PROVE Calm(r)'
            BY <1>1, <2>2, <2>3, <2>4, EnterElsewhere DEF FlowInv
      <2>5. QED BY <2>3, <2>4 DEF FlowInv
<1>7. QED BY <1>2, <1>3, <1>4, <1>5, <1>6 DEF MakeLeftTurn

(***************************************************************************)
(* Visits after which a street is searched because a car has left it.      *)
(***************************************************************************)
\* A street stays even when cars leave it and new ones appear far from the others and
\* before all intersections.
LEMMA EvenAgain ==
  ASSUME Inv, TypeOK', LanesInv, Paths, NEW s \in Streets, Calm(s), NoSwing(s), NEW N,
         Members(s)' \subseteq Members(s) \cup N, Leavers(s)' \subseteq Leavers(s),
         \A e \in (Members(s)' \ N) \cup Leavers(s)' :
           /\ Pace(s, e)' = Pace(s, e) /\ Mark(s, e)' = Mark(s, e) /\ point'[e] = point[e]
           /\ street'[e] = street[e] /\ prev'[e] = prev[e] /\ turning'[e] = turning[e],
         \A n \in N \cap Members(s)' :
           /\ street'[n] = prev'[n]
           /\ \A m \in Marks(s) : Pace(s, n)' =< m - 4
           /\ \A e \in Members(s)' \ {n} : Pace(s, n)' - Pace(s, e)' \notin -1..1,
         Leavers(s) \cap N = {}
  PROVE  Even(s)'
<1>1. /\ Members(s)' \subseteq CarId
      /\ \A e \in CarId : Pace(s, e)' \in Int
      BY StreetTypes, AlongType DEF TypeOK, Members, Pace
<1>2. \A l \in Leavers(s) : Mark(s, l) \in Marks(s) /\ Mark(s, l) \in Int /\ point[l] # 0
      BY LeaverPace DEF Calm, NoSwing
<1>3. NoSwing(s)'
      BY <1>2 DEF NoSwing
<1>4. RightOnly(s)'
      BY DEF Calm, RightOnly
<1>5. Spread(s)'
      <2> SUFFICES ASSUME NEW d \in Members(s)', NEW e \in Members(s)', d # e
                   PROVE  /\ Pace(s, d)' # Pace(s, e)'
                          /\ Pace(s, e)' = Pace(s, d)' + 1 =>
                               \E m \in Marks(s) : Pace(s, d)' = m \/ Pace(s, d)' = m + 2
          BY DEF Spread, Marks
      <2>1. CASE d \in N
            <3>1. Pace(s, d)' - Pace(s, e)' \notin -1..1
                  BY <2>1
            <3>2. QED BY <1>1, <3>1
      <2>2. CASE e \in N
            <3>1. Pace(s, e)' - Pace(s, d)' \notin -1..1
                  BY <2>2
            <3>2. QED BY <1>1, <3>1
      <2>3. CASE d \notin N /\ e \notin N
            BY <2>3 DEF Calm, Spread
      <2>4. QED BY <2>1, <2>2, <2>3
<1>6. MouthGap(s)'
      <2> SUFFICES ASSUME NEW d \in Members(s)', NEW l \in Leavers(s)', InMouth(l)'
                   PROVE  \/ Pace(s, d)' >= Mark(s, l)' - 1
                          \/ Pace(s, d)' =< Mark(s, l)' - 3 /\ Pace(s, d)' =< Mark(s, l)' - 4
          BY <1>2 DEF MouthGap
      <2>1. /\ l \in Leavers(s) /\ Mark(s, l)' = Mark(s, l) /\ InMouth(l) /\ point[l] # 0
            /\ Mark(s, l) \in Int /\ Mark(s, l) \in Marks(s) /\ Pace(s, d)' \in Int
            BY <1>1, <1>2 DEF InMouth
      <2>2. Pace(s, d)' >= Mark(s, l) - 1 \/ Pace(s, d)' =< Mark(s, l) - 4
            <3>1. CASE d \in N
                  BY <2>1, <3>1
            <3>2. CASE d \notin N
                  BY <2>1, <3>2 DEF Calm, MouthGap
            <3>3. QED BY <3>1, <3>2
      <2>3. QED BY <2>1, <2>2
<1>7. OneMouth(s)'
      BY DEF Calm, OneMouth, InMouth
<1>8. QED BY <1>3, <1>4, <1>5, <1>6, <1>7 DEF Even

\* The street that was searched is calm again, or still.
LEMMA SearchedCalm ==
  ASSUME Inv', LanesInv', Paths', NEW s \in Streets, JustSearched(s)',
         Settled(s, on', street', prev', pos') \/ Even(s)'
  PROVE  Calm(s)'
<1>1. Even(s)'
      BY SettledNext DEF Inv
<1>2. QED BY <1>1, FreshNext DEF Ready

\* Which street that is, and when it was calm before.
LEMMA RefreshedStreet ==
  ASSUME Inv, FlowInv, NEW s \in Streets, NEW lists, NEW streets, NEW prevs, NEW where,
         NEW u, u = Refreshed(s, lists, streets, prevs, where)
  PROVE  /\ \A r \in Streets \ u : r # s => Calm(r)
         /\ s \notin u => \/ Settled(s, lists, streets, prevs, where)
                          \/ Calm(s) /\ NoSwing(s)
<1>1. \A r \in Streets \ u : r # s => Calm(r)
      BY DEF Refreshed, FlowInv
<1>2. s \notin u /\ ~Settled(s, lists, streets, prevs, where) => Calm(s) /\ ~Swings(s)
      BY DEF Refreshed, FlowInv
<1>3. QED BY <1>1, <1>2, NothingSwings DEF Inv, Calm

\* What the visit that ends a turn from street s to street t changes.
Finishes(c, s, t) ==
  /\ Visited(c) /\ c \in cars \ gone /\ s # t
  /\ street[c] = t /\ prev[c] = s /\ street'[c] = t /\ prev'[c] = t
  /\ UNCHANGED <<cars, gone>> /\ OthersHeld(c)
  /\ turning'[c] = Straight /\ DrivesTo(c, pos'[c])
  /\ closest' = UpdateClosestCar(s, on', street', pos)
  /\ upset' = Refreshed(s, on', street', prev', pos)

\* What FinishTurn does is that.
LEMMA FinishVisit ==
  ASSUME Inv, LanesInv, NEW c \in CarId, FinishTurn(c),
         NEW s, s = prev[c], NEW t, t = street[c]
  PROVE  /\ s \in Streets /\ t \in Streets /\ Finishes(c, s, t)
         /\ DrivesOn(c) /\ OnItsLane(t, pos[c])
         /\ visited'[c] = VisitedNow(c) /\ turns'[c] = turns[c] /\ completed'[c] = completed[c]
<1>1. /\ TypeOK /\ BetweenStreets /\ c \in cars \ gone /\ s \in Streets /\ t \in Streets
      /\ Visited(c) /\ TurnIsOver(c) /\ DrivesOn(c)
      BY VisitedStays DEF Inv, FinishTurn
<1>2. PICK p \in IF crashed[c] THEN {pos[c]} ELSE StraightCells(c) : pos' = [pos EXCEPT ![c] = p]
      BY DEF FinishTurn
<1>3. s # t /\ Between(c)
      BY <1>1 DEF TurnIsOver, BetweenStreets
<1>4. ~InFrame(inter[c], pos[c])
      BY <1>1, <1>3, NothingNew DEF TurnIsOver
<1>5. OnItsLane(t, pos[c])
      BY <1>1, <1>3, <1>4 DEF LanesInv, AllOnCourse, OnCourse
<1>6. pos'[c] = p /\ DrivesTo(c, p)
      BY <1>1, <1>2, StraightPlace DEF TypeOK
<1>7. /\ UNCHANGED <<cars, gone, street, turns, completed, crashed>>
      /\ prev' = [prev EXCEPT ![c] = t] /\ turning' = [turning EXCEPT ![c] = Straight]
      /\ point' = [point EXCEPT ![c] = 0] /\ inter' = [inter EXCEPT ![c] = NoIntersection]
      /\ visited' = [visited EXCEPT ![c] = VisitedNow(c)]
      BY DEF FinishTurn
<1>8. OthersHeld(c)
      BY <1>1, <1>2, <1>7 DEF OthersHeld, Held, CourseKept, Kept, TypeOK
<1>9. street'[c] = t /\ prev'[c] = t /\ turning'[c] = Straight /\ visited'[c] = VisitedNow(c)
      BY <1>1, <1>7 DEF TypeOK
<1>10. /\ closest' = UpdateClosestCar(s, on', street', pos)
       /\ upset' = Refreshed(s, on', street', prev', pos)
       BY <1>7 DEF FinishTurn
<1>11. QED BY <1>1, <1>3, <1>5, <1>6, <1>7, <1>8, <1>9, <1>10 DEF Finishes

\* The old street is searched without the car, where nothing else has moved.
LEMMA FinishOld ==
  ASSUME Inv, Inv', LanesInv, LanesInv', FlowInv, Paths', NEW c \in CarId,
         NEW s \in Streets, NEW t \in Streets, Finishes(c, s, t)
  PROVE  /\ s \notin upset' => Calm(s)'
         /\ \A r \in Streets \ {s} : \A e \in Members(r) : closest'[e] = closest[e]
<1>1. /\ TypeOK /\ TypeOK' /\ ListedOnce' /\ Paths /\ pos \in [CarId -> Point]
      /\ Visited(c) /\ UNCHANGED <<cars, gone>> /\ OthersHeld(c)
      BY DEF Inv, FlowInv, TypeOK, Finishes
<1>2. c \notin Members(s)' /\ c \notin Leavers(s)'
      BY DEF Finishes, Members, Leavers
<1>3. Members(s)' \subseteq CarId /\ Leavers(s)' \subseteq CarId
      BY <1>1 DEF TypeOK, Members, Leavers
<1>4. \A e \in CarId \ {c} : pos'[e] = pos[e]
      BY <1>1 DEF OthersHeld, Held, CourseKept, Kept
<1>5. \A d \in Members(s)' \cup Leavers(s)' : Along(Dir(s), pos[d]) = Pace(s, d)'
      BY <1>2, <1>3, <1>4 DEF Pace
<1>6. /\ JustSearched(s)'
      /\ \A e \in CarId : e \notin Members(s)' => closest'[e] = closest[e]
      BY <1>1, <1>5, SearchesAnew DEF Finishes
<1>7. \A r \in Streets \ {s} : \A e \in Members(r) : closest'[e] = closest[e]
      <2> SUFFICES ASSUME NEW r \in Streets \ {s}, NEW e \in Members(r)
                   PROVE  closest'[e] = closest[e]
          OBVIOUS
      <2>1. e \in CarId /\ street[e] = r
            BY <1>1 DEF TypeOK, Members
      <2>2. e \notin Members(s)'
            <3>1. CASE e = c
                  BY <1>2, <3>1
            <3>2. CASE e # c
                  BY <1>1, <2>1, <3>2 DEF OthersHeld, Held, CourseKept, Kept, Members
            <3>3. QED BY <3>1, <3>2
      <2>3. QED BY <1>6, <2>1, <2>2
<1>8. ASSUME s \notin upset' PROVE Calm(s)'
      <2>1. \/ Settled(s, on', street', prev', pos)
            \/ Calm(s) /\ NoSwing(s)
            BY <1>8, RefreshedStreet DEF Finishes
      <2>2. CASE Settled(s, on', street', prev', pos)
            <3>1. Listed(on', s) \subseteq CarId \ {c}
                  BY <1>1, <1>2, <1>3, ListedCarsNext
            <3>2. Settled(s, on', street', prev', pos')
                  BY <1>4, <2>2, <3>1 DEF Settled
            <3>3. QED BY <1>6, <3>2, SearchedCalm
      <2>3. CASE Calm(s) /\ NoSwing(s)
            <3>1. \A e \in CarId \ {c} :
                    /\ e \in Members(s)' <=> e \in Members(s)
                    /\ e \in Leavers(s)' <=> e \in Leavers(s)
                    /\ Pace(s, e)' = Pace(s, e) /\ Mark(s, e)' = Mark(s, e)
                    /\ point'[e] = point[e] /\ turning'[e] = turning[e]
                    /\ street'[e] = street[e] /\ prev'[e] = prev[e]
                  BY <1>1, SteadyOthers
            <3>2. Members(s)' \subseteq Members(s) \cup {} /\ Leavers(s)' \subseteq Leavers(s)
                  BY <1>2, <1>3, <3>1
            <3>3. \A e \in (Members(s)' \ {}) \cup Leavers(s)' :
                    /\ Pace(s, e)' = Pace(s, e) /\ Mark(s, e)' = Mark(s, e) /\ point'[e] = point[e]
                    /\ street'[e] = street[e] /\ prev'[e] = prev[e] /\ turning'[e] = turning[e]
                  BY <1>2, <1>3, <3>1
            <3>4. PICK N : N = {}
                  OBVIOUS
            <3>5. /\ Members(s)' \subseteq Members(s) \cup N /\ Members(s)' \ N = Members(s)'
                  /\ N \cap Members(s)' = {} /\ Leavers(s) \cap N = {}
                  BY <3>2, <3>4
            <3>6. Even(s)'
                  BY <1>1, <2>3, <3>2, <3>3, <3>5, EvenAgain
            <3>7. QED BY <1>6, <3>6, SearchedCalm
      <2>4. QED BY <2>1, <2>2, <2>3
<1>9. QED BY <1>7, <1>8

\* The new street keeps what it has of the car, and the old one is without it.
LEMMA FinishTurnFlow ==
  ASSUME Inv, Inv', LanesInv, LanesInv', FlowInv, NEW c \in CarId, FinishTurn(c)
  PROVE  FlowInv'
<1>1. PICK s : s = prev[c]
      OBVIOUS
<1>2. PICK t : t = street[c]
      OBVIOUS
<1>3. /\ s \in Streets /\ t \in Streets /\ Finishes(c, s, t)
      /\ DrivesOn(c) /\ OnItsLane(t, pos[c])
      /\ visited'[c] = VisitedNow(c) /\ turns'[c] = turns[c] /\ completed'[c] = completed[c]
      BY <1>1, <1>2, FinishVisit
<1>4. /\ TypeOK /\ TypeOK' /\ Paths
      /\ Visited(c) /\ c \in cars \ gone /\ UNCHANGED <<cars, gone>> /\ OthersHeld(c)
      /\ s # t /\ street[c] = t /\ prev[c] = s /\ street'[c] = t /\ prev'[c] = t
      /\ DrivesTo(c, pos'[c])
      BY <1>3 DEF Inv, FlowInv, Finishes
<1>5. Paths'
      <2>1. AtEntry(c)'
            <3>1. pos'[c] \in {pos[c], Ahead(Dir(street[c]), pos[c], 1)}
                  BY <1>4 DEF DrivesTo
            <3>2. OnItsLane(street[c], pos[c]) /\ street'[c] = street[c]
                  BY <1>3, <1>4
            <3>3. QED BY <1>3, <1>4, <3>1, <3>2, DrivesToEntry
      <2>2. OnPath(c)'
            BY <1>4 DEF OnPath
      <2>3. QED BY <1>4, <2>1, <2>2, OneCarPaths DEF OthersHeld
<1>6. ASSUME NEW r \in Streets \ upset' PROVE Calm(r)'
      <2>1. /\ r # s => Calm(r) /\ \A e \in Members(r) : closest'[e] = closest[e]
            /\ s \notin upset' => Calm(s)'
            BY <1>3, <1>5, <1>6, FinishOld, RefreshedStreet DEF Finishes
      <2>2. CASE r = s
            BY <1>6, <2>1, <2>2
      <2>3. CASE r # s
            <3>1. c \notin Leavers(r) /\ (c \in Members(r) <=> street'[c] = r)
                  BY <1>4, <2>3 DEF Leavers, Members
            <3>2. Steady(r, c)
                  BY <1>4, <2>1, <2>3, <3>1, BesideSteady
            <3>3. c \in Members(r) => MovesOn(r, c)
                  BY <1>4, <2>1, <2>3, DriveMoves DEF Members
            <3>4. QED BY <1>4, <2>1, <2>3, <3>1, <3>2, <3>3, SteadyCalm
      <2>4. QED BY <2>2, <2>3
<1>7. QED BY <1>5, <1>6 DEF FlowInv

(***************************************************************************)
(* A car leaves.                                                           *)
(***************************************************************************)
\* On one lane, cars that are clear of each other are two units apart.
LEMMA ClearOnLane ==
  ASSUME NEW s \in Streets, NEW p \in Point, NEW q \in Point, OnItsLane(s, p), OnItsLane(s, q),
         ~Overlaps(p, q)
  PROVE  Along(Dir(s), p) - Along(Dir(s), q) \notin -1..1
<1>1. s[1] \in {Left, Right, Down, Up} /\ LanePosition(s) \in Int
      BY StreetTypes DEF Dirs, Dir, Left, Right, Down, Up
<1>2. QED BY <1>1 DEF OnItsLane, OnLane, Overlaps, Along, Dir, Point, Horizontal, Left, Right, Down, Up

\* New cars appear before the squares of the intersections.
LEMMA NewPlaceBefore ==
  ASSUME NEW s \in Streets, NEW p \in Point, NEW n \in Nat
  PROVE  /\ IntersectionsAt(NewPlace(s, p, n)) = {}
         /\ \A m \in Marks(s) : Along(Dir(s), NewPlace(s, p, n)) =< m - 4
<1>1. s[1] \in {Left, Right, Down, Up} /\ LanePosition(s) \in Int
      BY StreetTypes DEF Dirs, Dir, Left, Right, Down, Up
<1>2. PICK i \in 1..2 : NewPlace(s, p, n) = OnLane(s, SpawnPoint(s, p, i))
      BY DEF NewPlace
<1>3. SpawnX[i] \in Nat /\ SpawnY[i] \in Nat
      BY SpawnAssumption
<1>4. ASSUME NEW k \in Intersections
      PROVE  /\ ~InFrame(k, OnLane(s, SpawnPoint(s, p, i)))
             /\ Along(Dir(s), OnLane(s, SpawnPoint(s, p, i))) =< Along(Dir(s), k) - 4
      <2>1. k[1] \in VMids /\ k[2] \in HMids /\ k[1] \in Int /\ k[2] \in Int
            BY MidsAssumption DEF Intersections
      <2>2. /\ -SpawnX[i] < k[1] - 3 /\ k[1] + 3 < SpawnX[i]
            /\ -SpawnY[i] < k[2] - 3 /\ k[2] + 3 < SpawnY[i]
            BY <2>1, SpawnAssumption DEF FrameHalf
      <2>3. CASE Horizontal(s[1])
            BY <1>1, <1>3, <2>1, <2>2, <2>3
               DEF SpawnPoint, OnLane, Along, Dir, InFrame, FrameHalf, Horizontal, Left, Right, Down, Up
      <2>4. CASE ~Horizontal(s[1])
            BY <1>1, <1>3, <2>1, <2>2, <2>4
               DEF SpawnPoint, OnLane, Along, Dir, InFrame, FrameHalf, Horizontal, Left, Right, Down, Up
      <2>5. QED BY <2>3, <2>4
<1>5. QED BY <1>2, <1>4 DEF IntersectionsAt, Marks

\* What the visit of a car that leaves street s changes, with the new cars ns.
Leaves(c, s, ns) ==
  /\ Visited(c) /\ c \in cars \ gone /\ street[c] = s /\ prev[c] = s
  /\ ns \subseteq CarId /\ ns \cap cars = {}
  /\ cars' = cars \cup ns /\ gone' = gone \cup {c} /\ crashed' = crashed
  /\ \A e \in CarId \ (ns \cup {c}) : Held(e)
  /\ \A n \in ns :
       /\ street'[n] = s /\ prev'[n] = s /\ turning'[n] = Straight
       /\ OnItsLane(s, pos'[n]) /\ IntersectionsAt(pos'[n]) = {}
       /\ \A m \in Marks(s) : Along(Dir(s), pos'[n]) =< m - 4
       /\ \A e \in cars \ {c} : ~Overlaps(pos'[n], pos[e])
       /\ \A e \in ns \ {n} : Along(Dir(s), pos'[n]) - Along(Dir(s), pos'[e]) \notin -1..1
  /\ closest' = UpdateClosestCar(s, on', street', pos')
  /\ upset' = Refreshed(s, on', street', prev', pos')

\* What Leave does is that.
LEMMA LeaveVisit ==
  ASSUME Inv, Inv', LanesInv, LanesInv', NEW c \in CarId, Leave(c)
  PROVE  street[c] \in Streets /\ \E ns : Leaves(c, street[c], ns)
<1> DEFINE s == street[c]
<1>1. PICK p \in StraightCells(c) :
        /\ DriveTo(c, p)
        /\ LET new == Created(s, p, [pos EXCEPT ![c] = p])
               lists == [on EXCEPT ![s] = [d \in CarId |-> IF d \in new THEN @[d] + 1 ELSE @[d]]]
           IN /\ cars' = cars \cup new
              /\ pos' = [d \in CarId |->
                   IF d \in new THEN NewPlace(s, p, d) ELSE IF d = c THEN p ELSE pos[d]]
              /\ street' = [d \in CarId |-> IF d \in new THEN s ELSE street[d]]
              /\ prev' = [d \in CarId |-> IF d \in new THEN s ELSE prev[d]]
              /\ \E ts \in [new -> TurnArrays] :
                   /\ turns' = [d \in CarId |-> IF d \in new THEN ts[d] ELSE turns[d]]
                   /\ completed' = [d \in CarId |->
                        IF d \in new THEN StraightOn(ts[d]) ELSE completed[d]]
              /\ on' = RemoveCar(lists, s, c)
              /\ closest' = UpdateClosestCar(s, on', street', pos')
              /\ upset' = Refreshed(s, on', street', prev', pos')
      BY DEF Leave
<1>2. gone' = gone \cup {c} /\ SecondNew \in CarId /\ UNCHANGED <<turning, point, crashed>>
      BY DEF Leave
<1> DEFINE where == [pos EXCEPT ![c] = p]
           new == Created(s, p, where)
<1>3. /\ TypeOK /\ Loop /\ AtRest /\ TurningIsBetween
      /\ Visited(c) /\ NoteIntersection(c) /\ c \in cars \ gone /\ cars \subseteq CarId
      BY <1>1 DEF Inv, DriveTo, Visited, TypeOK, Loop
<1>4. p \in Point /\ s \in Streets
      BY <1>3, CellsType DEF TypeOK
<1>5. created \in Nat /\ cars \subseteq 1..created /\ FirstNew = created + 1 /\ SecondNew = created + 2
      BY <1>3 DEF TypeOK, Loop, FirstNew, SecondNew, CarId
<1>6. FirstNew \in CarId /\ FirstNew \notin cars /\ SecondNew \notin cars
      <2>1. created + 1 \notin 1..created /\ created + 2 \notin 1..created
            BY <1>5
      <2>2. FirstNew \in CarId
            BY <1>2, <1>5, CarsAssumption DEF CarId
      <2>3. QED BY <1>5, <2>1, <2>2
\* Where createCar refuses them, and where it does not.
<1>7. /\ new \subseteq {FirstNew, SecondNew}
      /\ \A n \in new, d \in cars : ~Overlaps(NewPlace(s, p, n), where[d])
      /\ {FirstNew, SecondNew} \subseteq new =>
           ~Overlaps(NewPlace(s, p, SecondNew), NewPlace(s, p, FirstNew))
      BY <1>5 DEF Created
<1>8. new \subseteq CarId /\ new \cap cars = {} /\ CarId \subseteq Nat
      <2> HIDE DEF new
      <2>1. CarId \subseteq Nat
            BY CarsAssumption DEF CarId
      <2>2. QED BY <1>2, <1>6, <1>7, <2>1
<1>9. /\ cars' = cars \cup new
      /\ pos' = [d \in CarId |->
           IF d \in new THEN NewPlace(s, p, d) ELSE IF d = c THEN p ELSE pos[d]]
      /\ street' = [d \in CarId |-> IF d \in new THEN s ELSE street[d]]
      /\ prev' = [d \in CarId |-> IF d \in new THEN s ELSE prev[d]]
      BY <1>1
<1>10. \A e \in CarId \ new : turns'[e] = turns[e] /\ completed'[e] = completed[e]
       <2>1. PICK ts \in [new -> TurnArrays] :
               /\ turns' = [d \in CarId |-> IF d \in new THEN ts[d] ELSE turns[d]]
               /\ completed' = [d \in CarId |-> IF d \in new THEN StraightOn(ts[d]) ELSE completed[d]]
             BY <1>1
       <2> HIDE DEF new
       <2>2. QED BY <2>1
<1>11. \A e \in cars \ {c} : where[e] = pos[e]
       BY <1>3 DEF TypeOK
<1>12. prev[c] = s
       <2>1. street'[c] = street[c] /\ prev'[c] = prev[c]
             BY <1>3, <1>8, <1>9
       <2>2. c \in gone' /\ (\A d \in gone' : street'[d] = prev'[d])
             BY <1>2 DEF LanesInv, GoneAreOut
       <2>3. QED BY <2>1, <2>2
<1> HIDE DEF new, where
<1>13. \A e \in CarId \ (new \cup {c}) : Held(e)
       BY <1>2, <1>3, <1>9, <1>10, NotesKept DEF Held, CourseKept, Kept
<1>14. ASSUME NEW n \in new
       PROVE  /\ street'[n] = s /\ prev'[n] = s /\ turning'[n] = Straight
              /\ pos'[n] = NewPlace(s, p, n) /\ pos'[n] \in Point /\ OnItsLane(s, pos'[n])
              /\ IntersectionsAt(pos'[n]) = {}
              /\ \A m \in Marks(s) : Along(Dir(s), pos'[n]) =< m - 4
              /\ \A e \in cars \ {c} : ~Overlaps(pos'[n], pos[e])
       <2>1. street'[n] = s /\ prev'[n] = s /\ pos'[n] = NewPlace(s, p, n) /\ n \in Nat
             BY <1>8, <1>9
       <2>2. turning'[n] = Straight
             BY <1>2, <1>3, <1>8 DEF AtRest, TurningIsBetween
       <2>3. /\ NewPlace(s, p, n) \in Point /\ OnItsLane(s, NewPlace(s, p, n))
             /\ IntersectionsAt(NewPlace(s, p, n)) = {}
             /\ \A m \in Marks(s) : Along(Dir(s), NewPlace(s, p, n)) =< m - 4
             BY <1>4, <2>1, NewPlaceBehind, NewPlaceBefore
       <2>4. QED BY <1>7, <1>11, <2>1, <2>2, <2>3
<1>15. ASSUME NEW n \in new, NEW e \in new \ {n}
       PROVE  Along(Dir(s), pos'[n]) - Along(Dir(s), pos'[e]) \notin -1..1
       <2>1. /\ pos'[n] = NewPlace(s, p, n) /\ pos'[e] = NewPlace(s, p, e)
             /\ pos'[n] \in Point /\ pos'[e] \in Point
             /\ OnItsLane(s, pos'[n]) /\ OnItsLane(s, pos'[e])
             BY <1>14
       <2>2. {n, e} = {FirstNew, SecondNew}
             BY <1>7
       <2>3. ~Overlaps(pos'[n], pos'[e]) \/ ~Overlaps(pos'[e], pos'[n])
             BY <1>7, <2>1, <2>2
       <2>4. Along(Dir(s), pos'[n]) \in Int /\ Along(Dir(s), pos'[e]) \in Int
             BY <1>4, <2>1, StreetTypes, AlongType
       <2>5. \/ Along(Dir(s), pos'[n]) - Along(Dir(s), pos'[e]) \notin -1..1
             \/ Along(Dir(s), pos'[e]) - Along(Dir(s), pos'[n]) \notin -1..1
             BY <1>4, <2>1, <2>3, ClearOnLane
       <2>6. QED BY <2>4, <2>5
<1>16. /\ closest' = UpdateClosestCar(s, on', street', pos')
       /\ upset' = Refreshed(s, on', street', prev', pos')
       BY <1>1
<1>17. Leaves(c, s, new)
       BY <1>2, <1>3, <1>8, <1>9, <1>12, <1>13, <1>14, <1>15, <1>16 DEF Leaves
<1>18. QED BY <1>4, <1>17

\* The cars of the other streets, and those that turn, go on as they did.
LEMMA LeaveOthers ==
  ASSUME Inv, Inv', NEW c \in CarId, NEW s \in Streets, NEW ns, Leaves(c, s, ns),
         NEW e \in cars \ gone, e # c
  PROVE  /\ e \in CarId /\ e \notin ns /\ Held(e) /\ e \in cars' \ gone'
         /\ street'[e] = street[e] /\ prev'[e] = prev[e] /\ pos'[e] = pos[e]
         /\ inter'[e] = inter[e] /\ turning'[e] = turning[e] /\ point'[e] = point[e]
         /\ crashed'[e] = crashed[e]
<1>1. e \in CarId /\ e \notin ns /\ e \in cars' \ gone' /\ crashed'[e] = crashed[e]
      BY DEF Leaves, Inv, TypeOK
<1>2. Held(e)
      BY <1>1 DEF Leaves
<1>3. QED BY <1>1, <1>2 DEF Held, CourseKept, Kept

\* The cars that are there after the visit.
LEMMA LeaveCars ==
  ASSUME NEW c \in CarId, NEW s \in Streets, NEW ns, Leaves(c, s, ns)
  PROVE  cars' \ gone' \subseteq ((cars \ gone) \ {c}) \cup ns
BY DEF Leaves

\* The new cars are on one street each and outside the squares.
LEMMA LeavePaths ==
  ASSUME Inv, Inv', Paths, NEW c \in CarId, NEW s \in Streets, NEW ns, Leaves(c, s, ns)
  PROVE  Paths'
<1> SUFFICES ASSUME NEW e \in cars' \ gone' PROVE AtEntry(e)' /\ OnPath(e)' /\ InOrder(e)'
    BY DEF Paths
<1>1. todo' = todo \ {c} /\ (\A d \in todo : c =< d) /\ c \in CarId /\ todo \subseteq CarId /\ CarId \subseteq Int
      BY DEF Leaves, Visited, Inv, TypeOK, CarId
<1>2. CASE e \in ns
      <2>1. street'[e] = prev'[e] /\ turning'[e] = Straight /\ IntersectionsAt(pos'[e]) = {}
            BY <1>2 DEF Leaves
      <2>2. QED BY <2>1 DEF AtEntry, MustTurn, OnPath, InOrder
<1>3. CASE e \in (cars \ gone) \ {c}
      <2>1. e \in CarId /\ Held(e) /\ turning'[e] = turning[e]
            BY <1>3, LeaveOthers
      <2>2. AtEntry(e)' /\ OnPath(e)'
            BY <1>3, <2>1, HeldPath DEF Paths
      <2>3. InOrder(e)'
            BY <1>1, <1>3, <2>1 DEF InOrder, Paths
      <2>4. QED BY <2>2, <2>3
<1>4. QED BY <1>2, <1>3, LeaveCars

\* The street is searched anew, and no other.
LEMMA LeaveSearch ==
  ASSUME Inv, Inv', NEW c \in CarId, NEW s \in Streets, NEW ns, Leaves(c, s, ns)
  PROVE  /\ JustSearched(s)'
         /\ \A e \in CarId : e \notin Members(s)' => closest'[e] = closest[e]
<1>1. pos' \in [CarId -> Point] /\ closest' = UpdateClosestCar(s, on', street', pos')
      BY DEF Leaves, Inv, TypeOK
<1>2. PICK where \in [CarId -> Point] : where = pos'
      BY <1>1
<1>3. \A d : Along(Dir(s), where[d]) = Pace(s, d)'
      BY <1>2 DEF Pace
<1>4. QED BY <1>1, <1>2, <1>3, SearchesAnew

\* Nothing has changed on another street.
LEMMA LeaveElsewhere ==
  ASSUME Inv, Inv', Paths, NEW c \in CarId, NEW s \in Streets, NEW ns, Leaves(c, s, ns),
         NEW r \in Streets \ {s}, Calm(r)
  PROVE  Calm(r)'
<1>1. /\ TypeOK /\ TypeOK' /\ Visited(c) /\ street[c] = s /\ prev[c] = s
      /\ \A n \in ns : street'[n] = s /\ prev'[n] = s
      BY DEF Inv, Leaves
<1>2. c \notin Members(r) \cup Leavers(r) /\ Members(r) \cup Leavers(r) \subseteq CarId
      /\ Members(r) \cup Leavers(r) \subseteq cars \ gone
      BY <1>1, Attending DEF Members, Leavers
<1>3. /\ Members(r)' = Members(r) /\ Leavers(r)' = Leavers(r)
      <2>1. \A e \in (cars \ gone) \ {c} :
              e \in cars' \ gone' /\ street'[e] = street[e] /\ prev'[e] = prev[e]
            BY LeaveOthers
      <2>2. \A n \in ns : n \notin Members(r)' /\ n \notin Leavers(r)'
            BY <1>1 DEF Members, Leavers
      <2>3. QED BY <1>2, <2>1, <2>2, LeaveCars DEF Members, Leavers
<1>4. \A e \in Members(r) : closest'[e] = closest[e]
      <2> SUFFICES ASSUME NEW e \in Members(r) PROVE closest'[e] = closest[e]
          OBVIOUS
      <2>1. e \in CarId /\ e \in Members(r)'
            BY <1>2, <1>3
      <2>2. e \notin Members(s)'
            BY <2>1 DEF Members
      <2>3. QED BY <2>1, <2>2, LeaveSearch
<1>5. \A e \in Members(r) \cup Leavers(r) :
        /\ street'[e] = street[e] /\ prev'[e] = prev[e] /\ pos'[e] = pos[e]
        /\ inter'[e] = inter[e] /\ turning'[e] = turning[e] /\ point'[e] = point[e]
        /\ crashed'[e] = crashed[e]
      BY <1>2, LeaveOthers
<1>6. \A e \in Members(r) \cup Leavers(r) : Pace(r, e)' = Pace(r, e) /\ Mark(r, e)' = Mark(r, e)
      BY <1>5 DEF Pace, Mark
<1>7. \A l \in Leavers(r), e \in Members(r) : StillToGo(e, l)' => StillToGo(e, l)
      BY <1>1, <1>2, ToGo
<1>8. Steady(r, NoCar)
      BY <1>3, <1>4, <1>5, <1>6, <1>7 DEF Steady
<1>9. QED BY <1>1, <1>8, Untouched

\* What stays on the street stays where it is, and the new cars are behind all squares
\* and clear of it.
LEMMA LeaveEven ==
  ASSUME Inv, Inv', LanesInv, Paths, NEW c \in CarId, NEW s \in Streets, NEW ns, Leaves(c, s, ns),
         Calm(s), NoSwing(s)
  PROVE  Even(s)'
<1>1. /\ TypeOK /\ TypeOK' /\ street[c] = s /\ prev[c] = s
      /\ \A n \in ns : street'[n] = s /\ prev'[n] = s
      BY DEF Inv, Leaves
<1>2. /\ c \notin Leavers(s) /\ ns \subseteq CarId /\ ns \cap cars = {} /\ c \in gone'
      /\ Members(s) \cup Leavers(s) \subseteq cars \ gone
      BY <1>1 DEF Members, Leavers, Leaves
<1>3. \A e \in (cars \ gone) \ {c} :
        /\ street'[e] = street[e] /\ prev'[e] = prev[e] /\ pos'[e] = pos[e]
        /\ inter'[e] = inter[e] /\ turning'[e] = turning[e] /\ point'[e] = point[e]
      BY LeaveOthers
<1>4. /\ Members(s)' \subseteq (Members(s) \ {c}) \cup ns /\ Leavers(s)' \subseteq Leavers(s)
      <2>1. \A n \in ns : n \notin Leavers(s)'
            BY <1>1 DEF Leavers
      <2>2. QED BY <1>3, <2>1, LeaveCars DEF Members, Leavers
<1>5. \A e \in (Members(s)' \ ns) \cup Leavers(s)' :
        /\ Pace(s, e)' = Pace(s, e) /\ Mark(s, e)' = Mark(s, e) /\ point'[e] = point[e]
        /\ street'[e] = street[e] /\ prev'[e] = prev[e] /\ turning'[e] = turning[e]
      <2>1. (Members(s)' \ ns) \cup Leavers(s)' \subseteq (cars \ gone) \ {c}
            BY <1>2, <1>4
      <2>2. QED BY <1>3, <2>1 DEF Pace, Mark
<1>6. \A n \in ns, m \in Marks(s) : Pace(s, n)' =< m - 4
      BY DEF Leaves, Pace
<1>7. ASSUME NEW n \in ns, NEW e \in Members(s)' \ {n}
      PROVE  Pace(s, n)' - Pace(s, e)' \notin -1..1
      <2>1. CASE e \in ns
            BY <2>1 DEF Leaves, Pace
      <2>2. CASE e \notin ns
            <3>1. e \in Members(s) \ {c} /\ e \in (cars \ gone) \ {c} /\ e \in CarId /\ n \in CarId
                  BY <1>1, <1>2, <1>4, <2>2 DEF TypeOK
            <3>2. /\ pos'[e] = pos[e] /\ pos[e] \in Point /\ pos'[n] \in Point /\ street[e] = s
                  /\ OnItsLane(s, pos'[n]) /\ ~Overlaps(pos'[n], pos[e])
                  BY <1>1, <1>3, <3>1 DEF Leaves, TypeOK, Members
            <3>3. CASE OnItsLane(s, pos[e])
                  <4>1. Along(Dir(s), pos'[n]) - Along(Dir(s), pos[e]) \notin -1..1
                        BY <3>2, <3>3, ClearOnLane
                  <4>2. QED BY <3>2, <4>1 DEF Pace
            <3>4. CASE ~OnItsLane(s, pos[e])
                  <4>1. street[e] # prev[e] /\ OnCurve(e)
                        BY <3>1, <3>2, <3>4 DEF LanesInv, AllOnCourse, OnCourse
                  <4>2. turning[e] = RightTurn
                        BY <3>1, <4>1 DEF Calm, RightOnly
                  <4>3. InMouth(e)
                        BY <3>1, <4>1, <4>2, RightTurner
                  <4>4. Mark(s, e) \in Marks(s) /\ Mark(s, e) \in Int /\ Pace(s, e) = Mark(s, e) + 1
                        BY <3>1, <3>2, <4>1, <4>2, <4>3, JoinerPace
                  <4>5. Pace(s, n)' =< Mark(s, e) - 4 /\ Pace(s, n)' \in Int
                        BY <1>6, <3>2, <4>4, StreetTypes, AlongType DEF Pace
                  <4>6. Pace(s, e)' = Pace(s, e)
                        BY <1>5, <2>2
                  <4>7. QED BY <4>4, <4>5, <4>6
            <3>5. QED BY <3>3, <3>4
      <2>3. QED BY <2>1, <2>2
<1>8. /\ Members(s)' \subseteq Members(s) \cup ns /\ Leavers(s) \cap ns = {}
      BY <1>2, <1>4
<1>9. \A n \in ns \cap Members(s)' :
        /\ street'[n] = prev'[n]
        /\ \A m \in Marks(s) : Pace(s, n)' =< m - 4
        /\ \A e \in Members(s)' \ {n} : Pace(s, n)' - Pace(s, e)' \notin -1..1
      BY <1>1, <1>6, <1>7
<1>10. QED BY <1>1, <1>4, <1>5, <1>8, <1>9, EvenAgain

\* A car that leaves, and those that replace it, keep every street calm.
LEMMA LeaveFlow ==
  ASSUME Inv, Inv', LanesInv, LanesInv', FlowInv, NEW c \in CarId, Leave(c)
  PROVE  FlowInv'
<1>1. PICK s \in Streets : s = street[c]
      BY LeaveVisit
<1>2. PICK ns : Leaves(c, s, ns)
      BY <1>1, LeaveVisit
<1>3. Paths /\ Paths'
      BY <1>2, LeavePaths DEF FlowInv
<1>4. /\ \A r \in Streets \ upset' : r # s => Calm(r)
      /\ s \notin upset' => \/ Settled(s, on', street', prev', pos')
                            \/ Calm(s) /\ NoSwing(s)
      BY <1>2, RefreshedStreet DEF Leaves
<1>5. ASSUME NEW r \in Streets \ upset' PROVE Calm(r)'
      <2>1. CASE r = s
            <3>1. Settled(s, on', street', prev', pos') \/ Even(s)'
                  BY <1>2, <1>3, <1>4, <1>5, <2>1, LeaveEven
            <3>2. JustSearched(s)'
                  BY <1>2, LeaveSearch
            <3>3. QED BY <1>3, <2>1, <3>1, <3>2, SearchedCalm
      <2>2. CASE r # s
            BY <1>2, <1>3, <1>4, <1>5, <2>2, LeaveElsewhere
      <2>3. QED BY <2>1, <2>2
<1>6. QED BY <1>3, <1>5 DEF FlowInv

(***************************************************************************)
(* The first state, and every step.                                        *)
(***************************************************************************)
\* viewDidLoad puts its cars two units apart, outside the intersections, and has all
\* lists built before the first search.
LEMMA InitFlow == Init => FlowInv
<1> SUFFICES ASSUME Init PROVE FlowInv
    OBVIOUS
<1>1. /\ Inv /\ TypeOK /\ ListedOnce /\ LanesInv /\ upset = {}
      BY InitInv, InitLanes DEF Inv, Init
<1>2. /\ cars = StartCars /\ gone = {} /\ todo = {} /\ street = StartStreets /\ prev = StartStreets
      /\ pos = StartPlaces /\ on = StartLists /\ turning = [c \in CarId |-> Straight]
      /\ closest = [c \in CarId |->
           IF c \in StartCars THEN FindClosestCar(StartLists, StartStreets[c], c, StartPlaces)
           ELSE NoCar]
      BY DEF Init
<1>3. cars \subseteq CarId /\ pos \in [CarId -> Point] /\ street \in [CarId -> Streets]
      BY <1>1 DEF TypeOK
<1>4. \A c \in cars : pos[c] = OnLane(StartStreet[c], StartPos[c]) /\ street[c] = StartStreet[c]
      BY <1>2, <1>3 DEF StartPlaces, StartStreets
<1>5. \A c \in cars : IntersectionsAt(pos[c]) = {}
      BY <1>2, <1>4, PlacesAssumption
<1>6. \A c \in cars, d \in cars : c # d => ~Overlaps(pos[c], pos[d])
      BY <1>2, <1>4, PlacesAssumption
<1>7. Paths
      <2>1. \A c \in cars : AtEntry(c)
            BY <1>5 DEF AtEntry, MustTurn
      <2>2. \A c \in cars : OnPath(c) /\ InOrder(c)
            BY <1>2, <1>3 DEF OnPath, InOrder
      <2>3. QED BY <2>1, <2>2 DEF Paths
<1>8. ASSUME NEW s \in Streets PROVE Calm(s)
      <2>1. Listed(on, s) = Members(s) \cup Leavers(s) /\ Leavers(s) = {}
            BY <1>1, <1>2, ListedCars DEF Leavers
      <2>2. \A c \in Members(s) : c \in cars /\ c \in CarId /\ street[c] = s /\ prev[c] = s /\ pos[c] \in Point
            BY <1>2, <1>3 DEF Members
      <2>3. Settled(s, on, street, prev, pos)
            <3>1. \A c \in Members(s), d \in Members(s) : c # d =>
                    Along(Dir(s), pos[c]) - Along(Dir(s), pos[d]) \notin -1..1
                  <4> SUFFICES ASSUME NEW c \in Members(s), NEW d \in Members(s), c # d
                               PROVE  Along(Dir(s), pos[c]) - Along(Dir(s), pos[d]) \notin -1..1
                      OBVIOUS
                  <4>1. OnItsLane(s, pos[c]) /\ OnItsLane(s, pos[d])
                        BY <1>1, <2>2 DEF LanesInv, AllOnCourse, OnCourse
                  <4>2. QED BY <1>6, <2>2, <4>1, ClearOnLane
            <3>2. QED BY <2>1, <2>2, <3>1 DEF Settled
      <2>4. Even(s)
            BY <1>1, <2>3, SettledEven
      <2>5. JustSearched(s)
            <3> SUFFICES ASSUME NEW c \in Members(s)
                         PROVE  IF closest[c] = NoCar THEN AllAhead(s, c) = {}
                                ELSE /\ closest[c] \in AllAhead(s, c)
                                     /\ \A e \in AllAhead(s, c) : Pace(s, closest[c]) =< Pace(s, e)
                BY DEF JustSearched
            <3>1. CarsAhead(on, s, c, pos) = AllAhead(s, c)
                  BY <2>1 DEF CarsAhead, AllAhead, Pace
            <3>2. closest[c] = FindClosestCar(on, s, c, pos)
                  BY <1>2, <2>2
            <3>3. IF AllAhead(s, c) = {} THEN closest[c] = NoCar
                  ELSE /\ closest[c] \in AllAhead(s, c)
                       /\ \A e \in AllAhead(s, c) : Along(Dir(s), pos[closest[c]]) =< Along(Dir(s), pos[e])
                  BY <1>3, <2>2, <3>1, <3>2, Finds
            <3>4. NoCar \notin AllAhead(s, c)
                  BY <1>1, Attending DEF AllAhead
            <3>5. QED BY <3>3, <3>4 DEF Pace
      <2>6. QED BY <1>1, <1>7, <2>4, <2>5, Fresh DEF Even
<1>9. QED BY <1>1, <1>7, <1>8 DEF FlowInv

\* Every step keeps the traffic flowing.
LEMMA StepFlow == Inv /\ Inv' /\ LanesInv /\ LanesInv' /\ FlowInv /\ [Next]_vars => FlowInv'
<1> SUFFICES ASSUME Inv, Inv', LanesInv, LanesInv', FlowInv, [Next]_vars PROVE FlowInv'
    OBVIOUS
<1>1. CASE BeginFrame
      BY <1>1, BeginFrameFlow
<1>2. CASE EndFrame
      BY <1>2, EndFrameFlow
<1>3. ASSUME NEW c \in CarId, Visit(c) PROVE FlowInv'
      BY <1>3, StopAtRedFlow, MakeRightTurnFlow, MakeLeftTurnFlow, FinishTurnFlow,
         FollowCurveFlow, AdvanceFlow, LeaveFlow DEF Visit
<1>4. ASSUME NEW a \in cars, NEW b \in cars, Contact(a, b) PROVE FlowInv'
      BY <1>4, ContactFlow
<1>5. CASE UNCHANGED vars
      BY <1>5, UnchangedFlow DEF Inv
<1>6. CASE BoundReached
      BY <1>5, <1>6 DEF BoundReached
<1>7. QED BY <1>1, <1>2, <1>3, <1>4, <1>5, <1>6 DEF Next

\* What a run checks after every step.
LEMMA FlowIsNearest == Inv /\ FlowInv => ClosestIsNearest
<1> SUFFICES ASSUME Inv, FlowInv, NEW c \in cars \ gone, NEW s, s = street[c], s \notin upset
             PROVE  LET ahead == {e \in CarsAhead(on, s, c, pos) : street[e] = s}
                    IN IF closest[c] = NoCar THEN ahead = {}
                       ELSE /\ closest[c] \in Listed(on, s)
                            /\ Along(Dir(s), pos[c]) < Along(Dir(s), pos[closest[c]])
                            /\ \A e \in ahead : Along(Dir(s), pos[closest[c]]) =< Along(Dir(s), pos[e])
    BY DEF ClosestIsNearest
<1>1. TypeOK /\ ListedOnce /\ c \in CarId /\ s \in Streets /\ c \in Members(s)
      BY DEF Inv, TypeOK, Members
<1>2. Nearest(s)
      BY <1>1 DEF FlowInv, Calm
<1>3. Listed(on, s) = Members(s) \cup Leavers(s)
      BY <1>1, ListedCars
<1>4. {e \in CarsAhead(on, s, c, pos) : street[e] = s} = MembersAhead(s, c)
      BY <1>3 DEF CarsAhead, MembersAhead, Pace, Members, Leavers
<1>5. QED BY <1>1, <1>2, <1>3, <1>4 DEF Nearest, Pace

\* The three invariants together are inductive.
LEMMA FlowHolds == Spec => [](Inv /\ LanesInv /\ FlowInv)
<1>1. Init => Inv /\ LanesInv /\ FlowInv
      BY InitInv, InitLanes, InitFlow
<1>2. Inv /\ LanesInv /\ FlowInv /\ [Next]_vars => (Inv /\ LanesInv /\ FlowInv)'
      BY StepInv, StepLanes, StepFlow
<1>3. QED BY <1>1, <1>2, PTL DEF Spec

\* closestCar is the nearest car ahead after every visit of every car, on every road
\* network: it is only searched when a list changes, and every car moves in between.
THEOREM ClosestStays == Spec => []ClosestIsNearest
BY FlowHolds, FlowIsNearest, PTL

(***************************************************************************)
(* No car reaches the one ahead of it.                                     *)
(***************************************************************************)
\* The visit of car c moves no other, and c itself only into a place that is free, unless
\* it changes the street or leaves.
MovesAlone(c) ==
  /\ \A e \in (cars \ gone) \ {c} : pos'[e] = pos[e]
  /\ \A s \in Streets \ upset : s = street[c] /\ s = street'[c] /\ c \notin gone' => MovesOn(s, c)

\* A car that begins a turn changes the street.
LEMMA TurnMoves ==
  ASSUME Inv, NEW c \in CarId, Visited(c), NEW turn \in {RightTurn, LeftTurn}, MustTurn(c, turn),
         NEW d \in Dirs, d # Dir(street[c]), EnterTurn(c, turn, StreetAt(InterNow(c), d))
  PROVE  MovesAlone(c)
<1>1. PICK k : k = InterNow(c)
      OBVIOUS
<1>2. PICK s : s = street[c]
      OBVIOUS
<1>3. PICK t : t = StreetAt(k, d)
      OBVIOUS
<1>4. Enters(c, turn, k, s, t)
      BY <1>1, <1>2, <1>3, EnterVisit
<1>5. street'[c] # street[c]
      BY <1>4 DEF Enters
<1>6. \A e \in CarId \ {c} : pos'[e] = pos[e]
      BY <1>4 DEF Enters, OthersHeld, Held, CourseKept, Kept
<1>7. QED BY <1>5, <1>6 DEF MovesAlone, Inv, TypeOK

\* A car that is held or waits moves nobody.
LEMMA StandMoves ==
  ASSUME NEW c, pos' = pos
  PROVE  MovesAlone(c)
BY DEF MovesAlone, MovesOn, Pace

\* A car that drives on moves itself only.
LEMMA DrivingMoves ==
  ASSUME Inv, NEW c \in CarId, OthersHeld(c),
         \A s \in Streets \ upset : s = street[c] => MovesOn(s, c)
  PROVE  MovesAlone(c)
BY DEF MovesAlone, OthersHeld, Held, CourseKept, Kept, Inv, TypeOK

\* So it is with every visit.
LEMMA VisitMoves ==
  ASSUME Inv, Inv', LanesInv, LanesInv', FlowInv, NEW c \in CarId, Visit(c)
  PROVE  MovesAlone(c)
<1>1. Paths /\ Dir(street[c]) \in Dirs /\ RightTurn # LeftTurn /\ \A s \in Streets \ upset : Calm(s)
      BY StreetTypes DEF FlowInv, Inv, TypeOK, RightTurn, LeftTurn
<1>2. CASE StopAtRed(c)
      BY <1>2, StandMoves DEF StopAtRed, carVars
<1>3. CASE MakeRightTurn(c)
      <2>1. RightOf(Dir(street[c])) \in Dirs /\ RightOf(Dir(street[c])) # Dir(street[c])
            BY <1>1, TurnedHeadings
      <2>2. CASE WaitForTurn(c)
            BY <2>2, StandMoves DEF WaitForTurn
      <2>3. QED BY <1>3, <2>1, <2>2, TurnMoves DEF MakeRightTurn
<1>4. CASE MakeLeftTurn(c)
      <2>1. LeftOf(Dir(street[c])) \in Dirs /\ LeftOf(Dir(street[c])) # Dir(street[c])
            BY <1>1, TurnedHeadings
      <2>2. CASE WaitForTurn(c) \/ KeepWaiting(c)
            BY <2>2, StandMoves DEF WaitForTurn, KeepWaiting
      <2>3. QED BY <1>4, <2>1, <2>2, TurnMoves DEF MakeLeftTurn
<1>5. CASE FinishTurn(c)
      <2>1. PICK s : s = prev[c]
            OBVIOUS
      <2>2. PICK t : t = street[c]
            OBVIOUS
      <2>3. Visited(c) /\ OthersHeld(c) /\ DrivesTo(c, pos'[c])
            BY <1>5, <2>1, <2>2, FinishVisit DEF Finishes
      <2>4. QED BY <1>1, <2>3, DriveMoves, DrivingMoves
<1>6. CASE FollowCurve(c)
      <2>1. OthersHeld(c)
            BY <1>6, CurveVisit
      <2>2. QED BY <1>1, <1>6, <2>1, FollowCurveMoves, DrivingMoves
<1>7. CASE Advance(c)
      <2>1. Visited(c) /\ OthersHeld(c) /\ DrivesTo(c, pos'[c])
            BY <1>7, AdvanceVisit
      <2>2. QED BY <1>1, <2>1, DriveMoves, DrivingMoves
<1>8. CASE Leave(c)
      <2>1. PICK s \in Streets : s = street[c]
            BY <1>8, LeaveVisit
      <2>2. PICK ns : Leaves(c, s, ns)
            BY <1>8, <2>1, LeaveVisit
      <2>3. c \in gone'
            BY <2>2 DEF Leaves
      <2>4. \A e \in (cars \ gone) \ {c} : pos'[e] = pos[e]
            BY <2>2, LeaveOthers
      <2>5. QED BY <2>3, <2>4 DEF MovesAlone
<1>9. QED BY <1>2, <1>3, <1>4, <1>5, <1>6, <1>7, <1>8 DEF Visit

\* Between the visits no car moves.
LEMMA NobodyMoves ==
  ASSUME Inv, BeginFrame \/ EndFrame \/ BoundReached \/ UNCHANGED vars
         \/ \E a, b \in cars : Contact(a, b)
  PROVE  \A e \in cars \ gone : pos'[e] = pos[e]
<1>1. CASE EndFrame
      BY <1>1 DEF EndFrame, Forget, Inv, TypeOK
<1>2. CASE UNCHANGED pos
      BY <1>2
<1>3. QED BY <1>1, <1>2 DEF BeginFrame, BoundReached, Contact, vars, carVars

\* No car reaches one ahead of it on its street: a street keeps the places its turning
\* cars need, and the car whose visit it is sees the nearest one.
THEOREM NobodyOvertakes == Spec => NoOvertaking
<1> DEFINE Order ==
      \A a, b \in cars \ gone :
        LET s == street[a] IN
        /\ s = street[b] /\ s \notin upset
        /\ Along(Dir(s), pos[a]) < Along(Dir(s), pos[b])
        /\ street'[a] = s /\ street'[b] = s /\ {a, b} \subseteq cars' \ gone'
        => Along(Dir(s), pos'[a]) < Along(Dir(s), pos'[b])
<1>1. Inv /\ Inv' /\ LanesInv /\ LanesInv' /\ FlowInv /\ [Next]_vars => [Order]_vars
      <2> SUFFICES ASSUME Inv, Inv', LanesInv, LanesInv', FlowInv, [Next]_vars,
                          NEW a \in cars \ gone, NEW b \in cars \ gone, NEW s, s = street[a],
                          s = street[b], s \notin upset,
                          Along(Dir(s), pos[a]) < Along(Dir(s), pos[b]),
                          street'[a] = s, street'[b] = s, {a, b} \subseteq cars' \ gone'
                   PROVE  Along(Dir(s), pos'[a]) < Along(Dir(s), pos'[b])
          OBVIOUS
      <2>1. /\ a \in CarId /\ b \in CarId /\ s \in Streets
            /\ Along(Dir(s), pos[a]) \in Int /\ Along(Dir(s), pos[b]) \in Int
            BY StreetTypes, AlongType DEF Inv, TypeOK
      <2>2. CASE \A e \in cars \ gone : pos'[e] = pos[e]
            BY <2>2
      <2>3. ASSUME NEW c \in CarId, Visit(c)
            PROVE  Along(Dir(s), pos'[a]) < Along(Dir(s), pos'[b])
            <3>1. MovesAlone(c)
                  BY <2>3, VisitMoves
            <3>2. CASE c # a /\ c # b
                  BY <3>1, <3>2 DEF MovesAlone
            <3>3. CASE c = a
                  <4>1. b # a
                        BY <2>1
                  <4>2. MovesOn(s, a) /\ pos'[b] = pos[b]
                        BY <2>1, <3>1, <3>3, <4>1 DEF MovesAlone
                  <4>3. b \in Members(s)
                        BY DEF Members
                  <4>4. QED BY <2>1, <4>2, <4>3 DEF MovesOn, StaysBehind, Pace
            <3>4. CASE c = b
                  <4>1. b # a
                        BY <2>1
                  <4>2. MovesOn(s, b) /\ pos'[a] = pos[a]
                        BY <2>1, <3>1, <3>4, <4>1 DEF MovesAlone
                  <4>3. QED BY <2>1, <4>2 DEF MovesOn, Pace
            <3>5. QED BY <3>2, <3>3, <3>4
      <2>4. QED BY <2>2, <2>3, NobodyMoves DEF Next
<1>2. QED BY <1>1, FlowHolds, PTL DEF Spec, NoOvertaking
==============================================================================
