------------------------------- MODULE Roads --------------------------------
(***************************************************************************)
(* The road network: two-way roads, the one-way streets they are made of,  *)
(* the intersections where a horizontal road meets a vertical one, and the *)
(* curves a car follows when it turns.  Everything here is fixed once      *)
(* viewDidLoad has run; the cars that move on it are in Traffic.           *)
(*                                                                         *)
(* Positions are pairs <<x, y>> of whole units of the game's coordinates.  *)
(* A car covers at most 0.15 of a unit in a frame, so one step from a cell *)
(* to the next stands for the several frames it takes.  The code's bounds  *)
(* that are not whole (0.5, 0.75, the band from 3.5 to 4) are rounded so   *)
(* that they select the same cells; each definition says how.              *)
(***************************************************************************)
EXTENDS Integers, FiniteSets

CONSTANTS
  HMids,    \* midlines (y) of the horizontal two-way roads
  VMids,    \* midlines (x) of the vertical two-way roads
  Screen,   \* [left, right, bottom, top]: what isOutsideScreen takes for the screen
  SpawnX,   \* distances from x = 0 of the two cars created on a horizontal street
  SpawnY    \* distances from y = 0 of the two cars created on a vertical street

\* Half the side of the square in which a car counts as being at an intersection:
\* width (1) plus extra (2).
FrameHalf == 3

ASSUME MidsAssumption ==
  /\ HMids \subseteq Int /\ VMids \subseteq Int
  /\ IsFiniteSet(HMids) /\ IsFiniteSet(VMids)
\* New cars appear before the middle of the screen, and before the intersections.
ASSUME SpawnAssumption ==
  /\ SpawnX \in [1..2 -> Nat \ {0}] /\ SpawnY \in [1..2 -> Nat \ {0}]
  /\ \A v \in VMids, i \in 1..2 : -SpawnX[i] < v - FrameHalf /\ v + FrameHalf < SpawnX[i]
  /\ \A h \in HMids, i \in 1..2 : -SpawnY[i] < h - FrameHalf /\ h + FrameHalf < SpawnY[i]

\* The roads are ten units apart: a car one cell outside the square of one
\* intersection is not in that of another.
ASSUME SpacingAssumption ==
  \A mids \in {HMids, VMids} : \A m, n \in mids : m # n => m - n \notin -7..7

\* Nor is it near the edge of the screen.
ASSUME ScreenAssumption ==
  /\ Screen \in [left : Int, right : Int, bottom : Int, top : Int]
  /\ \A v \in VMids : Screen.left < v - 5 /\ v + 5 < Screen.right
  /\ \A h \in HMids : Screen.bottom < h - 5 /\ h + 5 < Screen.top

(***************************************************************************)
(* Headings, with the numbers StreetProtocol gives them.                   *)
(***************************************************************************)
Left  == 0
Right == 1
Down  == 2
Up    == 3
Dirs  == 0..3

Point == Int \X Int

\* How far a position lies along a heading: greater is further ahead.  The
\* four street classes are copies of one another that differ only in the axis
\* and in the sense of the comparison, which is what Along captures.
Along(d, p) ==
  CASE d = Left  -> -p[1]
    [] d = Right -> p[1]
    [] d = Down  -> -p[2]
    [] d = Up    -> p[2]

\* The position n cells further along heading d.
Ahead(d, p, n) ==
  CASE d = Left  -> <<p[1] - n, p[2]>>
    [] d = Right -> <<p[1] + n, p[2]>>
    [] d = Down  -> <<p[1], p[2] - n>>
    [] d = Up    -> <<p[1], p[2] + n>>

\* The heading to one's right hand, and the opposite one.
RightOf(d) ==
  CASE d = Left -> Up [] d = Right -> Down [] d = Down -> Left [] d = Up -> Right
Opposite(d) ==
  CASE d = Left -> Right [] d = Right -> Left [] d = Down -> Up [] d = Up -> Down
LeftOf(d) == Opposite(RightOf(d))

Horizontal(d) == d \in {Left, Right}

(***************************************************************************)
(* Streets.  A two-way road carries two of them, one unit to either side   *)
(* of its midline, so that traffic keeps to the right.                     *)
(***************************************************************************)
Streets == ({Left, Right} \X HMids) \cup ({Down, Up} \X VMids)

Dir(s) == s[1]

LanePosition(s) ==
  IF s[1] \in {Left, Up} THEN s[2] + 1 ELSE s[2] - 1

\* fixPosOnStreet, for a car half a unit or more off its lane: it is put on it.
OnLane(s, p) ==
  IF Horizontal(s[1]) THEN <<p[1], LanePosition(s)>> ELSE <<LanePosition(s), p[2]>>

(***************************************************************************)
(* Intersections, named by their centres.                                  *)
(***************************************************************************)
Intersections == VMids \X HMids

\* Street of heading d at intersection k.
StreetAt(k, d) == IF Horizontal(d) THEN <<d, k[2]>> ELSE <<d, k[1]>>

OppositeStreet(k, s) == StreetAt(k, Opposite(Dir(s)))

InFrame(k, p) ==
  /\ p[1] \in (k[1] - FrameHalf)..(k[1] + FrameHalf)
  /\ p[2] \in (k[2] - FrameHalf)..(k[2] + FrameHalf)

IntersectionsAt(p) == {k \in Intersections : InFrame(k, p)}

(***************************************************************************)
(* Traffic lights.  The light of street s at k stands 2.5 units beyond the *)
(* centre; a car is held by it in the band from 4 to 3.5 units before the  *)
(* centre, of which the cell 4 units before is the only one.               *)
(***************************************************************************)
LightsAhead(s, p) ==
  {k \in Intersections : s = StreetAt(k, Dir(s)) /\ Along(Dir(s), p) =< Along(Dir(s), k) + 2}

\* The first of them: lightFinder scans the street's lights in driving order.
NearestLights(s, p) ==
  {k \in LightsAhead(s, p) :
     \A j \in LightsAhead(s, p) : Along(Dir(s), k) =< Along(Dir(s), j)}

CloseToLight(s, p) ==
  \E k \in NearestLights(s, p) : Along(Dir(s), p) = Along(Dir(s), k) - 4

(***************************************************************************)
(* Turning curves, as <<forward, left>> offsets from the centre for a car  *)
(* that came in heading d.  The four tables of a turn are rotations of one *)
(* another; 42 points of the right turn and 73 of the left turn fall into  *)
(* these cells.  Both end just short of 3, so 2 is the last unit covered.  *)
(***************************************************************************)
RightCurve == << <<-3, -1>>, <<-2, -1>>, <<-1, -2>> >>
LeftCurve  == << <<-3, -1>>, <<-2, -1>>, <<-1, 0>>, <<0, 1>>, <<1, 2>> >>

CurvePoint(k, d, offset) == Ahead(LeftOf(d), Ahead(d, k, offset[1]), offset[2])

(***************************************************************************)
(* The edge of the screen and the places where new cars appear.            *)
(***************************************************************************)
OutsideScreen(p) ==
  ~(/\ Screen.left < p[1]   /\ p[1] < Screen.right
    /\ Screen.bottom < p[2] /\ p[2] < Screen.top)

\* Past the far edge: outside, and beyond the middle along its own heading.
Leaving(s, p) == OutsideScreen(p) /\ Along(Dir(s), p) > 0

SpawnPoint(s, p, n) ==
  CASE Dir(s) = Left  -> <<SpawnX[n], p[2]>>
    [] Dir(s) = Right -> <<-SpawnX[n], p[2]>>
    [] Dir(s) = Down  -> <<p[1], SpawnY[n]>>
    [] Dir(s) = Up    -> <<p[1], -SpawnY[n]>>

\* Mutant: near on either axis is enough.
OverlapsOnAnAxis(p, q) ==
  \/ p[1] - q[1] \in -1..1
  \/ p[2] - q[2] \in -1..1

\* createCar refuses a place less than two units from a car on both axes.
Overlaps(p, q) ==
  /\ p[1] - q[1] \in -1..1
  /\ p[2] - q[2] \in -1..1

=============================================================================
