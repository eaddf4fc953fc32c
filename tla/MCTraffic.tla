----------------------------- MODULE MCTraffic ------------------------------
EXTENDS Traffic, TLC

OneMid == {0}
SmallScreen == [left |-> -6, right |-> 6, bottom |-> -6, top |-> 6]
SmallSpawn == <<8, 10>>

OpposingStreets == << <<Right, 0>>, <<Left, 0>> >>
OpposingPlaces  == << <<-5, 0>>, <<5, 0>> >>

MergeStreets == << <<Right, 0>>, <<Down, 0>> >>
MergePlaces  == << <<-5, 0>>, <<0, 5>> >>

OneStreet == << <<Right, 0>> >>
OnePlace  == << <<-5, 0>> >>

\* A car that has passed the crossing and is about to leave.
PlaceBeforeEdge == << <<5, 0>> >>

\* The roads, screen and spawn places of viewDidLoad, with the one car of its three
\* that starts on a horizontal street.
GameMids == {-5, 5}
GameScreen == [left |-> -22, right |-> 22, bottom |-> -12, top |-> 14]
GameSpawnX == <<30, 40>>
GameSpawnY == <<20, 30>>
GameStreet == << <<Right, -5>> >>
GamePlace == << <<-20, 0>> >>
=============================================================================
