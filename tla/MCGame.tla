------------------------------- MODULE MCGame -------------------------------
EXTENDS Game, MCTraffic

OneCrossing == << <<0, 0>> >>
=============================================================================
