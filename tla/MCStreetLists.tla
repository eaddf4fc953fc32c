--------------------------- MODULE MCStreetLists ----------------------------
EXTENDS StreetLists

FourPlaces == -2..1
=============================================================================
