SPECIFICATION FairSpec
CONSTANTS
  NumCars = 2
  NoCar = NoCar
  StartPlaces <- AfterLeftTurns
  StartSpeeds = {100}
  StartOffs <- LeftOfLane
  Wrecks <- NoWreck
  FarEdge = 9000
  MinClear = 120
  MaxChanges = 3
PROPERTIES LeavesNearLane EveryCarGetsThrough
