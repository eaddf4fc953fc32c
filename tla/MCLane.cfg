SPECIFICATION Spec
CONSTANTS
  NumCars = 3
  NoCar = NoCar
  StartPlaces <- QueuePlaces
  StartSpeeds = {0, 100}
  StartOffs = {0}
  Wrecks <- ThirdMayBeWreck
  FarEdge = 1000
  MinClear = 120
  MaxChanges = 3
INVARIANTS TypeOK KeepsGap RollsBackLittle
PROPERTIES NobodyRunsTheRed
