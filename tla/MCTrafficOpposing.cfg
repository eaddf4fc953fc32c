SPECIFICATION Spec
CONSTANTS
  HMids <- OneMid
  VMids <- OneMid
  Screen <- SmallScreen
  SpawnX <- SmallSpawn
  SpawnY <- SmallSpawn
  MaxCars = 4
  NoCar = NoCar
  NoIntersection = NoIntersection
  TurnCount = 2
  StartStreet <- OpposingStreets
  StartPos <- OpposingPlaces
  MaxThrough = 1
INVARIANTS TypeOK ListedOnce
PROPERTIES TurnStartsClean
