SPECIFICATION FairSpec
CONSTANTS
  HMids <- OneMid
  VMids <- OneMid
  Screen <- SmallScreen
  SpawnX <- SmallSpawn
  SpawnY <- SmallSpawn
  MaxCars = 2
  NoCar = NoCar
  NoIntersection = NoIntersection
  TurnCount = 2
  StartStreet <- OpposingStreets
  StartPos <- OpposingPlaces
  MaxThrough = 1
PROPERTIES NoGridlock
