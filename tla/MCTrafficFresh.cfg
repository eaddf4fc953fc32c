SPECIFICATION Spec
CONSTANTS
  HMids <- OneMid
  VMids <- OneMid
  Screen <- SmallScreen
  SpawnX <- SmallSpawn
  SpawnY <- SmallSpawn
  MaxCars = 3
  NoCar = NoCar
  NoIntersection = NoIntersection
  TurnCount = 2
  StartStreet <- OneStreet
  StartPos <- OnePlace
  MaxThrough = 2
INVARIANTS CompletedUnlessWaiting
