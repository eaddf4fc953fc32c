SPECIFICATION Spec
CONSTANTS
  HMids <- OneMid
  VMids <- OneMid
  Screen <- SmallScreen
  SpawnX <- SmallSpawn
  SpawnY <- SmallSpawn
  MaxCars = 5
  NoCar = NoCar
  NoIntersection = NoIntersection
  TurnCount = 2
  StartStreet <- OneStreet
  StartPos <- PlaceBeforeEdge
  MaxThrough = 2
INVARIANTS CarsNeverEmpty
