SPECIFICATION Spec
CONSTANTS
  HMids <- OneMid
  VMids <- OneMid
  Screen <- SmallScreen
  SpawnX <- SmallSpawn
  SpawnY <- SmallSpawn
  MaxCars = 4
  NoCar = NoCar
  NoIntersection = NoIntersection
  TurnCount = 2
  StartStreet <- MergeStreets
  StartPos <- MergePlaces
  MaxThrough = 1
INVARIANTS ClosestIsNearest
PROPERTIES NoOvertaking
