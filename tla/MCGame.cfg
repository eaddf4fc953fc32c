SPECIFICATION FairGame
CONSTANTS
  HMids <- OneMid
  VMids <- OneMid
  Screen <- SmallScreen
  SpawnX <- SmallSpawn
  SpawnY <- SmallSpawn
  MaxCars = 1
  NoCar = NoCar
  NoIntersection = NoIntersection
  TurnCount = 2
  StartStreet <- OneStreet
  StartPos <- OnePlace
  MaxThrough = 1
  IntersectionArray <- OneCrossing
  TicksPerSecond = 1
  Timers = {t1, t2}
  NoTimer = NoTimer
  TappedLights = {0, 1}
INVARIANTS OppositeStreetsAgree
PROPERTIES ImplementsTraffic
