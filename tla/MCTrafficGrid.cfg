SPECIFICATION FairSpec
CONSTANTS
  HMids <- GameMids
  VMids <- GameMids
  Screen <- GameScreen
  SpawnX <- GameSpawnX
  SpawnY <- GameSpawnY
  MaxCars = 1
  NoCar = NoCar
  NoIntersection = NoIntersection
  TurnCount = 5
  StartStreet <- GameStreet
  StartPos <- GamePlace
  MaxThrough = 1
INVARIANTS TurnsOnceAtEach TurnsSuffice
PROPERTIES EveryCarGetsOut
