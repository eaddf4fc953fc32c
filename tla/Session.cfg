SPECIFICATION FairSpec
CONSTANTS
  StartTime = 3
  TicksPerSecond = 3
  MaxTimers = 3
  MaxContacts = 2
  Overtime = 1
INVARIANTS TypeOK OneClock ClockIsHonest
PROPERTIES LeftoverClockStops GameEnds CollisionEndsGame
