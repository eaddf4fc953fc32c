SPECIFICATION FairSpec
CONSTANTS
  NumLights = 4
  TicksPerSecond = 2
  Timers = {t1, t2, t3, t4}
  NoTimer = NoTimer
INVARIANTS TypeOK OneTimerPerYellow PairsAgree
PROPERTIES YellowLastsTwoSeconds YellowEndsRed ImplementsLightCycle
