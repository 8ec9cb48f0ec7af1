SPECIFICATION Spec
CONSTANTS
  Params <- MCParams
  Asks <- MCAsks
  Forever = 6
  Second = 1
  SafPeriod = 2
  OutStall = 2
  MissLimit = 2
  Wdt = 3
  StormLimit = 2
PROPERTY
  TraceCoversCooling
