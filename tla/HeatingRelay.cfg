SPECIFICATION Spec
CONSTANTS
  PowerConfigs <- Relay
  InterlockOf <- MCInterlockOf
  Demands <- MCDemands
  Forever = 3
PROPERTY
  OneLoadAtATime
