SPECIFICATION Spec
CONSTANTS
  PowerConfigs <- Ssr
  InterlockOf <- MCInterlockOf
  Demands <- MCDemands
  Forever = 2
INVARIANT
  SmallerLeads
