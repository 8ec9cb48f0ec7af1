SPECIFICATION Spec
CONSTANTS
  Configs <- MCConfigs
  Inputs <- MCInputs
  Forever = 5
INVARIANTS
  TypeOK
  FanCoversHeat
  GuardTransparent
PROPERTY
  FanContractHolds
