SPECIFICATION Spec
CONSTANTS
  Payloads <- MCPayloads
  Torn = FALSE
  MaxGen = 6
INVARIANTS
  TypeOK
  NothingKeptIsLost
  GenerationsAreUnique
CHECK_DEADLOCK FALSE
