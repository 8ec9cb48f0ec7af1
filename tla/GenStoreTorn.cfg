SPECIFICATION Spec
CONSTANTS
  Payloads <- MCPayloads
  Torn = TRUE
  MaxGen = 6
INVARIANT
  IntactCopyLeft
CHECK_DEADLOCK FALSE
