SPECIFICATION Spec
CONSTANTS
  Controls = {sp}
  Kinds = {"number", "switch"}
  Values = {0, 1}
  Risky <- MCRisky
  None = None
  Stale = 1
  Confirm = 1
  MaxDelay = 1
  BootTime = 2
  MaxSeq = 1
  MaxBoots = 1
INVARIANTS
  TypeOK
  LiveMeansFresh
PROPERTIES
  ConfirmedByDevice
  BusyEnds

