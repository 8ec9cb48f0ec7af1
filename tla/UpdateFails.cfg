SPECIFICATION Spec
CONSTANTS
  Outputs = {"R1", "R2"}
  PrepTimeout = 2
  ServiceTimeout = 2
  TestMax = 2
  MaxTries = 2
  MaxResets = 0
PROPERTY ControlResumes
CHECK_DEADLOCK FALSE
