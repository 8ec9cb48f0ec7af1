SPECIFICATION ConsoleSpec
CONSTANTS
  Networks = {n1}
  NoNet = NoNet
  None = None
  Empty = Empty
  Statics = {"off", "good", "bad"}
  ConnectTimeout = 1
  RetrySta = 1
  RetryAp = 2
  Handover = 1
  MaxRequests = 3
  MaxDrops = 1
  MaxBoots = 1
  WifiRequests = 2
  WifiBoots = 1
  WifiAsked = 1
  WifiEvents = 2
  Fields <- MCFields
  Secrets <- MCSecrets
  Remote <- MCRemote
  Stored = {"mqtt"}
  Values = {0, 1}
  Configs <- MCConfigs
  MaxRemote = 1
  MaxSaves = 2
  WriteEvents = 2
  Names = {"a", "b"}
  ListChanges = 2
  ListErrors = 1
  ListOpen = 2
  ListEvents = 2
  DayLen = 3
  WeekLen = 2
  Lists <- MCLists
  MaxTime = 12
  Windows = {5, 60}
  FeedOpen = 2
  FeedChanges = 1
  FeedErrors = 1
  FeedAsked = 1
  FeedEvents = 1
  Outputs = {"R1", "R2", "VF"}
  PrepTimeout = 2
  ServiceTimeout = 2
  TestMax = 2
  MaxTries = 3
  MaxResets = 1
INVARIANTS
  TypeOK
  ResultIsPhase
  ReleaseInHandover
  CleanMeansSaved
  AckedIsShown
  WeekShowsRuns
  NextChangeIsNext
  WritesAtRest
  TestsInService
PROPERTIES
  ImplementsPromise
  SuccessIsNew
  RequestsAreTried
  SaveKeepsOthers
  RowIsItsProgram
  WayIn
  ListCatchesUp
  WindowIsDrawn
  AlarmsAreShown
  SessionIsNoted
  PrepEnds
CHECK_DEADLOCK FALSE
