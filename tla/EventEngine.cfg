SPECIFICATION FairSpec
CONSTANTS
  Nodes = {1, 2, 3}
  cim = cim
  gpu = gpu
  Mem = mem
  Serial = serial
  NoUnit = none
  Units <- MCUnits
  Jobs <- AllJobs
  ByteEps = 1
INVARIANTS
  DependenciesRespected
  UnitExclusive
  StreamBytesConserved
  AchievedWithinKnee
  CriticalPathWithinLatency
  OpsLastTheirDuration
  OverlapNeverCosts
PROPERTIES
  NothingDueIsSkipped
  AcceptedCallsReturn
  ImplementsDagExecution
  StreamsWithinUnitCap
CHECK_DEADLOCK FALSE
