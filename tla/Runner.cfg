SPECIFICATION Spec
CONSTANTS
  Profiles <- MCProfiles
  LegacyProfile = "rk3588_cim"
  TopologyBW <- MCTopologyBW
  PeakBW <- MCPeakBW
  Values <- MCValues
  MaxEdits = 1
  Footprint_GB = 8
  Times = {10, 11, 12}
  Eps = 1
  None = None
INVARIANTS
  LabelTruthful
  AcceptedRuns
  ChunksReported
CHECK_DEADLOCK FALSE
