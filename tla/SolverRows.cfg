SPECIFICATION Spec
CONSTANTS
  Graphs <- MCPrefillOnly
  Units = {"gpu", "npu", "cim"}
  Hosts = {"gpu", "npu"}
  Supports = {"unplaced", "gpu"}
  Modes = {"always"}
  Hints = {}
  Allots <- MCAllots
  SplitDims <- MCSplitDims
  MinSplitRows <- MCMinSplitRows
  NamePlace <- MCNamePlace
  NoDim = "whole"
  Grid = 2
  StdLengths = {2}
  StaticUnits = {"npu"}
  CimCap = 16
  CimAlign = 2
  Quantum <- MCQuantum
  Minimum <- MCMinimum
  SharedWeights <- MCSharedWeights
  ScaleMask <- MCScaleMask
  WeightBytes <- MCWeightBytes
  SyncUs <- MCSyncUs
  NoUnit = "unplaced"
INVARIANTS
  RowSplitsOffered
CHECK_DEADLOCK FALSE
