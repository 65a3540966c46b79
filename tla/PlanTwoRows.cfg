SPECIFICATION Spec
CONSTANTS
  Graphs <- MCTwoRows
  Units = {"gpu", "npu", "cpu"}
  Hosts = {"gpu", "npu"}
  Supports = {"unplaced", "gpu"}
  Modes = {"always"}
  Hints = {}
  Allots <- MCAllots
  SplitDims <- MCSplitDims
  MinSplitRows <- MCMinSplitRows
  NamePlace <- MCNamePlace
  NoDim = "whole"
  Grid = 2
  StdLengths = {2}
  StaticUnits = {"npu"}
  CimCap = 0
  CimAlign = 2
  Quantum <- MCQuantum
  Minimum <- MCMinimum
  SharedWeights <- MCSharedWeights
  ScaleMask <- MCScaleMask
  WeightBytes <- MCWeightBytes
  SyncUs <- MCSyncUs
  NoUnit = "unplaced"
PROPERTIES
  ReassignIdempotent
CHECK_DEADLOCK FALSE
