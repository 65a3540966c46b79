SPECIFICATION Spec
CONSTANTS
  Graphs <- MCPrefillOnly
  Units = {"gpu", "npu"}
  Hosts = {"gpu"}
  Supports = {"gpu"}
  Modes = {"always"}
  Hints = {}
  Allots <- MCAllots
  SplitDims <- MCHeteroInferDims
  MinSplitRows <- MCMinSplitRows
  NamePlace <- MCNamePlace
  NoDim = "whole"
  Grid = 2
  StdLengths = {2}
  StaticUnits = {"npu"}
  CimCap = 0
  CimAlign = 2
  Quantum <- MCQuantum
  Minimum <- MCMinimum
  SharedWeights <- MCSharedWeights
  ScaleMask <- MCScaleMask
  WeightBytes <- MCWeightBytes
  SyncUs <- MCSyncUs
  NoUnit = "unplaced"
INVARIANTS
  PricedAsCharged
CHECK_DEADLOCK FALSE
