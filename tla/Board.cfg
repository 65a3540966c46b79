SPECIFICATION Spec
CONSTANTS
  Manifest <- MCManifest
  M_MAX = 256
  Chunk = 256
  MaxStarts = 2
  Torn = Torn
  Temps = {54, 55}
  ABORT_CAP = 55
  MaxBursts = 2
  MaxCaptures = 2
  NoOutput = NoOutput
  TornOut = TornOut
INVARIANTS
  NothingForgotten
  TileOfItsOwnM
  StopsAtTheCap
PROPERTIES
  Finishes
CHECK_DEADLOCK FALSE
