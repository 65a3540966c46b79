SPECIFICATION Spec
CONSTANTS
  Program <- MCProgram
  Resident <- MCResident
  Late <- MCLate
  Lengths = 2
  Rejected = Rejected
  Structure <- MCStructure
  Plans <- MCPlans
  Prompts = {1, 5}
  Chunks = {1, 2, 3}
  Units = {"cim", "npu", "gpu"}
  NoPart = NoPart
INVARIANTS
  EdgesAreDataflow
  AttendsToItsPast
  CleanMeansHeld
CHECK_DEADLOCK FALSE
