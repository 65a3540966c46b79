SPECIFICATION Spec
CONSTANTS
  CimCap = 21
  CimAlign = 2
  Units <- MCUnits
  Ops <- MCOps
  Savings = {0, 2}
  Times = {10, 11, 13, 15}
  Ests = {5, 6}
  NoEst = 99
  Eps = 1
  NoPlan = NoPlan
INVARIANTS
  WithinBudget
  OfferedExactly
  DensestFirst
  ReportedIsBest
CHECK_DEADLOCK FALSE
