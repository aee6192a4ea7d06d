SPECIFICATION PayrollSpec
CONSTANTS
  Employees = {e1}
  Workers = {w1, w2}
  g1 = g1
  g2 = g2
  g3 = g3
  Figures = {g1, g2, g3}
  Compared <- MCCompared
  MaxVersion = 2
  Jobs = {"compute", "adjust", "lock"}
  Declines = FALSE
  CanFail = FALSE
  Fines = {}
  FineWorkers = {}
  Runs = {r1}
  Scope <- MCScope
  FineScope <- MCFineScope
  Owner <- MCOwner
  Overlapping = TRUE
SYMMETRY Symmetry
VIEW Unghosted
INVARIANTS PayslipTraceable HistoryHoldsSummary
PROPERTIES FrozenIsFrozen
CHECK_DEADLOCK FALSE
