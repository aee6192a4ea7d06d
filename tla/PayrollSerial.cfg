SPECIFICATION PayrollSpec
CONSTANTS
  Employees = {e1}
  Workers = {w1}
  g1 = g1
  g2 = g2
  g3 = g3
  Figures = {g1, g2, g3}
  Compared <- MCCompared
  MaxVersion = 2
  Jobs = {"compute", "recompute", "lock"}
  Declines = TRUE
  CanFail = TRUE
  Fines = {f1}
  FineWorkers = {x1}
  Runs = {r1, r2}
  Scope <- MCScope
  FineScope <- MCFineScope
  Owner <- MCOwner
  Overlapping = FALSE
SYMMETRY Symmetry
INVARIANTS PayrollTypeOK ApprovedWasReviewed VersionNamesFigures
  ProcessedRunClosed ProcessedTogether FineHasPayslip
PROPERTIES PayslipFinal
CHECK_DEADLOCK FALSE
