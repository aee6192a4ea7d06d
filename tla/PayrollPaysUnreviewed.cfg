SPECIFICATION PayrollSpec
CONSTANTS
  Employees = {e1}
  Workers = {w1}
  g1 = g1
  g2 = g2
  g3 = g3
  Figures = {g1, g2, g3}
  Compared <- MCCompared
  MaxVersion = 1
  Jobs = {"compute", "lock"}
  Declines = FALSE
  CanFail = FALSE
  Fines = {}
  FineWorkers = {}
  Runs = {r1}
  Scope <- MCScope
  FineScope <- MCFineScope
  Owner <- MCOwner
  Overlapping = FALSE
INVARIANTS LockedAsApproved
CHECK_DEADLOCK FALSE
