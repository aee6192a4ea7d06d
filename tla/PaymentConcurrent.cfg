SPECIFICATION PaymentSpec
CONSTANTS
  Payslips = {s1}
  Clerks = {c1, c2}
  MaxPayments = 2
  MaxPayouts = 2
  MaxAttempts = 1
  MaxStalls = 1
  AnswersLost = TRUE
  QueueFails = TRUE
  Commits = {TRUE, FALSE}
SYMMETRY ClerkSymmetry
VIEW PaymentView
INVARIANTS PaymentTypeOK OneActivePayment PaidHasMoney
PROPERTIES SentOnlyWhilePending
CHECK_DEADLOCK FALSE
