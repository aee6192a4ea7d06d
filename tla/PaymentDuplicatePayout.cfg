SPECIFICATION PaymentSpec
CONSTANTS
  Payslips = {s1}
  Clerks = {c1}
  MaxPayments = 2
  MaxPayouts = 2
  MaxAttempts = 2
  MaxStalls = 0
  AnswersLost = FALSE
  QueueFails = FALSE
  Commits = {FALSE}
INVARIANT OnePayoutPerPayment
CHECK_DEADLOCK FALSE
