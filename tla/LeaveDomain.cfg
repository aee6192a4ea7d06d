SPECIFICATION LeaveSpec
CONSTANTS
  hod = hod
  boss = boss
  l1 = l1
  l2 = l2
  e1 = e1
  Users <- MCUsers
  Steps = {1, 2}
  Handlers = {h1}
  Requests = {l1, l2, e1}
  Kind <- MCKind
  Submitter <- MCSubmitter
  OrgAdmins = {boss}
  Unbranched = {}
  Fallback = {}
  WithSla = {}
  Ops = {"approve", "reject"}
  SavedChains <- MCSaved
  InitialChain <- MCTwoSteps
  Lockable = {}
  CanCrash = TRUE
  Days <- MCDays
  AutoApproved = {e1}
  RetainDays = 1
  InitialPolicy = 4
  PolicyValues = {}
  InboxOps = {"approve"}
  PaidType = FALSE
INVARIANTS LeaveTypeOK OnlyApprovedDeducted
CHECK_DEADLOCK FALSE
