SPECIFICATION LeaveSpec
CONSTANTS
  hod = hod
  boss = boss
  l1 = l1
  l2 = l2
  e1 = e1
  Users <- MCUsers
  Steps = {1}
  Handlers = {h1, h2}
  Requests = {l1, e1}
  Kind <- MCKind
  Submitter <- MCSubmitter
  OrgAdmins = {boss}
  Unbranched = {}
  Fallback = {}
  WithSla = {l1}
  Ops = {"approve", "reject"}
  SavedChains = {}
  InitialChain <- MCChain
  Lockable = {l1}
  CanCrash = FALSE
  Days <- MCDays
  AutoApproved = {}
  RetainDays = 1
  InitialPolicy = 4
  PolicyValues = {2, 4}
  InboxOps = {}
  PaidType = TRUE
INVARIANTS ApprovedIsDeducted BalanceAddsUp
CHECK_DEADLOCK FALSE
