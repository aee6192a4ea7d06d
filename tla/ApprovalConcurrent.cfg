SPECIFICATION Spec
CONSTANTS
  hod = hod
  hr = hr
  boss = boss
  r1 = r1
  r2 = r2
  Users <- MCUsers
  Steps <- MCSteps
  Handlers = {h1, h2}
  Requests = {r1}
  Kind <- MCKindLeave
  Submitter <- MCSubmitter
  OrgAdmins = {boss}
  Unbranched = {}
  Fallback = {}
  WithSla = {r1}
  Ops = {"approve", "reject", "cancel"}
  SavedChains = {}
  InitialChain <- MCChain
  Lockable = {r1}
  CanCrash = TRUE
INVARIANTS TypeOK StepsSigned ApprovedLogComplete
CHECK_DEADLOCK FALSE
