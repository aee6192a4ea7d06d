SPECIFICATION FairSpec
CONSTANTS
  hod = hod
  hr = hr
  boss = boss
  r1 = r1
  r2 = r2
  Users <- MCUsers
  Steps <- MCSteps
  Handlers = {h1}
  Requests = {r1, r2}
  Kind <- MCKindTwo
  Submitter <- MCSubmitter
  OrgAdmins = {boss}
  Unbranched = {}
  Fallback = {}
  WithSla = {}
  Ops = {"approve", "reject", "cancel"}
  SavedChains <- MCSaved
  InitialChain <- MCChain
  Lockable = {r1}
  CanCrash = FALSE
INVARIANTS NoDuplicateDecision EntityMirrorsRequest EffectFollowsApproval
PROPERTIES ResolvedIsFinal KeepsPromise DecisionReachesEntity
CHECK_DEADLOCK FALSE
