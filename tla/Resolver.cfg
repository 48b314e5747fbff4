\* Requests, revocations and attestations in every order, and a restart.  Every call of the
\* engine with up to two candidates, of the check of a chain with up to three links, and of
\* the evaluation of a claim.
SPECIFICATION MCSpec
CONSTANTS
  r1 = r1  r2 = r2  r3 = r3  s1 = s1  s2 = s2
  build = build  deploy = deploy  write = write  shell = shell
  Strategies = {"require_all", "require_any", "freshest_path_wins", "supervisor_override", "domain_hard_deny_overrides_all", "strongest_path_wins"}
  Actions = {build, deploy, write, shell}
  stepUpActions = {deploy}
  throttleActions = {write}
  constrainActions = {shell}
  highRiskActions = {deploy}
  Scores = {30, 60, 70, 90}
  None = None
  Unit = 2
  Parties = {1, 2, 3}
  AnyRoot = AnyRoot
  MaxScore = 3
  Horizon = 3
  HalfLives = {0, 2}
  Halved <- Left
  Nothing = Nothing
  EngineCalls <- Routings
  ChainCalls <- Chains
  ClaimCalls <- Claims
  Requests = {r1, r2, r3}
  RequestOf <- Asks
  SubjectOf <- Subject
  CandidateOf <- Paths
  Subjects = {s1, s2}
  MaxRestarts = 1
INVARIANTS
  ServiceInv
  DecisionsFollowTrust
  ChainsAttenuate
  ClaimsOnlyEnd
