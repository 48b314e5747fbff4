\* One process, two requests, the clock, three grant tables, restarts.
CONSTANTS
  None = None
  author = author
  reviewer = reviewer
  change = change
  other = other
  grant = grant
  releaseGrant = releaseGrant
  first = r1
  second = r2
  Procs = {p1}
  Requests = {r1, r2}
  Changes = {change, other}
  Protected = {change}
  GrantRefs = {grant, releaseGrant}
  Reviewers = {author, reviewer}
  GrantTables <- ClockTables
  Reviews <- OnlyAll
  Author <- AuthorOf
  Inputs <- ClockInputs
  PriorTtl = 1
  AttestTtl = 1
  LookupTimeout = 1
  MaxNow = 3
  MaxCrashes = 0
SPECIFICATION TimelySpec
INVARIANT PermitBacked
PROPERTIES
  GrantHeldAtPermit
  HandlerEnds
CHECK_DEADLOCK FALSE
