\* Two processes, three requests, one crash or power loss, no clock.
CONSTANTS
  None = None
  author = author
  reviewer = reviewer
  change = change
  other = other
  grant = grant
  releaseGrant = releaseGrant
  first = r1
  second = r2
  Procs = {p1, p2}
  Requests = {r1, r2, r3}
  Changes = {change}
  Protected = {change}
  GrantRefs = {grant}
  Reviewers = {author, reviewer}
  GrantTables <- RaceTables
  Reviews <- NoneOrAll
  Author <- AuthorOf
  Inputs <- RaceInputs
  PriorTtl = 1
  AttestTtl = 1
  LookupTimeout = 1
  MaxNow = 0
  MaxCrashes = 1
SPECIFICATION Spec
SYMMETRY Symmetry
INVARIANTS
  IInv
  AtMostOnePermit
  LedgerInv
PROPERTIES
  RedeemsOnce
CHECK_DEADLOCK FALSE
