\* A block or a quarantine while two tokens are about, or one token presented again
\* and again to a service that may restart.  The longest token lives 2 units, a
\* quarantined one 1; the service tolerates 1 past expiry and keeps entries for 2.
SPECIFICATION TokensSpec
CONSTANTS
  a1 = a1  d1 = d1  i1 = i1  r1 = r1
  Agents = {a1}
  Domains = {d1}
  Issuers = {i1}
  Provisioner = provisioner
  Ids = {r1}
  Body <- GoodBody
  Minimums = {None}
  Grants = {}
  Jtis = {t1, t2}
  Scores = {80}
  Window = 6
  MaxAge = 6
  MaxFuture = 0
  MaxTtl = 2
  QuarantineTtl = 1
  Ttls = {2}
  Durations = {1, None}
  Spans = {}
  IssuerSkew = 0
  MaxTime = 5
  None = None
  ServiceDomain = d1
  MinScore = 70
  DenyQuarantined = TRUE
  ReplayDetection = TRUE
  ReplayTtl = 2
  ClockTolerance = 1
  MaxLives = 1
  MaxAccepted = 3
INVARIANTS
  QuarantineReaches
  ReplaysApart
