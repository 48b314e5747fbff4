\* Three scenes: receipts (2 issuers, 2 receipts, clocks up to one unit apart),
\* review (2 domains, a bad and a good receipt, two tokens), operators (one grant,
\* restarts, two tokens).
SPECIFICATION SceneSpec
CONSTANTS
  a1 = a1  a2 = a2  d1 = d1  d2 = d2  i1 = i1  r1 = r1  r2 = r2  r3 = r3  g1 = g1
  Agents = {a1, a2}
  Domains = {d1, d2}
  Issuers = {i1, a2}
  Provisioner = provisioner
  Ids = {r1, r2, r3}
  Body <- Bodies
  Minimums = {None}
  Grants = {g1}
  Jtis = {t1, t2}
  Scores = {20, 80, 95}
  Window = 2
  MaxAge = 3
  MaxFuture = 1
  MaxTtl = 2
  QuarantineTtl = 1
  Ttls = {2}
  Durations = {1, None}
  Spans = {6, 12}
  IssuerSkew = 1
  MaxTime = 5
  None = None
SYMMETRY Names
INVARIANTS
  IInv
  QuarantineShown
PROPERTIES
  LeavesQuarantine
  BlockedIsFrozen
\* The clock stops and every name is used.
CHECK_DEADLOCK FALSE
