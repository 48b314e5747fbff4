\* Three calls on one timeline, two under way at a time, with a change of trust between
\* their steps; a live effect while agents lose and regain what a route needs, over the
\* life of an authority; calls without what their severity asks for.
SPECIFICATION SceneSpec
CONSTANTS
  a1 = a1  a2 = a2  a3 = a3
  one = one  minor = minor  dry = dry
  understated = understated  unproven = unproven  unapproved = unapproved
  Calls = {one, minor, dry, understated, unproven, unapproved}
  RequestOf <- Asks
  Agents = {a1, a2, a3}
  Delegates <- Chain
  Users = {a2, a3}
  Holders = {a1, a2, a3}
  States <- All
  Severities = {1, 2}
  High = 1
  ApprovalFrom = 2
  Required <- Trust
  MaxAge <- Evidence
  DecayPerHop = 5
  Validity = 1
  Timeout = 1
  MaxChanges = 3
  MaxTime = 3
  None = None
  WhyDepth = 8
INVARIANTS
  TimelineInv
  ReceiptsExplained
  TrustLossReaches
  AuthorityEarned
\* Every call ends and the clock stops.
CHECK_DEADLOCK FALSE
