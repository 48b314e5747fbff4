\* Three calls race around a block, the expiry of their tokens (lifetimes 2 and
\* 3, threshold 1) and two invalidations; two of them may attest another agent.
SPECIFICATION MCSpec
SYMMETRY CallSymmetry
CONSTANTS
  Calls = {c1, c2, c3}
  Domains = {d1, d2}
  home = d1
  Ttls = {2, 3}
  RefreshThreshold = 1
  MaxInvalidations = 2
  MaxTime = 4
  None = None
INVARIANTS
  RightTokens
  BlockOutlived
  PeerInv
\* Calls are made once and the clock stops.
CHECK_DEADLOCK FALSE
