\* Three commands share a workspace in every order, crash and lose receipts; up to three
\* runs and three learns, or two and an edit by hand, change one manifest.
SPECIFICATION MCSpec
CONSTANTS
  r1 = r1  r2 = r2  r3 = r3  l1 = l1  l2 = l2  l3 = l3
  agent = agent  send = send  drop = drop
  Runs = {r1, r2, r3}
  None = None
  Learns = {l1, l2, l3}
  Acting = {agent}
  Deeds = {send, drop}
  Wildcard = Wildcard
  Undeclared = Undeclared
  Levels <- RunLevels
  Enough = 2
  ByHand <- Manifests
  Broken = Broken
  MaxReceipts = 3
  MaxEdits = 1
SYMMETRY Symmetry
INVARIANTS
  WorkspaceInv
  LearningInv
  LearnsInTwo
\* Every run ends.
CHECK_DEADLOCK FALSE
