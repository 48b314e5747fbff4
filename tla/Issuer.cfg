\* Four receipts, batches of three, a timer of two units and a process that may
\* end, under the fairness of signatures and timers.
SPECIFICATION FairQueueSpec
CONSTANTS
  Receipts = {r1, r2, r3, r4}
  FlushSize = 3
  FlushInterval = 2
  BatchLimit = 4
  MayStop = TRUE
  NoTimer = NoTimer
INVARIANTS
  QueueInv
PROPERTIES
  QueuedLeaves
\* Every receipt ends.
CHECK_DEADLOCK FALSE
