\* Four receipts for two requests, failing saves and two crashes in file mode;
\* and any request of the ladder twice, with any trust and cost, the grant expiring
\* before, between or after the two.
SPECIFICATION BoundedSpec
CONSTANTS
  Requests <- All
  GrantExpiry = 1
  FileMode = TRUE
  MaxLatency = 1
  MaxReceipts = 4
  MaxCrashes = 2
  MaxTime = 1
  Torn = Torn
  None = None
  Missing = Missing
  Text = Text
  NaN = NaN
INVARIANTS
  LogInv
  NeverLoosens
\* The receipts run out.
CHECK_DEADLOCK FALSE
