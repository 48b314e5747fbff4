\* One boundary: four calls and two restarts, or two calls with time, a power loss
\* and executions that differ from the request.
CONSTANTS
  None = None
  pay = pay
  wipe = wipe
  user = user
  goodKey = goodKey
  otherKey = otherKey
  amount = amount
  memo = memo
  Effects = {pay, wipe}
  Principals = {user}
  Keys = {goodKey, otherKey}
  Pinned = {goodKey}
  Names = {amount, memo}
  Values = {1, 2}
  Boundaries = {b1}
  Calls = {c1, c2, c3, c4}
  Requests <- MixedRequests
  Executions <- MixedExecutions
  ValidFor = 1
  Timeout = 1
  MaxNow = 3
  MaxStops = 2
  MaxPowerLosses = 1
SPECIFICATION BoundedSpec
SYMMETRY Symmetry
INVARIANTS
  IInv
  AtMostOneEffect
  EffectAuthorized
PROPERTIES
  RedeemsOnce
CHECK_DEADLOCK FALSE
