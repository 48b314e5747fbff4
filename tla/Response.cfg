\* The answers while every part of the situation changes, under any of the policies.  Receipts of up to
\* three issuers aggregated; an agent measured from every kind of evidence.
SPECIFICATION MCSpec
CONSTANTS
  a1 = a1  a2 = a2
  Agents = {a1, a2}
  Routes <- Single
  Severities = {1, 2, 3}
  Consequences <- Previewed
  Policies <- Tried
  MaxRuns = 2
  Nothing = Nothing
  INSUFFICIENT_TRUST_DATA = INSUFFICIENT_TRUST_DATA
  Unlimited = Unlimited
  Unset = Unset
  MAX_EVIDENCE_AGE <- Ages
  Sources <- Source
  Signals <- Given
  Receipts <- ReceiptsAsked
  Attestors <- AttestorsAsked
  FurtherAges = {0, 1}
INVARIANTS
  AnswersWarranted
  StricterStops
  SignalsCount
  MeasuredOnEvidence
