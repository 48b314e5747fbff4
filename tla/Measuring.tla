------------------------------ MODULE Measuring ------------------------------
(***************************************************************************)
(* Measurements one after the other, as evidence comes in: the scores that  *)
(* are aggregated, an issuer at a time; the receipts of an agent; and what  *)
(* attestors hand over about it.                                            *)
(***************************************************************************)
EXTENDS Measurement

CONSTANTS
  Signals,      \* what an issuer may give: sequences of scores with their ages
  Receipts,     \* the receipts there may be
  Attestors,    \* the attestors there may be
  FurtherAges   \* the ages of one receipt more

\* What aggregateTrust is given; a score is at most 1.
Signal == [issuer: Sources, score: 0..20, age: Int]

ASSUME MeasuringAssumption ==
  /\ Signals \subseteq Seq(Signal)
  /\ Receipts \subseteq ExecutionReceipt
  /\ Attestors \subseteq Attestor
  /\ FurtherAges \subseteq Int

VARIABLE measured   \* the evidence so far

MeasuringInit == measured = [signals |-> <<>>, receipts |-> <<>>, attestors |-> <<>>]

Give(s) == measured' = [measured EXCEPT !.signals = @ \o s]

Act(r) == measured' = [measured EXCEPT !.receipts = Append(@, r)]

Vouch(t) == measured' = [measured EXCEPT !.attestors = Append(@, t)]

MeasuringNext ==
  \/ \E s \in Signals : Give(s)
  \/ \E r \in Receipts : Act(r)
  \/ \E t \in Attestors : Vouch(t)

MeasuringSpec == MeasuringInit /\ [][MeasuringNext]_measured

-----------------------------------------------------------------------------
(* Properties. *)

\* However the receipts are spread over the issuers, each issuer weighs what its
\* receipts weigh, up to the cap and no further; and no single receipt moves the trust
\* the wrong way.
SignalsCount ==
  measured.signals # <<>> =>
    /\ SharesAreFair(measured.signals)
    /\ BadNeverHelps(measured.signals, Sources, FurtherAges)
    /\ BetterNeverHurts(measured.signals)

\* Every measurement of trust rests on evidence that is signed and fresh, and what is
\* evidence at one severity is evidence at a laxer one.
MeasuredOnEvidence ==
  /\ \A s \in Severity : ProofEarned(s, measured.receipts, measured.attestors)
  /\ LooserProvesMore(measured.receipts, measured.attestors)
=============================================================================
