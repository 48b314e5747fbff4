---------------------------- MODULE MCMeasuring ----------------------------
(* Measurements for TLC: of receipts that up to three issuers gave, two each;  *)
(* and of an agent from two pieces of evidence: a receipt of its own first.     *)
EXTENDS Measuring

Ages == [CRITICAL |-> 0, HIGH |-> 1, MEDIUM |-> 2, LOW |-> Unlimited]

Issuer == <<"x", "y", "z">>

Source == {"x", "y", "z", "pctr.effect-boundary"}

\* Score and age of the receipts to aggregate; 0 stands for none.
Marks == <<[score |-> 0, age |-> 0], [score |-> 0, age |-> 1], [score |-> 8, age |-> 0],
           [score |-> 12, age |-> 0], [score |-> 12, age |-> 1]>>

Pairs == {p \in (0..5) \X (1..5) : p[1] <= p[2]}

From(i, pair) ==
  LET given == SelectSeq(pair, LAMBDA k : k # 0)
  IN  [k \in DOMAIN given |-> [issuer |-> i] @@ Marks[given[k]]]

Given == {From(i, p) : i \in ToSet(Issuer), p \in Pairs}

NoMore(p, q) == 6 * p[1] + p[2] <= 6 * q[1] + q[2]

\* A receipt and an attestation that count, and what may be wrong with each.
Good == [pinned |-> TRUE, about |-> TRUE, verdict |-> "succeeded", issued |-> 0, executed |-> 0]

ReceiptsAsked ==
  {[Good EXCEPT !.issued = n, !.executed = n] : n \in -1..3} \cup
  {[Good EXCEPT !.executed = 1], [Good EXCEPT !.pinned = FALSE], [Good EXCEPT !.about = FALSE]} \cup
  {[Good EXCEPT !.verdict = v] : v \in {"failed", "overreach", "approval"}}

Attests == [issuer |-> "x", trusted |-> TRUE, fits |-> TRUE, revoked |-> FALSE, age |-> 0,
            left |-> 1, maxAge |-> Unset, score |-> 19, delta |-> 5]

AttestationsAsked ==
  {[Attests EXCEPT !.age = n, !.maxAge = m] : n \in -1..3, m \in {Unset, 1, 3}} \cup
  {[Attests EXCEPT !.trusted = FALSE], [Attests EXCEPT !.fits = FALSE],
   [Attests EXCEPT !.revoked = TRUE], [Attests EXCEPT !.left = 0],
   [Attests EXCEPT !.left = -1], [Attests EXCEPT !.score = Unset],
   [Attests EXCEPT !.score = 4, !.issuer = "y"]}

AttestorsAsked ==
  {[ok |-> b, attestations |-> <<>>, receipts |-> <<r>>] : b \in BOOLEAN, r \in {Good}} \cup
  {[ok |-> TRUE, attestations |-> <<>>, receipts |-> <<r>>] : r \in ReceiptsAsked} \cup
  {[ok |-> TRUE, attestations |-> <<a>>, receipts |-> <<>>] : a \in AttestationsAsked}

\* The issuers in order, none with less than the next: which is which does not matter.
InOrder(n, pair) ==
  /\ Cardinality(Issuers(measured.signals)) = n - 1
  /\ \A p \in Pairs :
       n > 1 /\ SelectSeq(measured.signals, LAMBDA s : s.issuer = Issuer[n - 1])
                  = From(Issuer[n - 1], p) => NoMore(p, pair)

\* Either scores are aggregated or an agent is measured, first from its own receipts.
MeasureNext ==
  \/ /\ measured.receipts = <<>> /\ measured.attestors = <<>>
     /\ \E n \in DOMAIN Issuer, p \in Pairs : InOrder(n, p) /\ Give(From(Issuer[n], p))
  \/ /\ measured = [signals |-> <<>>, receipts |-> <<>>, attestors |-> <<>>]
     /\ \E r \in ReceiptsAsked : Act(r)
  \/ /\ measured.signals = <<>> /\ Len(measured.receipts) + Len(measured.attestors) < 2
     /\ \E t \in AttestorsAsked : Vouch(t)
=============================================================================
