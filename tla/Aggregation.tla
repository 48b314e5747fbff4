---------------------------- MODULE Aggregation ----------------------------
(***************************************************************************)
(* The aggregation of receipts to one trust score (aggregate.mjs), in exact *)
(* arithmetic: ages are whole half-lives, so that the weight of a receipt   *)
(* is a power of two; scores are twentieths, so that 10 is 0.5; the shares  *)
(* of the issuers are kept as multiples of one fraction.                    *)
(***************************************************************************)
EXTENDS Integers, SequencesExt, Products

CONSTANTS
  INSUFFICIENT_TRUST_DATA,   \* the answer when nothing is in the window
  Unlimited                  \* the age Infinity

ASSUME AggregationAssumption == INSUFFICIENT_TRUST_DATA \notin Int /\ Unlimited \notin Int

\* The default of max_issuer_weight, 0.40.
max_issuer_weight == [num |-> 2, den |-> 5]

Issuers(e) == {e[k].issuer : k \in DOMAIN e}

Of(e, i) == {k \in DOMAIN e : e[k].issuer = i}

Within(age, limit) == limit = Unlimited \/ age <= limit

windowReceipts(receipts, window) ==
  FlattenSeq([k \in DOMAIN receipts |-> OnlyIf(Within(receipts[k].age, window), receipts[k])])

\* In units of the weight of the oldest.
decay_weight(e) ==
  LET oldest == Max({e[k].age : k \in DOMAIN e})
  IN  [k \in DOMAIN e |-> Power(2, oldest - e[k].age)]

\* 1.5 times as much for a negative signal; doubled.
signal_weight(e) ==
  LET decayed == decay_weight(e)
  IN  [k \in DOMAIN e |-> decayed[k] * (IF e[k].score < 10 THEN 3 ELSE 2)]

issuer_raw_weight(e) ==
  LET signal == signal_weight(e)
  IN  [i \in Issuers(e) |-> SumFunctionOnSet(signal, Of(e, i))]

\* Mutant: the amplified weight makes the share of the issuer, not its score.
SumPlain(e) ==
  LET raw == issuer_raw_weight(e)
      decayed == decay_weight(e)
      plain == [k \in DOMAIN e |-> e[k].score * decayed[k]]
  IN  [i \in Issuers(e) |-> (raw[i] * SumFunctionOnSet(plain, Of(e, i)))
                              \div SumFunctionOnSet(decayed, Of(e, i))]

weightedSum(e) ==
  LET signal == signal_weight(e)
      scored == [k \in DOMAIN e |-> e[k].score * signal[k]]
  IN  [i \in Issuers(e) |-> SumFunctionOnSet(scored, Of(e, i))]

\* A cap below 1/n cannot be kept by n issuers.
effectiveCap(n) ==
  IF n * max_issuer_weight.num < max_issuer_weight.den THEN [num |-> 1, den |-> n]
  ELSE max_issuer_weight

\* Those over the cap when the issuers in "capped" hold it and the others share the
\* rest in proportion to their weights.
Over(raw, cap, capped) ==
  LET free == DOMAIN raw \ capped
  IN  {i \in free : raw[i] * (cap.den - Cardinality(capped) * cap.num)
                      > cap.num * SumFunctionOnSet(raw, free)}

\* Mutant: the excess is shared out once.
CappedOnce(raw, cap) == Over(raw, cap, {})

\* The passes of the water-fill.
Capped(raw, cap) ==
  LET n == Cardinality(DOMAIN raw)
      pass[k \in 0..(n + 1)] == IF k = 0 THEN {} ELSE pass[k - 1] \cup Over(raw, cap, pass[k - 1])
  IN  pass[n + 1]

\* The weight of each issuer, as multiples of 1 / whole.
Weights(raw) ==
  LET cap    == effectiveCap(Cardinality(DOMAIN raw))
      capped == Capped(raw, cap)
      free   == SumFunctionOnSet(raw, DOMAIN raw \ capped)
      left   == cap.den - Cardinality(capped) * cap.num
  IN  [share |-> [i \in DOMAIN raw |-> IF i \in capped THEN cap.num * free ELSE raw[i] * left],
       whole |-> cap.den * free]

\* A quotient of twentieths in thousandths, without a product larger than either; at
\* least 0 and at most 1.
Thousandths(score, unit) ==
  LET part == 50 * (score \div unit) + (50 * (score % unit)) \div unit
  IN  IF part < 0 THEN 0 ELSE IF part > 1000 THEN 1000 ELSE part

\* The scores of the issuers with their weights, as multiples of one fraction.
Combined(sum, raw, weight) ==
  LET part == [i \in DOMAIN raw |->
                 sum[i] * weight.share[i] * Product(raw, DOMAIN raw \ {i})]
  IN  Thousandths(SumFunctionOnSet(part, DOMAIN raw), weight.whole * Product(raw, DOMAIN raw))

\* The score of the receipts in the window, in thousandths.
aggregateTrust(receipts, window) ==
  LET e   == windowReceipts(receipts, window)
      raw == issuer_raw_weight(e)
  IN  IF e = <<>> THEN INSUFFICIENT_TRUST_DATA
      ELSE Combined(weightedSum(e), raw, Weights(raw))

-----------------------------------------------------------------------------
(* Properties of every sequence of receipts. *)

\* The shares are a whole; none exceeds the cap, and one is held below its part of
\* the weight only at the cap: the one distribution with both.
SharesAreFair(e) ==
  LET raw    == issuer_raw_weight(e)
      weight == Weights(raw)
      cap    == effectiveCap(Cardinality(DOMAIN raw))
      Room(i) == cap.num * weight.whole - cap.den * weight.share[i]
  IN  /\ SumFunction(weight.share) = weight.whole
      /\ \A i \in DOMAIN raw : Room(i) >= 0
      /\ \A i, j \in DOMAIN raw :
           weight.share[i] * raw[j] < weight.share[j] * raw[i] => Room(i) = 0

\* One more receipt of the worst score, of any issuer and age, never raises the score.
BadNeverHelps(e, issuers, ages) ==
  \A i \in issuers, a \in ages :
    aggregateTrust(Append(e, [issuer |-> i, score |-> 0, age |-> a]), Unlimited)
      <= aggregateTrust(e, Unlimited)

\* A better score on the same side of 0.5 never lowers the score.
BetterNeverHurts(e) ==
  \A k \in DOMAIN e : LET better == [e EXCEPT ![k].score = IF @ < 10 THEN 9 ELSE 20]
                      IN  aggregateTrust(e, Unlimited) <= aggregateTrust(better, Unlimited)
=============================================================================
