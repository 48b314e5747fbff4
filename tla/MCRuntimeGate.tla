--------------------------- MODULE MCRuntimeGate ---------------------------
(* An instance of RuntimeGate for TLC.  Either two requests fill the log    *)
(* while saves fail and the process ends, or a request of the ladder is     *)
(* made and made again with another trust and cost while the grant expires. *)
EXTENDS RuntimeGate

Deploy(trust) == [wellFormed |-> TRUE, grant |-> "seeded", trust |-> trust,
                  factors |-> {"mutation"}, inScope |-> TRUE, cost |-> Missing,
                  costCenter |-> "unknown"]

Trusts == {Missing, Text, 0, 39, 40, 64, 65, 84, 85}

\* Each rung of the ladder is met by a request of some trust and cost.
Ladder ==
  {[Deploy(t) EXCEPT !.cost = c, !.costCenter = p] :
      t \in Trusts, c \in {Missing, Text, 100, 101, 500, 501}, p \in {"unknown", "named"}}
  \cup
  {[Deploy(t) EXCEPT !.factors = f, !.inScope = s, !.cost = c] :
      t \in Trusts, s \in BOOLEAN, c \in {Text, 501},
      f \in {{}, {"mutation", "secrets"}, {"mythos", "production"}, RiskFactors}}
  \cup {[Deploy(90) EXCEPT !.wellFormed = FALSE]}
  \cup {[Deploy(t) EXCEPT !.grant = g] : t \in {0, 90}, g \in {"none", "unknown"}}

Two == {Deploy(90), Deploy(50)}

All == Ladder \cup Two

OnFile == IF file = Torn THEN <<>> ELSE file

Stored ==
  /\ now = 0
  /\ \A log \in {receipts, OnFile} : \A k \in DOMAIN log : log[k].request \in Two

\* The second request differs from the first in its trust and cost alone; no
\* save gets to the file.
Laddered ==
  /\ issued <= 2 /\ crashes = 0 /\ file = <<>>
  /\ \A k \in DOMAIN receipts :
       /\ receipts[k].latency = 0
       /\ receipts[k].request = [receipts[1].request EXCEPT
            !.trust = receipts[k].request.trust, !.cost = receipts[k].request.cost]

BoundedNext == \/ Stored /\ Next /\ Stored'
               \/ issued < 2 /\ Laddered /\ Next /\ Laddered'

BoundedSpec == Init /\ [][BoundedNext]_vars
=============================================================================
