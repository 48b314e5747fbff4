---------------------------- MODULE MCTrustToken ----------------------------
(* Instances of TrustToken for TLC: an agent with one good receipt, its     *)
(* operator, and one service.                                               *)
EXTENDS TrustToken, TLC

CONSTANTS a1, d1, i1, r1

GoodBody == r1 :> [agent |-> a1, domain |-> d1, issuer |-> i1, score |-> 80]

(* Everyone is registered and the receipt has arrived.                      *)
Ready ==
  /\ now = 0
  /\ stamped = [r \in Ids |-> 0]
  /\ issuers = [i \in Issuers |-> Registration("infrastructure", None)]
  /\ agents = [a \in Agents |-> Registered]
  /\ receipts = {Stored(r) : r \in Ids}
  /\ seen = {[id |-> r, at |-> 0] : r \in Ids}
  /\ confirming = {} /\ granted = {} /\ signing = {} /\ tokens = {}
  /\ jtiCache = {} /\ life = 0 /\ accepted = {}
  /\ blockedAt = [a \in Agents |-> None]

TokensNext ==
  \/ (AgentStep \/ TokenStep \/ Tick) /\ Watch
  \/ ServiceStep

(* Either two tokens and one acceptance, or one token presented again and    *)
(* again, with a restart of the service.                                     *)
Bounded ==
  Cardinality(accepted) > 1 \/ life > 0 => Cardinality(tokens) <= 1

TokensSpec == Ready /\ [][TokensNext /\ Bounded']_allVars
=============================================================================
