-------------------------- MODULE MCTrustAuthority --------------------------
(* Instances of TrustAuthority for TLC; times are in units of a few minutes. *)
(* What relates receipts and their identifiers, what quarantines, and what   *)
(* operators do are scenes of their own: each limits what the others vary.   *)
EXTENDS TrustAuthority, TLC

CONSTANTS a1, a2, d1, d2, i1, r1, r2, r3, g1

Says(a, d, i, score) == [agent |-> a, domain |-> d, issuer |-> i, score |-> score]

(* A bad receipt of the peer a2 about a1, one of an issuer about a2, and a   *)
(* good one about a1 in another domain.                                      *)
Bodies == r1 :> Says(a1, d1, a2, 20) @@ r2 :> Says(a2, d1, i1, 95)
       @@ r3 :> Says(a1, d2, i1, 80)

(* Nothing tells the identifiers of tokens apart but that they differ.       *)
Names == Permutations(Jtis)

VARIABLE scene   \* which of the three

(* The authority once its operator has registered everyone, with a2 a peer  *)
(* that starts as one without a confirmation service.                      *)
AllRegistered ==
  /\ now = 0
  /\ stamped = [r \in Ids |-> None]
  /\ issuers = [i \in Issuers |->
                  Registration(IF i \in Agents THEN "peer" ELSE "infrastructure", None)]
  /\ agents = [a \in Agents |-> Registered]
  /\ receipts = {} /\ seen = {} /\ confirming = {} /\ granted = {}
  /\ signing = {} /\ tokens = {}

SceneInit == \/ scene \in {"receipts", "review"} /\ AllRegistered
             \/ scene = "operators" /\ Init

Unused(ids) == \A r \in ids : stamped'[r] = None

(* Retries, late confirmations, pruning and clocks that differ; the operator *)
(* changes no more than the peer's confirmation service.                     *)
InReceipts ==
  /\ Unused({r3}) /\ UNCHANGED <<agents, granted, tokens>>
  /\ \A i \in Issuers :
       issuers'[i] # issuers[i] => i = a2 /\ issuers'[i].kind # "infrastructure"

(* Scores, quarantines and blocks of a1.  The receipts are dated 0 and arrive *)
(* at any time; all of this is inside one window.                            *)
InReview ==
  /\ Unused({r2}) /\ UNCHANGED <<issuers, granted>> /\ agents'[a2] = agents[a2]
  /\ \A r \in Ids : stamped'[r] \in {None, 0}
  /\ receipts \subseteq receipts' /\ now' <= 2

(* Every operation but the issuers', for a1 in one domain.                   *)
InOperators ==
  /\ UNCHANGED stamped /\ agents'[a2] = agents[a2] /\ issuers'[a2] = issuers[a2]
  /\ \A r \in receipts' : r.agent = a1 /\ r.domain = d1 /\ r.score \in {20, 80}
  /\ now' <= 2 /\ Cardinality(signing') <= 1

SceneNext ==
  /\ Next
  /\ scene = "receipts" => InReceipts
  /\ scene = "review" => InReview
  /\ scene = "operators" => InOperators
  /\ UNCHANGED scene

SceneSpec == SceneInit /\ [][SceneNext]_<<vars, scene>>
=============================================================================
