----------------------------- MODULE TrustCalls -----------------------------
(***************************************************************************)
(* The functions that decide about trust for whoever calls them: the trust  *)
(* routing engine, the check of an isnad chain and the evaluation of a      *)
(* claim.  None keeps anything: one call is made after the other.           *)
(***************************************************************************)
EXTENDS TrustRouting, IsnadChain, TrustClaim

CONSTANTS EngineCalls, ChainCalls, ClaimCalls   \* what may be asked of each

ASSUME CallsAssumption ==
  /\ EngineCalls \subseteq [of: {"engine"}, request: Request, candidates: Seq(Candidate)]
  /\ ChainCalls \subseteq [of: {"chain"}, request: Demand, links: Seq(Link)]
  /\ ClaimCalls \subseteq [of: {"claim"}, claim: Claim, proof: Proof]

VARIABLE asked   \* the call that is answered, or None

Calls == EngineCalls \cup ChainCalls \cup ClaimCalls

CallInit == asked = None

\* A caller asks, and has its answer.
Ask == asked = None /\ asked' \in Calls

Answer == asked # None /\ asked' = None

CallNext == Ask \/ Answer

CallSpec == CallInit /\ [][CallNext]_asked

-----------------------------------------------------------------------------
(* Properties. *)

\* require_all and domain_hard_deny_overrides_all never answer more loosely than the
\* strategies they add a demand to, a revoked candidate denies whatever its rank and
\* whatever the strategy, and more trust in a single path never makes its answer more
\* restrictive.
DecisionsFollowTrust ==
  asked # None /\ asked.of = "engine" =>
    /\ DemandsOnlyTighten(asked.request, asked.candidates)
    /\ RevokedDenies(asked.request, asked.candidates)
    /\ TrustOnlyHelps(asked.request, asked.candidates)

\* Trust that is handed on attenuates, and a chain is as sound as its parts.
ChainsAttenuate ==
  asked # None /\ asked.of = "chain" =>
    /\ CutsAnywhere(asked.request, asked.links)
    /\ Attenuates(asked.request, asked.links)

\* Nothing but a new claim of no half-life becomes valid with time.
ClaimsOnlyEnd ==
  asked # None /\ asked.of = "claim" => ValidityEnds(asked.claim, asked.proof)
=============================================================================
