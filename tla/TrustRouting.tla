---------------------------- MODULE TrustRouting ----------------------------
(***************************************************************************)
(* The trust routing engine (packages/trust-routing-engine): resolve picks  *)
(* one of the candidate paths of a request and answers PERMIT, CONSTRAIN,   *)
(* THROTTLE, STEP_UP or DENY.                                               *)
(*                                                                          *)
(* A candidate's score is what computeTrustScoreWithDecay makes of it, in   *)
(* hundredths; the checks of its freshness, scope, environment, delegation  *)
(* and hops are one flag each, computed from the request.                   *)
(***************************************************************************)
EXTENDS Integers, SequencesExt

CONSTANTS
  Strategies,       \* the strategies, of those below
  Actions,          \* the actions
  stepUpActions,    \* the lists of the policy
  throttleActions,
  constrainActions,
  highRiskActions,
  Scores,           \* the scores of candidates
  None              \* no path

RoutingStrategies == {"require_all", "require_any", "freshest_path_wins",
                      "supervisor_override", "domain_hard_deny_overrides_all",
                      "strongest_path_wins"}

ASSUME RoutingAssumption ==
  /\ Strategies \subseteq RoutingStrategies
  /\ stepUpActions \cup throttleActions \cup constrainActions \cup highRiskActions \subseteq Actions
  /\ Scores \subseteq 0..100

\* A request: "bound" if its binding hash is the one of its parts, "hashed" if its
\* params hash is one, "served" if the resolver is there, "provable" if the proof
\* engine is there or not needed, "late" if the latency budget is exceeded.
Request == [action: Actions, bound: BOOLEAN, hashed: BOOLEAN, served: BOOLEAN,
            provable: BOOLEAN, late: BOOLEAN]

\* "fits": fresh, in scope, in the environment and within delegation and hops.
Candidate == [issuer: {"behavioral", "supervisor", "domain"}, score: Scores, minimum: 0..100,
              age: Nat, fits: BOOLEAN, revoked: BOOLEAN, stepUp: BOOLEAN,
              refuses: BOOLEAN, grant: BOOLEAN]

trustZone(score) ==
  IF score >= 85 THEN "active" ELSE IF score >= 65 THEN "degraded"
  ELSE IF score >= 40 THEN "warning" ELSE "critical"

Valid(cs) == {k \in 1..Len(cs) : cs[k].fits /\ cs[k].score >= cs[k].minimum}

\* The sorts are stable: of equals the first.
First(ks) == CHOOSE k \in ks : \A j \in ks : k <= j

Strongest(cs) ==
  First({k \in Valid(cs) : \A j \in Valid(cs) : cs[j].score <= cs[k].score})

Freshest(cs) == First({k \in Valid(cs) : \A j \in Valid(cs) : cs[k].age <= cs[j].age})

Supervisors(cs) == {k \in Valid(cs) : cs[k].issuer = "supervisor"}

\* Why a strategy denies with valid candidates.
Withheld(strategy, cs) ==
  \/ strategy = "require_all" /\ Valid(cs) # 1..Len(cs)
  \/ /\ strategy = "domain_hard_deny_overrides_all"
     /\ \E k \in Valid(cs) : cs[k].issuer = "domain" /\ cs[k].refuses

Selected(strategy, cs) ==
  IF strategy = "freshest_path_wins" THEN Freshest(cs)
  ELSE IF strategy = "supervisor_override" /\ Supervisors(cs) # {} THEN First(Supervisors(cs))
  ELSE Strongest(cs)

\* Mutant: the throttle is decided after the step-up and replaces it.
TermsThrottlingLast(q, c) ==
  IF q.action \in throttleActions \/ trustZone(c.score) = "degraded" THEN "THROTTLE"
  ELSE IF trustZone(c.score) = "warning" \/ q.action \in stepUpActions \/ c.stepUp THEN "STEP_UP"
  ELSE IF q.action \in constrainActions THEN "CONSTRAIN"
  ELSE "PERMIT"

\* On which terms a selected path lets a request execute.
Terms(q, c) ==
  IF trustZone(c.score) = "warning" \/ q.action \in stepUpActions \/ c.stepUp THEN "STEP_UP"
  ELSE IF q.action \in throttleActions \/ trustZone(c.score) = "degraded" THEN "THROTTLE"
  ELSE IF q.action \in constrainActions THEN "CONSTRAIN"
  ELSE "PERMIT"

Denied == [decision |-> "DENY", path |-> None]

\* Mutant: one revoked path among several is passed over.
resolveNotRevoked(strategy, q, cs) ==
  LET standing == SelectSeq(cs, LAMBDA c : ~c.revoked) IN
  IF \/ ~q.served \/ ~q.provable \/ ~q.bound \/ ~q.hashed
     \/ Valid(standing) = {} \/ Withheld(strategy, standing)
  THEN Denied
  ELSE LET k == Selected(strategy, standing) IN
       IF trustZone(standing[k].score) = "critical" \/ (q.late /\ q.action \in highRiskActions)
       THEN Denied ELSE [decision |-> Terms(q, standing[k]), path |-> k]

resolveTrustRoute(strategy, q, cs) ==
  IF \/ ~q.served \/ ~q.provable \/ ~q.bound \/ ~q.hashed
     \/ \E k \in 1..Len(cs) : cs[k].revoked
     \/ Valid(cs) = {} \/ Withheld(strategy, cs)
  THEN Denied
  ELSE LET k == Selected(strategy, cs) IN
       IF trustZone(cs[k].score) = "critical" \/ (q.late /\ q.action \in highRiskActions)
       THEN Denied ELSE [decision |-> Terms(q, cs[k]), path |-> k]

-----------------------------------------------------------------------------
(* Properties, of a request q and candidates cs. *)

Decision(strategy, q, cs) == resolveTrustRoute(strategy, q, cs).decision

Restriction(decision) ==
  CHOOSE k \in 1..5 : <<"PERMIT", "CONSTRAIN", "THROTTLE", "STEP_UP", "DENY">>[k] = decision

LooserThan(d, e) == Restriction(d) < Restriction(e)

\* The strategies that demand more are never looser than the ones they add to.
DemandsOnlyTighten(q, cs) ==
  LET by(strategy) == Decision(strategy, q, cs) IN
  /\ ~LooserThan(by("require_all"), by("require_any"))
  /\ ~LooserThan(by("domain_hard_deny_overrides_all"), by("strongest_path_wins"))

\* Where a path is decided for by itself, more trust never costs a request anything,
\* and less trust never gains it anything.
TrustOnlyHelps(q, cs) ==
  \A s \in Strategies, score \in Scores :
    Len(cs) = 1 /\ score >= cs[1].score =>
      ~LooserThan(Decision(s, q, cs), Decision(s, q, <<[cs[1] EXCEPT !.score = score]>>))

\* A revoked path denies whatever other paths there are and however they are ranked.
RevokedDenies(q, cs) ==
  (\E k \in 1..Len(cs) : cs[k].revoked) =>
    \A s \in Strategies : Decision(s, q, cs) = "DENY"
=============================================================================
