--------------------------- MODULE RouteResponse ---------------------------
(***************************************************************************)
(* How PCTR answers a trust change (decisions.mjs): respondToChange picks   *)
(* one of nine responses for the situation an action is in.  It has two     *)
(* callers.  "pctr decide" answers for the situation as it is, and reads    *)
(* what happened before from every receipt of the action; whatIf answers    *)
(* for each receipt under a proposed policy, without any history.  Neither  *)
(* keeps an answer, nor passes the route of an earlier one: an answer is a  *)
(* function of the situation and the policy.                                *)
(*                                                                          *)
(* One action, whose situation changes between answers: the standing of the *)
(* agents, the route that is offered, the consequence and the receipts.     *)
(***************************************************************************)
EXTENDS Integers, SequencesExt

CONSTANTS
  Agents,       \* the agents of the graph
  Routes,       \* the routes, sets of agents
  Severities,   \* the severities, a set of numbers, worst last
  Consequences, \* the consequences that are previewed, see Consequence
  Policies,     \* the policies of the manifest or proposed to whatIf, see Policy
  MaxRuns,      \* bound on the receipts
  Nothing       \* no route, no limit

\* From the least to the most restrictive.
RESPONSES == <<"KEEP", "REROUTE", "CONSTRAIN", "STEP_UP", "ESCALATE",
               "THROTTLE", "SUSPEND", "DENY", "REVOKE">>

Limit == Nat \cup {Nothing}

\* What may be set: 5 failures and a batch of 25 unless the policy says, approval of
\* CRITICAL, and no other limit.
Policy == [suspendAfterFailures: Nat, maxPerWindow: [Severities -> Limit],
           escalateAtOrAbove: Limit, requireApprovalAtOrAbove: Nat,
           approvalAmount: Limit, batchLimit: Nat, constrainAmountAbove: Limit]

\* No records and no amount are nought.
Consequence == [severity: Severities, recordsAffected: Nat, financialExposure: Nat]

ASSUME ResponseAssumption ==
  /\ Routes \subseteq SUBSET Agents
  /\ Severities \subseteq Nat /\ MaxRuns \in Nat
  /\ Consequences \subseteq Consequence /\ Policies \subseteq Policy
  /\ Nothing \notin Nat \cup Routes

PROCEEDS == {"KEEP", "REROUTE", "CONSTRAIN", "THROTTLE"}

Rank(response) == CHOOSE k \in 1..Len(RESPONSES) : RESPONSES[k] = response

isMoreRestrictive(a, b) == Rank(a) > Rank(b)

VARIABLES
  agents,     \* the standing of each agent
  route,      \* the route that resolveRoute selects, or Nothing
  preview,    \* the consequence of the parameters at hand
  receipts    \* of every run of the action, its decision and its consequence

responding == <<agents, route, preview, receipts>>

Decisions == {"EXECUTION_ALLOWED", "EXECUTION_DENIED"}

\* "spent": quarantined, killed or without trust.
Standing == {"good", "stale", "spent", "revoked"}

ResponseTypeOK ==
  /\ agents \in [Agents -> Standing]
  /\ route \in Routes \cup {Nothing}
  /\ preview \in Consequences
  /\ receipts \in Seq([decision: Decisions, preview: Consequences])
  /\ Len(receipts) <= MaxRuns

ResponseInit ==
  /\ agents = [a \in Agents |-> "good"]
  /\ route \in Routes
  /\ preview \in Consequences
  /\ receipts = <<>>

-----------------------------------------------------------------------------
(* The checks, under a policy p, of a consequence c after a history h. *)

\* The agents are those of the selected route, none without a route.
Some(state) == route # Nothing /\ \E a \in route : agents[a] = state

Suspends(p, h) == Some("spent") \/ h.consecutiveFailures >= p.suspendAfterFailures

Throttles(p, c, h) ==
  LET rateLimit == p.maxPerWindow[c.severity]
  IN  rateLimit # Nothing /\ h.inWindow >= rateLimit

Escalates(p, c) == p.escalateAtOrAbove # Nothing /\ c.severity >= p.escalateAtOrAbove

\* Mutant: a threshold by amount replaces the one by severity.
ApprovalByAmount(p, c) ==
  IF p.approvalAmount # Nothing THEN c.financialExposure >= p.approvalAmount
  ELSE c.severity >= p.requireApprovalAtOrAbove

requiresApproval(p, c) ==
  \/ c.severity >= p.requireApprovalAtOrAbove
  \/ p.approvalAmount # Nothing /\ c.financialExposure >= p.approvalAmount

StepsUp(p, c) == Some("stale") \/ requiresApproval(p, c)

proposeConstraint(p, c) ==
  \/ c.recordsAffected > p.batchLimit
  \/ p.constrainAmountAbove # Nothing /\ c.financialExposure > p.constrainAmountAbove

\* Mutant: the rate is looked at after the evidence and the approval.
RespondThrottlingLast(p, c, h) ==
  IF Some("revoked") THEN "REVOKE"
  ELSE IF Suspends(p, h) THEN "SUSPEND"
  ELSE IF route = Nothing THEN IF proposeConstraint(p, c) THEN "CONSTRAIN" ELSE "DENY"
  ELSE IF Escalates(p, c) THEN "ESCALATE"
  ELSE IF StepsUp(p, c) THEN "STEP_UP"
  ELSE IF Throttles(p, c, h) THEN "THROTTLE"
  ELSE IF proposeConstraint(p, c) THEN "CONSTRAIN"
  ELSE "KEEP"

\* The checks in their order; REROUTE takes the previous route, which nobody passes.
respondToChange(p, c, h) ==
  IF Some("revoked") THEN "REVOKE"
  ELSE IF Suspends(p, h) THEN "SUSPEND"
  ELSE IF route = Nothing THEN IF proposeConstraint(p, c) THEN "CONSTRAIN" ELSE "DENY"
  ELSE IF Throttles(p, c, h) THEN "THROTTLE"
  ELSE IF Escalates(p, c) THEN "ESCALATE"
  ELSE IF StepsUp(p, c) THEN "STEP_UP"
  ELSE IF proposeConstraint(p, c) THEN "CONSTRAIN"
  ELSE "KEEP"

-----------------------------------------------------------------------------
(* The two callers. *)

\* How many receipts stand after the last that was allowed.
countTrailingFailures ==
  Cardinality({k \in 1..Len(receipts) :
    \A j \in k..Len(receipts) : receipts[j].decision # "EXECUTION_ALLOWED"})

\* Every receipt of the action counts as one of the window.
History == [consecutiveFailures |-> countTrailingFailures, inWindow |-> Len(receipts)]

NoHistory == [consecutiveFailures |-> 0, inWindow |-> 0]

Decide(p) == respondToChange(p, preview, History)

Proceeds(p, k) == respondToChange(p, receipts[k].preview, NoHistory) \in PROCEEDS

Allowed(k) == receipts[k].decision = "EXECUTION_ALLOWED"

\* The receipts, the last hundred in the code, whose run it would decide differently.
whatIf(p) ==
  [tightens |-> {k \in 1..Len(receipts) : Allowed(k) /\ ~Proceeds(p, k)},
   loosens  |-> {k \in 1..Len(receipts) : ~Allowed(k) /\ Proceeds(p, k)}]

-----------------------------------------------------------------------------
(* What happens between answers. *)

Observe(a, state) ==
  /\ agents' = [agents EXCEPT ![a] = state]
  /\ UNCHANGED <<route, preview, receipts>>

Offer(r) ==
  /\ route' = r
  /\ UNCHANGED <<agents, preview, receipts>>

Preview(c) ==
  /\ preview' = c
  /\ UNCHANGED <<agents, route, receipts>>

\* protect and simulate do not ask respondToChange.
RunOnce(decision) ==
  /\ Len(receipts) < MaxRuns
  /\ receipts' = Append(receipts, [decision |-> decision, preview |-> preview])
  /\ UNCHANGED <<agents, route, preview>>

ResponseNext ==
  \/ \E a \in Agents, state \in Standing : Observe(a, state)
  \/ \E r \in Routes \cup {Nothing} : Offer(r)
  \/ \E c \in Consequences : Preview(c)
  \/ \E decision \in Decisions : RunOnce(decision)

ResponseSpec == ResponseInit /\ [][ResponseNext]_responding

-----------------------------------------------------------------------------
(* Properties. *)

\* What each part of the situation calls for by itself.
Warranted(p) ==
  {response \in Range(RESPONSES) :
     \/ response = "REVOKE" /\ Some("revoked")
     \/ response = "SUSPEND" /\ Suspends(p, History)
     \/ response = "THROTTLE" /\ Throttles(p, preview, History)
     \/ response = "ESCALATE" /\ Escalates(p, preview)
     \/ response = "STEP_UP" /\ StepsUp(p, preview)
     \/ response = "CONSTRAIN" /\ proposeConstraint(p, preview)}

\* With a route to take, whatever was run and observed, "pctr decide" answers at least
\* as restrictively as each part of the situation calls for, under any policy.
AnswersWarranted ==
  route # Nothing =>
    \A p \in Policies : \A w \in Warranted(p) : ~isMoreRestrictive(w, Decide(p))

\* A limit is no higher than another, where Nothing sets none.
NoHigher(a, b) == b = Nothing \/ (a # Nothing /\ a <= b)

\* What makes a policy q stop no less than p: it suspends, escalates and asks for
\* approval no later.  THROTTLE proceeds and is looked at before ESCALATE and STEP_UP, so
\* q's rate limits are no lower; without a route CONSTRAIN proceeds where DENY would
\* not, so then q's bounds are no lower either.
StopsNoLess(q, p) ==
  /\ q.suspendAfterFailures <= p.suspendAfterFailures
  /\ NoHigher(q.escalateAtOrAbove, p.escalateAtOrAbove)
  /\ q.requireApprovalAtOrAbove <= p.requireApprovalAtOrAbove
  /\ NoHigher(q.approvalAmount, p.approvalAmount)
  /\ \A s \in Severities : NoHigher(p.maxPerWindow[s], q.maxPerWindow[s])
  /\ route = Nothing =>
       /\ p.batchLimit <= q.batchLimit
       /\ NoHigher(p.constrainAmountAbove, q.constrainAmountAbove)

\* Whatever was run and observed: what decide stops under a policy it stops under one
\* that sets its limits no later; and to whatIf such a policy tightens what the other
\* tightens, and loosens nothing that the other does not loosen.
StricterStops ==
  \A p, q \in Policies :
    StopsNoLess(q, p) =>
      /\ Decide(q) \in PROCEEDS => Decide(p) \in PROCEEDS
      /\ whatIf(p).tightens \subseteq whatIf(q).tightens
      /\ whatIf(q).loosens \subseteq whatIf(p).loosens
=============================================================================
