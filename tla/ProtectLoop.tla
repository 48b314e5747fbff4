---------------------------- MODULE ProtectLoop ----------------------------
(***************************************************************************)
(* The protected execution loop of PCTR (protect.mjs): preview, route,     *)
(* authorize, enforce, receipt.  Calls that share a timeline run at once   *)
(* and interleave where protect awaits: the measurement of live            *)
(* consequential effects, the effect boundary and the effect itself.  The  *)
(* agents' trust changes meanwhile.                                        *)
(*                                                                         *)
(* All calls ask for one action.  A route is a delegation path from the    *)
(* principal to an agent that uses the tool of the action; trust is in     *)
(* hundredths.  An event of the timeline is known by its place in it.      *)
(***************************************************************************)
EXTENDS Integers, SequencesExt

CONSTANTS
  Calls,         \* the calls of protect
  RequestOf,     \* what each call asks, see Request
  Agents,        \* the agents of the graph
  Delegates,     \* who delegates to whom
  Users,         \* the agents that use the tool
  Holders,       \* the agents that hold authority for the action
  States,        \* the trust states an agent may be in, see AgentState
  Severities,    \* the severities, a set of numbers, worst last
  High,          \* from this severity on live effects need signed evidence
  ApprovalFrom,  \* from this severity on a human approves
  Required,      \* TRUST_REQUIRED
  MaxAge,        \* MAX_EVIDENCE_AGE_SECONDS
  DecayPerHop,   \* what every delegation takes from the trust of a route
  Validity,      \* 300 s: how long an authority is valid
  Timeout,       \* 5 s: how long a decision of the boundary may travel
  MaxChanges,    \* bound on the changes of trust
  MaxTime,       \* bound on the clock
  None           \* no route, no time

AgentState == [trust: Nat, age: Nat, available: BOOLEAN]

\* The conservative severity, the one the caller reports, whether an effect
\* is to be executed, and whether evidence and an approval come along.
Request == [baseline: Severities, reported: Severities, live: BOOLEAN,
            evidence: BOOLEAN, approval: BOOLEAN]

ASSUME LoopAssumption ==
  /\ Severities \subseteq Nat
  /\ {High, ApprovalFrom, DecayPerHop, Validity, Timeout, MaxChanges, MaxTime} \subseteq Nat
  /\ RequestOf \in [Calls -> Request]
  /\ Delegates \subseteq Agents \X Agents
  /\ Users \cup Holders \subseteq Agents
  /\ States \subseteq AgentState
  /\ {Required, MaxAge} \subseteq [Severities -> Nat]
  /\ None \notin Nat

VARIABLES
  now,        \* the time
  agents,     \* the trust state of each agent
  timeline,   \* the events recorded so far
  calls,      \* how far each call is
  effects,    \* the effects that were executed (history)
  unfit,      \* since when each agent fails each severity, or None (history)
  changes     \* how often trust changed

vars == <<now, agents, timeline, calls, effects, unfit, changes>>

-----------------------------------------------------------------------------
(* Routes. *)

Entry(a) == \A b \in Agents : <<b, a>> \notin Delegates

\* pathsToAction, from the principal on.
Routes ==
  {s \in SeqOf(Agents, Cardinality(Agents)) :
     /\ s # <<>> /\ IsInjective(s)
     /\ Entry(Head(s)) /\ Last(s) \in Users
     /\ \A k \in 1..(Len(s) - 1) : <<s[k], s[k + 1]>> \in Delegates}

On(route) == {route[k] : k \in 1..Len(route)}

evidenceStale(a, severity) == agents[a].age > MaxAge[severity]

effectiveTrust(route) ==
  LET weakest == CHOOSE t \in {agents[a].trust : a \in On(route)} :
                   \A a \in On(route) : t <= agents[a].trust
  IN  weakest - DecayPerHop * (Len(route) - 1)

\* Mutant: the age of the evidence is not looked at.
AdmissibleHoweverOld(route, severity) ==
  /\ \A a \in On(route) : a \in Holders /\ agents[a].available
  /\ effectiveTrust(route) >= Required[severity]

\* A route without rejections.
Admissible(route, severity) ==
  /\ \A a \in On(route) :
       a \in Holders /\ ~evidenceStale(a, severity) /\ agents[a].available
  /\ effectiveTrust(route) >= Required[severity]

\* The routes rankByHistory may put first: history, latency and cost decide
\* between routes of equal trust only.
Best(severity) ==
  LET admissible == {r \in Routes : Admissible(r, severity)}
  IN  {r \in admissible : \A s \in admissible : effectiveTrust(r) >= effectiveTrust(s)}

-----------------------------------------------------------------------------
(* The timeline. *)

Kinds == {"AGENT_STARTED", "ACTION_PROPOSED", "CONSEQUENCE_DETECTED", "TRUST_CHANGED",
          "ROUTE_INVALIDATED", "ROUTE_SELECTED", "AUTHORITY_REQUESTED", "AUTHORITY_ISSUED",
          "EXECUTION_REQUESTED", "EXECUTION_ALLOWED", "EXECUTION_DENIED", "EXECUTION_COMPLETED", "RECEIPT_ISSUED"}

Event == [event: Kinds, call: Calls, because: SUBSET Nat, route: Routes \cup {None},
          agent: Agents \cup {None}, states: [Agents -> States] \cup {None}]

record(event, c, because) ==
  [event |-> event, call |-> c, because |-> because, route |-> None, agent |-> None,
   states |-> None]

Places(t, event) == {k \in 1..Len(t) : t[k].event = event}

\* t.last, or 0.
LastOf(t, event) ==
  IF Places(t, event) = {} THEN 0
  ELSE CHOOSE k \in Places(t, event) : \A j \in Places(t, event) : j <= k

\* The events that end a call which is denied because of the events given.
DeniedBy(t, c, because) ==
  t \o <<record("EXECUTION_DENIED", c, because), record("RECEIPT_ISSUED", c, {Len(t) + 1})>>

\* The events that end a call which was allowed: finish names the last
\* completion on the timeline.
Completed(t, c, allowed) ==
  LET done == Append(t, record("EXECUTION_COMPLETED", c, {allowed}))
  IN  Append(done, record("RECEIPT_ISSUED", c, {LastOf(done, "EXECUTION_COMPLETED")}))

-----------------------------------------------------------------------------
(* The calls. *)

Phases == {"idle", "measuring", "asking", "executing", "denied", "completed", "thrown"}

Call == [phase: Phases, route: Routes \cup {None}, at: Nat,
         detected: Nat, issued: Nat, allowed: Nat]

TypeOK ==
  /\ now \in 0..MaxTime
  /\ agents \in [Agents -> States]
  /\ timeline \in Seq(Event)
  /\ calls \in [Calls -> Call]
  /\ effects \subseteq [call: Calls, at: 0..MaxTime, since: (0..MaxTime) \cup {None}]
  /\ unfit \in [Severities -> [Agents -> (0..MaxTime) \cup {None}]]
  /\ changes \in 0..MaxChanges

NotBegun == [phase |-> "idle", route |-> None, at |-> 0, detected |-> 0, issued |-> 0, allowed |-> 0]

Unfit(state, severity) ==
  state.trust < Required[severity] \/ state.age > MaxAge[severity] \/ ~state.available

Init ==
  /\ now = 0
  /\ agents \in [Agents -> States]
  /\ timeline = <<>>
  /\ calls = [c \in Calls |-> NotBegun]
  /\ effects = {}
  /\ unfit = [s \in Severities |-> [a \in Agents |-> IF Unfit(agents[a], s) THEN 0 ELSE None]]
  /\ changes = 0

Ends(c, phase, t) ==
  /\ timeline' = t
  /\ calls' = [calls EXCEPT ![c].phase = phase]

\* Mutant: the previous route is looked up when the action is proposed.
PreviousBefore(t, c) ==
  LastOf(SubSeq(t, 1, CHOOSE k \in Places(t, "ACTION_PROPOSED") : t[k].call = c), "ROUTE_SELECTED")

\* The place of the route the timeline rode last, or 0.
Previous(t, c) == LastOf(t, "ROUTE_SELECTED")

\* trustDelta: the agents of the previous route whose trust is not what it was.
Changed(t, previous, severity) ==
  {a \in On(t[previous].route) :
     \/ t[previous].states[a].trust # agents[a].trust
     \/ (t[previous].states[a].age > MaxAge[severity]) # evidenceStale(a, severity)}

\* The events between the detection, at place d, and the selection of a route.
Reconsidered(t, c, d, route) ==
  LET previous == Previous(t, c)
      severity == RequestOf[c].reported
      deltas   == [k \in 1..Cardinality(Changed(t, previous, severity)) |->
                     [record("TRUST_CHANGED", c, {d}) EXCEPT
                        !.agent = SetToSeq(Changed(t, previous, severity))[k]]]
      stale    == [record("ROUTE_INVALIDATED", c, {previous, d}) EXCEPT
                     !.route = t[previous].route]
  IN  IF previous = 0 THEN <<>>
      ELSE IF t[previous].route = route THEN deltas
      ELSE Append(deltas, stale)

\* Mutant: only a worse severity needs an approval.
NeedsApprovalAbove(q) == q.reported > ApprovalFrom

needsApproval(q) == q.reported >= ApprovalFrom

\* From the selection of a route to the await of the boundary, or to a denial;
\* t is the timeline so far and d the place of the detection.
Route(c, t, d) ==
  LET severity == RequestOf[c].reported
      why(r)   == t \o Reconsidered(t, c, d, r)
      chosen(r) == Append(why(r),
                     [record("ROUTE_SELECTED", c, {d} \cup (Len(t) + 1)..Len(why(r))) EXCEPT
                        !.route = r, !.states = agents])
  IN  \/ /\ Best(severity) = {}
         /\ Ends(c, "denied", DeniedBy(t, c, {d}))
      \/ \E r \in Best(severity) :
           LET sel == Len(chosen(r)) IN
           \/ /\ needsApproval(RequestOf[c]) /\ ~RequestOf[c].approval
              /\ Ends(c, "denied", DeniedBy(chosen(r), c, {d, sel}))
           \/ /\ needsApproval(RequestOf[c]) => RequestOf[c].approval
              /\ timeline' = chosen(r) \o <<record("AUTHORITY_REQUESTED", c, {sel}),
                                            record("AUTHORITY_ISSUED", c, {sel + 1}),
                                            record("EXECUTION_REQUESTED", c, {sel + 2})>>
              /\ calls' = [calls EXCEPT ![c].phase = "asking", ![c].route = r, ![c].at = now,
                                        ![c].detected = d, ![c].issued = sel + 2]

\* protect, up to the first await it reaches.
Begin(c) ==
  LET q == RequestOf[c]
      t == IF Places(timeline, "AGENT_STARTED") = {}
           THEN Append(timeline, record("AGENT_STARTED", c, {})) ELSE timeline
      proposed == Append(t, record("ACTION_PROPOSED", c, {LastOf(t, "AGENT_STARTED")}))
      p        == Len(proposed)
      detected == Append(proposed, record("CONSEQUENCE_DETECTED", c, {p}))
      measured == q.live /\ q.reported >= High
  IN /\ calls[c].phase = "idle"
     /\ \/ /\ q.reported < q.baseline
           /\ Ends(c, "denied", DeniedBy(proposed, c, {p}))
        \/ /\ q.reported >= q.baseline /\ measured /\ ~q.evidence
           /\ Ends(c, "denied", DeniedBy(detected, c, {p + 1}))
        \/ /\ q.reported >= q.baseline /\ measured /\ q.evidence
           /\ timeline' = detected
           /\ calls' = [calls EXCEPT ![c].phase = "measuring", ![c].detected = p + 1]
        \/ /\ q.reported >= q.baseline /\ ~measured
           /\ Route(c, detected, p + 1)
     /\ UNCHANGED <<now, agents, effects, unfit, changes>>

\* Mutant: the last detection on the timeline is taken for the call's own.
MeasuredLast(c) ==
  /\ calls[c].phase = "measuring"
  /\ Route(c, timeline, LastOf(timeline, "CONSEQUENCE_DETECTED"))
  /\ UNCHANGED <<now, agents, effects, unfit, changes>>

\* attestGraph has measured the agents.
Measured(c) ==
  /\ calls[c].phase = "measuring"
  /\ Route(c, timeline, calls[c].detected)
  /\ UNCHANGED <<now, agents, effects, unfit, changes>>

\* How long the least fit agent of a route has failed a severity, at its longest.
FailingSince(route, severity) ==
  LET since == {unfit[severity][a] : a \in On(route)} \ {None}
  IN  IF since = {} THEN None ELSE CHOOSE s \in since : \A u \in since : s <= u

\* The boundary, which checked the expiry, allows the execution: the effect
\* begins, or a simulation ends.
Allow(c) ==
  LET t == Append(timeline, record("EXECUTION_ALLOWED", c, {calls[c].issued})) IN
  /\ calls[c].phase = "asking"
  /\ now < calls[c].at + Validity + Timeout
  /\ IF RequestOf[c].live
     THEN /\ timeline' = t
          /\ calls' = [calls EXCEPT ![c].phase = "executing", ![c].allowed = Len(t)]
          /\ effects' = effects \cup
               {[call |-> c, at |-> now,
                 since |-> FailingSince(calls[c].route, RequestOf[c].reported)]}
     ELSE Ends(c, "completed", Completed(t, c, Len(t))) /\ UNCHANGED effects
  /\ UNCHANGED <<now, agents, unfit, changes>>

\* The boundary denies, or cannot be reached.
Refuse(c) ==
  /\ calls[c].phase = "asking"
  /\ Ends(c, "denied", DeniedBy(timeline, c, {calls[c].issued}))
  /\ UNCHANGED <<now, agents, effects, unfit, changes>>

\* A local boundary that cannot save its spent nonces throws, and so does protect.
Throw(c) ==
  /\ calls[c].phase = "asking"
  /\ calls' = [calls EXCEPT ![c].phase = "thrown"]
  /\ UNCHANGED <<now, agents, timeline, effects, unfit, changes>>

\* The effect has settled, whether it succeeded or failed.
Settle(c) ==
  /\ calls[c].phase = "executing"
  /\ Ends(c, "completed", Completed(timeline, c, calls[c].allowed))
  /\ UNCHANGED <<now, agents, effects, unfit, changes>>

\* An agent's trust changes.
Observe(a, state) ==
  /\ changes < MaxChanges
  /\ changes' = changes + 1
  /\ agents[a] # state
  /\ agents' = [agents EXCEPT ![a] = state]
  /\ unfit' = [s \in Severities |-> [unfit[s] EXCEPT
       ![a] = IF ~Unfit(state, s) THEN None ELSE IF @ = None THEN now ELSE @]]
  /\ UNCHANGED <<now, timeline, calls, effects>>

Tick ==
  /\ now < MaxTime
  /\ now' = now + 1
  /\ UNCHANGED <<agents, timeline, calls, effects, unfit, changes>>

Step(c) == Begin(c) \/ Measured(c) \/ Allow(c) \/ Refuse(c) \/ Throw(c) \/ Settle(c)

Next ==
  \/ \E c \in Calls : Step(c)
  \/ \E a \in Agents, s \in States : Observe(a, s)
  \/ Tick

Spec == Init /\ [][Next]_vars

-----------------------------------------------------------------------------
(* Properties. *)

\* What "why" walks is sound: every event is caused by earlier events, of its
\* own call unless the cause is the start of the run or the route replaced.
CausesStand ==
  \A k \in 1..Len(timeline) : \A j \in timeline[k].because :
    /\ j \in 1..(k - 1)
    /\ \/ timeline[j].call = timeline[k].call
       \/ timeline[j].event = "AGENT_STARTED"
       \/ timeline[k].event = "ROUTE_INVALIDATED" /\ timeline[j].event = "ROUTE_SELECTED"

\* A call that has ended issued one receipt, and the receipt is explained by
\* the outcome of that very call, whatever other calls did in between.
ReceiptOfOutcome ==
  \A c \in Calls :
    LET mine(event) == {k \in Places(timeline, event) : timeline[k].call = c}
        outcomes    == mine("EXECUTION_DENIED") \cup mine("EXECUTION_COMPLETED")
        receipts    == mine("RECEIPT_ISSUED")
    IN  IF calls[c].phase \in {"denied", "completed"}
        THEN /\ Cardinality(receipts) = 1 /\ Cardinality(outcomes) = 1
             /\ \A k \in receipts : timeline[k].because = outcomes
        ELSE receipts \cup outcomes = {}

\* The effects are those of the live calls that the timeline shows allowed, one each:
\* what a call whose boundary threw leaves there, an authority that was requested and
\* neither used nor denied, stands for no effect, then or later.
EffectsOnRecord ==
  LET allowed == {k \in Places(timeline, "EXECUTION_ALLOWED") : RequestOf[timeline[k].call].live}
  IN  /\ {e.call : e \in effects} = {timeline[k].call : k \in allowed}
      /\ Cardinality(effects) = Cardinality(allowed)
      /\ \A e \in effects : calls[e.call].phase # "thrown"

\* protect.mjs 94: "If this timeline already rode a route for this action, say
\* what changed and why the old one no longer holds, before recording the
\* replacement": of two selections in a row, the second is caused by the
\* invalidation of the first if it differs, and by every change of trust.
ReroutesExplained ==
  \A j, k \in Places(timeline, "ROUTE_SELECTED") :
    LET why == {timeline[i] : i \in timeline[k].because} IN
    j < k /\ (\A i \in Places(timeline, "ROUTE_SELECTED") : i <= j \/ k <= i) =>
      /\ timeline[j].route # timeline[k].route =>
           \E e \in why : e.event = "ROUTE_INVALIDATED" /\ e.route = timeline[j].route
      /\ \A a \in On(timeline[j].route) :
           timeline[j].states[a].trust # timeline[k].states[a].trust =>
             \E e \in why : e.event = "TRUST_CHANGED" /\ e.agent = a

\* The timeline explains every event, every effect, every change of route and the
\* end of every call.
TimelineInv ==
  TypeOK /\ CausesStand /\ ReceiptOfOutcome /\ EffectsOnRecord /\ ReroutesExplained

\* No authority is issued, to be used or to be found on the timeline, for a call
\* that understates its consequence or lacks the evidence or the approval that
\* its own severity asks for.
AuthorityEarned ==
  \A k \in Places(timeline, "AUTHORITY_ISSUED") :
    LET q == RequestOf[timeline[k].call] IN
    /\ q.reported >= q.baseline
    /\ q.live /\ q.baseline >= High => q.evidence
    /\ q.baseline >= ApprovalFrom => q.approval

\* An agent that loses its trust, its evidence or its availability carries no
\* effect later than an authority stays valid and a decision travels.
TrustLossReaches ==
  \A e \in effects : e.since # None => e.at < e.since + Validity + Timeout
=============================================================================
