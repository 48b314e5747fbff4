------------------------- MODULE RuntimeGateProofs -------------------------
(***************************************************************************)
(* Proofs about RuntimeGate: for any requests, grants, clocks, failed saves *)
(* and ends of the process, the log is a chain that holds what callers were *)
(* answered with, and no request is answered more generously later, with    *)
(* no more trust and at no less cost, where a claim that is not a number is *)
(* the most trust and the least cost.                                       *)
(***************************************************************************)
EXTENDS RuntimeGate, TLAPS

USE GateAssumption

(* The receipt at a place of a log is chained to one before it.             *)
Chained(log) ==
  \A k \in 1..Len(log) :
    IF k = 1 THEN log[k].chain = None
    ELSE log[k].chain \in {log[j].id : j \in 1..(k - 1)}

(* The decisions the gate takes.                                            *)
Outcomes == {Denied, Escalated, Decided("STEP_UP", "REQUIRES_REATTESTATION"),
             Decided("PERMIT", "CONSTRAINED"), Decided("PERMIT", "FULL")}

(* NeverLoosens of a log, in memory or on file.                             *)
Tightens(log) ==
  \A j, k \in 1..Len(log) :
    /\ j < k /\ log[j].prior = None /\ log[k].prior = None
    /\ NoBetter(log[k].request, log[j].request)
    => Rank(log[k].decision) <= Rank(log[j].decision)

(* What a request is answered at a time, past its shape and the grant it    *)
(* names.                                                                   *)
Due(t, q) ==
  IF q.grant = "unknown" \/ GrantExpiry <= t \/ Below(Claimed(q), 40) THEN Denied
  ELSE IF Critical(q) THEN Escalated
  ELSE IF budgetDecision(q) = "OVER_BUDGET" THEN Denied
  ELSE IF Below(Claimed(q), 65) THEN Decided("STEP_UP", "REQUIRES_REATTESTATION")
  ELSE IF ~q.inScope \/ Limited(q) THEN Decided("PERMIT", "CONSTRAINED")
  ELSE Decided("PERMIT", "FULL")

DecidedAt(t, q) ==
  IF ~q.wellFormed THEN Denied ELSE IF q.grant = "none" THEN Escalated ELSE Due(t, q)

(* What a request would be answered at a time is no more generous than what *)
(* a log says of it.                                                        *)
Outlook(t, log) ==
  \A j \in 1..Len(log), q \in Requests :
    log[j].prior = None /\ NoBetter(q, log[j].request) =>
      Rank(DecidedAt(t, q)) <= Rank(log[j].decision)

Logged(t, log) ==
  /\ \A k \in 1..Len(log) : log[k].decision \in Outcomes
  /\ Chained(log) /\ Tightens(log) /\ Outlook(t, log)

GateInv ==
  /\ TypeOK
  /\ Logged(now, receipts)
  /\ file # Torn => Logged(now, file)
  /\ phase \in {"saving", "writing"} => receipts # <<>>
  /\ AnsweredOnRecord

-----------------------------------------------------------------------------
(* The decision is monotone. *)

\* Each decision has its rank.
LEMMA Ranks ==
  /\ Rank(Denied) = 0 /\ Rank(Escalated) = 1
  /\ Rank(Decided("STEP_UP", "REQUIRES_REATTESTATION")) = 1
  /\ Rank(Decided("PERMIT", "CONSTRAINED")) = 2
  /\ Rank(Decided("PERMIT", "FULL")) = 3
  BY DEF Rank, Denied, Escalated, Decided

\* The decision depends on the state by the time only.
LEMMA ByTime == ASSUME NEW q \in Request PROVE evaluateTrust(q) = DecidedAt(now, q)
<1>1. q.wellFormed \in BOOLEAN
  BY DEF Request
<1>2. CASE ~q.wellFormed
  BY <1>1, <1>2 DEF evaluateTrust, DecidedAt
<1>3. CASE q.wellFormed /\ q.grant = "none"
  BY <1>1, <1>3 DEF evaluateTrust, DecidedAt
<1>4. CASE q.wellFormed /\ q.grant # "none"
  BY <1>1, <1>4 DEF evaluateTrust, DecidedAt, Due
<1> QED
  BY <1>1, <1>2, <1>3, <1>4

\* A request is answered with one of five decisions.
LEMMA DecisionType ==
  /\ Outcomes \subseteq Decision
  /\ \A q \in Request : evaluateTrust(q) \in Outcomes
<1>1. \A q \in Request : DecidedAt(now, q) \in Outcomes
  BY DEF DecidedAt, Due, Outcomes
<1> QED
  BY <1>1, ByTime DEF Outcomes, Decision, Denied, Escalated, Decided

LEMMA Reflexive == ASSUME NEW q \in Request PROVE NoBetter(q, q)
<1>1. q = [q EXCEPT !.trust = q.trust, !.cost = q.cost]
  BY DEF Request
<1>2. NoMore(q.trust, q.trust) /\ NoLess(q.cost, q.cost)
  BY DEF NoMore, NoLess
<1> QED
  BY <1>1, <1>2 DEF NoBetter

\* A value that is no more than another is below every limit the other is below, and
\* above no limit the other is not above, unless the other is not a number.
LEMMA Limits ==
  ASSUME NEW a \in Given, NEW b \in Given, NEW limit \in Int
  PROVE  /\ NoMore(a, b) /\ Below(Number(b), limit) => Below(Number(a), limit)
         /\ NoLess(a, b) /\ Above(Number(b), limit) => Above(Number(a), limit)
<1>1. /\ Number(Missing) = 0 /\ Number(Text) = NaN
      /\ \A x \in Int : Number(x) = x
      /\ Missing \notin Int /\ Text \notin Int /\ NaN \notin Int /\ Missing # Text
  BY DEF Number
<1>2. ASSUME NoMore(a, b), Below(Number(b), limit) PROVE Below(Number(a), limit)
  BY <1>1, <1>2 DEF NoMore, Below, Given
<1>3. ASSUME NoLess(a, b), Above(Number(b), limit) PROVE Above(Number(a), limit)
  BY <1>1, <1>3 DEF NoLess, NoMore, Above, Given
<1> QED
  BY <1>2, <1>3

\* Neither time, nor a loss of trust, nor a higher cost makes the answer more generous.
LEMMA Monotone ==
  ASSUME NEW q \in Request, NEW r \in Request, NoBetter(q, r),
         NEW t \in Nat, NEW u \in Nat, t <= u
  PROVE  Rank(DecidedAt(u, q)) <= Rank(DecidedAt(t, r))
<1>1. /\ q.wellFormed = r.wellFormed /\ q.grant = r.grant /\ q.factors = r.factors
      /\ q.inScope = r.inScope /\ q.costCenter = r.costCenter
      /\ q.trust \in Given /\ r.trust \in Given /\ NoMore(q.trust, r.trust)
      /\ q.cost \in Given /\ r.cost \in Given /\ NoLess(q.cost, r.cost)
  BY DEF NoBetter, Request
<1>2. Critical(q) = Critical(r) /\ riskLevel(q) = riskLevel(r)
  BY <1>1 DEF Critical, riskLevel
<1>3. /\ Below(Claimed(r), 40) => Below(Claimed(q), 40)
      /\ Below(Claimed(r), 65) => Below(Claimed(q), 65)
      /\ Below(Claimed(r), 85) => Below(Claimed(q), 85)
  BY <1>1, Limits DEF Claimed
<1>4. /\ Above(Number(r.cost), 100) => Above(Number(q.cost), 100)
      /\ Above(Number(r.cost), 500) => Above(Number(q.cost), 500)
  BY <1>1, Limits
<1>5. /\ budgetDecision(r) = "OVER_BUDGET" => budgetDecision(q) = "OVER_BUDGET"
      /\ budgetDecision(r) = "REQUIRES_APPROVAL" =>
           budgetDecision(q) \in {"OVER_BUDGET", "REQUIRES_APPROVAL"}
  BY <1>1, <1>4 DEF budgetDecision
<1>6. Limited(r) => Limited(q) \/ budgetDecision(q) = "OVER_BUDGET"
  BY <1>2, <1>3, <1>5 DEF Limited
<1>7. GrantExpiry \in Nat
  OBVIOUS
<1>8. Rank(Due(u, q)) <= Rank(Due(t, r))
  BY ONLY <1>1, <1>2, <1>3, <1>5, <1>6, <1>7, t \in Nat, u \in Nat, t <= u, Ranks DEF Due
<1> QED
  BY <1>1, <1>8, Ranks DEF DecidedAt

-----------------------------------------------------------------------------
(* The log. *)

\* A log stays what it is while time passes.
LEMMA LoggedLater ==
  ASSUME NEW log \in Seq(Receipt), NEW t \in Nat, NEW u \in Nat, t <= u, Logged(t, log)
  PROVE  Logged(u, log)
<1>1. ASSUME NEW j \in 1..Len(log), NEW q \in Requests,
             log[j].prior = None, NoBetter(q, log[j].request)
      PROVE  Rank(DecidedAt(u, q)) <= Rank(log[j].decision)
  <2>0. q \in Request
    OBVIOUS
  <2>1. log[j].decision \in Outcomes
    BY DEF Logged
  <2>2. Rank(DecidedAt(t, q)) <= Rank(log[j].decision)
    BY <1>1 DEF Logged, Outlook
  <2>3. Rank(DecidedAt(u, q)) <= Rank(DecidedAt(t, q))
    BY <2>0, Reflexive, Monotone
  <2>4. DecidedAt(u, q) \in Outcomes /\ DecidedAt(t, q) \in Outcomes
    BY DEF DecidedAt, Due, Outcomes
  <2>5. Rank(DecidedAt(u, q)) \in Int /\ Rank(DecidedAt(t, q)) \in Int
    BY <2>4, Ranks DEF Outcomes
  <2>6. Rank(log[j].decision) \in Int
    BY <2>1, Ranks DEF Outcomes
  <2> QED
    BY <2>2, <2>3, <2>5, <2>6
<1> QED
  BY <1>1 DEF Logged, Outlook

\* A receipt joins the log chained to one of it, and answered for what it is, or as a
\* reauthorization.
LEMMA Joined ==
  ASSUME NEW log \in Seq(Receipt), NEW t \in Nat, Logged(t, log), NEW r \in Receipt,
         IF log = <<>> THEN r.chain = None ELSE r.chain \in IdsIn(log),
         r.decision \in Outcomes, r.prior = None => r.decision = DecidedAt(t, r.request)
  PROVE  Logged(t, Append(log, r))
<1> DEFINE new == Append(log, r)
<1>1. /\ Len(log) \in Nat /\ Len(new) = Len(log) + 1
      /\ \A j \in 1..Len(log) : new[j] = log[j]
      /\ new[Len(log) + 1] = r
      /\ log = <<>> <=> Len(log) = 0
  OBVIOUS
<1>2. \A j \in 1..Len(log) : log[j] \in Receipt
  OBVIOUS
<1> HIDE DEF new
<1>3. Chained(new)
  <2>1. ASSUME NEW k \in 1..Len(log)
        PROVE  IF k = 1 THEN new[k].chain = None
               ELSE new[k].chain \in {new[j].id : j \in 1..(k - 1)}
    <3>1. {new[j].id : j \in 1..(k - 1)} = {log[j].id : j \in 1..(k - 1)}
      BY <1>1, SMTT(30)
    <3> QED
      BY <1>1, <3>1 DEF Logged, Chained
  <2>2. LET k == Len(log) + 1 IN
          IF k = 1 THEN new[k].chain = None
          ELSE new[k].chain \in {new[j].id : j \in 1..(k - 1)}
    <3>1. {new[j].id : j \in 1..Len(log)} = IdsIn(log)
      BY <1>1 DEF IdsIn
    <3> QED
      BY <1>1, <3>1
  <2>3. \A k \in 1..Len(new) : k \in 1..Len(log) \/ k = Len(log) + 1
    BY <1>1
  <2> QED
    BY ONLY <2>1, <2>2, <2>3 DEF Chained
<1>4. Tightens(new)
  <2> SUFFICES ASSUME NEW j \in 1..Len(new), NEW k \in 1..Len(new), j < k,
                      new[j].prior = None, new[k].prior = None,
                      NoBetter(new[k].request, new[j].request)
               PROVE  Rank(new[k].decision) <= Rank(new[j].decision)
    BY DEF Tightens
  <2>1. j \in 1..Len(log) /\ new[j] = log[j]
    BY <1>1
  <2>2. CASE k \in 1..Len(log)
    BY <1>1, <2>1, <2>2 DEF Logged, Tightens
  <2>3. CASE k = Len(log) + 1
    <3>1. new[k].request \in Requests
      BY <1>1, <2>3 DEF Receipt
    <3> QED
      BY <1>1, <2>1, <2>3, <3>1 DEF Logged, Outlook
  <2> QED
    BY <1>1, <2>2, <2>3, SMTT(30)
<1>5. Outlook(t, new)
  <2> SUFFICES ASSUME NEW j \in 1..Len(new), NEW q \in Requests,
                      new[j].prior = None, NoBetter(q, new[j].request)
               PROVE  Rank(DecidedAt(t, q)) <= Rank(new[j].decision)
    BY DEF Outlook
  <2>1. CASE j \in 1..Len(log)
    BY <1>1, <2>1 DEF Logged, Outlook
  <2>2. CASE j = Len(log) + 1
    <3>1. new[j] = r /\ r.request \in Request /\ q \in Request
      BY <1>1, <2>2 DEF Receipt
    <3>2. Rank(DecidedAt(t, q)) <= Rank(DecidedAt(t, r.request))
      BY <3>1, Monotone
    <3> QED
      BY <3>1, <3>2
  <2> QED
    BY <1>1, <2>1, <2>2
<1> QED
  BY <1>1, <1>3, <1>4, <1>5 DEF Logged, new

-----------------------------------------------------------------------------
(* The gate. *)

\* A gate starts with an empty log.
LEMMA EmptyLog ==
  <<>> \in Seq(Receipt) /\ Len(<<>>) = 0 /\ \A t : Logged(t, <<>>)
<1>1. <<>> \in Seq(Receipt) /\ Len(<<>>) = 0
  OBVIOUS
<1> QED
  BY <1>1 DEF Logged, Chained, Tightens, Outlook

LEMMA GateInit == Init => GateInv
<1> SUFFICES ASSUME Init PROVE GateInv
  OBVIOUS
<1>1. TypeOK
  <2>1. 0 \in 0..MaxTime /\ 0 \in 0..MaxReceipts /\ 0 \in 0..MaxCrashes
    OBVIOUS
  <2> QED
    BY <2>1, EmptyLog DEF Init, TypeOK
<1>2. AnsweredOnRecord
  BY DEF Init, AnsweredOnRecord
<1> QED
  BY <1>1, <1>2, EmptyLog DEF Init, GateInv

LEMMA NewId ==
  ASSUME TypeOK, issued < MaxReceipts
  PROVE  issued + 1 \in Ids /\ LastId \in Ids \cup {None} /\ Hashed(issued + 1) \in
           [id: Ids, latency: 0..MaxLatency, chain: Ids \cup {None}]
<1>1. issued + 1 \in Ids
  BY DEF TypeOK, Ids
<1>2. LastId \in Ids \cup {None}
  <2>1. CASE receipts = <<>>
    BY <2>1 DEF LastId
  <2>2. CASE receipts # <<>>
    <3>1. receipts[Len(receipts)] \in Receipt
      BY <2>2 DEF TypeOK
    <3> QED
      BY <2>2, <3>1 DEF LastId, Receipt
  <2> QED
    BY <2>1, <2>2
<1> QED
  BY <1>1, <1>2 DEF Hashed

\* A receipt that fits the log joins it.
LEMMA PushKeeps ==
  ASSUME GateInv, NEW r \in Receipt, Push(r),
         IF receipts = <<>> THEN r.chain = None ELSE r.chain \in IdsIn(receipts),
         r.decision \in Outcomes, r.prior = None => r.decision = DecidedAt(now, r.request)
  PROVE  GateInv'
<1>1. /\ TypeOK /\ now \in Nat /\ receipts \in Seq(Receipt) /\ now' = now /\ file' = file
      /\ receipts' = Append(receipts, r) /\ lost' = lost
  BY DEF GateInv, TypeOK, Push
<1>2. TypeOK'
  <2>1. receipts' \in Seq(Receipt) /\ r.id \in Ids
    BY <1>1 DEF Receipt
  <2> QED
    BY <1>1, <2>1 DEF Push, TypeOK
<1>3. Logged(now', receipts')
  BY <1>1, Joined DEF GateInv
<1>4. file' # Torn => Logged(now', file')
  BY <1>1 DEF GateInv
<1>5. receipts' # <<>> /\ IdsIn(receipts') = IdsIn(receipts) \cup {r.id}
  BY <1>1 DEF IdsIn
<1>6. AnsweredOnRecord'
  BY <1>1, <1>5 DEF GateInv, AnsweredOnRecord, Push
<1> QED
  BY <1>2, <1>3, <1>4, <1>5, <1>6 DEF GateInv

LEMMA AuthorizeKeeps ==
  ASSUME GateInv, NEW q \in Requests, Authorize(q) PROVE GateInv'
<1> DEFINE new(ms) ==
      [id |-> issued + 1, request |-> q, prior |-> None, decision |-> evaluateTrust(q),
       latency |-> ms, chain |-> LastId, hash |-> Hashed(issued + 1)]
<1>1. PICK ms \in 0..MaxLatency : Push(new(ms))
  BY DEF Authorize
<1>2. TypeOK /\ issued < MaxReceipts /\ receipts \in Seq(Receipt)
  BY <1>1 DEF GateInv, TypeOK, Push
<1>3. new(ms) \in Receipt /\ evaluateTrust(q) \in Outcomes
  BY <1>2, NewId, DecisionType DEF Receipt
<1>4. IF receipts = <<>> THEN LastId = None ELSE LastId \in IdsIn(receipts)
  BY <1>2 DEF LastId, IdsIn
<1> QED
  BY <1>1, <1>3, <1>4, ByTime, PushKeeps

LEMMA ReauthorizeKeeps ==
  ASSUME GateInv, NEW k \in 1..Len(receipts), NEW approved \in BOOLEAN,
         Reauthorize(receipts[k], approved)
  PROVE  GateInv'
<1> DEFINE new ==
      [id |-> issued + 1, request |-> receipts[k].request, prior |-> receipts[k].id,
       decision |-> IF approved THEN Decided("PERMIT", "CONSTRAINED") ELSE Escalated,
       latency |-> 0, chain |-> receipts[k].id, hash |-> Hashed(issued + 1)]
<1>1. Push(new)
  BY DEF Reauthorize
<1>2. TypeOK /\ issued < MaxReceipts /\ receipts \in Seq(Receipt) /\ receipts # <<>>
  BY <1>1 DEF GateInv, TypeOK, Push
<1>3. receipts[k] \in Receipt
  BY <1>2
<1>4. receipts[k].id \in IdsIn(receipts) /\ receipts[k].id # None
  BY <1>3 DEF IdsIn, Receipt, Ids
<1>5. new \in Receipt /\ new.decision \in Outcomes
  BY <1>2, <1>3, NewId, SMTT(30) DEF Receipt, Decision, Outcomes, Decided, Escalated
<1> QED
  BY <1>1, <1>2, <1>4, <1>5, PushKeeps

\* A save, whether it ends or not, and a receipt the caller is told of.
LEMMA SaveKeeps == ASSUME GateInv, Truncate \/ Written \/ SaveFails PROVE GateInv'
<1>1. /\ TypeOK /\ receipts \in Seq(Receipt) /\ receipts # <<>>
      /\ UNCHANGED <<now, receipts, lost>> /\ phase # "down"
  BY DEF GateInv, TypeOK, Truncate, Written, SaveFails
<1>2. LastId \in Ids /\ LastId \in IdsIn(receipts)
  <2>1. receipts[Len(receipts)] \in Receipt
    BY <1>1
  <2> QED
    BY <1>1, <2>1 DEF LastId, IdsIn, Receipt
<1>3. TypeOK'
  BY <1>1, <1>2 DEF TypeOK, Truncate, Written, SaveFails
<1>4. Logged(now', receipts') /\ (file' # Torn => Logged(now', file'))
  BY <1>1 DEF GateInv, Truncate, Written, SaveFails
<1>5. AnsweredOnRecord'
  BY <1>1, <1>2 DEF GateInv, AnsweredOnRecord, Truncate, Written, SaveFails
<1> QED
  BY <1>1, <1>3, <1>4, <1>5 DEF GateInv

LEMMA CrashKeeps == ASSUME GateInv, Crash \/ Restart PROVE GateInv'
<1>1. TypeOK /\ UNCHANGED <<now, file, answered>> /\ now \in Nat
  BY DEF GateInv, TypeOK, Crash, Restart
<1>2. Logged(now, <<>>) /\ <<>> \in Seq(Receipt)
  BY EmptyLog
<1>3. CASE Crash
  <2>1. receipts' = <<>> /\ phase' = "down" /\ lost' = lost
    BY <1>3 DEF Crash
  <2>2. TypeOK'
    BY <1>1, <1>3, <2>1 DEF TypeOK, Crash
  <2> QED
    BY <1>1, <1>2, <2>1, <2>2 DEF GateInv, AnsweredOnRecord
<1>4. CASE Restart
  <2>1. /\ receipts' = loadReceipts /\ phase' = "ready" /\ phase = "down"
        /\ lost' = (lost \/ ~FileMode \/ file = Torn)
    BY <1>4 DEF Restart
  <2>2. receipts' \in Seq(Receipt) /\ Logged(now, receipts')
    BY <1>1, <1>2, <2>1 DEF loadReceipts, GateInv, TypeOK
  <2>3. TypeOK'
    BY <1>1, <1>4, <2>1, <2>2 DEF TypeOK, Restart
  <2>4. AnsweredOnRecord'
    BY <1>1, <2>1 DEF GateInv, AnsweredOnRecord, loadReceipts
  <2> QED
    BY <1>1, <2>1, <2>2, <2>3, <2>4 DEF GateInv
<1> QED
  BY <1>3, <1>4

LEMMA TickKeeps == ASSUME GateInv, Tick PROVE GateInv'
<1>1. /\ TypeOK /\ receipts \in Seq(Receipt) /\ (file # Torn => file \in Seq(Receipt))
      /\ now \in Nat /\ now' = now + 1 /\ now' \in 0..MaxTime
      /\ UNCHANGED <<phase, receipts, file, issued, answered, lost, crashes>>
  BY DEF GateInv, TypeOK, Tick
<1>2. TypeOK'
  BY <1>1 DEF TypeOK
<1>3. Logged(now', receipts') /\ (file' # Torn => Logged(now', file'))
  BY <1>1, LoggedLater DEF GateInv
<1> QED
  BY <1>1, <1>2, <1>3 DEF GateInv, AnsweredOnRecord

LEMMA GateStep == GateInv /\ [Next]_vars => GateInv'
<1> SUFFICES ASSUME GateInv, [Next]_vars PROVE GateInv'
  OBVIOUS
<1>1. CASE UNCHANGED vars
  BY <1>1 DEF vars, GateInv, TypeOK, AnsweredOnRecord
<1>2. CASE Next
  BY <1>2, AuthorizeKeeps, ReauthorizeKeeps, SaveKeeps, CrashKeeps, TickKeeps DEF Next
<1> QED
  BY <1>1, <1>2

\* Across failed saves, ends of the process and starts, the log is a chain of
\* well-formed receipts, and until a start finds the file torn it holds every receipt a
\* caller was answered with (server.mjs 382-388, 440-443, storage.mjs 7-24).
THEOREM LogHolds == Spec => []LogInv
<1>1. GateInv => LogInv
  BY DEF GateInv, LogInv, Logged, Chained, ChainedBack
<1> QED
  BY <1>1, GateInit, GateStep, PTL DEF Spec

\* No request is answered more generously later, with no more trust and at no less
\* cost, whatever trust, cost, factors and grant it comes with; a trust that is not a
\* number counts as the most, and such a cost as the least (server.mjs 67-75, 136-228).
THEOREM NeverMoreGenerous == Spec => []NeverLoosens
<1>1. GateInv => NeverLoosens
  BY DEF GateInv, NeverLoosens, Logged, Tightens
<1> QED
  BY <1>1, GateInit, GateStep, PTL DEF Spec
=============================================================================
