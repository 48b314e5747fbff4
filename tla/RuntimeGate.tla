---------------------------- MODULE RuntimeGate ----------------------------
(***************************************************************************)
(* The reference Runtime Authority gate: POST /re/authorize evaluates a    *)
(* request against a fixed grant and POST /re/reauthorize answers one that *)
(* carries a human approval; both append a receipt to a log in memory and, *)
(* in file mode, rewrite the whole file before they answer.  A handler     *)
(* runs without interruption after its body has been read, but the process *)
(* may end, or a write fail, while the file is truncated.                  *)
(*                                                                         *)
(* Trust and cost are in hundredths.  A request comes from JSON, so either  *)
(* may be left out or be something Number() reads no number from: then it  *)
(* is NaN, which is neither below nor above any limit.  A receipt is       *)
(* identified by its number, and a hash by the receipt it is of; "hash"    *)
(* keeps what was hashed.                                                  *)
(***************************************************************************)
EXTENDS Integers, Sequences, FiniteSets

CONSTANTS
  Requests,      \* the requests that arrive, see Request
  GrantExpiry,   \* when the seeded grant expires
  FileMode,      \* RECEIPT_STORE_MODE = "file"
  MaxLatency,    \* bound on the measured evaluation time
  MaxReceipts,   \* bound on the receipts issued
  MaxCrashes,    \* bound on the ends of the process
  MaxTime,       \* bound on the clock
  Torn,          \* a file that cannot be parsed
  None,          \* no receipt
  Missing,       \* a number a request leaves out
  Text,          \* anything Number() reads no number from
  NaN

RiskFactors == {"production", "mutation", "secrets", "mythos"}

Given == Int \cup {Missing, Text}

\* What evaluateTrust reads of a request: its shape, the grant it names, the
\* claimed trust, what it does, what it would cost and whether someone pays.
Request == [wellFormed: BOOLEAN, grant: {"none", "unknown", "seeded"}, trust: Given,
            factors: SUBSET RiskFactors, inScope: BOOLEAN, cost: Given,
            costCenter: {"unknown", "named"}]

ASSUME GateAssumption ==
  /\ Requests \subseteq Request
  /\ {GrantExpiry, MaxLatency, MaxReceipts, MaxCrashes, MaxTime} \subseteq Nat
  /\ FileMode \in BOOLEAN
  /\ None \notin Nat
  /\ {Missing, Text, NaN} \cap Int = {} /\ Missing # Text

VARIABLES
  now,        \* the time
  phase,      \* "ready", or where the save of a handler stands, or "down"
  receipts,   \* the log in memory
  file,       \* the log on file, or Torn
  issued,     \* how many receipts were built
  answered,   \* the receipts a caller was answered with (history)
  lost,       \* whether a start found the file torn (history)
  crashes     \* how often the process ended

vars == <<now, phase, receipts, file, issued, answered, lost, crashes>>

Decision == [outcome: {"PERMIT", "STEP_UP", "ESCALATE", "DENY"},
             mode: {"FULL", "CONSTRAINED", "REQUIRES_REATTESTATION",
                    "REQUIRES_HUMAN_APPROVAL", "FAILED_CLOSED"}]

Ids == 1..MaxReceipts

Receipt == [id: Ids, request: Requests, prior: Ids \cup {None}, decision: Decision,
            latency: 0..MaxLatency, chain: Ids \cup {None},
            hash: [id: Ids, latency: 0..MaxLatency, chain: Ids \cup {None}]]

TypeOK ==
  /\ now \in 0..MaxTime
  /\ phase \in {"ready", "saving", "writing", "down"}
  /\ receipts \in Seq(Receipt)
  /\ file = Torn \/ file \in Seq(Receipt)
  /\ issued \in 0..MaxReceipts
  /\ answered \subseteq Ids
  /\ lost \in BOOLEAN
  /\ crashes \in 0..MaxCrashes

Init ==
  /\ now = 0
  /\ phase = "ready"
  /\ receipts = <<>> /\ file = <<>>
  /\ issued = 0
  /\ answered = {}
  /\ lost = FALSE
  /\ crashes = 0

-----------------------------------------------------------------------------
(* The decision. *)

riskLevel(q) ==
  CASE Cardinality(q.factors) = 0      -> "LOW"
    [] Cardinality(q.factors) = 1      -> "MODERATE"
    [] Cardinality(q.factors) \in 2..3 -> "HIGH"
    [] Cardinality(q.factors) = 4      -> "CRITICAL"

Critical(q) == riskLevel(q) = "CRITICAL" \/ {"mythos", "production"} \subseteq q.factors

Number(x) == CASE x = Missing -> 0
               [] x = Text    -> NaN
               [] OTHER       -> x

Below(x, limit) == x # NaN /\ x < limit
Above(x, limit) == x # NaN /\ x > limit

\* Mutant: a trust score of nought counts as none given, and that as full trust.
ClaimedOrFull(q) == IF q.trust \in {0, Missing} THEN 100 ELSE Number(q.trust)

Claimed(q) == Number(q.trust)

budgetDecision(q) ==
  CASE Above(Number(q.cost), 500)                              -> "OVER_BUDGET"
    [] ~Above(Number(q.cost), 500) /\ Above(Number(q.cost), 100)
                                   /\ q.costCenter = "unknown" -> "REQUIRES_APPROVAL"
    [] OTHER                                                   -> "WITHIN_BUDGET"

Limited(q) ==
  Below(Claimed(q), 85) \/ riskLevel(q) = "HIGH" \/ budgetDecision(q) = "REQUIRES_APPROVAL"

Decided(outcome, mode) == [outcome |-> outcome, mode |-> mode]

Denied    == Decided("DENY", "FAILED_CLOSED")
Escalated == Decided("ESCALATE", "REQUIRES_HUMAN_APPROVAL")

evaluateTrust(q) ==
  CASE ~q.wellFormed             -> Denied
    [] q.wellFormed /\ q.grant = "none" -> Escalated
    [] OTHER ->
       IF q.grant = "unknown" \/ GrantExpiry <= now \/ Below(Claimed(q), 40) THEN Denied
       ELSE IF Critical(q) THEN Escalated
       ELSE IF budgetDecision(q) = "OVER_BUDGET" THEN Denied
       ELSE IF Below(Claimed(q), 65) THEN Decided("STEP_UP", "REQUIRES_REATTESTATION")
       ELSE IF ~q.inScope \/ Limited(q) THEN Decided("PERMIT", "CONSTRAINED")
       ELSE Decided("PERMIT", "FULL")

-----------------------------------------------------------------------------
(* The receipts. *)

LastId == IF receipts = <<>> THEN None ELSE receipts[Len(receipts)].id

\* buildReceipt hashes a receipt with latency 0, chained to the last one.
Hashed(id) == [id |-> id, latency |-> 0, chain |-> LastId]

\* The receipt joins the log; in file mode the handler goes on to save it.
Push(r) ==
  /\ phase = "ready"
  /\ issued < MaxReceipts
  /\ issued' = issued + 1
  /\ receipts' = Append(receipts, r)
  /\ phase' = IF FileMode THEN "saving" ELSE "ready"
  /\ answered' = IF FileMode THEN answered ELSE answered \cup {r.id}
  /\ UNCHANGED <<now, file, lost, crashes>>

\* POST /re/authorize.
Authorize(q) ==
  \E ms \in 0..MaxLatency :
    Push([id |-> issued + 1, request |-> q, prior |-> None, decision |-> evaluateTrust(q),
          latency |-> ms, chain |-> LastId, hash |-> Hashed(issued + 1)])

\* POST /re/reauthorize, for a prior receipt the log holds.
Reauthorize(prior, approved) ==
  Push([id |-> issued + 1, request |-> prior.request, prior |-> prior.id,
        decision |-> IF approved THEN Decided("PERMIT", "CONSTRAINED") ELSE Escalated,
        latency |-> 0, chain |-> prior.id, hash |-> Hashed(issued + 1)])

\* writeFileSync truncates the file.
Truncate ==
  /\ phase = "saving"
  /\ phase' = "writing"
  /\ file' = Torn
  /\ UNCHANGED <<now, receipts, issued, answered, lost, crashes>>

\* Mutant: the file is written before the receipt joins the log.
WrittenBefore ==
  /\ phase = "writing"
  /\ phase' = "ready"
  /\ file' = SubSeq(receipts, 1, Len(receipts) - 1)
  /\ answered' = answered \cup {LastId}
  /\ UNCHANGED <<now, receipts, issued, lost, crashes>>

\* The whole log is on file and the caller is answered.
Written ==
  /\ phase = "writing"
  /\ phase' = "ready"
  /\ file' = receipts
  /\ answered' = answered \cup {LastId}
  /\ UNCHANGED <<now, receipts, issued, lost, crashes>>

\* The save throws before or after the truncation: the caller is told that the
\* request was invalid, and the receipt stays in the log.
SaveFails ==
  /\ phase \in {"saving", "writing"}
  /\ phase' = "ready"
  /\ UNCHANGED <<now, receipts, file, issued, answered, lost, crashes>>

Crash ==
  /\ phase # "down"
  /\ crashes < MaxCrashes
  /\ crashes' = crashes + 1
  /\ phase' = "down"
  /\ receipts' = <<>>
  /\ UNCHANGED <<now, file, issued, answered, lost>>

\* Mutant: a start keeps the last receipt only.
LatestReceipt ==
  IF ~FileMode \/ file = Torn THEN <<>>
  ELSE IF file = <<>> THEN <<>> ELSE <<file[Len(file)]>>

loadReceipts == IF ~FileMode \/ file = Torn THEN <<>> ELSE file

Restart ==
  /\ phase = "down"
  /\ phase' = "ready"
  /\ receipts' = loadReceipts
  /\ lost' = (lost \/ ~FileMode \/ file = Torn)
  /\ UNCHANGED <<now, file, issued, answered, crashes>>

Tick ==
  /\ now < MaxTime
  /\ now' = now + 1
  /\ UNCHANGED <<phase, receipts, file, issued, answered, lost, crashes>>

Next ==
  \/ \E q \in Requests : Authorize(q)
  \/ \E k \in 1..Len(receipts), approved \in BOOLEAN : Reauthorize(receipts[k], approved)
  \/ Truncate \/ Written \/ SaveFails
  \/ Crash \/ Restart
  \/ Tick

Spec == Init /\ [][Next]_vars

-----------------------------------------------------------------------------
(* Properties. *)

IdsIn(log) == {log[k].id : k \in 1..Len(log)}

\* Across failed saves, crashes and restarts, a receipt is chained to one that
\* stands before it in the log, and the first of a log to none.
ChainedBack ==
  \A k \in 1..Len(receipts) :
    IF k = 1 THEN receipts[k].chain = None
    ELSE receipts[k].chain \in {receipts[j].id : j \in 1..(k - 1)}

\* Until a start finds the file torn, every receipt a caller was answered with
\* is in the log of a running gate, and on file whenever the file is intact.
AnsweredOnRecord ==
  FileMode /\ ~lost =>
    /\ phase # "down" => answered \subseteq IdsIn(receipts)
    /\ file # Torn => answered \subseteq IdsIn(file)

\* The log is a chain of well-formed receipts, whatever was lost before it, and holds
\* what was answered.
LogInv == TypeOK /\ ChainedBack /\ AnsweredOnRecord

Rank(d) ==
  CASE d.outcome = "DENY" -> 0
    [] d.outcome \in {"ESCALATE", "STEP_UP"} -> 1
    [] d.mode = "CONSTRAINED" -> 2
    [] d.mode = "FULL" -> 3

\* One value a request gives is no more than another: a number left out is nought, and
\* one that is not a number is beyond every limit.
NoMore(a, b) ==
  \/ b = Text \/ a = b
  \/ a \in Int /\ b \in Int /\ a <= b
  \/ a = Missing /\ b \in Int /\ 0 <= b
  \/ b = Missing /\ a \in Int /\ a <= 0

\* One cost is no less than another: a cost that is not a number is below every limit.
NoLess(a, b) == b = Text \/ (a # Text /\ NoMore(b, a))

\* The same request with no more trust and at no less cost.
NoBetter(q, r) ==
  /\ q = [r EXCEPT !.trust = q.trust, !.cost = q.cost]
  /\ NoMore(q.trust, r.trust)
  /\ NoLess(q.cost, r.cost)

\* The same request, made again later with no more trust and at no less cost,
\* is never answered more generously: neither time nor a worse number opens a
\* door.  A claim that is not a number passes every threshold: it stands for
\* the most trust, and for the least cost.
NeverLoosens ==
  \A j, k \in 1..Len(receipts) :
    /\ j < k
    /\ receipts[j].prior = None /\ receipts[k].prior = None
    /\ NoBetter(receipts[k].request, receipts[j].request)
    => Rank(receipts[k].decision) <= Rank(receipts[j].decision)
=============================================================================
