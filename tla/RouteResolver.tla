--------------------------- MODULE RouteResolver ---------------------------
(***************************************************************************)
(* The trust route resolver (apps/trust-route-resolver): an HTTP service    *)
(* that decides requests with the trust routing engine and keeps           *)
(* revocations, attestations and chained receipts in memory.  A handler     *)
(* awaits its request's body and is then one step.                          *)
(*                                                                          *)
(* For each request the service makes up one candidate path, whose trust    *)
(* and freshness the request states and which is revoked if its subject is. *)
(***************************************************************************)
EXTENDS TrustRouting

CONSTANTS
  Requests,      \* the requests to /re/authorize
  RequestOf,     \* what each asks
  SubjectOf,     \* for whom
  CandidateOf,   \* the candidate path the service makes up for it
  Subjects,      \* the subjects
  MaxRestarts    \* bound on the restarts

ASSUME ResolverAssumption == MaxRestarts \in Nat

VARIABLES
  pending,       \* the requests whose body is awaited
  revocations,   \* the revoked subjects
  attestations,  \* the subjects with an attestation
  receipts,      \* the receipts, in the order of issue
  prior,         \* the receipt that the next one continues, 0 for none
  log,           \* every receipt ever answered (history)
  restarts       \* how often the service was restarted

vars == <<pending, revocations, attestations, receipts, prior, log, restarts>>

Receipt == [request: Requests, decision: {"PERMIT", "CONSTRAIN", "THROTTLE", "STEP_UP", "DENY"},
            prior: Nat, id: Nat]

TypeOK ==
  /\ pending \subseteq Requests
  /\ revocations \cup attestations \subseteq Subjects
  /\ receipts \in Seq(Receipt)
  /\ prior \in 0..Len(log)
  /\ log \in Seq(Receipt)
  /\ restarts \in 0..MaxRestarts

Init ==
  /\ pending = {} /\ revocations = {} /\ attestations = {} /\ receipts = <<>>
  /\ prior = 0 /\ log = <<>> /\ restarts = 0

Answered(r) == \E k \in 1..Len(log) : log[k].request = r

\* The head of a request arrives; its body follows.
Arrive(r) ==
  /\ r \notin pending /\ ~Answered(r)
  /\ pending' = pending \cup {r}
  /\ UNCHANGED <<revocations, attestations, receipts, prior, log, restarts>>

demoCandidates(r) == <<[CandidateOf[r] EXCEPT !.revoked = SubjectOf[r] \in revocations]>>

\* Mutant: the receipt continues the first one of the process.
AuthorizeOffFirst(r) ==
  LET receipt == [request |-> r, id |-> Len(log) + 1,
                  decision |-> Decision("strongest_path_wins", RequestOf[r], demoCandidates(r)),
                  prior |-> prior]
  IN /\ r \in pending
     /\ pending' = pending \ {r}
     /\ prior' = IF prior = 0 THEN receipt.id ELSE prior
     /\ receipts' = Append(receipts, receipt)
     /\ log' = Append(log, receipt)
     /\ UNCHANGED <<revocations, attestations, restarts>>

\* The body of a request to /re/authorize is there.
Authorize(r) ==
  LET receipt == [request |-> r, id |-> Len(log) + 1,
                  decision |-> Decision("strongest_path_wins", RequestOf[r], demoCandidates(r)),
                  prior |-> prior]
  IN /\ r \in pending
     /\ pending' = pending \ {r}
     /\ prior' = receipt.id
     /\ receipts' = Append(receipts, receipt)
     /\ log' = Append(log, receipt)
     /\ UNCHANGED <<revocations, attestations, restarts>>

\* A body does not parse or lacks a part: 400, or the connection is lost.
Refuse(r) ==
  /\ r \in pending
  /\ pending' = pending \ {r}
  /\ UNCHANGED <<revocations, attestations, receipts, prior, log, restarts>>

\* POST /revocations.
Revoke(s) ==
  /\ revocations' = revocations \cup {s}
  /\ UNCHANGED <<pending, attestations, receipts, prior, log, restarts>>

\* POST /attestations.
Attest(s) ==
  /\ attestations' = attestations \cup {s}
  /\ UNCHANGED <<pending, revocations, receipts, prior, log, restarts>>

\* The process ends and is started again.
Restart ==
  /\ restarts < MaxRestarts
  /\ restarts' = restarts + 1
  /\ pending' = {} /\ revocations' = {} /\ attestations' = {} /\ receipts' = <<>> /\ prior' = 0
  /\ UNCHANGED log

Next ==
  \/ \E r \in Requests : Arrive(r) \/ Authorize(r) \/ Refuse(r)
  \/ \E s \in Subjects : Revoke(s) \/ Attest(s)
  \/ Restart

Spec == Init /\ [][Next]_vars

-----------------------------------------------------------------------------
(* Properties. *)

\* The receipts the process holds are one chain in the order of issue, from the
\* first it issued to the one the next continues.
OneChain ==
  /\ \A k \in 1..Len(receipts) :
       receipts[k].prior = IF k = 1 THEN 0 ELSE receipts[k - 1].id
  /\ prior = IF receipts = <<>> THEN 0 ELSE Last(receipts).id

\* The service holds one chain of well-formed receipts.
ServiceInv == TypeOK /\ OneChain
=============================================================================
