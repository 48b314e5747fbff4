---------------------------- MODULE Measurement ----------------------------
(***************************************************************************)
(* Measured trust (attest.mjs): which evidence about an agent is admitted,  *)
(* what score it counts with, and what the measurement proves.  Evidence is *)
(* the agent's own signed execution receipts and what attestors hand over:  *)
(* attestations, which verify_attestation of the TTP primitives checks, and *)
(* receipts.  An age is counted back from the time of the measurement; what *)
(* is dated after it has a negative age.                                    *)
(***************************************************************************)
EXTENDS Aggregation

CONSTANTS
  MAX_EVIDENCE_AGE,   \* by severity; Unlimited for LOW
  Sources,            \* the issuers of evidence
  Unset               \* a field that an attestation leaves out

\* In twentieths, like every score.
TRUST_REQUIRED == [CRITICAL |-> 18, HIGH |-> 15, MEDIUM |-> 12, LOW |-> 0]

Severity == DOMAIN TRUST_REQUIRED

\* Only where no trust is required may evidence be of any age.
ASSUME EvidenceAssumption ==
  /\ MAX_EVIDENCE_AGE \in [Severity -> Nat \cup {Unlimited}]
  /\ \A s \in Severity : TRUST_REQUIRED[s] > 0 => MAX_EVIDENCE_AGE[s] # Unlimited
  /\ Unset \notin Int

\* What a receipt says of the execution; the classes of denial codes that are told apart.
Verdict == {"succeeded", "failed", "overreach", "violation", "bounds", "approval",
            "unavailable", "stale", "other"}

ExecutionReceipt ==
  [pinned: BOOLEAN,         \* it verifies against a pinned key
   about: BOOLEAN,          \* the agent is on its route or asked for it
   verdict: Verdict, issued: Int, executed: Int]

Attestation ==
  [issuer: Sources,
   trusted: BOOLEAN,        \* the signature verifies with the key of its issuer
   fits: BOOLEAN,           \* its subject, and the issuer and type it requires itself
   revoked: BOOLEAN, age: Int,
   left: Int,               \* until it expires
   maxAge: Nat \cup {Unset}, score: Int \cup {Unset}, delta: Int]

Attestor == [ok: BOOLEAN, attestations: Seq(Attestation), receipts: Seq(ExecutionReceipt)]

scoreExecutionReceipt(r) ==
  [succeeded |-> 19, failed |-> 14, overreach |-> 3, violation |-> 4, bounds |-> 7,
   approval |-> 15, unavailable |-> 13, stale |-> 12, other |-> 10][r.verdict]

\* The receipts about the agent, as evidence of the boundary.
behaviouralReceipts(receipts) ==
  FlattenSeq([k \in DOMAIN receipts |->
    OnlyIf(receipts[k].about, [issuer |-> "pctr.effect-boundary", age |-> receipts[k].executed,
                               score |-> scoreExecutionReceipt(receipts[k])])])

\* Mutant: an infinite age admits nothing.
AdmitFinite(r, limit) == r.pinned /\ r.issued >= 0 /\ limit # Unlimited /\ r.issued <= limit

\* The receipts of the workspace that are admitted.
Admitted(r, limit) == r.pinned /\ r.issued >= 0 /\ Within(r.issued, limit)

\* An infinite age is not a finite number: nothing is fresh by it.
verify_attestation(a, limit) ==
  /\ a.fits /\ ~a.revoked /\ a.trusted
  /\ a.age >= 0
  /\ a.left >= 0 /\ a.age + a.left > 0
  /\ LET maxAge == IF a.maxAge = Unset THEN limit ELSE a.maxAge
     IN  maxAge # Unlimited /\ a.age <= maxAge

\* A verified attestation counts as a receipt from its issuer.
Attested(a) ==
  [issuer |-> a.issuer, age |-> a.age,
   score |-> IF a.score = Unset THEN 10 + a.delta ELSE a.score]

\* runAttestor: an attestor that fails hands over nothing.
Handed(attestor, limit) ==
  LET a == attestor.attestations
      r == attestor.receipts
  IN  IF attestor.ok
      THEN FlattenSeq([k \in DOMAIN a |-> OnlyIf(verify_attestation(a[k], limit), Attested(a[k]))])
             \o behaviouralReceipts(FlattenSeq([k \in DOMAIN r |-> OnlyIf(r[k].pinned, r[k])]))
      ELSE <<>>

admittedReceipts(receipts, limit) ==
  FlattenSeq([k \in DOMAIN receipts |-> OnlyIf(Admitted(receipts[k], limit), receipts[k])])

collected(severity, receipts, attestors) ==
  LET limit == MAX_EVIDENCE_AGE[severity]
  IN  behaviouralReceipts(admittedReceipts(receipts, limit))
        \o FlattenSeq([k \in DOMAIN attestors |-> Handed(attestors[k], limit)])

\* The measured trust, or INSUFFICIENT_TRUST_DATA: the agent is unproven.
attestAgent(severity, receipts, attestors) ==
  aggregateTrust(collected(severity, receipts, attestors), MAX_EVIDENCE_AGE[severity])

proven(severity, receipts, attestors) ==
  attestAgent(severity, receipts, attestors) # INSUFFICIENT_TRUST_DATA

\* Whether the threshold of the severity is proved; unproven trust counts as 0.
proveThreshold(severity, receipts, attestors) ==
  LET trust == attestAgent(severity, receipts, attestors)
  IN  (IF trust = INSUFFICIENT_TRUST_DATA THEN 0 ELSE trust) >= 50 * TRUST_REQUIRED[severity]
-----------------------------------------------------------------------------
(* Properties of every measurement. *)

\* The receipts that were offered, by the workspace or by an attestor that answered.
Offered(receipts, attestors) ==
  ToSet(receipts) \cup UNION {ToSet(t.receipts) : t \in {t \in ToSet(attestors) : t.ok}}

Vouched(attestors) == UNION {ToSet(t.attestations) : t \in {t \in ToSet(attestors) : t.ok}}

\* A threshold above zero is proved only if one piece of evidence reaches it by itself:
\* about this agent, vouched for by a trusted signature, not revoked or expired, and no
\* older than the severity allows, whatever an attestation says of its own age.
ProofEarned(severity, receipts, attestors) ==
  LET required == TRUST_REQUIRED[severity]
      limit    == MAX_EVIDENCE_AGE[severity]
  IN  required > 0 /\ proveThreshold(severity, receipts, attestors) =>
        \/ \E r \in Offered(receipts, attestors) :
             r.pinned /\ r.about /\ r.executed <= limit /\ scoreExecutionReceipt(r) >= required
        \/ \E a \in Vouched(attestors) :
             /\ a.trusted /\ a.fits /\ ~a.revoked /\ a.age \in 0..limit /\ a.left >= 0
             /\ Attested(a).score >= required

\* An agent that is proven at a severity is proven at every one that allows older
\* evidence; at one without a limit, unless it rests on attestations alone, none of
\* which sets a maximal age itself.
LooserProvesMore(receipts, attestors) ==
  \A s, t \in Severity :
    /\ proven(s, receipts, attestors) /\ ~proven(t, receipts, attestors)
    /\ MAX_EVIDENCE_AGE[s] # Unlimited /\ Within(MAX_EVIDENCE_AGE[s], MAX_EVIDENCE_AGE[t])
    => /\ MAX_EVIDENCE_AGE[t] = Unlimited
       /\ \A r \in Offered(receipts, attestors) : ~(r.pinned /\ r.about) \/ r.issued < 0
       /\ \E a \in Vouched(attestors) : a.maxAge = Unset
=============================================================================
