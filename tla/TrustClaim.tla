----------------------------- MODULE TrustClaim -----------------------------
(***************************************************************************)
(* The evaluation of a trust claim against a proof in the TTP language      *)
(* (src/evaluator.js), at a time that the caller names.  Scores and times   *)
(* are whole numbers.                                                       *)
(***************************************************************************)
EXTENDS Integers

CONSTANTS
  MaxScore,   \* the largest score
  Horizon,    \* the latest time
  HalfLives,  \* the half-lives; one of 0 parses
  Halved,     \* Halved[x, t, h]: what is left of x after a time t, rounded
  Nothing     \* no freshness is required; not a number

Marks == 0..MaxScore

Moments == 0..Horizon

ASSUME ClaimAssumption ==
  /\ MaxScore \in Nat /\ Horizon \in Nat
  /\ HalfLives \subseteq Nat
  /\ Nothing \notin Nat

ASSUME DecayAssumption ==
  /\ Halved \in [Marks \X Moments \X (HalfLives \ {0}) -> Marks]
  /\ \A x \in Marks, t, u \in Moments, h \in HalfLives \ {0} :
       /\ Halved[x, t, h] <= x
       /\ t <= u => Halved[x, u, h] <= Halved[x, t, h]

Claim == [score: Marks, issuedAt: Moments, expiresAt: Moments,
          decay: {"none", "linear", "unsupported"}, minimum: Marks, halfLife: HalfLives]

Proof == [required: Marks, freshness: Moments \cup {Nothing}, cleartext: BOOLEAN]

\* A claim is as old as it is, but never younger than new.
elapsed(c, at) == IF at >= c.issuedAt THEN at - c.issuedAt ELSE 0

\* Mutant: the claim is as old as the time it has left.
EffectiveByTimeLeft(c, at) ==
  IF c.decay = "none" THEN c.score
  ELSE IF c.halfLife = 0 \/ c.score < c.minimum \/ at > c.expiresAt THEN c.minimum
  ELSE c.minimum + Halved[c.score - c.minimum, c.expiresAt - at, c.halfLife]

\* A new claim whose half-life is 0 has lived 0 / 0 half-lives; a score below the
\* minimum is raised to it.
calculateEffectiveScore(c, at) ==
  IF c.decay = "none" THEN c.score
  ELSE IF c.halfLife = 0 /\ elapsed(c, at) = 0 THEN Nothing
  ELSE IF c.halfLife = 0 \/ c.score < c.minimum THEN c.minimum
  ELSE c.minimum + Halved[c.score - c.minimum, elapsed(c, at), c.halfLife]

Expired(c, p, at) ==
  \/ at > c.expiresAt
  \/ p.freshness # Nothing /\ at - c.issuedAt > p.freshness

Meets(c, p, at) ==
  /\ calculateEffectiveScore(c, at) # Nothing
  /\ calculateEffectiveScore(c, at) >= p.required

evaluate(c, p, at) ==
  IF ~p.cleartext THEN "UNSUPPORTED_PROOF_MODE"
  ELSE IF Expired(c, p, at) THEN "TRUST_PROOF_EXPIRED"
  ELSE IF c.decay = "unsupported" THEN "UNSUPPORTED_DECAY_MODEL"
  ELSE IF Meets(c, p, at) THEN "TRUST_PROOF_VALID"
  ELSE "TRUST_PROOF_INSUFFICIENT"

-----------------------------------------------------------------------------
(* Properties, of a claim c and a proof p. *)

\* A claim that has expired stays expired, and one that is valid was valid at every
\* earlier time: none begins to hold, or holds again.  The exception is a claim with a
\* half-life of 0, which is not a number until it is issued and its minimum afterwards.
ValidityEnds(c, p) ==
  \A t, u \in Moments : t <= u =>
    /\ evaluate(c, p, t) = "TRUST_PROOF_EXPIRED" => evaluate(c, p, u) = "TRUST_PROOF_EXPIRED"
    /\ evaluate(c, p, u) = "TRUST_PROOF_VALID" =>
         \/ evaluate(c, p, t) = "TRUST_PROOF_VALID"
         \/ c.decay = "linear" /\ c.halfLife = 0 /\ elapsed(c, t) = 0
=============================================================================
