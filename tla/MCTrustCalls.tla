---------------------------- MODULE MCTrustCalls ----------------------------
(* Calls for TLC: of the engine, with any request of every action and up to    *)
(* two candidates of a pool; of the check of a chain of up to three links; and *)
(* of the evaluation of a claim.                                               *)
EXTENDS TrustCalls

CONSTANTS build, deploy, write, shell

Fine == [action |-> build, bound |-> TRUE, hashed |-> TRUE, served |-> TRUE,
         provable |-> TRUE, late |-> FALSE]

Plain == [issuer |-> "behavioral", score |-> 90, minimum |-> 65, age |-> 60, fits |-> TRUE,
          revoked |-> FALSE, stepUp |-> FALSE, refuses |-> FALSE, grant |-> TRUE]

\* Every score, and each other field as it may differ from Plain.
Pool ==
  LET scored == {[Plain EXCEPT !.score = s, !.minimum = m] : s \in Scores, m \in {30, 65}}
  IN  scored \cup
      {[c EXCEPT !.fits = FALSE] : c \in scored} \cup
      {[c EXCEPT !.stepUp = TRUE] : c \in scored} \cup
      {[c EXCEPT !.revoked = TRUE, !.age = 10] : c \in scored} \cup
      {[c EXCEPT !.issuer = "supervisor", !.age = 10] : c \in scored} \cup
      {[c EXCEPT !.issuer = "domain", !.refuses = TRUE] : c \in scored} \cup
      {[c EXCEPT !.grant = FALSE] : c \in scored}

\* A request that is right, or wrong in one part.
Requested ==
  LET right == {[Fine EXCEPT !.action = a] : a \in Actions}
  IN  right \cup {[q EXCEPT !.bound = FALSE] : q \in right}
            \cup {[q EXCEPT !.served = FALSE] : q \in right}
            \cup {[q EXCEPT !.late = TRUE] : q \in right}

Routings == [of: {"engine"}, request: Requested, candidates: BoundedSeq(Pool, 2)]

Sent(i, s, amount) == [issuer |-> i, subject |-> s, amount |-> amount, transferable |-> TRUE,
                       expired |-> FALSE, inScope |-> TRUE]

\* Links between three parties, right or wrong in one part; an amount of 3 is too much.
Links ==
  LET right == {Sent(p[1], p[2], amount) : p \in {<<1, 2>>, <<2, 3>>, <<2, 1>>, <<1, 1>>}, amount \in 0..3}
      full  == {l \in right : l.amount = 2}
  IN  right \cup {[l EXCEPT !.transferable = FALSE] : l \in full}
            \cup {[l EXCEPT !.expired = TRUE] : l \in full}

Chains ==
  [of: {"chain"}, links: BoundedSeq(Links, 3),
   request: [root: {1, AnyRoot}, trusted: {{1, 2}}, maxLength: {2, 3}, minLinkTrust: {0, 1},
             enforceMonotonic: BOOLEAN, attenuation: {"product", "min", "none"}]]

Claims == [of: {"claim"}, claim: Claim, proof: Proof]

Left == [<<x, t, h>> \in (0..MaxScore) \X (0..Horizon) \X {2} |->
           (x * (<<10, 7, 5, 3>>)[t + 1]) \div 10]
=============================================================================
