----------------------------- MODULE TrustToken -----------------------------
(***************************************************************************)
(* A service that trusts the tokens of TrustAuthority: TTPVerifier and its *)
(* Express middleware (sdk/typescript).  Verification is offline, so what  *)
(* the operator does at the authority reaches the service only through the *)
(* tokens that expire; whoever holds a token may present it at any time,   *)
(* and again.  Verification awaits only the signature: what it reads and   *)
(* changes of its own it does after that, in one step.                     *)
(***************************************************************************)
EXTENDS TrustAuthority

CONSTANTS
  ServiceDomain,     \* the domain the service requires
  MinScore,          \* the score it requires
  DenyQuarantined,   \* whether the middleware turns quarantined agents away
  ReplayDetection,   \* whether the verifier remembers token identifiers
  ReplayTtl,         \* 300 s: how long it does
  ClockTolerance,    \* 30 s: how long past its expiry a token passes
  MaxLives,          \* bound on the starts of the service
  MaxAccepted        \* bound on the requests the service accepts

ASSUME ServiceAssumption ==
  /\ ServiceDomain \in Domains
  /\ {MinScore, ReplayTtl, ClockTolerance, MaxLives, MaxAccepted} \subseteq Nat
  /\ {DenyQuarantined, ReplayDetection} \subseteq BOOLEAN

VARIABLES
  jtiCache,    \* the remembered tokens, and since when
  life,        \* which start of the service this is
  accepted,    \* every request it let through (history)
  blockedAt    \* when each agent was blocked, or None (history)

serviceVars == <<jtiCache, life, accepted, blockedAt>>
allVars     == <<vars, serviceVars>>

Acceptance == [n: Nat, token: Token, at: Nat, life: Nat,
               quarantinedSince: Nat \cup {None}, blockedSince: Nat \cup {None}]

ServiceTypeOK ==
  /\ TypeOK
  /\ jtiCache \subseteq [jti: Jtis, at: Nat]
  /\ life \in Nat
  /\ accepted \subseteq Acceptance
  /\ blockedAt \in [Agents -> Nat \cup {None}]

ServiceInit ==
  /\ Init
  /\ jtiCache = {} /\ life = 0 /\ accepted = {}
  /\ blockedAt = [a \in Agents |-> None]

\* jwtVerify with clockTolerance.
Unexpired(t) == now < t.exp + ClockTolerance

Remembered(j) == \E e \in jtiCache : e.jti = j

\* Steps 3 to 7 of verifyTTPToken.
Verifies(t) ==
  /\ Unexpired(t)
  /\ t.domain = ServiceDomain
  /\ t.score >= MinScore
  /\ ReplayDetection => ~Remembered(t.jti)

RememberJti(j) ==
  jtiCache' = IF ReplayDetection THEN jtiCache \cup {[jti |-> j, at |-> now]} ELSE jtiCache

\* Mutant: the middleware knows automatic quarantines only.
TurnedAwayAuto(t) == DenyQuarantined /\ t.mode = "auto"

TurnedAway(t) == DenyQuarantined /\ t.mode # "none"

Accept(t) ==
  /\ Verifies(t)
  /\ ~TurnedAway(t)
  /\ Cardinality(accepted) < MaxAccepted
  /\ RememberJti(t.jti)
  /\ accepted' = accepted \cup
       {[n |-> Cardinality(accepted), token |-> t, at |-> now, life |-> life,
         quarantinedSince |->
           IF agents[t.agent].mode = "none" THEN None ELSE agents[t.agent].since,
         blockedSince |-> blockedAt[t.agent]]}
  /\ UNCHANGED <<vars, life, blockedAt>>

\* A quarantined agent is turned away after its token was remembered.
TurnAway(t) ==
  /\ Verifies(t)
  /\ TurnedAway(t)
  /\ RememberJti(t.jti)
  /\ UNCHANGED <<vars, life, accepted, blockedAt>>

\* Mutant: the timer of an entry fires at once.
ForgetEarly(e) ==
  /\ jtiCache' = jtiCache \ {e}
  /\ UNCHANGED <<vars, life, accepted, blockedAt>>

\* The timer of an entry fires, at its time or later.
Forget(e) ==
  /\ now >= e.at + ReplayTtl
  /\ jtiCache' = jtiCache \ {e}
  /\ UNCHANGED <<vars, life, accepted, blockedAt>>

\* The memory of the service is lost with its process.
ServiceRestart ==
  /\ life < MaxLives
  /\ life' = life + 1
  /\ jtiCache' = {}
  /\ UNCHANGED <<vars, accepted, blockedAt>>

\* Beside a step of the authority, the history keeps the beginning of a block.
Watch ==
  /\ blockedAt' = [a \in Agents |->
       IF ~agents'[a].blocked THEN None
       ELSE IF agents[a].blocked THEN blockedAt[a] ELSE now]
  /\ UNCHANGED <<jtiCache, life, accepted>>

ServiceStep ==
  \/ \E t \in Answered : Accept(t) \/ TurnAway(t)
  \/ \E e \in jtiCache : Forget(e)
  \/ ServiceRestart

ServiceNext == (Next /\ Watch) \/ ServiceStep

ServiceSpec == ServiceInit /\ [][ServiceNext]_allVars

-----------------------------------------------------------------------------
(* Properties. *)

\* A service that denies quarantined agents stops serving one at the latest
\* when the longest token and the clock tolerance have passed since the
\* quarantine began, however many tokens the agent collected before.
QuarantineReaches ==
  DenyQuarantined =>
    \A x \in accepted :
      x.quarantinedSince # None => x.at < x.quarantinedSince + MaxTtl + ClockTolerance

\* So for a block, whatever the service does about quarantine.
BlockReaches ==
  \A x \in accepted :
    x.blockedSince # None => x.at < x.blockedSince + MaxTtl + ClockTolerance

\* While the service runs, a token is accepted a second time only after its
\* entry in the cache has been kept for ReplayTtl.
ReplaysApart ==
  ReplayDetection =>
    \A x, y \in accepted :
      x.token.jti = y.token.jti /\ x.life = y.life /\ x.n < y.n => y.at >= x.at + ReplayTtl
=============================================================================
