--------------------------- MODULE TrustAuthority ---------------------------
(***************************************************************************)
(* The trust authority of reference-implementations/trust-authority: an    *)
(* HTTP service over one in-memory store.  Issuers post signed receipts    *)
(* about agents, agents ask for short-lived tokens whose score aggregates  *)
(* the recent receipts, and operators block, quarantine, release and       *)
(* provision agents.                                                       *)
(*                                                                         *)
(* A handler is JavaScript over that store: it runs whole, except for peer *)
(* receipts that wait for a confirmation service, and for a token, whose   *)
(* claims are fixed before its signature is awaited.                       *)
(***************************************************************************)
EXTENDS Integers, FiniteSets

CONSTANTS
  Agents,          \* agent identifiers
  Domains,         \* trust domains
  Issuers,         \* issuer identifiers; a peer issuer has its agent's name
  Provisioner,     \* the built-in issuer "ttp-authority-provisioned"
  Ids,             \* receipt identifiers the issuers use
  Body,            \* what the receipt of an identifier says, but for its time
  Minimums,        \* attester scores an issuer may be registered with, or None
  Grants,          \* provisioning grants an operator may make
  Jtis,            \* token identifiers
  Scores,          \* the scores that occur, in hundredths
  Window,          \* 300 s: age of the receipts an aggregation counts
  MaxAge,          \* 86 400 s: age of the receipts accepted and kept
  MaxFuture,       \* 300 s: how far ahead of the clock a receipt may be dated
  MaxTtl,          \* 600 s: longest token
  QuarantineTtl,   \* 60 s: longest token of a quarantined agent
  Ttls,            \* token lives an agent may ask for
  Durations,       \* lengths of a quarantine; None is until it is lifted
  Spans,           \* durations an operator may provision trust for
  IssuerSkew,      \* how far an issuer's clock may be from the authority's
  MaxTime,         \* bound on the clock
  None

AutoQuarantine == 35      \* AUTO_QUARANTINE_THRESHOLD
AutoLift       == 65      \* AUTO_LIFT_THRESHOLD
PeerMinimum    == 90      \* PEER_MIN_ATTESTER_SCORE

(* "supervised", the third mode, is never told apart from "manual". *)
Modes       == {"auto", "manual"}
Kinds       == {"infrastructure", "peer", "confirmed_peer"}
Staggers    == 0..2
ReceiptIds  == Ids \cup (Grants \X Staggers)

ASSUME AuthorityAssumption ==
  /\ Body \in [Ids -> [agent: Agents, domain: Domains, issuer: Issuers, score: Scores]]
  /\ Scores \subseteq 0..100
  /\ Minimums \subseteq 0..100 \cup {None}
  /\ {Window, MaxAge, MaxFuture, MaxTtl, QuarantineTtl, IssuerSkew, MaxTime} \subseteq Nat
  /\ Ttls \cup Spans \subseteq Nat
  /\ Durations \subseteq Nat \cup {None}
  /\ Window + MaxFuture <= MaxAge
  /\ QuarantineTtl <= MaxTtl
  /\ Provisioner \notin Issuers
  /\ Ids \cap (Grants \X Staggers) = {}
  /\ None \notin Int

VARIABLES
  now,         \* the authority's clock, in seconds
  stamped,     \* stamped[r]: the time issuer wrote into receipt r, or None
  issuers,     \* issuers[i]: the registration of issuer i
  agents,      \* agents[a]: the registration of agent a
  receipts,    \* the stored receipts
  seen,        \* the deduplication map: receipt id and time of acceptance
  confirming,  \* peer receipts that wait for the confirmation service
  granted,     \* grants made so far (their receipts have fresh identifiers)
  signing,     \* the tokens whose signature is awaited
  tokens       \* every token with its claims: those of signing, and the answered

vars == <<now, stamped, issuers, agents, receipts, seen, confirming, granted, signing, tokens>>

NoIssuer == [kind |-> "none", minScore |-> None]

(* Only a peer has a minimum for its attester, PeerMinimum unless given.     *)
Registration(kind, min) ==
  [kind |-> kind,
   minScore |-> IF kind = "infrastructure" THEN None
                ELSE IF min = None THEN PeerMinimum ELSE min]

Unregistered ==
  [known |-> FALSE, blocked |-> FALSE, mode |-> "none", since |-> 0, until |-> None]
Registered == [Unregistered EXCEPT !.known = TRUE]

Issuer  == [kind: Kinds \cup {"none"}, minScore: 0..100 \cup {None}]
Agent   == [known: BOOLEAN, blocked: BOOLEAN, mode: Modes \cup {"none"},
            since: Nat, until: Nat \cup {None}]
Receipt == [id: ReceiptIds, agent: Agents, domain: Domains,
            issuer: Issuers \cup {Provisioner}, ts: Int, score: Scores, acceptedAt: Nat]
Token   == [jti: Jtis, agent: Agents, domain: Domains, score: Scores,
            mode: Modes \cup {"none"}, iat: Nat, exp: Nat]

TypeOK ==
  /\ now \in Nat
  /\ stamped \in [Ids -> Int \cup {None}]
  /\ issuers \in [Issuers -> Issuer]
  /\ agents \in [Agents -> Agent]
  /\ receipts \subseteq Receipt
  /\ seen \subseteq [id: ReceiptIds, at: Nat]
  /\ confirming \subseteq [id: Ids, asked: Nat]
  /\ granted \subseteq Grants
  /\ tokens \subseteq Token
  /\ signing \subseteq tokens

Init ==
  /\ now = 0
  /\ stamped = [r \in Ids |-> None]
  /\ issuers = [i \in Issuers |-> NoIssuer]
  /\ agents = [a \in Agents |-> Unregistered]
  /\ receipts = {}
  /\ seen = {}
  /\ confirming = {}
  /\ granted = {}
  /\ signing = {} /\ tokens = {}

-----------------------------------------------------------------------------
(* Receipts. *)

(* An issuer observes an agent and signs a receipt with its own clock. *)
Observe(r) ==
  /\ stamped[r] = None
  /\ \E t \in (now - IssuerSkew)..(now + IssuerSkew) : stamped' = [stamped EXCEPT ![r] = t]
  /\ UNCHANGED <<now, issuers, agents, receipts, seen, confirming, granted, signing, tokens>>

Valid(r) ==
  /\ stamped[r] # None
  /\ stamped[r] <= now + MaxFuture
  /\ now - stamped[r] <= MaxAge
  /\ issuers[Body[r].issuer].kind # "none"

Duplicate(r) == \E s \in seen : s.id = r

Stored(r) == [id |-> r, agent |-> Body[r].agent, domain |-> Body[r].domain,
              issuer |-> Body[r].issuer, ts |-> stamped[r], score |-> Body[r].score,
              acceptedAt |-> now]

(* Map.set replaces the time an earlier copy was accepted at. *)
Remember(ids) == {s \in seen : s.id \notin ids} \cup {[id |-> r, at |-> now] : r \in ids}

StoreAll(rs) ==
  /\ receipts' = receipts \cup {Stored(r) : r \in rs}
  /\ seen' = Remember(rs)

(* POST /v1/receipts and each element of POST /v1/receipts/batch. *)
SubmitReceipts(rs) ==
  /\ StoreAll({r \in rs : Valid(r) /\ ~Duplicate(r)})
  /\ UNCHANGED <<now, stamped, issuers, agents, confirming, granted, signing, tokens>>

(* POST /v1/peer-receipts: the attester shows a token, of which the claims   *)
(* are decoded and nothing is verified, so they may be any claims.           *)
Shown == [sub: Issuers, score: Scores, exp: 0..MaxTime]

Vouches(claims, r) ==
  /\ claims.score # 0 /\ claims.exp # 0
  /\ claims.exp >= now
  /\ claims.sub = Body[r].issuer
  /\ claims.score >= issuers[Body[r].issuer].minScore

SubmitPeer(r) ==
  /\ Valid(r)
  /\ issuers[Body[r].issuer].kind = "peer"
  /\ {claims \in Shown : Vouches(claims, r)} # {}
  /\ ~Duplicate(r)
  /\ StoreAll({r})
  /\ UNCHANGED <<now, stamped, issuers, agents, confirming, granted, signing, tokens>>

(* The handler of a peer with a confirmation service awaits its verdict. *)
AskConfirmation(r) ==
  /\ Valid(r)
  /\ issuers[Body[r].issuer].kind = "confirmed_peer"
  /\ {claims \in Shown : Vouches(claims, r)} # {}
  /\ confirming' = confirming \cup {[id |-> r, asked |-> now]}
  /\ UNCHANGED <<now, stamped, issuers, agents, receipts, seen, granted, signing, tokens>>

\* Mutant: the duplicate check of a confirmed receipt made before the await only.
ConfirmedUnchecked(c) ==
  /\ confirming' = confirming \ {c}
  /\ StoreAll({c.id})
  /\ UNCHANGED <<now, stamped, issuers, agents, granted, signing, tokens>>

(* The verdict is "approved": only the duplicate check comes after the await. *)
Confirmed(c) ==
  /\ confirming' = confirming \ {c}
  /\ StoreAll(IF Duplicate(c.id) THEN {} ELSE {c.id})
  /\ UNCHANGED <<now, stamped, issuers, agents, granted, signing, tokens>>

(* A denial, an error and a bad status are one answer, and so is the 2 s     *)
(* timeout; but that ends with the headers of the verdict, whose body may    *)
(* take any time.                                                            *)
Denied(c) ==
  /\ confirming' = confirming \ {c}
  /\ UNCHANGED <<now, stamped, issuers, agents, receipts, seen, granted, signing, tokens>>

\* Mutant: the map pruned by the age of a window instead of the age of receipts.
PruneMapEarly ==
  /\ receipts' = {r \in receipts : now - r.ts <= MaxAge}
  /\ seen' = {s \in seen : now - s.at <= Window}
  /\ UNCHANGED <<now, stamped, issuers, agents, confirming, granted, signing, tokens>>

Prune ==
  /\ receipts' = {r \in receipts : now - r.ts <= MaxAge}
  /\ seen' = {s \in seen : now - s.at <= MaxAge}
  /\ UNCHANGED <<now, stamped, issuers, agents, confirming, granted, signing, tokens>>

-----------------------------------------------------------------------------
(* Quarantine, and the tokens that show it. *)

Lifted(x) == [x EXCEPT !.mode = "none", !.since = 0, !.until = None]

Quarantined(x, mode, until) == [x EXCEPT !.mode = mode, !.since = now, !.until = until]

Expired(x) == x.until # None /\ x.until < now

\* Mutant: the expiry looked at before the block.
SettledBlocked(x) == IF x.mode # "none" /\ Expired(x) THEN Lifted(x) ELSE x

(* getAgentStatus lifts a timed quarantine that has expired. *)
Settled(x) == IF ~x.blocked /\ x.mode # "none" /\ Expired(x) THEN Lifted(x) ELSE x

\* Mutant: the review lifts whatever quarantine it finds.
ReviewedAnyMode(x, score) ==
  LET y == Settled(x)
  IN  IF y.mode = "none" /\ score < AutoQuarantine THEN Quarantined(y, "auto", None)
      ELSE IF y.mode # "none" /\ score >= AutoLift THEN Lifted(y)
      ELSE y

(* What a token request makes of the agent, given the score it computed. *)
Reviewed(x, score) ==
  LET y == Settled(x)
  IN  IF y.mode = "none" /\ score < AutoQuarantine THEN Quarantined(y, "auto", None)
      ELSE IF y.mode = "auto" /\ score >= AutoLift THEN Lifted(y)
      ELSE y

InWindow(r) == now - r.ts <= Window

Counted(a, d) == {r \in receipts : r.agent = a /\ r.domain = d /\ InWindow(r)}

(* aggregateTrustScore is a weighted mean, with positive weights. *)
Aggregates(rs) == {s \in Scores : /\ \E r \in rs : r.score <= s
                                  /\ \E r \in rs : s <= r.score}

Smaller(x, y) == IF x <= y THEN x ELSE y

\* Mutant: a quarantine claim for automatic quarantines only.
ClaimsAutoOnly(j, a, d, score, ttl, mode) ==
  [jti |-> j, agent |-> a, domain |-> d, score |-> score,
   mode |-> IF mode = "auto" THEN "auto" ELSE "none", iat |-> now,
   exp |-> now + Smaller(ttl, IF mode = "none" THEN MaxTtl ELSE QuarantineTtl)]

Claims(j, a, d, score, ttl, mode) ==
  [jti |-> j, agent |-> a, domain |-> d, score |-> score, mode |-> mode, iat |-> now,
   exp |-> now + Smaller(ttl, IF mode = "none" THEN MaxTtl ELSE QuarantineTtl)]

RequestToken(j, a, d, ttl) ==
  /\ \A t \in tokens : t.jti # j
  /\ agents[a].known
  /\ ~agents[a].blocked
  /\ \E score \in Aggregates(Counted(a, d)) :
       LET x == Reviewed(agents[a], score)
       IN  /\ agents' = [agents EXCEPT ![a] = x]
           /\ tokens' = tokens \cup {Claims(j, a, d, score, ttl, x.mode)}
           /\ signing' = signing \cup {Claims(j, a, d, score, ttl, x.mode)}
  /\ UNCHANGED <<now, stamped, issuers, receipts, seen, confirming, granted>>

\* Mutant: the token dated when it is signed.
DatedWhenSigned(t) ==
  /\ signing' = signing \ {t}
  /\ tokens' = (tokens \ {t}) \cup
                 {[t EXCEPT !.iat = now, !.exp = now + (t.exp - t.iat)]}
  /\ UNCHANGED <<now, stamped, issuers, agents, receipts, seen, confirming, granted>>

(* The key is imported and the token signed, each after an await; then it is *)
(* answered, whatever has become of the agent.                               *)
Signed(t) ==
  /\ signing' = signing \ {t}
  /\ UNCHANGED <<now, stamped, issuers, agents, receipts, seen, confirming, granted, tokens>>

Answered == tokens \ signing

-----------------------------------------------------------------------------
(* Operators. *)

(* A registration replaces the issuer's earlier one. *)
RegisterIssuer(i, kind, min) ==
  /\ kind # "infrastructure" => \E a \in Agents : agents[a].known
  /\ issuers' = [issuers EXCEPT ![i] = Registration(kind, min)]
  /\ UNCHANGED <<now, stamped, agents, receipts, seen, confirming, granted, signing, tokens>>

(* So does an agent's, with its block and its quarantine. *)
RegisterAgent(a) ==
  /\ agents' = [agents EXCEPT ![a] = Registered]
  /\ UNCHANGED <<now, stamped, issuers, receipts, seen, confirming, granted, signing, tokens>>

Block(a) ==
  /\ agents[a].known
  /\ agents' = [agents EXCEPT ![a].blocked = TRUE]
  /\ UNCHANGED <<now, stamped, issuers, receipts, seen, confirming, granted, signing, tokens>>

(* The status of one agent, or of all: reading it settles it. *)
ReadStatus(as) ==
  /\ agents' = [a \in Agents |-> IF a \in as THEN Settled(agents[a]) ELSE agents[a]]
  /\ UNCHANGED <<now, stamped, issuers, receipts, seen, confirming, granted, signing, tokens>>

Quarantine(a, mode, duration) ==
  /\ agents[a].known
  /\ ~agents[a].blocked
  /\ agents' = [agents EXCEPT ![a] =
       Quarantined(@, mode, IF duration = None THEN None ELSE now + duration)]
  /\ UNCHANGED <<now, stamped, issuers, receipts, seen, confirming, granted, signing, tokens>>

(* 409 unless quarantined; finding out may settle the agent. *)
Lift(a) ==
  /\ agents[a].known
  /\ agents' = [agents EXCEPT ![a] = IF @.blocked THEN @ ELSE Lifted(Settled(@))]
  /\ UNCHANGED <<now, stamped, issuers, receipts, seen, confirming, granted, signing, tokens>>

(* Three synthetic receipts, dated back in steps of a sixth of the span. *)
StaggeredBack(span, i) == now - ((span * i) \div 6)

Provision(g, a, d, score, span) ==
  /\ g \notin granted
  /\ agents[a].known
  /\ receipts' = receipts \cup
       {[id |-> <<g, i>>, agent |-> a, domain |-> d, issuer |-> Provisioner,
         ts |-> StaggeredBack(span, i), score |-> score, acceptedAt |-> now] : i \in Staggers}
  /\ seen' = Remember({g} \X Staggers)
  /\ granted' = granted \cup {g}
  /\ UNCHANGED <<now, stamped, issuers, agents, confirming, signing, tokens>>

(* The store is in memory; its keys, and so the tokens answered, outlive it. *)
Restart ==
  /\ issuers' = [i \in Issuers |-> NoIssuer]
  /\ agents' = [a \in Agents |-> Unregistered]
  /\ receipts' = {}
  /\ seen' = {}
  /\ confirming' = {}
  /\ signing' = {}
  /\ tokens' = Answered
  /\ UNCHANGED <<now, stamped, granted>>

Tick ==
  /\ now < MaxTime
  /\ now' = now + 1
  /\ UNCHANGED <<stamped, issuers, agents, receipts, seen, confirming, granted, signing, tokens>>

-----------------------------------------------------------------------------
ReceiptStep ==
  \/ \E r \in Ids : Observe(r) \/ SubmitPeer(r) \/ AskConfirmation(r)
  \/ \E rs \in SUBSET Ids : rs # {} /\ SubmitReceipts(rs)
  \/ \E c \in confirming : Confirmed(c) \/ Denied(c)
  \/ Prune

IssuerStep ==
  \E i \in Issuers, kind \in Kinds, min \in Minimums : RegisterIssuer(i, kind, min)

AgentStep ==
  \/ \E a \in Agents : RegisterAgent(a) \/ Block(a) \/ Lift(a) \/ ReadStatus({a})
  \/ \E a \in Agents, mode \in Modes, duration \in Durations : Quarantine(a, mode, duration)
  \/ ReadStatus(Agents)

ProvisionStep ==
  \E g \in Grants, a \in Agents, d \in Domains, score \in Scores, span \in Spans :
    Provision(g, a, d, score, span)

TokenStep ==
  \/ \E j \in Jtis, a \in Agents, d \in Domains, ttl \in Ttls : RequestToken(j, a, d, ttl)
  \/ \E t \in signing : Signed(t)

Next ==
  \/ ReceiptStep \/ IssuerStep \/ AgentStep \/ ProvisionStep \/ TokenStep
  \/ Restart \/ Tick

Spec == Init /\ [][Next]_vars

-----------------------------------------------------------------------------
(* Properties. *)

(* A receipt counts once in a score: issuers retry, confirmations come late *)
(* and the deduplication map is pruned, but two stored copies of a receipt  *)
(* are never both inside an aggregation window.                             *)
CountedOnce ==
  \A r1, r2 \in receipts : r1.id = r2.id /\ InWindow(r1) /\ InWindow(r2) => r1 = r2

(* A receipt is dated at most MaxFuture after the authority accepted it. *)
DatedNearAcceptance ==
  \A r \in receipts : r.acceptedAt <= now /\ r.ts <= r.acceptedAt + MaxFuture

(* Until it has outlived MaxAge, an accepted receipt is in the map. *)
Deduplicated ==
  \A r \in receipts :
    \/ now - r.acceptedAt > MaxAge
    \/ \E s \in seen : s.id = r.id /\ s.at >= r.acceptedAt

SeenInThePast == \A s \in seen : s.at <= now

OneEntry == \A s1, s2 \in seen : s1.id = s2.id => s1 = s2

(* A receipt that waits was validated when its confirmation was asked for. *)
AskedWhenValid ==
  \A c \in confirming : /\ c.asked <= now
                        /\ stamped[c.id] # None
                        /\ stamped[c.id] <= c.asked + MaxFuture

GrantsAreFresh ==
  \A g \in Grants, i \in Staggers :
    g \in granted \/ \A r \in receipts : r.id # <<g, i>>

(* The inductive invariant of the deduplication: CountedOnce and the parts *)
(* that relate the map, the store, the clock and the waiting receipts.     *)
IInv ==
  /\ TypeOK
  /\ CountedOnce
  /\ DatedNearAcceptance
  /\ Deduplicated
  /\ SeenInThePast
  /\ OneEntry
  /\ AskedWhenValid
  /\ GrantsAreFresh

(* A token that does not say so is dated before its agent's quarantine    *)
(* began, though its signature may have been awaited across that: whoever *)
(* reads the claims sees every quarantine of the past.                    *)
QuarantineShown ==
  \A t \in tokens :
    agents[t.agent].mode # "none" /\ t.mode = "none" => t.iat <= agents[t.agent].since

(* A score under the threshold never travels in an ordinary token: the    *)
(* request that computes it quarantines the agent and shortens the token. *)
LowScoreShown ==
  \A t \in tokens :
    t.score < AutoQuarantine => t.mode # "none" /\ t.exp <= t.iat + QuarantineTtl

(* Quarantine ends by an operator, by the end of its time or, if it was   *)
(* automatic, with a token whose score has recovered; by nothing else.    *)
Recovered(a) ==
  /\ agents[a].mode = "auto"
  /\ \E t \in tokens' \ tokens : t.agent = a /\ t.score >= AutoLift

LeavesQuarantine ==
  [][\A a \in Agents :
       agents[a].mode # "none" /\ agents'[a].mode = "none" =>
         \/ Expired(agents[a])
         \/ Recovered(a)
         \/ Lift(a) \/ RegisterAgent(a) \/ Restart]_vars

(* A blocked agent is unblocked by registering it anew or by a restart    *)
(* only, and until then no request of it gets as far as a token's claims  *)
(* and its quarantine, if it has one, is frozen: not even reading an      *)
(* expired one lifts it.                                                  *)
BlockedIsFrozen ==
  [][\A a \in Agents :
       agents[a].blocked =>
         \/ RegisterAgent(a) \/ Restart
         \/ /\ agents'[a] = agents[a]
            /\ \A t \in tokens' \ tokens : t.agent # a]_vars
=============================================================================
