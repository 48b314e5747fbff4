------------------------ MODULE TrustAuthorityProofs ------------------------
(***************************************************************************)
(* Proofs about TrustAuthority, for any agents, issuers, receipts, clocks  *)
(* and grants: a receipt counts once in a score whatever is retried,       *)
(* confirmed late or pruned, because the deduplication map remembers a     *)
(* receipt longer than a future-dated one can stay inside a window; and    *)
(* the tokens show the quarantines of the past.  And about TrustToken: a    *)
(* quarantine or a block reaches every service within the longest token    *)
(* and the clock tolerance, and acceptances of one token are kept apart,   *)
(* whatever the holder of the tokens presents and however the service      *)
(* restarts.                                                               *)
(***************************************************************************)
EXTENDS TrustToken, FiniteSetTheorems, TLAPS

USE AuthorityAssumption

(* The part of the invariant that is about receipts, and what it reads.     *)
DedupInv ==
  /\ CountedOnce
  /\ DatedNearAcceptance
  /\ Deduplicated
  /\ SeenInThePast
  /\ OneEntry
  /\ AskedWhenValid
  /\ GrantsAreFresh

(* The part that is about tokens and quarantines.                           *)
TokensInThePast == \A t \in tokens : t.iat <= now

ReviewInv ==
  /\ TypeOK
  /\ TokensInThePast
  /\ QuarantineShown
  /\ LowScoreShown

-----------------------------------------------------------------------------
(* Types. *)

LEMMA RegisteredType == Unregistered \in Agent /\ Registered \in Agent
BY DEF Unregistered, Registered, Agent

LEMMA NoIssuerType == NoIssuer \in Issuer
BY DEF NoIssuer, Issuer

LEMMA RegistrationType ==
  ASSUME NEW kind \in Kinds, NEW min \in Minimums
  PROVE  Registration(kind, min) \in Issuer
<1>1. kind \in Kinds \cup {"none"} /\ min \in 0..100 \cup {None} /\ 90 \in 0..100
  OBVIOUS
<1> QED
  BY ONLY <1>1 DEF Registration, Issuer, PeerMinimum

LEMMA LiftedType == ASSUME NEW x \in Agent PROVE Lifted(x) \in Agent
BY DEF Lifted, Agent

LEMMA BlockedType == ASSUME NEW x \in Agent PROVE [x EXCEPT !.blocked = TRUE] \in Agent
BY DEF Agent

LEMMA QuarantinedType ==
  ASSUME now \in Nat, NEW x \in Agent, NEW m \in Modes, NEW u \in Nat \cup {None}
  PROVE  Quarantined(x, m, u) \in Agent
BY DEF Quarantined, Agent

LEMMA SettledType == ASSUME NEW x \in Agent PROVE Settled(x) \in Agent
BY LiftedType DEF Settled

LEMMA ReviewedType ==
  ASSUME now \in Nat, NEW x \in Agent, NEW s \in Scores
  PROVE  Reviewed(x, s) \in Agent
<1>1. Settled(x) \in Agent
  BY SettledType
<1> QED
  BY <1>1, LiftedType, QuarantinedType DEF Reviewed, Modes

LEMMA ClaimsType ==
  ASSUME now \in Nat, NEW j \in Jtis, NEW a \in Agents, NEW d \in Domains,
         NEW s \in Scores, NEW ttl \in Ttls, NEW m \in Modes \cup {"none"}
  PROVE  /\ Claims(j, a, d, s, ttl, m) \in Token
         /\ Claims(j, a, d, s, ttl, m).iat = now
         /\ Claims(j, a, d, s, ttl, m).mode = m
         /\ Claims(j, a, d, s, ttl, m).score = s
         /\ Claims(j, a, d, s, ttl, m).agent = a
         /\ Claims(j, a, d, s, ttl, m).exp <= now + MaxTtl
         /\ m # "none" => Claims(j, a, d, s, ttl, m).exp <= now + QuarantineTtl
BY DEF Claims, Token, Smaller

(* What a token request does to the agent and to the set of tokens.         *)
LEMMA RequestEffect ==
  ASSUME TypeOK, NEW j \in Jtis, NEW a \in Agents, NEW d \in Domains, NEW ttl \in Ttls,
         RequestToken(j, a, d, ttl)
  PROVE  \E s \in Scores :
           /\ Reviewed(agents[a], s) \in Agent
           /\ agents' = [agents EXCEPT ![a] = Reviewed(agents[a], s)]
           /\ tokens' = tokens \cup {Claims(j, a, d, s, ttl, Reviewed(agents[a], s).mode)}
           /\ signing' = signing \cup {Claims(j, a, d, s, ttl, Reviewed(agents[a], s).mode)}
<1>1. PICK s \in Aggregates(Counted(a, d)) :
        /\ agents' = [agents EXCEPT ![a] = Reviewed(agents[a], s)]
        /\ tokens' = tokens \cup {Claims(j, a, d, s, ttl, Reviewed(agents[a], s).mode)}
        /\ signing' = signing \cup {Claims(j, a, d, s, ttl, Reviewed(agents[a], s).mode)}
  BY DEF RequestToken
<1>2. s \in Scores
  BY <1>1 DEF Aggregates
<1>3. Reviewed(agents[a], s) \in Agent
  BY <1>2, ReviewedType DEF TypeOK
<1> QED
  BY <1>1, <1>2, <1>3

LEMMA StoreAllType ==
  ASSUME TypeOK, NEW rs \in SUBSET Ids, \A r \in rs : stamped[r] # None, StoreAll(rs)
  PROVE  receipts' \subseteq Receipt /\ seen' \subseteq [id: ReceiptIds, at: Nat]
<1>1. \A r \in rs : Stored(r) \in Receipt
  BY DEF Stored, Receipt, TypeOK, ReceiptIds
<1>2. seen' \subseteq [id: ReceiptIds, at: Nat]
  BY DEF StoreAll, Remember, TypeOK, ReceiptIds
<1> QED
  BY <1>1, <1>2 DEF StoreAll, TypeOK

LEMMA StaggerType ==
  ASSUME now \in Nat, NEW span \in Nat, NEW i \in Staggers
  PROVE  StaggeredBack(span, i) \in Int /\ StaggeredBack(span, i) <= now
<1>1. CASE i = 0
  BY <1>1 DEF StaggeredBack
<1>2. CASE i = 1
  BY <1>2 DEF StaggeredBack
<1>3. CASE i = 2
  BY <1>3 DEF StaggeredBack
<1> QED
  BY <1>1, <1>2, <1>3 DEF Staggers

(* The receipts and the map entries of a grant.                             *)
Given(g, a, d, score, span) ==
  {[id |-> <<g, i>>, agent |-> a, domain |-> d, issuer |-> Provisioner,
    ts |-> StaggeredBack(span, i), score |-> score, acceptedAt |-> now] : i \in Staggers}

LEMMA GivenType ==
  ASSUME now \in Nat, NEW g \in Grants, NEW a \in Agents, NEW d \in Domains,
         NEW score \in Scores, NEW span \in Spans
  PROVE  Given(g, a, d, score, span) \subseteq Receipt
<1>1. \A i \in Staggers : StaggeredBack(span, i) \in Int
  BY StaggerType
<1> QED
  BY <1>1 DEF Given, Receipt, ReceiptIds

LEMMA TypeStep == TypeOK /\ AskedWhenValid /\ [Next]_vars => TypeOK'
<1> SUFFICES ASSUME TypeOK, AskedWhenValid, [Next]_vars PROVE TypeOK'
  OBVIOUS
<1>1. ASSUME NEW r \in Ids, Observe(r) PROVE TypeOK'
  BY <1>1 DEF Observe, TypeOK
<1>2. ASSUME NEW rs \in SUBSET Ids, SubmitReceipts(rs) PROVE TypeOK'
  <2> DEFINE new == {r \in rs : Valid(r) /\ ~Duplicate(r)}
  <2>1. new \in SUBSET Ids /\ \A r \in new : stamped[r] # None
    BY DEF Valid
  <2>2. StoreAll(new)
    BY <1>2 DEF SubmitReceipts
  <2>3. receipts' \subseteq Receipt /\ seen' \subseteq [id: ReceiptIds, at: Nat]
    BY <2>1, <2>2, StoreAllType
  <2> QED
    BY <1>2, <2>3 DEF SubmitReceipts, TypeOK
<1>3. ASSUME NEW r \in Ids, SubmitPeer(r) PROVE TypeOK'
  <2>1. receipts' \subseteq Receipt /\ seen' \subseteq [id: ReceiptIds, at: Nat]
    BY <1>3, StoreAllType DEF SubmitPeer, Valid
  <2> QED
    BY <1>3, <2>1 DEF SubmitPeer, TypeOK
<1>4. ASSUME NEW r \in Ids, AskConfirmation(r) PROVE TypeOK'
  BY <1>4 DEF AskConfirmation, TypeOK
<1>5. ASSUME NEW c \in confirming, Denied(c) PROVE TypeOK'
  BY <1>5 DEF Denied, TypeOK
<1>6. CASE Prune
  BY <1>6 DEF Prune, TypeOK
<1>7. CASE IssuerStep
  <2>1. PICK i \in Issuers, x \in Issuer : issuers' = [issuers EXCEPT ![i] = x]
    BY <1>7, RegistrationType DEF IssuerStep, RegisterIssuer
  <2>2. UNCHANGED <<now, stamped, agents, receipts, seen, confirming, granted, signing, tokens>>
    BY <1>7 DEF IssuerStep, RegisterIssuer
  <2> QED
    BY <2>1, <2>2 DEF TypeOK
<1>8. ASSUME NEW a \in Agents, RegisterAgent(a) \/ Block(a) \/ Lift(a) PROVE TypeOK'
  <2>1. PICK x \in Agent : agents' = [agents EXCEPT ![a] = x]
    <3>1. CASE RegisterAgent(a)
      BY <3>1, RegisteredType DEF RegisterAgent
    <3>2. CASE Block(a)
      BY <3>2, BlockedType DEF Block, TypeOK
    <3>3. CASE Lift(a)
      BY <3>3, LiftedType, SettledType DEF Lift, TypeOK
    <3> QED
      BY <1>8, <3>1, <3>2, <3>3
  <2>2. UNCHANGED <<now, stamped, issuers, receipts, seen, confirming, granted, signing, tokens>>
    BY <1>8 DEF RegisterAgent, Block, Lift
  <2> QED
    BY <2>1, <2>2 DEF TypeOK
<1>9. ASSUME NEW as \in SUBSET Agents, ReadStatus(as) PROVE TypeOK'
  BY <1>9, SettledType DEF ReadStatus, TypeOK
<1>10. ASSUME NEW a \in Agents, NEW mode \in Modes, NEW duration \in Durations,
              Quarantine(a, mode, duration)
       PROVE  TypeOK'
  <2> DEFINE until == IF duration = None THEN None ELSE now + duration
  <2>1. until \in Nat \cup {None}
    BY DEF TypeOK
  <2>2. Quarantined(agents[a], mode, until) \in Agent
    BY <2>1, QuarantinedType DEF TypeOK
  <2> QED
    BY <1>10, <2>2 DEF Quarantine, TypeOK
<1>11. ASSUME NEW g \in Grants, NEW a \in Agents, NEW d \in Domains, NEW score \in Scores,
              NEW span \in Spans, Provision(g, a, d, score, span)
       PROVE  TypeOK'
  <2>1. receipts' = receipts \cup Given(g, a, d, score, span)
    BY <1>11 DEF Provision, Given
  <2>2. receipts' \subseteq Receipt
    BY <2>1, GivenType DEF TypeOK
  <2>3. seen' \subseteq [id: ReceiptIds, at: Nat]
    BY <1>11 DEF Provision, Remember, TypeOK, ReceiptIds
  <2> QED
    BY <1>11, <2>2, <2>3 DEF Provision, TypeOK
<1>12. ASSUME NEW j \in Jtis, NEW a \in Agents, NEW d \in Domains, NEW ttl \in Ttls,
              RequestToken(j, a, d, ttl)
       PROVE  TypeOK'
  <2>1. PICK s \in Scores :
          /\ Reviewed(agents[a], s) \in Agent
          /\ agents' = [agents EXCEPT ![a] = Reviewed(agents[a], s)]
          /\ tokens' = tokens \cup {Claims(j, a, d, s, ttl, Reviewed(agents[a], s).mode)}
          /\ signing' = signing \cup {Claims(j, a, d, s, ttl, Reviewed(agents[a], s).mode)}
    BY <1>12, RequestEffect
  <2>2. Reviewed(agents[a], s).mode \in Modes \cup {"none"}
    BY <2>1 DEF Agent
  <2>3. Claims(j, a, d, s, ttl, Reviewed(agents[a], s).mode) \in Token
    BY <2>2, ClaimsType DEF TypeOK
  <2> QED
    BY <1>12, <2>1, <2>3 DEF RequestToken, TypeOK
<1>13. ASSUME NEW c \in confirming, Confirmed(c) PROVE TypeOK'
  <2> DEFINE new == IF Duplicate(c.id) THEN {} ELSE {c.id}
  <2>1. new \in SUBSET Ids /\ \A r \in new : stamped[r] # None
    BY DEF AskedWhenValid, TypeOK
  <2>2. receipts' \subseteq Receipt /\ seen' \subseteq [id: ReceiptIds, at: Nat]
    BY <1>13, <2>1, StoreAllType DEF Confirmed
  <2> QED
    BY <1>13, <2>2 DEF Confirmed, TypeOK
<1>14. CASE Restart
  BY <1>14, NoIssuerType, RegisteredType DEF Restart, Answered, TypeOK
<1>15. CASE Tick
  BY <1>15 DEF Tick, TypeOK
<1>16. CASE UNCHANGED vars
  BY <1>16 DEF vars, TypeOK
<1>17. ASSUME NEW t \in signing, Signed(t) PROVE TypeOK'
  BY <1>17 DEF Signed, TypeOK
<1> QED
  BY <1>1, <1>2, <1>3, <1>4, <1>5, <1>6, <1>7, <1>8, <1>9, <1>10, <1>11, <1>12, <1>13,
     <1>14, <1>15, <1>16, <1>17
  DEF Next, ReceiptStep, AgentStep, ProvisionStep, TokenStep

-----------------------------------------------------------------------------
(* Receipts. *)

(* An entry leaves the map only after its receipt has left every window.    *)
LEMMA Outlived ==
  ASSUME TypeOK, DatedNearAcceptance, NEW r \in receipts, now - r.acceptedAt > MaxAge
  PROVE  ~InWindow(r)
<1>1. r.acceptedAt \in Nat /\ r.ts \in Int /\ now \in Nat
  BY DEF TypeOK, Receipt
<1>2. r.ts <= r.acceptedAt + MaxFuture
  BY DEF DatedNearAcceptance
<1>3. now - r.ts > Window
  BY <1>1, <1>2
<1> QED
  BY <1>1, <1>3 DEF InWindow

(* Receipts are stored, with new identifiers or ones the map has outlived.  *)
LEMMA StoreStep ==
  ASSUME TypeOK, DedupInv, NEW ids \in SUBSET ReceiptIds, NEW new \in SUBSET Receipt,
         \A r \in new : r.id \in ids /\ r.acceptedAt = now /\ r.ts <= now + MaxFuture,
         \A p, q \in new : p.id = q.id => p = q,
         \A r \in receipts : r.id \in ids => now - r.acceptedAt > MaxAge,
         receipts' = receipts \cup new, seen' = Remember(ids),
         UNCHANGED <<now, stamped>>, confirming' \subseteq confirming,
         GrantsAreFresh'
  PROVE  DedupInv'
<1> USE DEF DedupInv
<1>1. CountedOnce'
  <2> SUFFICES ASSUME NEW p \in receipts', NEW q \in receipts', p.id = q.id,
                      InWindow(p), InWindow(q)
               PROVE  p = q
    BY DEF CountedOnce, InWindow
  <2>1. CASE p \in receipts /\ q \in receipts
    BY <2>1 DEF CountedOnce
  <2>2. CASE p \in new /\ q \in new
    BY <2>2
  <2>3. \A r \in receipts : r.id \in ids => ~InWindow(r)
    BY Outlived
  <2> QED
    BY <2>1, <2>2, <2>3
<1>2. DatedNearAcceptance'
  <2> SUFFICES ASSUME NEW r \in receipts' PROVE r.acceptedAt <= now /\ r.ts <= r.acceptedAt + MaxFuture
    BY DEF DatedNearAcceptance
  <2> QED
    BY DEF DatedNearAcceptance, TypeOK
<1>3. Deduplicated'
  <2> SUFFICES ASSUME NEW r \in receipts'
               PROVE  \/ now - r.acceptedAt > MaxAge
                      \/ \E s \in seen' : s.id = r.id /\ s.at >= r.acceptedAt
    BY DEF Deduplicated
  <2>1. CASE r \in receipts /\ r.id \in ids
    BY <2>1
  <2>2. CASE r \in receipts /\ r.id \notin ids
    BY <2>2 DEF Deduplicated, Remember
  <2>3. CASE r \in new
    <3>1. [id |-> r.id, at |-> now] \in seen'
      BY <2>3 DEF Remember
    <3>2. now >= r.acceptedAt
      BY <2>3 DEF TypeOK
    <3> QED
      BY <3>1, <3>2
  <2> QED
    BY <2>1, <2>2, <2>3
<1>4. SeenInThePast' /\ OneEntry'
  BY DEF SeenInThePast, OneEntry, Remember, TypeOK
<1>5. AskedWhenValid'
  BY DEF AskedWhenValid
<1> QED
  BY <1>1, <1>2, <1>3, <1>4, <1>5

(* The receipts of the issuers, posted, batched, or confirmed late.         *)
LEMMA StoreAllStep ==
  ASSUME TypeOK, DedupInv, NEW rs \in SUBSET Ids, StoreAll(rs),
         \A r \in rs : stamped[r] # None /\ stamped[r] <= now + MaxFuture /\ ~Duplicate(r),
         UNCHANGED <<now, stamped, granted>>, confirming' \subseteq confirming
  PROVE  DedupInv'
<1> DEFINE new == {Stored(r) : r \in rs}
<1>1. \A r \in rs : /\ Stored(r) \in Receipt
                    /\ Stored(r).id = r
                    /\ Stored(r).acceptedAt = now
                    /\ Stored(r).ts <= now + MaxFuture
  BY DEF Stored, Receipt, TypeOK, ReceiptIds
<1>2. \A r \in new : r.id \in rs /\ r.acceptedAt = now /\ r.ts <= now + MaxFuture
  BY <1>1
<1>3. \A p, q \in new : p.id = q.id => p = q
  BY <1>1
<1>4. \A r \in receipts : r.id \in rs => now - r.acceptedAt > MaxAge
  BY DEF Duplicate, DedupInv, Deduplicated
<1>5. receipts' = receipts \cup new /\ seen' = Remember(rs)
  BY DEF StoreAll
<1>6. GrantsAreFresh'
  <2>1. \A g \in Grants, i \in Staggers : <<g, i>> \notin Ids
    OBVIOUS
  <2>2. \A g \in Grants, i \in Staggers : \A r \in new : r.id # <<g, i>>
    BY <1>2, <2>1
  <2> HIDE DEF new
  <2> QED
    BY <1>5, <2>2 DEF DedupInv, GrantsAreFresh
<1>7. rs \in SUBSET ReceiptIds /\ new \in SUBSET Receipt
  BY <1>1 DEF ReceiptIds
<1> HIDE DEF new
<1> QED
  BY <1>2, <1>3, <1>4, <1>5, <1>6, <1>7, StoreStep

(* The receipts of a grant.                                                 *)
LEMMA ProvisionStores ==
  ASSUME TypeOK, DedupInv, NEW g \in Grants, NEW a \in Agents, NEW d \in Domains,
         NEW score \in Scores, NEW span \in Spans, Provision(g, a, d, score, span)
  PROVE  DedupInv'
<1> DEFINE new == Given(g, a, d, score, span)
           ids == {g} \X Staggers
<1>1. new \in SUBSET Receipt /\ ids \in SUBSET ReceiptIds
  BY GivenType DEF TypeOK, ReceiptIds
<1>2. \A r \in new : r.id \in ids /\ r.acceptedAt = now /\ r.ts <= now + MaxFuture
  <2>1. \A i \in Staggers : StaggeredBack(span, i) \in Int /\ StaggeredBack(span, i) <= now
    BY StaggerType DEF TypeOK
  <2>2. \A i \in Staggers : StaggeredBack(span, i) <= now + MaxFuture
    BY <2>1 DEF TypeOK
  <2> QED
    BY <2>2 DEF Given
<1>3. \A p, q \in new : p.id = q.id => p = q
  BY DEF Given
<1>4. \A r \in receipts : r.id \notin ids
  BY DEF Provision, DedupInv, GrantsAreFresh
<1>5. receipts' = receipts \cup new /\ seen' = Remember(ids)
  BY DEF Provision, Given
<1>6. GrantsAreFresh'
  <2>1. granted' = granted \cup {g}
    BY DEF Provision
  <2> QED
    BY <1>2, <1>5, <2>1 DEF DedupInv, GrantsAreFresh
<1>7. UNCHANGED <<now, stamped>> /\ confirming' \subseteq confirming
  BY DEF Provision
<1> HIDE DEF new, ids
<1> QED
  BY <1>1, <1>2, <1>3, <1>4, <1>5, <1>6, <1>7, StoreStep

LEMMA DedupStep == TypeOK /\ DedupInv /\ [Next]_vars => DedupInv'
<1> SUFFICES ASSUME TypeOK, DedupInv, [Next]_vars PROVE DedupInv'
  OBVIOUS
<1>1. ASSUME NEW r \in Ids, Observe(r) PROVE DedupInv'
  <2>1. AskedWhenValid'
    BY <1>1 DEF Observe, DedupInv, AskedWhenValid, TypeOK
  <2> QED
    BY <1>1, <2>1
    DEF Observe, DedupInv, CountedOnce, InWindow, DatedNearAcceptance, Deduplicated,
        SeenInThePast, OneEntry, GrantsAreFresh
<1>2. ASSUME NEW rs \in SUBSET Ids, SubmitReceipts(rs) PROVE DedupInv'
  <2> DEFINE new == {r \in rs : Valid(r) /\ ~Duplicate(r)}
  <2>1. \A r \in new : stamped[r] # None /\ stamped[r] <= now + MaxFuture /\ ~Duplicate(r)
    BY DEF Valid
  <2>2. StoreAll(new) /\ UNCHANGED <<now, stamped, granted, confirming>>
    BY <1>2 DEF SubmitReceipts
  <2> HIDE DEF new
  <2>3. new \in SUBSET Ids
    BY DEF new
  <2> QED
    BY <2>1, <2>2, <2>3, StoreAllStep
<1>3. ASSUME NEW r \in Ids, SubmitPeer(r) PROVE DedupInv'
  BY <1>3, StoreAllStep DEF SubmitPeer, Valid
<1>4. ASSUME NEW r \in Ids, AskConfirmation(r) PROVE DedupInv'
  <2>1. AskedWhenValid'
    BY <1>4 DEF AskConfirmation, Valid, DedupInv, AskedWhenValid, TypeOK
  <2> QED
    BY <1>4, <2>1
    DEF AskConfirmation, DedupInv, CountedOnce, InWindow, DatedNearAcceptance, Deduplicated,
        SeenInThePast, OneEntry, GrantsAreFresh
<1>5. ASSUME NEW c \in confirming, Confirmed(c) PROVE DedupInv'
  <2> DEFINE new == IF Duplicate(c.id) THEN {} ELSE {c.id}
  <2>1. new \in SUBSET Ids
    BY DEF TypeOK
  <2>2. stamped[c.id] # None /\ stamped[c.id] <= now + MaxFuture
    BY DEF DedupInv, AskedWhenValid, TypeOK
  <2>3. \A r \in new : stamped[r] # None /\ stamped[r] <= now + MaxFuture /\ ~Duplicate(r)
    BY <2>2
  <2>4. /\ StoreAll(new) /\ UNCHANGED <<now, stamped, granted>>
        /\ confirming' \subseteq confirming
    BY <1>5 DEF Confirmed
  <2> QED
    BY <2>1, <2>3, <2>4, StoreAllStep
<1>6. ASSUME NEW c \in confirming, Denied(c) PROVE DedupInv'
  BY <1>6
  DEF Denied, DedupInv, CountedOnce, InWindow, DatedNearAcceptance, Deduplicated,
      SeenInThePast, OneEntry, GrantsAreFresh, AskedWhenValid
<1>7. CASE Prune
  <2>1. receipts' \subseteq receipts /\ seen' \subseteq seen /\ UNCHANGED <<now, stamped, confirming, granted>>
    BY <1>7 DEF Prune
  <2>2. Deduplicated'
    <3> SUFFICES ASSUME NEW r \in receipts', ~(now - r.acceptedAt > MaxAge)
                 PROVE  \E s \in seen' : s.id = r.id /\ s.at >= r.acceptedAt
      BY <2>1 DEF Deduplicated
    <3>1. PICK s \in seen : s.id = r.id /\ s.at >= r.acceptedAt
      BY <2>1 DEF DedupInv, Deduplicated
    <3>2. s.at \in Nat /\ r.acceptedAt \in Nat /\ now \in Nat
      BY <2>1 DEF TypeOK, Receipt
    <3>3. now - s.at <= MaxAge
      BY <3>1, <3>2
    <3> QED
      BY <1>7, <3>1, <3>3 DEF Prune
  <2> QED
    BY <2>1, <2>2
    DEF DedupInv, CountedOnce, InWindow, DatedNearAcceptance, SeenInThePast, OneEntry,
        GrantsAreFresh, AskedWhenValid
<1>8. ASSUME NEW g \in Grants, NEW a \in Agents, NEW d \in Domains, NEW score \in Scores,
             NEW span \in Spans, Provision(g, a, d, score, span)
      PROVE  DedupInv'
  BY <1>8, ProvisionStores
<1>9. CASE Restart
  BY <1>9
  DEF Restart, DedupInv, CountedOnce, InWindow, DatedNearAcceptance, Deduplicated,
      SeenInThePast, OneEntry, GrantsAreFresh, AskedWhenValid
<1>10. CASE Tick
  <2>1. now' = now + 1 /\ UNCHANGED <<stamped, receipts, seen, confirming, granted>>
    BY <1>10 DEF Tick
  <2>2. now \in Nat /\ \A r \in receipts : r.acceptedAt \in Nat /\ r.ts \in Int
    BY DEF TypeOK, Receipt
  <2>3. CountedOnce'
    BY <2>1, <2>2 DEF DedupInv, CountedOnce, InWindow
  <2>4. DatedNearAcceptance' /\ Deduplicated'
    BY <2>1, <2>2 DEF DedupInv, DatedNearAcceptance, Deduplicated
  <2>5. SeenInThePast' /\ AskedWhenValid'
    BY <2>1 DEF DedupInv, SeenInThePast, AskedWhenValid, TypeOK
  <2> QED
    BY <2>1, <2>3, <2>4, <2>5 DEF DedupInv, OneEntry, GrantsAreFresh
<1>11. CASE UNCHANGED <<now, stamped, receipts, seen, confirming, granted>>
  BY <1>11
  DEF DedupInv, CountedOnce, InWindow, DatedNearAcceptance, Deduplicated,
      SeenInThePast, OneEntry, GrantsAreFresh, AskedWhenValid
<1>12. CASE IssuerStep \/ AgentStep \/ TokenStep \/ UNCHANGED vars
  BY <1>11, <1>12
  DEF IssuerStep, RegisterIssuer, AgentStep, RegisterAgent, Block, Lift, ReadStatus, Quarantine,
      TokenStep, RequestToken, Signed, vars
<1> QED
  BY <1>1, <1>2, <1>3, <1>4, <1>5, <1>6, <1>7, <1>8, <1>9, <1>10, <1>12
  DEF Next, ReceiptStep, ProvisionStep

LEMMA InitInv == Init => IInv
<1> SUFFICES ASSUME Init PROVE IInv
  OBVIOUS
<1>1. TypeOK
  BY NoIssuerType, RegisteredType DEF Init, TypeOK
<1> QED
  BY <1>1
  DEF Init, IInv, CountedOnce, DatedNearAcceptance, Deduplicated, SeenInThePast, OneEntry,
      AskedWhenValid, GrantsAreFresh

LEMMA InductiveStep == IInv /\ [Next]_vars => IInv'
BY TypeStep, DedupStep DEF IInv, DedupInv

(* The invariant of the deduplication holds of every reachable state.       *)
THEOREM Invariance == Spec => []IInv
BY InitInv, InductiveStep, PTL DEF Spec

(* Every variable keeps its type.                                           *)
THEOREM TypeCorrect == Spec => []TypeOK
<1>1. IInv => TypeOK
  BY DEF IInv
<1> QED
  BY <1>1, Invariance, PTL

(* No score counts a receipt twice, whatever is retried, confirmed late or  *)
(* pruned, as long as receipts are kept for a window and a future skew.     *)
THEOREM NoDoubleCount == Spec => []CountedOnce
<1>1. IInv => CountedOnce
  BY DEF IInv
<1> QED
  BY <1>1, Invariance, PTL

-----------------------------------------------------------------------------
(* Quarantine. *)

(* A quarantine that a step finds keeps its beginning or begins anew, now.  *)
SinceKept(x, y) == y.mode # "none" => (x.mode # "none" /\ y.since = x.since) \/ y.since = now

LEMMA SettledSince == ASSUME NEW x \in Agent PROVE SinceKept(x, Settled(x))
BY DEF SinceKept, Settled, Lifted, Agent

LEMMA QuarantinedSince ==
  ASSUME NEW x \in Agent, NEW m, NEW u PROVE Quarantined(x, m, u).since = now
BY DEF Quarantined, Agent

LEMMA LiftedMode == ASSUME NEW x \in Agent PROVE Lifted(x).mode = "none"
BY DEF Lifted, Agent

LEMMA ReviewedSince ==
  ASSUME now \in Nat, NEW x \in Agent, NEW s \in Scores
  PROVE  /\ SinceKept(x, Reviewed(x, s))
         /\ s < AutoQuarantine => Reviewed(x, s).mode # "none"
<1>1. Settled(x) \in Agent /\ SinceKept(x, Settled(x))
  BY SettledType, SettledSince
<1>2. \A m, u : Quarantined(Settled(x), m, u).since = now
  BY <1>1, QuarantinedSince
<1>3. Lifted(Settled(x)).mode = "none"
  BY <1>1, LiftedMode
<1>4. \A u : Quarantined(Settled(x), "auto", u).mode = "auto"
  BY <1>1 DEF Quarantined, Agent
<1>5. s \in Int
  OBVIOUS
<1> QED
  BY <1>1, <1>2, <1>3, <1>4, <1>5 DEF SinceKept, Reviewed, AutoQuarantine, AutoLift

(* A step that fixes no claims.                                             *)
LEMMA NoToken ==
  ASSUME ReviewInv, tokens' \subseteq tokens, now' \in Nat, now <= now', TypeOK',
         \A a \in Agents : SinceKept(agents[a], agents'[a])
  PROVE  ReviewInv'
<1>1. \A t \in tokens : t.iat \in Nat /\ t.agent \in Agents
  BY DEF ReviewInv, TypeOK, Token
<1>2. now \in Nat
  BY DEF ReviewInv, TypeOK
<1>3. TokensInThePast'
  BY <1>1, <1>2 DEF ReviewInv, TokensInThePast
<1>4. QuarantineShown'
  BY <1>1, <1>2 DEF ReviewInv, QuarantineShown, TokensInThePast, SinceKept
<1>5. LowScoreShown'
  BY DEF ReviewInv, LowScoreShown
<1> QED
  BY <1>3, <1>4, <1>5 DEF ReviewInv

LEMMA TokenReviewed ==
  ASSUME ReviewInv, TypeOK', NEW j \in Jtis, NEW a \in Agents, NEW d \in Domains,
         NEW ttl \in Ttls, RequestToken(j, a, d, ttl)
  PROVE  ReviewInv'
<1>1. PICK s \in Scores :
        /\ Reviewed(agents[a], s) \in Agent
        /\ agents' = [agents EXCEPT ![a] = Reviewed(agents[a], s)]
        /\ tokens' = tokens \cup {Claims(j, a, d, s, ttl, Reviewed(agents[a], s).mode)}
  BY RequestEffect DEF ReviewInv
<1> DEFINE x == Reviewed(agents[a], s)
           new == Claims(j, a, d, s, ttl, x.mode)
<1>2. now \in Nat /\ now' = now /\ agents \in [Agents -> Agent]
  BY DEF RequestToken, ReviewInv, TypeOK
<1>3. x.mode \in Modes \cup {"none"}
  BY <1>1 DEF Agent
<1>4. /\ new.iat = now /\ new.mode = x.mode /\ new.score = s /\ new.agent = a
      /\ x.mode # "none" => new.exp <= now + QuarantineTtl
  BY <1>2, <1>3, ClaimsType
<1>5. SinceKept(agents[a], x) /\ (s < AutoQuarantine => x.mode # "none")
  BY <1>2, ReviewedSince
<1>6. agents'[a] = x /\ \A b \in Agents \ {a} : agents'[b] = agents[b]
  BY <1>1, <1>2
<1>7. \A t \in tokens : t.iat \in Nat /\ t.agent \in Agents /\ t.iat <= now
  BY DEF ReviewInv, TypeOK, Token, TokensInThePast
<1>8. tokens' = tokens \cup {new}
  BY <1>1
<1> HIDE DEF x, new
<1>9. TokensInThePast'
  BY <1>2, <1>4, <1>7, <1>8 DEF TokensInThePast
<1>10. QuarantineShown'
  BY <1>4, <1>5, <1>6, <1>7, <1>8 DEF ReviewInv, QuarantineShown, SinceKept
<1>11. LowScoreShown'
  BY <1>4, <1>5, <1>8 DEF ReviewInv, LowScoreShown
<1> QED
  BY <1>9, <1>10, <1>11 DEF ReviewInv

LEMMA ReviewStep == IInv /\ ReviewInv /\ [Next]_vars => ReviewInv'
<1> SUFFICES ASSUME IInv, ReviewInv, [Next]_vars PROVE ReviewInv'
  OBVIOUS
<1>1. TypeOK'
  BY TypeStep DEF IInv
<1>2. now \in Nat /\ agents \in [Agents -> Agent]
  BY DEF ReviewInv, TypeOK
<1>3. \A x \in Agent : SinceKept(x, x) /\ SinceKept(x, Lifted(x)) /\ SinceKept(x, Registered)
  BY LiftedMode DEF SinceKept, Registered, Unregistered
<1>4. ASSUME UNCHANGED <<now, agents, tokens>> PROVE ReviewInv'
  BY <1>1, <1>2, <1>3, <1>4, NoToken
<1>5. CASE ReceiptStep \/ IssuerStep \/ ProvisionStep \/ UNCHANGED vars
  BY <1>4, <1>5
  DEF ReceiptStep, Observe, SubmitPeer, AskConfirmation, SubmitReceipts, Confirmed, Denied,
      Prune, IssuerStep, RegisterIssuer, ProvisionStep, Provision, vars
<1>6. ASSUME NEW a \in Agents, RegisterAgent(a) \/ Block(a) \/ Lift(a) PROVE ReviewInv'
  <2>1. UNCHANGED <<now, tokens>>
    BY <1>6 DEF RegisterAgent, Block, Lift
  <2>2. Settled(agents[a]) \in Agent /\ SinceKept(agents[a], Lifted(Settled(agents[a])))
    BY <1>2, SettledType, LiftedMode DEF SinceKept
  <2>3. SinceKept(agents[a], [agents[a] EXCEPT !.blocked = TRUE])
    BY <1>2 DEF SinceKept, Agent
  <2>4. \A b \in Agents : SinceKept(agents[b], agents'[b])
    <3>1. PICK x : /\ agents' = [agents EXCEPT ![a] = x]
                   /\ SinceKept(agents[a], x)
      <4>1. CASE RegisterAgent(a)
        BY <1>2, <1>3, <4>1 DEF RegisterAgent
      <4>2. CASE Block(a)
        BY <2>3, <4>2 DEF Block
      <4>3. CASE Lift(a)
        BY <1>2, <1>3, <2>2, <4>3 DEF Lift
      <4> QED
        BY <1>6, <4>1, <4>2, <4>3
    <3> QED
      BY <1>2, <1>3, <3>1
  <2> QED
    BY <1>1, <1>2, <2>1, <2>4, NoToken
<1>7. ASSUME NEW as \in SUBSET Agents, ReadStatus(as) PROVE ReviewInv'
  <2>1. \A b \in Agents : SinceKept(agents[b], agents'[b])
    BY <1>2, <1>3, <1>7, SettledSince DEF ReadStatus
  <2>2. UNCHANGED <<now, tokens>>
    BY <1>7 DEF ReadStatus
  <2> QED
    BY <1>1, <1>2, <2>1, <2>2, NoToken
<1>8. ASSUME NEW a \in Agents, NEW mode \in Modes, NEW duration \in Durations,
             Quarantine(a, mode, duration)
      PROVE  ReviewInv'
  <2>1. \A u : SinceKept(agents[a], Quarantined(agents[a], mode, u))
    BY <1>2, QuarantinedSince DEF SinceKept
  <2>2. \A b \in Agents : SinceKept(agents[b], agents'[b])
    BY <1>2, <1>3, <1>8, <2>1 DEF Quarantine
  <2> QED
    BY <1>1, <1>2, <1>8, <2>2, NoToken DEF Quarantine
<1>9. ASSUME NEW j \in Jtis, NEW a \in Agents, NEW d \in Domains, NEW ttl \in Ttls,
             RequestToken(j, a, d, ttl)
      PROVE  ReviewInv'
  BY <1>1, <1>9, TokenReviewed
<1>10. CASE Restart
  <2>1. \A b \in Agents : SinceKept(agents[b], agents'[b])
    BY <1>10 DEF Restart, SinceKept, Unregistered
  <2> QED
    BY <1>1, <1>2, <1>10, <2>1, NoToken DEF Restart, Answered
<1>11. CASE Tick
  BY <1>1, <1>2, <1>3, <1>11, NoToken DEF Tick
<1>12. ASSUME NEW t \in signing, Signed(t) PROVE ReviewInv'
  BY <1>4, <1>12 DEF Signed
<1> QED
  BY <1>5, <1>6, <1>7, <1>8, <1>9, <1>10, <1>11, <1>12 DEF Next, AgentStep, TokenStep

LEMMA InitReview == Init => ReviewInv
<1> SUFFICES ASSUME Init PROVE ReviewInv
  OBVIOUS
<1>1. TypeOK
  BY InitInv DEF IInv
<1> QED
  BY <1>1 DEF Init, ReviewInv, TokensInThePast, QuarantineShown, LowScoreShown

(* A token whose agent is under quarantine says so, or is older than it.    *)
THEOREM QuarantineIsShown == Spec => [](QuarantineShown /\ LowScoreShown)
<1>1. ReviewInv => QuarantineShown /\ LowScoreShown
  BY DEF ReviewInv
<1> QED
  BY <1>1, InitReview, ReviewStep, Invariance, PTL DEF Spec

-----------------------------------------------------------------------------
(* The tokens of a step. *)

(* Every token is short. *)
TokensShort == \A t \in tokens : t.exp <= t.iat + MaxTtl

(* The claims that a step of the authority fixes are dated now and of an    *)
(* agent that is not blocked.                                               *)
LEMMA NewTokens ==
  ASSUME TypeOK, [Next]_vars, NEW t \in tokens' \ tokens
  PROVE  /\ t.iat = now /\ t.exp <= now + MaxTtl /\ t.agent \in Agents
         /\ ~agents[t.agent].blocked
<1>1. PICK j \in Jtis, a \in Agents, d \in Domains, ttl \in Ttls : RequestToken(j, a, d, ttl)
  BY DEF Next, ReceiptStep, Observe, SubmitPeer, AskConfirmation, SubmitReceipts, Confirmed,
         Denied, Prune, IssuerStep, RegisterIssuer, AgentStep, RegisterAgent, Block, Lift,
         ReadStatus, Quarantine, ProvisionStep, Provision, TokenStep, Signed, Restart,
         Answered, Tick, vars
<1>2. PICK s \in Scores :
        /\ Reviewed(agents[a], s) \in Agent
        /\ tokens' = tokens \cup {Claims(j, a, d, s, ttl, Reviewed(agents[a], s).mode)}
  BY <1>1, RequestEffect
<1>3. Reviewed(agents[a], s).mode \in Modes \cup {"none"}
  BY <1>2 DEF Agent
<1>4. t = Claims(j, a, d, s, ttl, Reviewed(agents[a], s).mode)
  BY <1>2
<1>5. t.iat = now /\ t.exp <= now + MaxTtl /\ t.agent = a
  BY <1>3, <1>4, ClaimsType DEF TypeOK
<1> QED
  BY <1>1, <1>5 DEF RequestToken

-----------------------------------------------------------------------------
(* What a step may do to a quarantine and to a blocked agent. *)

(* Why an agent leaves its quarantine in a token request.                   *)
LEMMA ReviewedLeaves ==
  ASSUME NEW x \in Agent, NEW s \in Scores,
         x.mode # "none", Reviewed(x, s).mode = "none"
  PROVE  Expired(x) \/ (x.mode = "auto" /\ s >= AutoLift)
<1>1. CASE Settled(x) # x
  BY <1>1 DEF Settled
<1>2. CASE Settled(x) = x
  <2>1. Quarantined(x, "auto", None).mode = "auto"
    BY DEF Quarantined, Agent
  <2> QED
    BY <1>2, <2>1 DEF Reviewed
<1> QED
  BY <1>1, <1>2

LEMMA Leaves ==
  ASSUME TypeOK, [Next]_vars, NEW a \in Agents,
         agents[a].mode # "none", agents'[a].mode = "none"
  PROVE  Expired(agents[a]) \/ Recovered(a) \/ Lift(a) \/ RegisterAgent(a) \/ Restart
<1>1. agents \in [Agents -> Agent]
  BY DEF TypeOK
<1>2. agents' # agents
  OBVIOUS
<1>3. CASE ReceiptStep \/ IssuerStep \/ ProvisionStep \/ Tick \/ UNCHANGED vars
  BY <1>2, <1>3
  DEF ReceiptStep, Observe, SubmitPeer, AskConfirmation, SubmitReceipts, Confirmed, Denied,
      Prune, IssuerStep, RegisterIssuer, ProvisionStep, Provision, Tick, vars
<1>4. ASSUME NEW b \in Agents, RegisterAgent(b) \/ Block(b) \/ Lift(b)
      PROVE  Lift(a) \/ RegisterAgent(a)
  <2>1. [agents[b] EXCEPT !.blocked = TRUE].mode = agents[b].mode
    BY <1>1 DEF Agent
  <2>2. ASSUME Block(b) PROVE FALSE
    BY <1>1, <2>1, <2>2 DEF Block
  <2>3. CASE a # b
    BY <1>1, <1>4, <2>3 DEF RegisterAgent, Block, Lift
  <2> QED
    BY <1>4, <2>2, <2>3
<1>5. ASSUME NEW as \in SUBSET Agents, ReadStatus(as) PROVE Expired(agents[a])
  BY <1>1, <1>5 DEF ReadStatus, Settled
<1>6. ASSUME NEW b \in Agents, NEW mode \in Modes, NEW duration \in Durations,
             Quarantine(b, mode, duration)
      PROVE  FALSE
  <2>1. \A u : Quarantined(agents[b], mode, u).mode = mode
    BY <1>1 DEF Quarantined, Agent
  <2> QED
    BY <1>1, <1>6, <2>1 DEF Quarantine, Modes
<1>7. ASSUME NEW j \in Jtis, NEW b \in Agents, NEW d \in Domains, NEW ttl \in Ttls,
             RequestToken(j, b, d, ttl)
      PROVE  Expired(agents[a]) \/ Recovered(a)
  <2>1. PICK s \in Scores :
          /\ Reviewed(agents[b], s) \in Agent
          /\ agents' = [agents EXCEPT ![b] = Reviewed(agents[b], s)]
          /\ tokens' = tokens \cup {Claims(j, b, d, s, ttl, Reviewed(agents[b], s).mode)}
    BY <1>7, RequestEffect
  <2>2. a = b
    BY <1>1, <2>1
  <2>3. Reviewed(agents[a], s).mode = "none"
    BY <1>1, <2>1, <2>2
  <2>4. Expired(agents[a]) \/ (agents[a].mode = "auto" /\ s >= AutoLift)
    BY <1>1, <2>3, ReviewedLeaves
  <2> DEFINE new == Claims(j, b, d, s, ttl, Reviewed(agents[b], s).mode)
  <2>5. new.jti = j /\ new.agent = a /\ new.score = s
    BY <2>2 DEF Claims
  <2>6. \A t \in tokens : t.jti # j
    BY <1>7 DEF RequestToken
  <2> HIDE DEF new
  <2>7. new \in tokens' \ tokens
    BY <2>1, <2>5, <2>6 DEF new
  <2> QED
    BY <2>4, <2>5, <2>7 DEF Recovered
<1>8. ASSUME NEW t \in signing, Signed(t) PROVE FALSE
  BY <1>2, <1>8 DEF Signed
<1> QED
  BY <1>3, <1>4, <1>5, <1>6, <1>7, <1>8 DEF Next, AgentStep, TokenStep

(* Quarantine ends by an operator, by the end of its time or, if it was     *)
(* automatic, with a token whose score has recovered; by nothing else.      *)
THEOREM QuarantineLeft == Spec => LeavesQuarantine
<1>1. TypeOK /\ [Next]_vars =>
        [\A a \in Agents :
           agents[a].mode # "none" /\ agents'[a].mode = "none" =>
             \/ Expired(agents[a])
             \/ Recovered(a)
             \/ Lift(a) \/ RegisterAgent(a) \/ Restart]_vars
  BY Leaves
<1> QED
  BY <1>1, TypeCorrect, PTL DEF Spec, LeavesQuarantine

LEMMA BlockedStays ==
  ASSUME TypeOK, [Next]_vars, NEW a \in Agents, agents[a].blocked
  PROVE  \/ RegisterAgent(a) \/ Restart
         \/ /\ agents'[a] = agents[a]
            /\ \A t \in tokens' \ tokens : t.agent # a
<1>1. agents \in [Agents -> Agent]
  BY DEF TypeOK
<1>2. \A t \in tokens' \ tokens : t.agent # a
  BY NewTokens
<1>3. CASE ReceiptStep \/ IssuerStep \/ ProvisionStep \/ Tick \/ UNCHANGED vars
  BY <1>2, <1>3
  DEF ReceiptStep, Observe, SubmitPeer, AskConfirmation, SubmitReceipts, Confirmed, Denied,
      Prune, IssuerStep, RegisterIssuer, ProvisionStep, Provision, Tick, vars
<1>4. ASSUME NEW b \in Agents, RegisterAgent(b) \/ Block(b) \/ Lift(b)
      PROVE  RegisterAgent(a) \/ agents'[a] = agents[a]
  <2>1. CASE RegisterAgent(b)
    BY <1>1, <2>1 DEF RegisterAgent
  <2>2. CASE Block(b)
    <3>1. agents[a].blocked = TRUE
      BY <1>1 DEF Agent
    <3>2. [agents[a] EXCEPT !.blocked = TRUE] = agents[a]
      BY <1>1, <3>1 DEF Agent
    <3> QED
      BY <1>1, <2>2, <3>2 DEF Block
  <2>3. CASE Lift(b)
    BY <1>1, <2>3 DEF Lift
  <2> QED
    BY <1>4, <2>1, <2>2, <2>3
<1>5. ASSUME NEW as \in SUBSET Agents, ReadStatus(as) PROVE agents'[a] = agents[a]
  BY <1>1, <1>5 DEF ReadStatus, Settled
<1>6. ASSUME NEW b \in Agents, NEW mode \in Modes, NEW duration \in Durations,
             Quarantine(b, mode, duration)
      PROVE  agents'[a] = agents[a]
  BY <1>1, <1>6 DEF Quarantine
<1>7. ASSUME NEW j \in Jtis, NEW b \in Agents, NEW d \in Domains, NEW ttl \in Ttls,
             RequestToken(j, b, d, ttl)
      PROVE  agents'[a] = agents[a]
  BY <1>1, <1>7 DEF RequestToken
<1>8. ASSUME NEW t \in signing, Signed(t) PROVE agents'[a] = agents[a]
  BY <1>8 DEF Signed
<1> QED
  BY <1>2, <1>3, <1>4, <1>5, <1>6, <1>7, <1>8 DEF Next, AgentStep, TokenStep

(* A blocked agent is unblocked by registering it anew or by a restart      *)
(* only; until then it gets no token and its quarantine is frozen.          *)
THEOREM BlockedFrozen == Spec => BlockedIsFrozen
<1>1. TypeOK /\ [Next]_vars =>
        [\A a \in Agents :
           agents[a].blocked =>
             \/ RegisterAgent(a) \/ Restart
             \/ /\ agents'[a] = agents[a]
                /\ \A t \in tokens' \ tokens : t.agent # a]_vars
  BY BlockedStays
<1> QED
  BY <1>1, TypeCorrect, PTL DEF Spec, BlockedIsFrozen

-----------------------------------------------------------------------------
(* A service that trusts the tokens. *)

USE ServiceAssumption

(* Every token is older than the block of its agent.                        *)
OlderThanBlock ==
  \A t \in tokens : blockedAt[t.agent] # None => t.iat <= blockedAt[t.agent]

BlockWatched ==
  /\ blockedAt \in [Agents -> Nat \cup {None}]
  /\ \A a \in Agents : agents[a].blocked <=> blockedAt[a] # None

ReachInv ==
  /\ IInv
  /\ ReviewInv
  /\ TokensShort
  /\ OlderThanBlock
  /\ BlockWatched
  /\ QuarantineReaches
  /\ BlockReaches

LEMMA AuthorityKeeps ==
  ASSUME ReachInv, Next, Watch PROVE ReachInv'
<1>1. IInv' /\ ReviewInv'
  BY InductiveStep, ReviewStep DEF ReachInv
<1>2. /\ TypeOK /\ TypeOK' /\ now \in Nat
      /\ \A t \in tokens : t.iat \in Nat /\ t.exp \in Nat /\ t.agent \in Agents /\ t.iat <= now
  BY <1>1 DEF ReachInv, ReviewInv, TypeOK, Token, TokensInThePast
<1>3. TokensShort'
  BY <1>2, NewTokens DEF ReachInv, TokensShort
<1>4. BlockWatched'
  <2>1. \A a \in Agents : agents[a].blocked \in BOOLEAN /\ agents'[a].blocked \in BOOLEAN
    BY <1>2 DEF TypeOK, Agent
  <2>2. blockedAt \in [Agents -> Nat \cup {None}]
    BY DEF ReachInv, BlockWatched
  <2>3. \A a \in Agents : agents[a].blocked <=> blockedAt[a] # None
    BY DEF ReachInv, BlockWatched
  <2>4. \A a \in Agents :
          blockedAt'[a] = IF ~agents'[a].blocked THEN None
                          ELSE IF agents[a].blocked THEN blockedAt[a] ELSE now
    BY DEF Watch
  <2>5. \A a \in Agents : blockedAt'[a] \in Nat \cup {None}
    BY <1>2, <2>1, <2>2, <2>4
  <2>6. blockedAt' \in [Agents -> Nat \cup {None}]
    BY <2>5 DEF Watch
  <2>7. \A a \in Agents : agents'[a].blocked <=> blockedAt'[a] # None
    <3> SUFFICES ASSUME NEW a \in Agents PROVE agents'[a].blocked <=> blockedAt'[a] # None
      OBVIOUS
    <3>1. now # None
      BY <1>2, AuthorityAssumption
    <3> QED
      BY <2>1, <2>3, <2>4, <3>1
  <2> QED
    BY <2>6, <2>7 DEF BlockWatched
<1>5. OlderThanBlock'
  <2> SUFFICES ASSUME NEW t \in tokens', blockedAt'[t.agent] # None
               PROVE  t.iat <= blockedAt'[t.agent]
    BY DEF OlderThanBlock
  <2>1. CASE t \in tokens
    BY <1>2, <2>1 DEF ReachInv, OlderThanBlock, BlockWatched, Watch
  <2>2. CASE t \notin tokens
    <3>1. t.iat = now /\ t.agent \in Agents /\ ~agents[t.agent].blocked
      BY <1>2, <2>2, NewTokens
    <3>2. blockedAt'[t.agent] = now
      BY <3>1 DEF Watch
    <3> QED
      BY <1>2, <3>1, <3>2
  <2> QED
    BY <2>1, <2>2
<1>6. QuarantineReaches' /\ BlockReaches'
  BY DEF ReachInv, QuarantineReaches, BlockReaches, Watch
<1> QED
  BY <1>1, <1>3, <1>4, <1>5, <1>6 DEF ReachInv

LEMMA AcceptKeeps ==
  ASSUME ReachInv, NEW t \in tokens, Accept(t) PROVE ReachInv'
<1>1. /\ t.iat \in Nat /\ t.exp \in Nat /\ t.agent \in Agents /\ now \in Nat
      /\ agents[t.agent].since \in Nat /\ agents \in [Agents -> Agent]
  BY DEF ReachInv, ReviewInv, TypeOK, Token, Agent
<1> HIDE AuthorityAssumption, ServiceAssumption
<1>0. MaxTtl \in Nat /\ ClockTolerance \in Nat /\ None \notin Nat
  BY AuthorityAssumption, ServiceAssumption
<1>2. now < t.iat + MaxTtl + ClockTolerance
  <2>1. t.exp <= t.iat + MaxTtl
    BY DEF ReachInv, TokensShort
  <2>2. now < t.exp + ClockTolerance
    BY DEF Accept, Verifies, Unexpired
  <2> QED
    BY ONLY <1>0, <1>1, <2>1, <2>2
<1>3. DenyQuarantined /\ agents[t.agent].mode # "none" =>
        now < agents[t.agent].since + MaxTtl + ClockTolerance
  <2>1. DenyQuarantined => t.mode = "none"
    BY DEF Accept, TurnedAway
  <2>2. agents[t.agent].mode # "none" /\ t.mode = "none" => t.iat <= agents[t.agent].since
    BY DEF ReachInv, ReviewInv, QuarantineShown
  <2> QED
    BY ONLY <1>0, <1>1, <1>2, <2>1, <2>2
<1>4. blockedAt[t.agent] # None => now < blockedAt[t.agent] + MaxTtl + ClockTolerance
  <2>1. blockedAt[t.agent] # None => t.iat <= blockedAt[t.agent]
    BY DEF ReachInv, OlderThanBlock
  <2>2. blockedAt[t.agent] \in Nat \cup {None}
    BY <1>1 DEF ReachInv, BlockWatched
  <2> QED
    BY ONLY <1>0, <1>1, <1>2, <2>1, <2>2
<1>5. QuarantineReaches'
  <2> SUFFICES ASSUME DenyQuarantined, NEW x \in accepted', x.quarantinedSince # None
               PROVE  x.at < x.quarantinedSince + MaxTtl + ClockTolerance
    BY DEF QuarantineReaches
  <2>1. CASE x \in accepted
    BY <2>1 DEF ReachInv, QuarantineReaches
  <2>2. CASE x \notin accepted
    BY <1>1, <1>3, <2>2 DEF Accept
  <2> QED
    BY <2>1, <2>2
<1>6. BlockReaches'
  <2> SUFFICES ASSUME NEW x \in accepted', x.blockedSince # None
               PROVE  x.at < x.blockedSince + MaxTtl + ClockTolerance
    BY DEF BlockReaches
  <2>1. CASE x \in accepted
    BY <2>1 DEF ReachInv, BlockReaches
  <2>2. CASE x \notin accepted
    BY <1>4, <2>2 DEF Accept
  <2> QED
    BY <2>1, <2>2
<1>7. UNCHANGED <<vars, life, blockedAt>>
  BY DEF Accept
<1>8. IInv' /\ ReviewInv'
  BY <1>7, InductiveStep, ReviewStep DEF ReachInv
<1>9. TokensShort' /\ OlderThanBlock' /\ BlockWatched'
  BY <1>7 DEF ReachInv, TokensShort, OlderThanBlock, BlockWatched, vars
<1> QED
  BY <1>5, <1>6, <1>8, <1>9 DEF ReachInv

LEMMA ServiceKeeps == ReachInv /\ [ServiceNext]_allVars => ReachInv'
<1> SUFFICES ASSUME ReachInv, [ServiceNext]_allVars PROVE ReachInv'
  OBVIOUS
<1>1. ASSUME UNCHANGED <<vars, accepted, blockedAt>> PROVE ReachInv'
  <2>1. IInv' /\ ReviewInv'
    BY <1>1, InductiveStep, ReviewStep DEF ReachInv
  <2> QED
    BY <1>1, <2>1
    DEF ReachInv, TokensShort, OlderThanBlock, BlockWatched, QuarantineReaches, BlockReaches, vars
<1>2. CASE Next /\ Watch
  BY <1>2, AuthorityKeeps
<1>3. CASE ServiceStep
  BY <1>1, <1>3, AcceptKeeps DEF ServiceStep, Answered, TurnAway, Forget, ServiceRestart
<1>4. CASE UNCHANGED allVars
  BY <1>1, <1>4 DEF allVars, serviceVars
<1> QED
  BY <1>2, <1>3, <1>4 DEF ServiceNext

(* A quarantine reaches the services that deny quarantined agents, and a    *)
(* block all of them, within the longest token and the clock tolerance.     *)
THEOREM RevocationReaches == ServiceSpec => [](QuarantineReaches /\ BlockReaches)
<1>1. ServiceInit => ReachInv
  <2> SUFFICES ASSUME ServiceInit PROVE ReachInv
    OBVIOUS
  <2>1. Init
    BY DEF ServiceInit
  <2>2. IInv /\ ReviewInv
    BY <2>1, InitInv, InitReview
  <2>3. tokens = {} /\ accepted = {} /\ \A a \in Agents : ~agents[a].blocked
    BY <2>1 DEF Init, ServiceInit, Unregistered
  <2> QED
    BY <2>2, <2>3
    DEF ServiceInit, ReachInv, TokensShort, OlderThanBlock, BlockWatched, QuarantineReaches, BlockReaches
<1>2. ReachInv => QuarantineReaches /\ BlockReaches
  BY DEF ReachInv
<1> QED
  BY <1>1, <1>2, ServiceKeeps, PTL DEF ServiceSpec

-----------------------------------------------------------------------------
(* Tokens that are presented again. *)

(* Inductive: the acceptances are numbered, a token accepted in this life   *)
(* of the service is remembered unless its entry has had its time, and      *)
(* ReplaysApart.                                                            *)
ReplayInv ==
  /\ ServiceTypeOK
  /\ IsFiniteSet(accepted)
  /\ \A x \in accepted : x.n < Cardinality(accepted) /\ x.at <= now /\ x.life <= life
  /\ ReplayDetection => \A x \in accepted : x.life = life =>
       \/ now >= x.at + ReplayTtl
       \/ \E e \in jtiCache : e.jti = x.token.jti /\ e.at >= x.at
  /\ ReplaysApart

LEMMA AcceptanceType ==
  ASSUME ServiceTypeOK
  PROVE  /\ now \in Nat /\ life \in Nat /\ ReplayTtl \in Nat
         /\ \A x \in accepted : x.n \in Nat /\ x.at \in Nat /\ x.life \in Nat
         /\ \A e \in jtiCache : e.at \in Nat
BY DEF ServiceTypeOK, TypeOK, Acceptance

(* A step that accepts nothing: the entries of this life that had not had   *)
(* their time are still there.                                              *)
LEMMA AcceptsNothing ==
  ASSUME ReplayInv, ServiceTypeOK', UNCHANGED <<accepted, life>>, now <= now',
         \A e \in jtiCache : e \in jtiCache' \/ now >= e.at + ReplayTtl
  PROVE  ReplayInv'
<1>1. /\ now \in Nat /\ now' \in Nat /\ ReplayTtl \in Nat
      /\ \A x \in accepted : x.at \in Nat
      /\ \A e \in jtiCache : e.at \in Nat
  BY AcceptanceType DEF ReplayInv, ServiceTypeOK, TypeOK
<1>2. \A x \in accepted : x.n < Cardinality(accepted) /\ x.at <= now' /\ x.life <= life
  BY <1>1 DEF ReplayInv
<1>3. ASSUME ReplayDetection, NEW x \in accepted, x.life = life
      PROVE  \/ now' >= x.at + ReplayTtl
             \/ \E e \in jtiCache' : e.jti = x.token.jti /\ e.at >= x.at
  <2>1. CASE now >= x.at + ReplayTtl
    BY <1>1, <2>1
  <2>2. CASE ~(now >= x.at + ReplayTtl)
    <3>1. PICK e \in jtiCache : e.jti = x.token.jti /\ e.at >= x.at
      BY <1>3, <2>2 DEF ReplayInv
    <3> QED
      BY <1>1, <3>1
  <2> QED
    BY <2>1, <2>2
<1> QED
  BY <1>2, <1>3 DEF ReplayInv, ReplaysApart

LEMMA RememberedType ==
  ASSUME ServiceTypeOK, NEW t \in tokens, RememberJti(t.jti)
  PROVE  /\ jtiCache' \subseteq [jti: Jtis, at: Nat]
         /\ jtiCache \subseteq jtiCache'
         /\ ReplayDetection => [jti |-> t.jti, at |-> now] \in jtiCache'
BY DEF ServiceTypeOK, TypeOK, Token, RememberJti

LEMMA AcceptsApart ==
  ASSUME ReplayInv, NEW t \in tokens, Accept(t) PROVE ReplayInv'
<1> DEFINE new == [n |-> Cardinality(accepted), token |-> t, at |-> now, life |-> life,
                   quarantinedSince |->
                     IF agents[t.agent].mode = "none" THEN None ELSE agents[t.agent].since,
                   blockedSince |-> blockedAt[t.agent]]
<1>1. /\ IsFiniteSet(accepted)
      /\ \A x \in accepted : x.n < Cardinality(accepted) /\ x.at <= now /\ x.life <= life
  BY DEF ReplayInv
<1>2. accepted' = accepted \cup {new} /\ UNCHANGED <<vars, life, blockedAt>>
  BY DEF Accept
<1>3. /\ now \in Nat /\ life \in Nat /\ ReplayTtl \in Nat
      /\ \A x \in accepted : x.n \in Nat /\ x.at \in Nat /\ x.life \in Nat
      /\ \A e \in jtiCache : e.at \in Nat
  BY AcceptanceType DEF ReplayInv
<1>4. /\ Cardinality(accepted) \in Nat
      /\ IsFiniteSet(accepted')
      /\ new \notin accepted => Cardinality(accepted') = Cardinality(accepted) + 1
  BY <1>1, <1>2, FS_CardinalityType, FS_AddElement
<1>5. new.n = Cardinality(accepted) /\ new.token = t /\ new.at = now /\ new.life = life
  OBVIOUS
<1>6. new \notin accepted
  BY <1>1, <1>4, <1>5
<1>7. new \in Acceptance
  <2>1. t \in Token /\ t.agent \in Agents /\ agents[t.agent] \in Agent
    BY DEF ReplayInv, ServiceTypeOK, TypeOK, Token
  <2>2. blockedAt[t.agent] \in Nat \cup {None}
    BY <2>1 DEF ReplayInv, ServiceTypeOK
  <2>3. agents[t.agent].since \in Nat
    BY <2>1 DEF Agent
  <2> QED
    BY <1>3, <1>4, <2>1, <2>2, <2>3 DEF Acceptance
<1> HIDE DEF new
<1>8. /\ jtiCache' \subseteq [jti: Jtis, at: Nat]
      /\ jtiCache \subseteq jtiCache'
      /\ ReplayDetection => [jti |-> t.jti, at |-> now] \in jtiCache'
  BY RememberedType DEF ReplayInv, Accept
<1>9. ServiceTypeOK'
  <2>1. TypeOK' /\ blockedAt' \in [Agents -> Nat \cup {None}] /\ life' \in Nat
    BY <1>2, <1>3 DEF ReplayInv, ServiceTypeOK, TypeOK, vars
  <2>2. accepted' \subseteq Acceptance
    BY <1>2, <1>7 DEF ReplayInv, ServiceTypeOK
  <2> QED
    BY <1>8, <2>1, <2>2 DEF ServiceTypeOK
<1>10. now' = now /\ life' = life
  BY <1>2 DEF vars
<1>11. \A x \in accepted' : x.n < Cardinality(accepted') /\ x.at <= now' /\ x.life <= life'
  BY <1>1, <1>2, <1>3, <1>4, <1>5, <1>6, <1>10
<1>12. ASSUME ReplayDetection, NEW x \in accepted', x.life = life'
       PROVE  \/ now' >= x.at + ReplayTtl
              \/ \E e \in jtiCache' : e.jti = x.token.jti /\ e.at >= x.at
  <2>1. CASE x \in accepted
    BY <1>8, <1>10, <1>12, <2>1 DEF ReplayInv
  <2>2. CASE x = new
    BY <1>3, <1>5, <1>8, <1>12, <2>2
  <2> QED
    BY <1>2, <2>1, <2>2
<1>13. ASSUME ReplayDetection, NEW x \in accepted', NEW y \in accepted',
              x.token.jti = y.token.jti, x.life = y.life, x.n < y.n
       PROVE  y.at >= x.at + ReplayTtl
  <2>1. CASE y \in accepted
    <3>1. x \in accepted
      BY <1>1, <1>2, <1>3, <1>4, <1>5, <1>13, <2>1
    <3> QED
      BY <1>13, <2>1, <3>1 DEF ReplayInv, ReplaysApart
  <2>2. CASE y = new
    <3>1. x \in accepted /\ x.life = life /\ x.token.jti = t.jti
      BY <1>2, <1>4, <1>5, <1>13, <2>2
    <3>2. ~Remembered(t.jti)
      BY <1>13 DEF Accept, Verifies
    <3>3. now >= x.at + ReplayTtl
      BY <1>13, <3>1, <3>2 DEF ReplayInv, Remembered
    <3> QED
      BY <1>5, <2>2, <3>3
  <2> QED
    BY <1>2, <2>1, <2>2
<1> QED
  BY <1>4, <1>9, <1>11, <1>12, <1>13 DEF ReplayInv, ReplaysApart

LEMMA ReplayStep == IInv /\ ReplayInv /\ [ServiceNext]_allVars => ReplayInv'
<1> SUFFICES ASSUME IInv, ReplayInv, [ServiceNext]_allVars PROVE ReplayInv'
  OBVIOUS
<1>1. /\ now \in Nat /\ life \in Nat /\ ReplayTtl \in Nat
      /\ \A x \in accepted : x.n \in Nat /\ x.at \in Nat /\ x.life \in Nat
      /\ \A e \in jtiCache : e.at \in Nat
  BY AcceptanceType DEF ReplayInv
<1>2. CASE Next /\ Watch
  <2>1. TypeOK' /\ now <= now'
    <3>1. IInv'
      BY <1>2, InductiveStep
    <3>2. now' = now \/ now' = now + 1
      BY <1>2
      DEF Next, ReceiptStep, Observe, SubmitPeer, AskConfirmation, SubmitReceipts, Confirmed,
          Denied, Prune, IssuerStep, RegisterIssuer, AgentStep, RegisterAgent, Block, Lift,
          ReadStatus, Quarantine, ProvisionStep, Provision, TokenStep, RequestToken, Signed,
          Restart, Tick
    <3> QED
      BY <1>1, <3>1, <3>2 DEF IInv
  <2>2. blockedAt' \in [Agents -> Nat \cup {None}]
    <3>1. blockedAt \in [Agents -> Nat \cup {None}]
      BY DEF ReplayInv, ServiceTypeOK
    <3> QED
      BY <1>1, <1>2, <3>1 DEF Watch
  <2>3. UNCHANGED <<jtiCache, life, accepted>>
    BY <1>2 DEF Watch
  <2>4. ServiceTypeOK'
    BY <2>1, <2>2, <2>3 DEF ReplayInv, ServiceTypeOK
  <2> QED
    BY <2>1, <2>3, <2>4, AcceptsNothing
<1>3. ASSUME UNCHANGED <<vars, life, accepted, blockedAt>>,
             jtiCache' \subseteq [jti: Jtis, at: Nat],
             \A e \in jtiCache : e \in jtiCache' \/ now >= e.at + ReplayTtl
      PROVE  ReplayInv'
  <2>1. ServiceTypeOK' /\ now <= now'
    BY <1>1, <1>3 DEF ReplayInv, ServiceTypeOK, TypeOK, vars
  <2> QED
    BY <1>3, <2>1, AcceptsNothing
<1>4. ASSUME NEW t \in tokens, TurnAway(t) PROVE ReplayInv'
  BY <1>3, <1>4, RememberedType DEF ReplayInv, TurnAway
<1>5. ASSUME NEW e \in jtiCache, Forget(e) PROVE ReplayInv'
  BY <1>3, <1>5 DEF ReplayInv, ServiceTypeOK, Forget
<1>6. CASE ServiceRestart
  <2>1. UNCHANGED <<vars, accepted, blockedAt>> /\ life' = life + 1 /\ jtiCache' = {}
    BY <1>6 DEF ServiceRestart
  <2>2. ServiceTypeOK'
    BY <1>1, <2>1 DEF ReplayInv, ServiceTypeOK, TypeOK, vars
  <2>3. \A x \in accepted : x.life <= life' /\ x.life # life'
    BY <1>1, <2>1 DEF ReplayInv
  <2>4. now' = now
    BY <2>1 DEF vars
  <2> QED
    BY <2>1, <2>2, <2>3, <2>4 DEF ReplayInv, ReplaysApart
<1>7. CASE UNCHANGED allVars
  BY <1>3, <1>7 DEF allVars, serviceVars, ReplayInv, ServiceTypeOK
<1> QED
  BY <1>2, <1>4, <1>5, <1>6, <1>7, AcceptsApart DEF ServiceNext, ServiceStep, Answered

(* While the service runs, it accepts a token a second time only after the  *)
(* entry of the first acceptance has been kept for its time.                *)
THEOREM ReplaysKeptApart == ServiceSpec => []ReplaysApart
<1>1. ServiceInit => IInv /\ ReplayInv
  <2> SUFFICES ASSUME ServiceInit PROVE IInv /\ ReplayInv
    OBVIOUS
  <2>1. IInv
    BY InitInv DEF ServiceInit
  <2> QED
    BY <2>1, FS_EmptySet DEF ServiceInit, IInv, ReplayInv, ServiceTypeOK, ReplaysApart
<1>2. IInv /\ [ServiceNext]_allVars => IInv'
  <2>1. ServiceStep => UNCHANGED vars
    BY DEF ServiceStep, Accept, TurnAway, Forget, ServiceRestart
  <2> QED
    BY <2>1, InductiveStep DEF ServiceNext, allVars
<1>3. ReplayInv => ReplaysApart
  BY DEF ReplayInv
<1> QED
  BY <1>1, <1>2, <1>3, ReplayStep, PTL DEF ServiceSpec
=============================================================================
