----------------------------- MODULE SdkProofs -----------------------------
(***************************************************************************)
(* Proofs about the SDK's client, peer issuer and issuer (TokenClient,      *)
(* PeerIssuer, IssuerQueue), for any calls, domains, token lifetimes and    *)
(* clocks, receipts, queue lengths and intervals.  However the answers of   *)
(* the authority overtake each other, calls are answered with the right     *)
(* tokens, and neither the cache nor what an agent attests outlives a block *)
(* for longer than a token lives.  A queue is watched by a timer, no batch  *)
(* is refused for its length, and a receipt is in one place and reaches the *)
(* authority at most once.                                                  *)
(***************************************************************************)
EXTENDS PeerIssuer, IssuerQueue, SequenceTheorems, TLAPS

USE ClientAssumption

(* What a token in the cache, or on its way to a call, fulfils: it is one   *)
(* of the tokens issued so far, and expires when block and clock allow.     *)
Horizon == (IF blockedAt = None THEN now ELSE blockedAt) + MaxTtl

Genuine(t, count, horizon) == t.serial \in 1..count /\ t.expiresAt <= horizon

CacheInv ==
  \A d \in Domains : tokenCache[d] # None =>
    /\ Genuine(tokenCache[d], issued, Horizon)
    /\ tokenCache[d].domain = d
    /\ tokenCache[d].serial > quietFloor[d]

Holding == {"replied", "cached", "fetched"}

CallInv(c) ==
  /\ calls[c].state # "idle" =>
       /\ calls[c].domain \in Domains
       /\ calls[c].at <= now
       /\ calls[c].asked <= issued
       /\ calls[c].quietFloor <= quietFloor[calls[c].domain]
  /\ calls[c].state \in Holding =>
       /\ calls[c].token \in Token /\ Genuine(calls[c].token, issued, Horizon)
       /\ calls[c].token.domain = calls[c].domain
       /\ calls[c].token.serial > calls[c].asked
       /\ calls[c].token.serial > calls[c].quietFloor
  /\ calls[c].state = "replied" => calls[c].token.serial > quietFloor[calls[c].domain]
  /\ calls[c].state = "cached" =>
       /\ calls[c].at + RefreshThreshold < calls[c].token.expiresAt
       /\ calls[c].at + RefreshThreshold < Horizon

ClientInv ==
  /\ TypeOK
  /\ blockedAt # None => blockedAt <= now
  /\ \A d \in Domains : quietFloor[d] <= issued
  /\ CacheInv
  /\ \A c \in Calls : CallInv(c)

LEMMA Longest == MaxTtl \in Nat /\ MaxTtl \in Ttls /\ \A t \in Ttls : t <= MaxTtl
<1>1. PICK m \in Ttls : \A u \in Ttls : u <= m
  OBVIOUS
<1> QED
  BY <1>1 DEF MaxTtl

LEMMA ClientInit == Init => ClientInv
<1> SUFFICES ASSUME Init PROVE ClientInv
  OBVIOUS
<1>1. TypeOK
  BY DEF Init, TypeOK, NotMade, Call, States
<1>2. \A c \in Calls : CallInv(c)
  BY DEF Init, NotMade, CallInv, Holding
<1> QED
  BY <1>1, <1>2 DEF Init, ClientInv, CacheInv

\* What every step relies on, of times and counts.
LEMMA Facts ==
  ASSUME ClientInv
  PROVE  /\ TypeOK /\ now \in Nat /\ issued \in Nat /\ Horizon \in Nat
         /\ RefreshThreshold \in Nat /\ blockedAt \in Nat \cup {None}
         /\ \A d \in Domains :
              /\ quietFloor[d] \in Nat /\ tokenCache[d] \in Token \cup {None}
              /\ quietFloor[d] <= issued
         /\ \A c \in Calls : calls[c] \in Call /\ CallInv(c)
<1>1. TypeOK
  BY DEF ClientInv
<1>2. Horizon \in Nat
  BY <1>1, Longest DEF Horizon, TypeOK
<1> QED
  BY <1>1, <1>2 DEF ClientInv, TypeOK

\* Tokens stay genuine while the authority issues others and time passes, until it blocks.
LEMMA GenuineLater ==
  ASSUME ClientInv, NEW t \in Token, Genuine(t, issued, Horizon),
         issued \in Nat, issued' \in Nat, issued <= issued',
         Horizon' \in Nat, Horizon <= Horizon'
  PROVE  Genuine(t, issued', Horizon')
<1>1. Horizon \in Nat /\ t.serial \in Nat /\ t.expiresAt \in Nat
  BY Facts DEF Token
<1> QED
  BY <1>1 DEF Genuine

\* A call that was not touched, and tokens that were not, keep what they had.
LEMMA CallLater ==
  ASSUME ClientInv, NEW c \in Calls, calls'[c] = calls[c],
         now' \in Nat, issued' \in Nat, now <= now', issued <= issued',
         Horizon' \in Nat, Horizon <= Horizon',
         \A d \in Domains : quietFloor'[d] \in Nat /\ quietFloor[d] <= quietFloor'[d],
         calls[c].state = "replied" =>
           quietFloor'[calls[c].domain] = quietFloor[calls[c].domain]
  PROVE  CallInv(c)'
<1> DEFINE x == calls[c]
<1>1. x \in Call /\ CallInv(c) /\ now \in Nat /\ issued \in Nat /\ Horizon \in Nat
      /\ RefreshThreshold \in Nat
      /\ \A d \in Domains : quietFloor[d] \in Nat
  BY Facts
<1>2. x.at \in Nat /\ x.asked \in Nat /\ x.quietFloor \in Nat
  BY <1>1 DEF Call
<1>3. x.state \in Holding => Genuine(x.token, issued', Horizon')
  BY <1>1, GenuineLater DEF CallInv
<1>4. x.state # "idle" =>
        /\ x.domain \in Domains /\ x.at <= now' /\ x.asked <= issued'
        /\ x.quietFloor <= quietFloor'[x.domain]
  BY <1>1, <1>2 DEF CallInv
<1>5. x.state = "cached" => x.at + RefreshThreshold < Horizon'
  BY <1>1, <1>2 DEF CallInv
<1> QED
  BY <1>1, <1>3, <1>4, <1>5 DEF CallInv

\* The cache, where it was not touched or was emptied.
LEMMA CacheLater ==
  ASSUME ClientInv, issued' \in Nat, issued <= issued', Horizon' \in Nat, Horizon <= Horizon',
         \A d \in Domains : tokenCache'[d] # None =>
           tokenCache'[d] = tokenCache[d] /\ quietFloor'[d] = quietFloor[d]
  PROVE  CacheInv'
<1> SUFFICES ASSUME NEW d \in Domains, tokenCache'[d] # None
             PROVE  /\ Genuine(tokenCache[d], issued', Horizon')
                    /\ tokenCache[d].domain = d
                    /\ tokenCache[d].serial > quietFloor[d]
  BY DEF CacheInv
<1>1. tokenCache[d] \in Token /\ issued \in Nat
  BY Facts
<1>2. /\ Genuine(tokenCache[d], issued, Horizon) /\ tokenCache[d].domain = d
      /\ tokenCache[d].serial > quietFloor[d]
  BY DEF ClientInv, CacheInv
<1> QED
  BY <1>1, <1>2, GenuineLater

\* One call changes, and nothing but calls and the count of tokens.
LEMMA Others ==
  ASSUME ClientInv, NEW c \in Calls, TypeOK', CallInv(c)',
         \A e \in Calls \ {c} : calls'[e] = calls[e],
         UNCHANGED <<now, tokenCache, blockedAt, quietFloor>>,
         issued <= issued', Horizon' = Horizon
  PROVE  ClientInv'
<1>1. issued' \in Nat /\ issued \in Nat
      /\ \A d \in Domains : quietFloor[d] \in Nat /\ quietFloor[d] <= issued
  BY Facts DEF TypeOK
<1>2. ASSUME NEW e \in Calls \ {c} PROVE CallInv(e)'
  BY <1>1, Facts, CallLater
<1>3. CacheInv'
  BY <1>1, Facts, CacheLater
<1> QED
  BY <1>1, <1>2, <1>3 DEF ClientInv

-----------------------------------------------------------------------------
(* The steps. *)

LEMMA AskKeeps ==
  ASSUME ClientInv, NEW c \in Calls, NEW d \in Domains, NEW f \in BOOLEAN, Ask(c, d, f)
  PROVE  ClientInv'
<1> DEFINE new == [state      |-> IF Hit(d, f) THEN "cached" ELSE "fetching",
                   domain     |-> d,
                   token      |-> IF Hit(d, f) THEN tokenCache[d] ELSE None,
                   at         |-> now,
                   asked      |-> IF f THEN issued ELSE 0,
                   quietFloor |-> quietFloor[d]]
<1>1. /\ calls' = [calls EXCEPT ![c] = new]
      /\ UNCHANGED <<now, tokenCache, issued, blockedAt, invalidations, quietFloor>>
  BY DEF Ask
<1>2. /\ TypeOK /\ now \in Nat /\ issued \in Nat /\ RefreshThreshold \in Nat
      /\ quietFloor[d] \in Nat /\ tokenCache[d] \in Token \cup {None}
      /\ quietFloor[d] <= issued /\ Horizon \in Nat
  BY Facts
<1>3. new \in Call /\ new.asked <= issued
  BY <1>2 DEF Call, States, Hit
<1>4. TypeOK' /\ Horizon' = Horizon
  BY <1>1, <1>2, <1>3 DEF TypeOK, Horizon
<1>5. calls'[c] = new /\ \A e \in Calls \ {c} : calls'[e] = calls[e]
  BY <1>1, <1>2 DEF TypeOK
<1>6. CASE Hit(d, f)
  <2> DEFINE t == tokenCache[d]
  <2>1. t \in Token /\ ~f /\ t.expiresAt - now > RefreshThreshold
    BY <1>2, <1>6 DEF Hit, isTokenFresh
  <2>2. Genuine(t, issued, Horizon) /\ t.domain = d /\ t.serial > quietFloor[d]
    BY <1>6 DEF Hit, ClientInv, CacheInv
  <2>3. t.expiresAt \in Nat /\ t.serial \in Nat /\ t.expiresAt <= Horizon /\ t.serial > 0
    BY <1>2, <2>1, <2>2 DEF Token, Genuine
  <2>4. now + RefreshThreshold < t.expiresAt /\ now + RefreshThreshold < Horizon
    BY <1>2, <2>1, <2>3
  <2>5. Genuine(t, issued', Horizon')
    BY <1>1, <1>4, <2>2 DEF Genuine
  <2>6. calls'[c] = [state |-> "cached", domain |-> d, token |-> t, at |-> now, asked |-> 0,
                     quietFloor |-> quietFloor[d]]
    BY <1>5, <1>6, <2>1
  <2> HIDE DEF t, new
  <2>7. CallInv(c)'
    BY <1>1, <1>2, <1>4, <2>1, <2>2, <2>3, <2>4, <2>5, <2>6 DEF CallInv, Holding
  <2> QED
    BY <1>1, <1>2, <1>4, <1>5, <2>7, Others
<1>7. CASE ~Hit(d, f)
  <2>1. calls'[c] = [state |-> "fetching", domain |-> d, token |-> None, at |-> now,
                     asked |-> IF f THEN issued ELSE 0, quietFloor |-> quietFloor[d]]
    BY <1>5, <1>7
  <2>2. CallInv(c)'
    BY <1>1, <1>2, <2>1 DEF CallInv, Holding
  <2> QED
    BY <1>1, <1>2, <1>4, <1>5, <2>2, Others
<1> QED
  BY <1>6, <1>7

LEMMA IssueKeeps ==
  ASSUME ClientInv, NEW c \in Calls, NEW ttl \in Ttls, Issue(c, ttl)
  PROVE  ClientInv'
<1> DEFINE t == [serial |-> issued + 1, domain |-> calls[c].domain, expiresAt |-> now + ttl]
           x == calls[c]
<1>1. /\ calls' = [calls EXCEPT ![c].state = "replied", ![c].token = t]
      /\ issued' = issued + 1 /\ blockedAt = None /\ x.state = "fetching"
      /\ UNCHANGED <<now, tokenCache, blockedAt, invalidations, quietFloor>>
  BY DEF Issue
<1>2. /\ TypeOK /\ now \in Nat /\ issued \in Nat /\ Horizon \in Nat /\ x \in Call /\ CallInv(c)
      /\ \A d \in Domains : quietFloor[d] \in Nat /\ quietFloor[d] <= issued
  BY Facts
<1>3. x.domain \in Domains /\ x.asked \in Nat /\ x.quietFloor \in Nat
      /\ x.at <= now /\ x.asked <= issued /\ x.quietFloor <= quietFloor[x.domain]
  BY <1>1, <1>2 DEF CallInv, Call
<1>4. t \in Token /\ Horizon' = Horizon /\ ttl \in Nat /\ ttl <= MaxTtl
  BY <1>1, <1>2, <1>3, Longest DEF Token, Horizon
<1>5. calls'[c] = [x EXCEPT !.state = "replied", !.token = t]
      /\ \A e \in Calls \ {c} : calls'[e] = calls[e]
  BY <1>1, <1>2 DEF TypeOK
<1>6. calls'[c] \in Call
  BY <1>2, <1>4, <1>5 DEF Call, States
<1>7. TypeOK'
  BY <1>1, <1>2, <1>6 DEF TypeOK
<1>8. Genuine(t, issued', Horizon')
  BY <1>1, <1>2, <1>4, Longest DEF Genuine, Horizon
<1>9. CallInv(c)'
  <2>1. /\ calls'[c].state = "replied" /\ calls'[c].token = t /\ calls'[c].domain = x.domain
        /\ calls'[c].at = x.at /\ calls'[c].asked = x.asked
        /\ calls'[c].quietFloor = x.quietFloor
    BY <1>2, <1>5 DEF Call
  <2>2. t.serial = issued + 1 /\ t.domain = x.domain
    OBVIOUS
  <2> HIDE DEF t, x
  <2> QED
    BY <1>1, <1>2, <1>3, <1>4, <1>8, <2>1, <2>2 DEF CallInv, Holding
<1>10. issued <= issued'
  BY <1>1, <1>2
<1> HIDE DEF t, x
<1> QED
  BY <1>1, <1>4, <1>5, <1>7, <1>9, <1>10, Others

\* Refuse and Fail change the state of a call only, to one that holds no token.
LEMMA RefusedKeeps ==
  ASSUME ClientInv, NEW c \in Calls, Refuse(c) \/ Fail(c)
  PROVE  ClientInv'
<1>1. /\ calls[c].state \in {"fetching", "refused"}
      /\ UNCHANGED <<now, tokenCache, issued, blockedAt, invalidations, quietFloor>>
  BY DEF Refuse, Fail
<1>2. PICK s \in {"refused", "failed"} : calls' = [calls EXCEPT ![c].state = s]
  BY DEF Refuse, Fail
<1>3. /\ TypeOK /\ calls[c] \in Call /\ CallInv(c) /\ now \in Nat /\ issued \in Nat
      /\ \A d \in Domains : quietFloor[d] \in Nat
  BY Facts
<1>4. calls'[c] = [calls[c] EXCEPT !.state = s] /\ \A e \in Calls \ {c} : calls'[e] = calls[e]
  BY <1>2, <1>3 DEF TypeOK
<1>5. TypeOK' /\ Horizon' = Horizon
  BY <1>1, <1>2, <1>3 DEF TypeOK, Call, States, Horizon
<1>6. CallInv(c)'
  BY <1>1, <1>3, <1>4 DEF CallInv, Call, Holding
<1> QED
  BY <1>1, <1>3, <1>4, <1>5, <1>6, Others

LEMMA ReceiveKeeps ==
  ASSUME ClientInv, NEW c \in Calls, Receive(c)
  PROVE  ClientInv'
<1> DEFINE x == calls[c]
<1>1. /\ x.state = "replied"
      /\ tokenCache' = [tokenCache EXCEPT ![x.domain] = x.token]
      /\ calls' = [calls EXCEPT ![c].state = "fetched", ![c].at = now]
      /\ UNCHANGED <<now, issued, blockedAt, invalidations, quietFloor>>
  BY DEF Receive
<1>2. /\ TypeOK /\ now \in Nat /\ issued \in Nat /\ x \in Call /\ CallInv(c)
      /\ \A d \in Domains : quietFloor[d] \in Nat /\ quietFloor[d] <= issued
  BY Facts
<1>3. /\ x.domain \in Domains /\ x.token \in Token /\ Genuine(x.token, issued, Horizon)
      /\ x.token.domain = x.domain /\ x.token.serial > quietFloor[x.domain]
      /\ x.asked <= issued /\ x.token.serial > x.asked /\ x.token.serial > x.quietFloor
      /\ x.quietFloor <= quietFloor[x.domain]
  BY <1>1, <1>2 DEF CallInv, Holding
<1>4. calls'[c] = [x EXCEPT !.state = "fetched", !.at = now]
      /\ \A e \in Calls \ {c} : calls'[e] = calls[e]
  BY <1>1, <1>2 DEF TypeOK
<1>5. calls'[c] \in Call
  BY <1>2, <1>4 DEF Call, States
<1>6. TypeOK' /\ Horizon' = Horizon
  BY <1>1, <1>2, <1>3, <1>5 DEF TypeOK, Horizon
<1>7. CallInv(c)'
  <2>1. /\ calls'[c].state = "fetched" /\ calls'[c].at = now
        /\ calls'[c].token = x.token /\ calls'[c].domain = x.domain
        /\ calls'[c].asked = x.asked /\ calls'[c].quietFloor = x.quietFloor
    BY <1>2, <1>4 DEF Call
  <2>2. Genuine(x.token, issued', Horizon')
    BY <1>1, <1>3, <1>6 DEF Genuine
  <2> QED
    BY <1>1, <1>2, <1>3, <2>1, <2>2 DEF CallInv, Holding
<1>8. CacheInv'
  <2> SUFFICES ASSUME NEW d \in Domains, tokenCache'[d] # None
               PROVE  /\ Genuine(tokenCache'[d], issued', Horizon') /\ tokenCache'[d].domain = d
                      /\ tokenCache'[d].serial > quietFloor[d]
    BY <1>1 DEF CacheInv
  <2>1. CASE d = x.domain
    BY <1>1, <1>2, <1>3, <1>6, <2>1 DEF TypeOK, Genuine
  <2>2. CASE d # x.domain
    <3>1. tokenCache'[d] = tokenCache[d]
      BY <1>1, <1>2, <2>2 DEF TypeOK
    <3> QED
      BY <1>1, <1>6, <3>1 DEF ClientInv, CacheInv, Genuine
  <2> QED
    BY <2>1, <2>2
<1>9. ASSUME NEW e \in Calls \ {c} PROVE CallInv(e)'
  <2>1. /\ now' = now /\ issued' = issued /\ quietFloor' = quietFloor /\ Horizon' = Horizon
        /\ calls'[e] = calls[e]
    BY <1>1, <1>4, <1>6
  <2>2. now <= now' /\ issued <= issued' /\ Horizon <= Horizon'
        /\ \A d \in Domains : quietFloor[d] <= quietFloor'[d]
    BY <2>1, Facts
  <2> QED
    BY <2>1, <2>2, Facts, CallLater
<1> QED
  BY <1>1, <1>6, <1>7, <1>8, <1>9 DEF ClientInv

LEMMA InvalidatedKeeps ==
  ASSUME ClientInv, NEW D \in SUBSET Domains, Invalidated(D)
  PROVE  ClientInv'
<1>1. /\ tokenCache' = [d \in Domains |-> IF d \in D THEN None ELSE tokenCache[d]]
      /\ quietFloor' = [d \in Domains |->
           IF d \in D /\ ~InFlight(d) THEN issued ELSE quietFloor[d]]
      /\ invalidations' = invalidations + 1
      /\ UNCHANGED <<now, calls, issued, blockedAt>>
  BY DEF Invalidated, Drop
<1>2. TypeOK' /\ Horizon' = Horizon
  BY <1>1, Facts DEF TypeOK, Horizon
<1>3. \A d \in Domains : quietFloor'[d] \in Nat /\ quietFloor[d] <= quietFloor'[d]
                           /\ quietFloor'[d] <= issued
  BY <1>1, Facts
<1>4. ASSUME NEW c \in Calls, calls[c].state = "replied"
      PROVE  quietFloor'[calls[c].domain] = quietFloor[calls[c].domain]
  <2>1. calls[c].domain \in Domains
    BY <1>4, Facts DEF CallInv
  <2>2. InFlight(calls[c].domain)
    BY <1>4 DEF InFlight
  <2> QED
    BY <1>1, <2>1, <2>2
<1>5. \A c \in Calls : CallInv(c)'
  BY <1>1, <1>2, <1>3, <1>4, Facts, CallLater
<1>6. CacheInv'
  BY <1>1, <1>2, Facts, CacheLater
<1> QED
  BY <1>1, <1>2, <1>3, <1>5, <1>6 DEF ClientInv

\* The authority blocks the agent, or time passes.
LEMMA OutsideKeeps ==
  ASSUME ClientInv, Block \/ Tick
  PROVE  ClientInv'
<1>1. UNCHANGED <<tokenCache, calls, issued, invalidations, quietFloor>>
  BY DEF Block, Tick
<1>2. /\ now' \in Nat /\ now <= now' /\ blockedAt' \in Nat \cup {None}
      /\ blockedAt' # None => blockedAt' <= now'
      /\ Horizon' \in Nat /\ Horizon <= Horizon'
  <2>1. CASE Block
    BY <2>1, Facts, Longest DEF Block, Horizon
  <2>2. CASE Tick
    BY <2>2, Facts, Longest DEF Tick, Horizon, ClientInv
  <2> QED
    BY <2>1, <2>2
<1>3. TypeOK'
  BY <1>1, <1>2, Facts DEF TypeOK
<1>4. \A c \in Calls : CallInv(c)'
  BY <1>1, <1>2, Facts, CallLater
<1>5. CacheInv'
  BY <1>1, <1>2, Facts, CacheLater
<1> QED
  BY <1>1, <1>2, <1>3, <1>4, <1>5 DEF ClientInv

LEMMA ClientStepKeeps == ClientInv /\ [Next]_vars => ClientInv'
<1> SUFFICES ASSUME ClientInv, [Next]_vars PROVE ClientInv'
  OBVIOUS
<1>1. CASE UNCHANGED vars
  BY <1>1 DEF vars, ClientInv, TypeOK, CacheInv, CallInv, Genuine, Horizon
<1>2. ASSUME NEW d \in Domains, invalidateToken(d) PROVE ClientInv'
  BY <1>2, InvalidatedKeeps DEF invalidateToken
<1>3. CASE invalidateAll
  BY <1>3, InvalidatedKeeps DEF invalidateAll
<1> QED
  BY <1>1, <1>2, <1>3, AskKeeps, IssueKeeps, RefusedKeeps, ReceiveKeeps, OutsideKeeps DEF Next

\* However answers and invalidations interleave, a call is answered with a token of its
\* domain, issued after the call if the call forced one, and after the last
\* invalidation that met no fetch under way (client.ts 39-76).
THEOREM AnsweredRight == Spec => []RightTokens
<1>1. ClientInv => RightTokens
  BY DEF ClientInv, CallInv, Holding, RightTokens, DomainsApart, ForcedIsNew,
         QuietInvalidationForces, Answered
<1> QED
  BY <1>1, ClientInit, ClientStepKeeps, PTL DEF Spec

\* No call is answered from the cache later than the longest token, less the threshold,
\* after the agent was blocked (client.ts 45-49, 78-81).
THEOREM CacheOutlived == Spec => []BlockOutlived
<1>1. ClientInv => BlockOutlived
  BY DEF ClientInv, CallInv, BlockOutlived, Horizon
<1> QED
  BY <1>1, ClientInit, ClientStepKeeps, PTL DEF Spec

-----------------------------------------------------------------------------
(* The peer issuer. *)

(* The tokens in the cache and in the hands of the calls.                   *)
Carried ==
  ({tokenCache[d] : d \in Domains} \ {None})
    \cup {calls[c].token : c \in {e \in Calls : calls[e].state \in Holding}}

PeerStates == {"none", "waiting", "signing", "travelling", "failed", "expired", "ineligible",
               "accepted"}

PeerTypeOK ==
  /\ high \subseteq 1..issued
  /\ lowAt \in Nat \cup {None} /\ (lowAt # None => lowAt <= now)
  /\ peers \in [Calls -> [state: PeerStates, at: Nat]]

(* A token with a good score was issued before the score was lost.          *)
ScoredInTime ==
  \A t \in Carried : t.serial \in high /\ lowAt # None => t.expiresAt <= lowAt + MaxTtl

SubmissionInv(c) ==
  /\ peers[c].state # "none" => calls[c].state # "idle"
  /\ peers[c].state \in {"signing", "travelling"} =>
       Answered(c) /\ calls[c].token.serial \in high
  /\ peers[c].state \in {"accepted", "expired"} => Answered(c) /\ peers[c].at <= now
  /\ peers[c].state = "accepted" =>
       \A since \in {lowAt, blockedAt} \ {None} : peers[c].at <= since + MaxTtl
  /\ peers[c].state # "ineligible"
  /\ peers[c].state = "expired" /\ calls[c].state = "cached" =>
       peers[c].at > calls[c].at + RefreshThreshold

PeersInv == ClientInv /\ PeerTypeOK /\ ScoredInTime /\ \A c \in Calls : SubmissionInv(c)

LEMMA PeersInit == Init /\ PeerInit => PeersInv
<1> SUFFICES ASSUME Init, PeerInit PROVE PeersInv
  OBVIOUS
<1>1. Carried = {}
  BY DEF Carried, Init, NotMade, Holding
<1>2. PeerTypeOK
  BY DEF PeerInit, PeerTypeOK, PeerStates
<1> QED
  BY <1>1, <1>2, ClientInit DEF PeersInv, ScoredInTime, SubmissionInv, PeerInit

\* A step of the peer issuer is a step of the client or leaves it alone.
LEMMA PeerStepIsClientStep == PeerNext => [Next]_vars
  BY DEF PeerNext, submitPeerReceipt, GiveUp, Build, Send, Lose, Arrive, Becomes, IssueScored,
         LoseScore, ClientStep, Next

\* The tokens a state carries, and what their bounds say.
LEMMA CarriedFacts ==
  ASSUME ClientInv
  PROVE  /\ \A t \in Carried : t \in Token /\ Genuine(t, issued, Horizon)
         /\ \A c \in Calls : calls[c].state \in Holding => calls[c].token \in Carried
         /\ \A d \in Domains : tokenCache[d] # None => tokenCache[d] \in Carried
<1>1. ASSUME NEW d \in Domains, tokenCache[d] # None
      PROVE  tokenCache[d] \in Token /\ Genuine(tokenCache[d], issued, Horizon)
  BY <1>1, Facts DEF ClientInv, CacheInv
<1>2. ASSUME NEW c \in Calls, calls[c].state \in Holding
      PROVE  calls[c].token \in Token /\ Genuine(calls[c].token, issued, Horizon)
  BY <1>2 DEF ClientInv, CallInv
<1> QED
  BY <1>1, <1>2 DEF Carried

\* Nothing but an answer of the authority brings a token.
LEMMA NoNewToken ==
  ASSUME ClientInv,
         \/ \E c \in Calls : Refuse(c) \/ Receive(c) \/ Fail(c)
         \/ \E c \in Calls, d \in Domains, f \in BOOLEAN : Ask(c, d, f)
         \/ \E d \in Domains : invalidateToken(d)
         \/ Block \/ Tick
  PROVE  Carried' \subseteq Carried
<1>0. TypeOK
  BY Facts
<1>1. ASSUME NEW c \in Calls, Refuse(c) \/ Fail(c) PROVE Carried' \subseteq Carried
  BY <1>0, <1>1 DEF Refuse, Fail, Carried, TypeOK, Call, Holding
<1>2. ASSUME NEW c \in Calls, Receive(c) PROVE Carried' \subseteq Carried
  <2>1. calls[c].token \in Carried
    BY <1>2, CarriedFacts DEF Receive, Holding
  <2>2. \A d \in Domains : tokenCache'[d] \in {tokenCache[d], calls[c].token}
    BY <1>0, <1>2 DEF Receive, TypeOK
  <2>3. \A e \in Calls : calls'[e].token = calls[e].token
                         /\ (calls'[e].state \in Holding => calls[e].state \in Holding)
    BY <1>0, <1>2 DEF Receive, TypeOK, Call, Holding
  <2> QED
    BY <2>1, <2>2, <2>3 DEF Carried
<1>3. ASSUME NEW c \in Calls, NEW d \in Domains, NEW f \in BOOLEAN, Ask(c, d, f)
      PROVE  Carried' \subseteq Carried
  <2>1. \A e \in Calls \ {c} : calls'[e] = calls[e]
    BY <1>0, <1>3 DEF Ask, TypeOK
  <2>2. calls'[c].state \in Holding =>
          tokenCache[d] # None /\ calls'[c].token = tokenCache[d]
    BY <1>0, <1>3 DEF Ask, TypeOK, Hit, Holding
  <2>3. tokenCache' = tokenCache
    BY <1>3 DEF Ask
  <2> QED
    BY <2>1, <2>2, <2>3 DEF Carried
<1>4. ASSUME NEW d \in Domains, invalidateToken(d) PROVE Carried' \subseteq Carried
  BY <1>4 DEF invalidateToken, Invalidated, Drop, Carried
<1>5. CASE Block \/ Tick
  BY <1>5 DEF Block, Tick, Carried
<1> QED
  BY <1>1, <1>2, <1>3, <1>4, <1>5

LEMMA OneNewToken ==
  ASSUME ClientInv, NEW c \in Calls, NEW ttl \in Ttls, Issue(c, ttl)
  PROVE  \A t \in Carried' :
           t \in Carried \/ (t.serial = issued + 1 /\ t.expiresAt = now + ttl)
<1>0. TypeOK
  BY Facts
<1>1. \A e \in Calls \ {c} : calls'[e] = calls[e]
  BY <1>0 DEF Issue, TypeOK
<1>2. calls'[c].token.serial = issued + 1 /\ calls'[c].token.expiresAt = now + ttl
  BY <1>0 DEF Issue, TypeOK, Call
<1>3. tokenCache' = tokenCache
  BY DEF Issue
<1> QED
  BY <1>1, <1>2, <1>3 DEF Carried

\* What no step of the client undoes.
LEMMA ClientMoves ==
  ASSUME ClientInv, [Next]_vars
  PROVE  /\ now <= now' /\ (blockedAt' = blockedAt \/ (blockedAt = None /\ blockedAt' = now))
         /\ issued <= issued'
         /\ \A c \in Calls : /\ Answered(c) => calls'[c] = calls[c]
                             /\ calls[c].state # "idle" => calls'[c].state # "idle"
<1>0. TypeOK /\ now \in Nat /\ issued \in Nat
  BY Facts
<1>1. ASSUME NEW c \in Calls, Refuse(c) \/ Receive(c) \/ Fail(c)
      PROVE  /\ UNCHANGED <<now, blockedAt, issued>>
             /\ \A e \in Calls : /\ Answered(e) => calls'[e] = calls[e]
                                 /\ calls[e].state # "idle" => calls'[e].state # "idle"
  BY <1>0, <1>1 DEF Refuse, Receive, Fail, Answered, TypeOK, Call
<1>2. ASSUME NEW c \in Calls, NEW d \in Domains, NEW f \in BOOLEAN, Ask(c, d, f)
      PROVE  /\ UNCHANGED <<now, blockedAt, issued>>
             /\ \A e \in Calls : /\ Answered(e) => calls'[e] = calls[e]
                                 /\ calls[e].state # "idle" => calls'[e].state # "idle"
  <2>1. calls[c].state = "idle" /\ \A e \in Calls \ {c} : calls'[e] = calls[e]
    BY <1>0, <1>2 DEF Ask, TypeOK
  <2>2. UNCHANGED <<now, blockedAt, issued>>
    BY <1>2 DEF Ask
  <2> QED
    BY <2>1, <2>2 DEF Answered
<1>3. ASSUME NEW c \in Calls, NEW ttl \in Ttls, Issue(c, ttl)
      PROVE  /\ UNCHANGED <<now, blockedAt>> /\ issued' = issued + 1
             /\ \A e \in Calls : /\ Answered(e) => calls'[e] = calls[e]
                                 /\ calls[e].state # "idle" => calls'[e].state # "idle"
  BY <1>0, <1>3 DEF Issue, Answered, TypeOK, Call
<1>4. ASSUME NEW D \in SUBSET Domains, Invalidated(D)
      PROVE  UNCHANGED <<now, blockedAt, issued, calls>>
  BY <1>4 DEF Invalidated
<1>5. CASE UNCHANGED vars
  BY <1>0, <1>5 DEF vars
<1>6. CASE Block
  BY <1>0, <1>6 DEF Block
<1>7. CASE Tick
  BY <1>0, <1>7 DEF Tick
<1>8. ASSUME NEW d \in Domains, invalidateToken(d)
      PROVE  UNCHANGED <<now, blockedAt, issued, calls>>
  BY <1>4, <1>8 DEF invalidateToken
<1>9. CASE invalidateAll
  BY <1>0, <1>4, <1>9 DEF invalidateAll
<1> QED
  BY <1>0, <1>1, <1>2, <1>3, <1>5, <1>6, <1>7, <1>8, <1>9 DEF Next

\* A submission that was not touched, whatever happens to the client and the score.
LEMMA SubmissionLater ==
  ASSUME PeersInv, NEW c \in Calls, [Next]_vars, peers'[c] = peers[c], high \subseteq high',
         lowAt' = lowAt \/ (lowAt = None /\ lowAt' = now)
  PROVE  SubmissionInv(c)'
<1> DEFINE p == peers[c]
<1>1. /\ SubmissionInv(c) /\ now \in Nat /\ MaxTtl \in Nat /\ p.at \in Nat
      /\ now' \in Nat /\ lowAt \in Nat \cup {None} /\ blockedAt \in Nat \cup {None}
  BY Facts, Longest, ClientStepKeeps DEF PeersInv, PeerTypeOK, ClientInv, TypeOK
<1>2. /\ now <= now' /\ (blockedAt' = blockedAt \/ (blockedAt = None /\ blockedAt' = now))
      /\ Answered(c) => calls'[c] = calls[c]
      /\ calls[c].state # "idle" => calls'[c].state # "idle"
  BY ClientMoves DEF PeersInv
<1>3. Answered(c) => Answered(c)' /\ calls'[c] = calls[c]
  BY <1>2 DEF Answered
<1>4. p.state \in {"signing", "travelling"} => Answered(c)' /\ calls'[c].token.serial \in high'
  BY <1>1, <1>3 DEF SubmissionInv
<1>5. p.state \in {"accepted", "expired"} => Answered(c)' /\ p.at <= now'
  BY <1>1, <1>2, <1>3 DEF SubmissionInv
<1>6. p.state = "accepted" => \A since \in {lowAt', blockedAt'} \ {None} : p.at <= since + MaxTtl
  BY <1>1, <1>2 DEF SubmissionInv
<1>7. p.state = "expired" /\ calls'[c].state = "cached" => p.at > calls'[c].at + RefreshThreshold
  BY <1>1, <1>3 DEF SubmissionInv
<1>8. p.state # "none" => calls'[c].state # "idle"
  BY <1>1, <1>2 DEF SubmissionInv
<1>9. p.state # "ineligible"
  BY <1>1 DEF SubmissionInv
<1> QED
  BY <1>4, <1>5, <1>6, <1>7, <1>8, <1>9 DEF SubmissionInv

\* One submission moves on, and the client, the score and the authority wait.
LEMMA SubmissionMoves ==
  ASSUME PeersInv, NEW c \in Calls, NEW s \in PeerStates, NEW at \in Nat,
         peers' = [peers EXCEPT ![c] = [state |-> s, at |-> at]],
         UNCHANGED <<vars, high, lowAt>>, SubmissionInv(c)'
  PROVE  PeersInv'
<1>1. UNCHANGED <<now, tokenCache, calls, issued, blockedAt, invalidations, quietFloor, high, lowAt>>
  BY DEF vars
<1>2. ClientInv'
  BY ClientStepKeeps DEF PeersInv
<1>3. PeerTypeOK'
  BY <1>1 DEF PeersInv, PeerTypeOK
<1>4. ScoredInTime'
  BY <1>1 DEF PeersInv, ScoredInTime, Carried
<1>5. \A e \in Calls \ {c} : peers'[e] = peers[e]
  BY DEF PeersInv, PeerTypeOK
<1>6. ASSUME NEW e \in Calls \ {c} PROVE SubmissionInv(e)'
  BY <1>1, <1>5, SubmissionLater
<1> QED
  BY <1>2, <1>3, <1>4, <1>6 DEF PeersInv

LEMMA BecomesKeeps ==
  ASSUME PeersInv, NEW c \in Calls, GiveUp(c) \/ Build(c) \/ Send(c) \/ Lose(c)
  PROVE  PeersInv'
<1> DEFINE p == peers[c]
<1>0. p \in [state: PeerStates, at: Nat] /\ SubmissionInv(c)
  BY DEF PeersInv, PeerTypeOK
<1>1. PICK s \in {"failed", "signing", "travelling"} :
        /\ peers' = [peers EXCEPT ![c].state = s] /\ UNCHANGED <<vars, high, lowAt>>
        /\ s # "failed" => Answered(c) /\ calls[c].token.serial \in high
        /\ calls[c].state # "idle"
  <2>1. ASSUME GiveUp(c) \/ Lose(c) PROVE Becomes(c, "failed") /\ calls[c].state # "idle"
    BY <1>0, <2>1 DEF GiveUp, Lose, SubmissionInv
  <2>2. ASSUME Build(c)
        PROVE  Becomes(c, "signing") /\ Answered(c) /\ calls[c].token.serial \in high
               /\ calls[c].state # "idle"
    BY <1>0, <2>2 DEF Build, Eligible, SubmissionInv
  <2>3. ASSUME Send(c)
        PROVE  Becomes(c, "travelling") /\ Answered(c) /\ calls[c].token.serial \in high
               /\ calls[c].state # "idle"
    BY <1>0, <2>3 DEF Send, SubmissionInv
  <2> QED
    BY <2>1, <2>2, <2>3 DEF Becomes
<1>2. peers' = [peers EXCEPT ![c] = [state |-> s, at |-> p.at]] /\ s \in PeerStates
  <2>1. [p EXCEPT !.state = s] = [state |-> s, at |-> p.at]
    BY <1>0
  <2>2. peers' = [peers EXCEPT ![c] = [p EXCEPT !.state = s]]
    BY <1>1
  <2> QED
    BY <1>1, <2>1, <2>2 DEF PeerStates
<1>3. peers'[c] = [state |-> s, at |-> p.at]
  BY <1>2 DEF PeersInv, PeerTypeOK
<1>4. calls' = calls /\ high' = high /\ (Answered(c) => Answered(c)')
  BY <1>1 DEF vars, Answered
<1>5. SubmissionInv(c)'
  BY <1>1, <1>3, <1>4 DEF SubmissionInv
<1> QED
  BY <1>0, <1>1, <1>2, <1>5, SubmissionMoves

LEMMA ArriveKeeps ==
  ASSUME PeersInv, NEW c \in Calls, Arrive(c)
  PROVE  PeersInv'
<1> DEFINE t == calls[c].token
           s == IF t.expiresAt < now THEN "expired" ELSE "accepted"
<1>1. /\ SubmissionInv(c) /\ now \in Nat /\ MaxTtl \in Nat /\ RefreshThreshold \in Nat
      /\ lowAt \in Nat \cup {None} /\ blockedAt \in Nat \cup {None} /\ calls[c] \in Call
      /\ CallInv(c)
  BY Facts, Longest DEF PeersInv, PeerTypeOK
<1>2. peers[c].state = "travelling" /\ UNCHANGED <<vars, high, lowAt>>
  BY DEF Arrive
<1>3. Answered(c) /\ t.serial \in high
  BY <1>1, <1>2 DEF SubmissionInv
<1>4. peers' = [peers EXCEPT ![c] = [state |-> s, at |-> now]]
  BY <1>3 DEF Arrive
<1>5. t \in Carried /\ t \in Token /\ t.expiresAt \in Nat /\ t.expiresAt <= Horizon
  BY <1>1, <1>3, CarriedFacts DEF PeersInv, Answered, Holding, Token, Genuine
<1>6. \A since \in {lowAt, blockedAt} \ {None} : t.expiresAt <= since + MaxTtl
  BY <1>3, <1>5 DEF PeersInv, ScoredInTime, Horizon
<1>7. peers'[c] = [state |-> s, at |-> now]
  BY <1>4 DEF PeersInv, PeerTypeOK
<1>8. /\ calls' = calls /\ now' = now /\ blockedAt' = blockedAt /\ lowAt' = lowAt
      /\ Answered(c)'
  BY <1>2, <1>3 DEF vars, Answered
<1>9. s = "accepted" => \A since \in {lowAt, blockedAt} \ {None} : now <= since + MaxTtl
  BY <1>1, <1>5, <1>6
<1>10. s = "expired" /\ calls[c].state = "cached" => now > calls[c].at + RefreshThreshold
  BY <1>1, <1>5 DEF CallInv, Call
<1>11. s \in {"expired", "accepted"} /\ calls[c].state # "idle"
  BY <1>3 DEF Answered
<1> HIDE DEF s
<1>12. SubmissionInv(c)'
  BY <1>1, <1>7, <1>8, <1>9, <1>10, <1>11 DEF SubmissionInv
<1> QED
  BY <1>1, <1>2, <1>4, <1>11, <1>12, SubmissionMoves DEF PeerStates

LEMMA SubmitKeeps ==
  ASSUME PeersInv, NEW c \in Calls, NEW d \in Domains, submitPeerReceipt(c, d)
  PROVE  PeersInv'
<1>1. /\ Ask(c, d, FALSE) /\ peers' = [peers EXCEPT ![c].state = "waiting"]
      /\ UNCHANGED <<high, lowAt>> /\ UNCHANGED <<now, issued>>
  BY DEF submitPeerReceipt, Ask
<1>2. [Next]_vars /\ ClientInv'
  BY <1>1, ClientStepKeeps DEF Next, PeersInv
<1>3. /\ peers'[c].state = "waiting" /\ peers' \in [Calls -> [state: PeerStates, at: Nat]]
      /\ \A e \in Calls \ {c} : peers'[e] = peers[e]
  BY <1>1 DEF PeersInv, PeerTypeOK, PeerStates
<1>4. PeerTypeOK'
  BY <1>1, <1>3 DEF PeersInv, PeerTypeOK
<1>5. ScoredInTime'
  BY <1>1, NoNewToken DEF PeersInv, ScoredInTime
<1>6. calls'[c].state # "idle"
  BY <1>1, Facts DEF Ask, TypeOK, PeersInv
<1>7. SubmissionInv(c)'
  BY <1>3, <1>6 DEF SubmissionInv
<1>8. ASSUME NEW e \in Calls \ {c} PROVE SubmissionInv(e)'
  BY <1>1, <1>2, <1>3, SubmissionLater
<1> QED
  BY <1>2, <1>4, <1>5, <1>7, <1>8 DEF PeersInv

LEMMA IssueScoredKeeps ==
  ASSUME PeersInv, NEW c \in Calls, NEW ttl \in Ttls, IssueScored(c, ttl)
  PROVE  PeersInv'
<1>1. /\ Issue(c, ttl) /\ high' = IF lowAt = None THEN high \cup {issued'} ELSE high
      /\ issued' = issued + 1 /\ UNCHANGED <<now, lowAt, peers>>
  BY DEF IssueScored, Issue
<1>2. [Next]_vars /\ ClientInv'
  BY <1>1, ClientStepKeeps DEF Next, PeersInv
<1>3. issued \in Nat /\ high \subseteq 1..issued
  BY Facts DEF PeersInv, PeerTypeOK
<1>4. PeerTypeOK'
  BY <1>1, <1>3 DEF PeersInv, PeerTypeOK
<1>5. ScoredInTime'
  <2> SUFFICES ASSUME NEW t \in Carried', t.serial \in high', lowAt # None
               PROVE  t.expiresAt <= lowAt + MaxTtl
    BY <1>1 DEF ScoredInTime
  <2>1. t.serial # issued + 1
    BY <1>1, <1>3
  <2>2. t \in Carried
    BY <1>1, <2>1, OneNewToken DEF PeersInv
  <2> QED
    BY <1>1, <2>2 DEF PeersInv, ScoredInTime
<1>6. ASSUME NEW e \in Calls PROVE SubmissionInv(e)'
  BY <1>1, <1>2, SubmissionLater
<1> QED
  BY <1>2, <1>4, <1>5, <1>6 DEF PeersInv

LEMMA LoseScoreKeeps ==
  ASSUME PeersInv, LoseScore
  PROVE  PeersInv'
<1>1. lowAt = None /\ lowAt' = now /\ UNCHANGED <<vars, high, peers>>
  BY DEF LoseScore
<1>2. UNCHANGED <<now, tokenCache, calls, issued, blockedAt>>
  BY <1>1 DEF vars
<1>3. now \in Nat /\ MaxTtl \in Nat /\ Horizon \in Nat /\ blockedAt \in Nat \cup {None}
  BY Facts, Longest DEF PeersInv
<1>4. Horizon <= now + MaxTtl
  BY <1>3 DEF Horizon, PeersInv, ClientInv
<1>5. ClientInv'
  BY <1>1, ClientStepKeeps DEF PeersInv
<1>6. PeerTypeOK'
  BY <1>1, <1>2, <1>3 DEF PeersInv, PeerTypeOK
<1>7. Carried' = Carried
  BY <1>2 DEF Carried
<1>8. ASSUME NEW t \in Carried PROVE t.expiresAt <= now + MaxTtl
  <2>1. t \in Token /\ Genuine(t, issued, Horizon)
    BY CarriedFacts DEF PeersInv
  <2>2. t.expiresAt \in Nat /\ t.expiresAt <= Horizon
    BY <2>1 DEF Genuine, Token
  <2> HIDE DEF Horizon
  <2> QED
    BY <1>3, <1>4, <2>2
<1>9. ScoredInTime'
  BY <1>1, <1>7, <1>8 DEF ScoredInTime
<1>10. ASSUME NEW e \in Calls PROVE SubmissionInv(e)'
  BY <1>1, SubmissionLater
<1> QED
  BY <1>5, <1>6, <1>9, <1>10 DEF PeersInv

LEMMA ClientStepKeepsPeers == PeersInv /\ ClientStep => PeersInv'
<1> SUFFICES ASSUME PeersInv, ClientStep PROVE PeersInv'
  OBVIOUS
<1>1. UNCHANGED <<high, lowAt, peers>>
  BY DEF ClientStep, peerVars
<1>2. [Next]_vars
  BY PeerStepIsClientStep DEF PeerNext
<1>3. ClientInv' /\ now <= now' /\ issued <= issued' /\ now \in Nat /\ issued \in Nat
  BY <1>2, ClientStepKeeps, ClientMoves, Facts DEF PeersInv
<1>4. now' \in Nat /\ issued' \in Nat
  BY <1>3 DEF ClientInv, TypeOK
<1>5. PeerTypeOK'
  BY <1>1, <1>3, <1>4 DEF PeersInv, PeerTypeOK
<1>6. ScoredInTime'
  BY <1>1, NoNewToken DEF PeersInv, ScoredInTime, ClientStep
<1>7. ASSUME NEW e \in Calls PROVE SubmissionInv(e)'
  BY <1>1, <1>2, SubmissionLater
<1> QED
  BY <1>3, <1>5, <1>6, <1>7 DEF PeersInv

LEMMA PeerStepKeeps == PeersInv /\ [PeerNext]_<<vars, peerVars>> => PeersInv'
<1> SUFFICES ASSUME PeersInv, [PeerNext]_<<vars, peerVars>> PROVE PeersInv'
  OBVIOUS
<1>1. CASE UNCHANGED <<vars, peerVars>>
  <2>1. UNCHANGED <<now, tokenCache, calls, issued, blockedAt, high, lowAt, peers>>
    BY <1>1 DEF vars, peerVars
  <2>2. ClientInv'
    BY <1>1, ClientStepKeeps DEF PeersInv
  <2> QED
    BY <2>1, <2>2 DEF PeersInv, PeerTypeOK, ScoredInTime, Carried, SubmissionInv, Answered
<1> QED
  BY <1>1, SubmitKeeps, BecomesKeeps, ArriveKeeps, IssueScoredKeeps, LoseScoreKeeps,
     ClientStepKeepsPeers DEF PeerNext

\* An agent that lost its score, or was blocked, attests no longer than the longest
\* token lives, through however many caches, signatures and posts; and no receipt it
\* posted is refused for its score, nor for a cached token's expiry unless signing and
\* posting took longer than the threshold (issuer.ts 224-251, 285-301, client.ts 78-81).
THEOREM AttestationsEnd == PeerSpec => []PeerInv
<1>1. PeersInv => PeerInv
  BY DEF PeersInv, SubmissionInv, PeerInv, AttestsNoLonger, RefusedForDelay
<1> QED
  BY <1>1, PeersInit, PeerStepKeeps, PTL DEF PeerSpec

-----------------------------------------------------------------------------
(* The issuer. *)

HIDE ClientAssumption
USE IssuerAssumption

(* Inductive: what QueueInv says, and that the age of an empty queue is 0,  *)
(* so that the timer the next receipt starts has its whole interval.        *)
QueueIInv == QueueInv /\ (pendingQueue = <<>> => headAge = 0)

USE DEF Phases

LEMMA InAppend ==
  ASSUME NEW s \in Seq(Receipts), NEW r \in Receipts
  PROVE  /\ Append(s, r) \in Seq(Receipts)
         /\ Len(Append(s, r)) = Len(s) + 1
         /\ Append(s, r) # <<>>
         /\ In(Append(s, r)) = In(s) \cup {r}
         /\ In(s) \subseteq Receipts
<1>1. /\ Append(s, r) \in Seq(Receipts)
      /\ Len(Append(s, r)) = Len(s) + 1
      /\ Len(s) \in Nat
      /\ \A k \in 1..Len(s) : Append(s, r)[k] = s[k] /\ s[k] \in Receipts
      /\ Append(s, r)[Len(s) + 1] = r
  OBVIOUS
<1>2. Append(s, r) # <<>>
  BY <1>1, EmptySeq
<1> HIDE IssuerAssumption
<1>3. 1..(Len(s) + 1) = 1..Len(s) \cup {Len(s) + 1}
  BY <1>1
<1>4. In(Append(s, r)) = In(s) \cup {r}
  <2>1. ASSUME NEW x \in In(Append(s, r)) PROVE x \in In(s) \cup {r}
    BY <1>1, <1>3 DEF In
  <2>2. ASSUME NEW x \in In(s) \cup {r} PROVE x \in In(Append(s, r))
    BY <1>1, <1>3 DEF In
  <2> QED
    BY <2>1, <2>2
<1> QED
  BY <1>1, <1>2, <1>4 DEF In

LEMMA InjectiveAppend ==
  ASSUME NEW s \in Seq(Receipts), NEW r \in Receipts, IsInjective(s), r \notin In(s)
  PROVE  IsInjective(Append(s, r))
<1> DEFINE q == Append(s, r)
<1>1. /\ Len(s) \in Nat
      /\ DOMAIN s = 1..Len(s)
      /\ DOMAIN q = 1..(Len(s) + 1)
      /\ \A k \in 1..Len(s) : q[k] = s[k]
      /\ q[Len(s) + 1] = r
  OBVIOUS
<1> SUFFICES ASSUME NEW a \in 1..(Len(s) + 1), NEW b \in 1..(Len(s) + 1), q[a] = q[b]
             PROVE  a = b
  BY <1>1 DEF IsInjective
<1> HIDE DEF q
<1>2. \A k \in 1..Len(s) : q[k] # r
  BY <1>1 DEF In
<1>3. CASE a \in 1..Len(s) /\ b \in 1..Len(s)
  BY <1>1, <1>3 DEF IsInjective
<1> QED
  BY <1>1, <1>2, <1>3

LEMMA Empty == In(<<>>) = {} /\ IsInjective(<<>>) /\ Len(<<>>) = 0 /\ <<>> \in Seq(Receipts)
  BY EmptySeq DEF In, IsInjective

LEMMA InitQueue == QueueInit => QueueIInv
  BY Empty DEF QueueInit, QueueIInv, QueueInv, QueueTypeOK, QueueWatched, BatchFits, OnePlace

(* A flush of a queue that has been filled up to the size at which it goes  *)
(* out, where phases is the phases of the receipts before.                  *)
LEMMA FlushKeeps ==
  ASSUME QueueIInv, NEW queue \in Seq(Receipts), NEW phases \in [Receipts -> Phases],
         Flush(queue, phases), arrivals' = arrivals, up' = up,
         IsInjective(queue), Len(queue) <= FlushSize,
         \A r \in In(queue) : arrivals[r] = 0 /\ phase[r] # "away",
         \A r \in Receipts : r \in In(queue) <=> phases[r] = "queued",
         \A r \in Receipts : r \notin In(queue) => phases[r] = phase[r]
  PROVE  QueueIInv'
<1>1. In(queue) \subseteq Receipts
  BY DEF In
<1>2. QueueTypeOK'
  BY Empty DEF QueueIInv, QueueInv, QueueTypeOK, Flush
<1>3. QueueWatched' /\ (pendingQueue' = <<>> => headAge' = 0)
  BY DEF QueueWatched, Flush
<1>4. BatchFits'
  BY Empty DEF QueueIInv, QueueInv, BatchFits, Flush
<1>5. phase' = [r \in Receipts |-> IF r \in In(queue) THEN "away" ELSE phase[r]]
  BY DEF Flush
<1>6. OnePlace'
  <2>1. IsInjective(pendingQueue') /\ In(pendingQueue') = {}
    BY Empty DEF Flush
  <2>2. \A r \in Receipts : phase'[r] # "queued"
    BY <1>5
  <2>3. \A b \in batches : IsInjective(b) /\ \A r \in In(b) : phase[r] = "away"
    BY DEF QueueIInv, QueueInv, OnePlace
  <2>4. \A b \in batches : In(b) \subseteq Receipts
    BY DEF QueueIInv, QueueInv, QueueTypeOK, In
  <2>5. \A b \in batches' : IsInjective(b) /\ \A r \in In(b) : phase'[r] = "away"
    BY <1>1, <1>5, <2>3, <2>4 DEF Flush
  <2>6. \A b \in batches : In(b) \cap In(queue) = {}
    BY <2>3
  <2>7. \A b, c \in batches' : b # c => In(b) \cap In(c) = {}
    BY <2>6 DEF QueueIInv, QueueInv, OnePlace, Flush
  <2>8. \A r \in Receipts : arrivals'[r] <= IF phase'[r] \in {"done", "thrown"} THEN 1 ELSE 0
    BY <1>5 DEF QueueIInv, QueueInv, OnePlace
  <2> QED
    BY <2>1, <2>2, <2>5, <2>7, <2>8 DEF OnePlace
<1> QED
  BY <1>2, <1>3, <1>4, <1>6 DEF QueueIInv, QueueInv

(* The phase of receipts changes and their arrivals may: the queue, its     *)
(* timer and the batches stay.                                              *)
LEMMA PhaseKeeps ==
  ASSUME QueueIInv, NEW r \in Receipts, NEW p \in Phases \ {"queued", "away"},
         phase[r] \notin {"queued", "away"},
         phase' = [phase EXCEPT ![r] = p],
         UNCHANGED <<pendingQueue, flushTimer, headAge, batches, up>>,
         arrivals' \in [Receipts -> Nat],
         \A s \in Receipts : s # r => arrivals'[s] = arrivals[s],
         arrivals'[r] <= IF p \in {"done", "thrown"} THEN 1 ELSE 0
  PROVE  QueueIInv'
<1>1. phase \in [Receipts -> Phases] /\ phase' \in [Receipts -> Phases]
  BY DEF QueueIInv, QueueInv, QueueTypeOK
<1>2. QueueTypeOK'
  BY <1>1 DEF QueueIInv, QueueInv, QueueTypeOK
<1>3. \A s \in Receipts : phase'[s] = IF s = r THEN p ELSE phase[s]
  BY <1>1
<1>4. OnePlace'
  <2>1. \A s \in Receipts : /\ phase'[s] = "queued" <=> phase[s] = "queued"
                            /\ phase'[s] = "away" <=> phase[s] = "away"
    BY <1>3
  <2>2. \A b \in batches : In(b) \subseteq Receipts
    BY SMTT(30) DEF QueueIInv, QueueInv, QueueTypeOK, In
  <2>3. \A b \in batches' : IsInjective(b) /\ \A s \in In(b) : phase'[s] = "away"
    BY <2>1, <2>2 DEF QueueIInv, QueueInv, OnePlace
  <2>4. \A s \in Receipts : arrivals'[s] <= IF phase'[s] \in {"done", "thrown"} THEN 1 ELSE 0
    BY <1>3 DEF QueueIInv, QueueInv, OnePlace
  <2>5. IsInjective(pendingQueue') /\ In(pendingQueue') = {s \in Receipts : phase'[s] = "queued"}
    BY <2>1 DEF QueueIInv, QueueInv, OnePlace
  <2>6. \A b, c \in batches' : b # c => In(b) \cap In(c) = {}
    BY DEF QueueIInv, QueueInv, OnePlace
  <2> QED
    BY <2>3, <2>4, <2>5, <2>6 DEF OnePlace
<1> QED
  BY <1>2, <1>4 DEF QueueIInv, QueueInv, QueueWatched, BatchFits

LEMMA QueuedKeeps ==
  ASSUME QueueIInv, NEW r \in Receipts, Queued(r) PROVE QueueIInv'
<1> DEFINE queue  == Append(pendingQueue, r)
           phases == [phase EXCEPT ![r] = "queued"]
<1>1. /\ phase \in [Receipts -> Phases] /\ pendingQueue \in Seq(Receipts)
      /\ phases \in [Receipts -> Phases]
      /\ \A s \in Receipts : phases[s] = IF s = r THEN "queued" ELSE phase[s]
  BY DEF QueueIInv, QueueInv, QueueTypeOK
<1>2. /\ queue \in Seq(Receipts) /\ Len(queue) = Len(pendingQueue) + 1 /\ queue # <<>>
      /\ In(queue) = In(pendingQueue) \cup {r}
      /\ In(pendingQueue) \subseteq Receipts
  BY <1>1, InAppend
<1>3. /\ In(pendingQueue) = {s \in Receipts : phase[s] = "queued"}
      /\ phase[r] = "building"
      /\ IsInjective(pendingQueue)
  BY DEF QueueIInv, QueueInv, OnePlace, Queued
<1>4. IsInjective(queue)
  BY <1>1, <1>3, InjectiveAppend
<1>5. \A s \in In(queue) : s \in Receipts /\ arrivals[s] = 0 /\ phase[s] # "away"
  <2>1. \A s \in In(queue) : s \in Receipts /\ phase[s] \in {"queued", "building"}
    BY <1>2, <1>3
  <2>2. \A s \in Receipts : arrivals[s] \in Nat
    BY DEF QueueIInv, QueueInv, QueueTypeOK
  <2>3. \A s \in Receipts : arrivals[s] <= IF phase[s] \in {"done", "thrown"} THEN 1 ELSE 0
    BY DEF QueueIInv, QueueInv, OnePlace
  <2> QED
    BY <2>1, <2>2, <2>3
<1>6. \A s \in Receipts : s \in In(queue) <=> phases[s] = "queued"
  BY <1>1, <1>2, <1>3
<1>7. \A s \in Receipts : s \notin In(queue) => phases[s] = phase[s]
  BY <1>1, <1>2
<1>8. Len(pendingQueue) \in Nat /\ Len(pendingQueue) < FlushSize /\ Len(queue) <= FlushSize
  BY <1>1, <1>2 DEF QueueIInv, QueueInv, BatchFits
<1>9. /\ arrivals' = arrivals /\ up' = up
      /\ \/ Flush(queue, phases)
         \/ /\ ~(Len(queue) >= FlushSize)
            /\ pendingQueue' = queue
            /\ phase' = phases
            /\ flushTimer' = IF flushTimer = NoTimer THEN FlushInterval ELSE flushTimer
            /\ headAge' = headAge /\ batches' = batches
  BY DEF Queued, Full, Armed
<1> HIDE DEF queue, phases
<1>10. CASE Flush(queue, phases)
  BY <1>1, <1>2, <1>4, <1>5, <1>6, <1>7, <1>8, <1>9, <1>10, FlushKeeps
<1>11. CASE ~Flush(queue, phases)
  <2>1. QueueTypeOK'
    BY <1>1, <1>2, <1>9, <1>11, SMTT(30) DEF QueueIInv, QueueInv, QueueTypeOK
  <2>2. QueueWatched' /\ (pendingQueue' = <<>> => headAge' = 0)
    <3>1. flushTimer \in 0..FlushInterval \cup {NoTimer} /\ headAge \in 0..FlushInterval
      BY DEF QueueIInv, QueueInv, QueueTypeOK
    <3>2. /\ pendingQueue = <<>> <=> flushTimer = NoTimer
          /\ pendingQueue # <<>> => headAge + flushTimer <= FlushInterval
          /\ pendingQueue = <<>> => headAge = 0
      BY DEF QueueIInv, QueueInv, QueueWatched
    <3>3. flushTimer' # NoTimer /\ headAge' + flushTimer' <= FlushInterval
      BY <1>9, <1>11, <3>1, <3>2
    <3> QED
      BY <1>2, <1>9, <1>11, <3>3 DEF QueueWatched
  <2>3. BatchFits'
    BY <1>2, <1>8, <1>9, <1>11 DEF QueueIInv, QueueInv, BatchFits
  <2>4. OnePlace'
    <3>1. IsInjective(pendingQueue') /\ In(pendingQueue') = {s \in Receipts : phase'[s] = "queued"}
      BY <1>2, <1>4, <1>6, <1>9, <1>11
    <3>2. \A b \in batches' : IsInjective(b) /\ \A s \in In(b) : phase'[s] = "away"
      <4>1. \A b \in batches : In(b) \subseteq Receipts
        BY DEF QueueIInv, QueueInv, QueueTypeOK, In
      <4>2. \A b \in batches : IsInjective(b) /\ \A s \in In(b) : phase[s] = "away"
        BY DEF QueueIInv, QueueInv, OnePlace
      <4> QED
        BY <1>1, <1>3, <1>9, <1>11, <4>1, <4>2
    <3>3. \A b, c \in batches' : b # c => In(b) \cap In(c) = {}
      BY <1>9, <1>11 DEF QueueIInv, QueueInv, OnePlace
    <3>4. \A s \in Receipts : arrivals'[s] <= IF phase'[s] \in {"done", "thrown"} THEN 1 ELSE 0
      BY <1>1, <1>3, <1>9, <1>11 DEF QueueIInv, QueueInv, OnePlace
    <3> QED
      BY <3>1, <3>2, <3>3, <3>4 DEF OnePlace
  <2> QED
    BY <2>1, <2>2, <2>3, <2>4 DEF QueueIInv, QueueInv
<1> QED
  BY <1>10, <1>11

(* The queue goes out as it is.                                             *)
LEMMA WholeKeeps ==
  ASSUME QueueIInv, Flush(pendingQueue, phase), arrivals' = arrivals, up' = up
  PROVE  QueueIInv'
<1>1. /\ phase \in [Receipts -> Phases] /\ pendingQueue \in Seq(Receipts)
      /\ arrivals \in [Receipts -> Nat]
  BY DEF QueueIInv, QueueInv, QueueTypeOK
<1>2. /\ In(pendingQueue) = {s \in Receipts : phase[s] = "queued"}
      /\ IsInjective(pendingQueue)
  BY DEF QueueIInv, QueueInv, OnePlace
<1>3. \A s \in In(pendingQueue) : arrivals[s] = 0 /\ phase[s] # "away"
  <2>1. \A s \in Receipts : arrivals[s] <= IF phase[s] \in {"done", "thrown"} THEN 1 ELSE 0
    BY DEF QueueIInv, QueueInv, OnePlace
  <2> QED
    BY <1>1, <1>2, <2>1, SMTT(30)
<1>4. Len(pendingQueue) <= FlushSize
  BY <1>1 DEF QueueIInv, QueueInv, BatchFits
<1> QED
  BY <1>1, <1>2, <1>3, <1>4, FlushKeeps

(* A batch leaves the network; if it arrives each of its receipts has       *)
(* arrived once.                                                            *)
LEMMA BatchKeeps ==
  ASSUME QueueIInv, NEW b \in batches, BatchArrives(b) \/ BatchLost(b) PROVE QueueIInv'
<1>1. /\ phase \in [Receipts -> Phases] /\ arrivals \in [Receipts -> Nat]
      /\ \A c \in batches : In(c) \subseteq Receipts
  BY DEF QueueIInv, QueueInv, QueueTypeOK, In
<1>2. /\ \A c \in batches : IsInjective(c) /\ \A s \in In(c) : phase[s] = "away"
      /\ \A c, d \in batches : c # d => In(c) \cap In(d) = {}
      /\ IsInjective(pendingQueue)
      /\ In(pendingQueue) = {s \in Receipts : phase[s] = "queued"}
      /\ \A s \in Receipts : arrivals[s] <= IF phase[s] \in {"done", "thrown"} THEN 1 ELSE 0
  BY DEF QueueIInv, QueueInv, OnePlace
<1>3. PICK end \in {"done", "lost"} :
        /\ phase' = [s \in Receipts |-> IF s \in In(b) THEN end ELSE phase[s]]
        /\ end = "lost" => arrivals' = arrivals
        /\ end = "done" =>
             arrivals' = [s \in Receipts |->
               IF s \in In(b) /\ Len(b) <= BatchLimit THEN arrivals[s] + 1 ELSE arrivals[s]]
  BY DEF BatchArrives, BatchLost
<1>4. batches' = batches \ {b} /\ UNCHANGED <<pendingQueue, flushTimer, headAge, up>>
  BY DEF BatchArrives, BatchLost
<1>5. arrivals' \in [Receipts -> Nat]
  BY <1>1, <1>3
<1>6. QueueTypeOK'
  BY <1>1, <1>3, <1>4, <1>5 DEF QueueIInv, QueueInv, QueueTypeOK
<1>7. OnePlace'
  <2>1. \A s \in Receipts : phase'[s] = IF s \in In(b) THEN end ELSE phase[s]
    BY <1>3
  <2>2. \A c \in batches' : \A s \in In(c) : s \in Receipts /\ phase'[s] = "away"
    BY <1>1, <1>2, <1>4, <2>1
  <2>3. \A s \in Receipts : phase'[s] = "queued" <=> phase[s] = "queued"
    BY <1>2, <2>1
  <2>4. \A s \in Receipts : arrivals'[s] <= IF phase'[s] \in {"done", "thrown"} THEN 1 ELSE 0
    <3> SUFFICES ASSUME NEW s \in Receipts
                 PROVE  arrivals'[s] <= IF phase'[s] \in {"done", "thrown"} THEN 1 ELSE 0
      OBVIOUS
    <3>1. arrivals[s] \in Nat
      BY <1>1
    <3>2. s \in In(b) => arrivals[s] = 0
      BY <1>2, <3>1
    <3> QED
      BY <1>2, <1>3, <2>1, <3>1, <3>2
  <2> QED
    BY <1>2, <1>4, <2>2, <2>3, <2>4 DEF OnePlace
<1> QED
  BY <1>4, <1>6, <1>7 DEF QueueIInv, QueueInv, QueueWatched, BatchFits

LEMMA TickKeeps == ASSUME QueueIInv, QueueTick PROVE QueueIInv'
<1>1. /\ flushTimer \in 0..FlushInterval /\ headAge \in 0..FlushInterval
      /\ pendingQueue # <<>> /\ headAge + flushTimer <= FlushInterval
  BY DEF QueueIInv, QueueInv, QueueTypeOK, QueueWatched, QueueTick
<1>2. /\ flushTimer' \in 0..FlushInterval /\ headAge' \in 0..FlushInterval
      /\ headAge' + flushTimer' <= FlushInterval
  BY <1>1 DEF QueueTick
<1>3. UNCHANGED <<phase, pendingQueue, batches, arrivals, up>> /\ flushTimer' # NoTimer
  BY <1>2 DEF QueueTick
<1> QED
  BY <1>1, <1>2, <1>3 DEF QueueIInv, QueueInv, QueueTypeOK, QueueWatched, BatchFits, OnePlace

LEMMA StopKeeps == ASSUME QueueIInv, Stop PROVE QueueIInv'
<1>1. /\ phase \in [Receipts -> Phases] /\ arrivals \in [Receipts -> Nat]
      /\ \A b \in batches : In(b) \subseteq Receipts
  BY DEF QueueIInv, QueueInv, QueueTypeOK, In
<1>2. \A s \in Receipts :
        phase'[s] = IF phase[s] \in {"building", "signing", "queued"} THEN "lost" ELSE phase[s]
  BY DEF Stop
<1>3. QueueTypeOK'
  <2>1. phase' \in [Receipts -> Phases]
    BY <1>1, <1>2 DEF Stop
  <2>2. 0 \in 0..FlushInterval
    OBVIOUS
  <2>3. up' \in BOOLEAN
    BY DEF Stop
  <2> QED
    BY <2>1, <2>2, <2>3, Empty DEF QueueIInv, QueueInv, QueueTypeOK, Stop
<1>4. OnePlace'
  <2>1. IsInjective(pendingQueue') /\ In(pendingQueue') = {s \in Receipts : phase'[s] = "queued"}
    BY <1>2, Empty DEF Stop
  <2>2. \A b \in batches' : IsInjective(b) /\ \A s \in In(b) : phase'[s] = "away"
    BY <1>1, <1>2 DEF QueueIInv, QueueInv, OnePlace, Stop
  <2>3. \A b, c \in batches' : b # c => In(b) \cap In(c) = {}
    BY DEF QueueIInv, QueueInv, OnePlace, Stop
  <2>4. \A s \in Receipts : arrivals'[s] <= IF phase'[s] \in {"done", "thrown"} THEN 1 ELSE 0
    BY <1>2 DEF QueueIInv, QueueInv, OnePlace, Stop
  <2> QED
    BY <2>1, <2>2, <2>3, <2>4 DEF OnePlace
<1> QED
  BY <1>3, <1>4, Empty DEF QueueIInv, QueueInv, QueueWatched, BatchFits, Stop

LEMMA QueueStep == QueueIInv /\ [QueueNext]_queueVars => QueueIInv'
<1> SUFFICES ASSUME QueueIInv, [QueueNext]_queueVars PROVE QueueIInv'
  OBVIOUS
<1>0. /\ phase \in [Receipts -> Phases] /\ arrivals \in [Receipts -> Nat]
      /\ \A s \in Receipts : arrivals[s] <= IF phase[s] \in {"done", "thrown"} THEN 1 ELSE 0
  BY DEF QueueIInv, QueueInv, QueueTypeOK, OnePlace
<1>1. ASSUME NEW r \in Receipts, queueReceipt(r) \/ submitReceipt(r) \/ Invalid(r) \/ Post(r)
      PROVE  QueueIInv'
  <2>1. PICK p \in {"building", "signing", "invalid", "posted"} : phase' = [phase EXCEPT ![r] = p]
    BY <1>1 DEF queueReceipt, submitReceipt, Invalid, Post
  <2>2. /\ phase[r] \in {"new", "building", "signing"}
        /\ UNCHANGED <<pendingQueue, flushTimer, headAge, batches, up>>
        /\ arrivals' = arrivals
    BY <1>1 DEF queueReceipt, submitReceipt, Invalid, Post
  <2>3. arrivals'[r] <= 0
    BY <1>0, <2>2
  <2> QED
    BY <1>0, <2>1, <2>2, <2>3, PhaseKeeps
<1>2. ASSUME NEW r \in Receipts, PostArrives(r) \/ PostLost(r) PROVE QueueIInv'
  <2>1. PICK p \in {"done", "thrown"} : phase' = [phase EXCEPT ![r] = p]
    BY <1>2 DEF PostArrives, PostLost
  <2>2. /\ phase[r] = "posted"
        /\ UNCHANGED <<pendingQueue, flushTimer, headAge, batches, up>>
        /\ arrivals' = arrivals \/ arrivals' = [arrivals EXCEPT ![r] = @ + 1]
    BY <1>2 DEF PostArrives, PostLost
  <2>3. arrivals[r] = 0
    BY <1>0, <2>2
  <2>4. /\ arrivals' \in [Receipts -> Nat] /\ arrivals'[r] <= 1
        /\ \A s \in Receipts : s # r => arrivals'[s] = arrivals[s]
    BY <1>0, <2>2, <2>3
  <2> QED
    BY <2>1, <2>2, <2>4, PhaseKeeps
<1>3. CASE UNCHANGED queueVars
  BY <1>3 DEF queueVars, QueueIInv, QueueInv, QueueTypeOK, QueueWatched, BatchFits, OnePlace
<1> QED
  BY <1>1, <1>2, <1>3, QueuedKeeps, BatchKeeps, WholeKeeps, TickKeeps, StopKeeps
  DEF QueueNext, TimerFires, CallFlush

(* The queue is watched by a timer that fires within the interval, is       *)
(* shorter than a batch may be, and a receipt is in one place.              *)
THEOREM QueueKept == QueueSpec => []QueueInv
<1>1. QueueIInv => QueueInv
  BY DEF QueueIInv
<1> QED
  BY <1>1, InitQueue, QueueStep, PTL DEF QueueSpec
=============================================================================
