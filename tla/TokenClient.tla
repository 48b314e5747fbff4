---------------------------- MODULE TokenClient ----------------------------
(***************************************************************************)
(* The agent's side of token issuance: TTPClient (sdk/typescript), which   *)
(* caches one trust token per domain and fetches another when the cached   *)
(* one is about to expire.  Several calls may be under way at once; what a *)
(* call does up to the await of its fetch, and what it does after it, are  *)
(* one step each.  The Trust Authority is the environment here: it answers *)
(* or refuses each fetch at any time, and the answers overtake each other. *)
(***************************************************************************)
EXTENDS Integers, FiniteSets

CONSTANTS
  Calls,              \* the calls of getTrustToken, each made once
  Domains,            \* the domains tokens are asked for
  Ttls,               \* the lifetimes the authority gives its tokens
  RefreshThreshold,   \* 30 s: a cached token closer to its expiry is not used
  MaxInvalidations,   \* bound on the invalidations
  MaxTime,            \* bound on the clock
  None                \* no token; not blocked

ASSUME ClientAssumption ==
  /\ Ttls \subseteq Nat \ {0}
  /\ \E t \in Ttls : \A u \in Ttls : u <= t
  /\ {RefreshThreshold, MaxInvalidations, MaxTime} \subseteq Nat
  /\ None \notin Nat

VARIABLES
  now,            \* the time, in seconds
  tokenCache,     \* the token cached for each domain, or None
  calls,          \* what each call has come to
  issued,         \* how many tokens the authority has issued
  blockedAt,      \* when the authority blocked the agent, or None
  invalidations,  \* how many invalidations there were
  quietFloor      \* tokens issued when each domain was last invalidated while no
                  \* fetch for it was under way (history)

vars == <<now, tokenCache, calls, issued, blockedAt, invalidations, quietFloor>>

Token == [serial: Nat, domain: Domains, expiresAt: Nat]

States == {"idle", "fetching", "replied", "refused", "cached", "fetched", "failed"}

Call == [state: States, domain: Domains \cup {None}, token: Token \cup {None},
         at: Nat, asked: Nat, quietFloor: Nat]

TypeOK ==
  /\ now \in Nat
  /\ tokenCache \in [Domains -> Token \cup {None}]
  /\ calls \in [Calls -> Call]
  /\ issued \in Nat
  /\ blockedAt \in Nat \cup {None}
  /\ invalidations \in Nat
  /\ quietFloor \in [Domains -> Nat]

NotMade == [state |-> "idle", domain |-> None, token |-> None,
            at |-> 0, asked |-> 0, quietFloor |-> 0]

Init ==
  /\ now = 0
  /\ tokenCache = [d \in Domains |-> None]
  /\ calls = [c \in Calls |-> NotMade]
  /\ issued = 0
  /\ blockedAt = None
  /\ invalidations = 0
  /\ quietFloor = [d \in Domains |-> 0]

Answered(c) == calls[c].state \in {"cached", "fetched"}

InFlight(d) == \E c \in Calls : /\ calls[c].state \in {"fetching", "replied", "refused"}
                                /\ calls[c].domain = d

\* Mutant: a token passes until it has expired.
FreshToTheEnd(t) == t.expiresAt - now > 0

isTokenFresh(t) == t.expiresAt - now > RefreshThreshold

\* A call may be answered from the cache.
Hit(d, forceRefresh) ==
  ~forceRefresh /\ tokenCache[d] # None /\ isTokenFresh(tokenCache[d])

\* getTrustToken up to its return from the cache, or to the await of the fetch.
Ask(c, d, forceRefresh) ==
  /\ calls[c].state = "idle"
  /\ calls' = [calls EXCEPT ![c] =
       [state      |-> IF Hit(d, forceRefresh) THEN "cached" ELSE "fetching",
        domain     |-> d,
        token      |-> IF Hit(d, forceRefresh) THEN tokenCache[d] ELSE None,
        at         |-> now,
        asked      |-> IF forceRefresh THEN issued ELSE 0,
        quietFloor |-> quietFloor[d]]]
  /\ UNCHANGED <<now, tokenCache, issued, blockedAt, invalidations, quietFloor>>

\* The authority issues the token asked for; its answer travels.
Issue(c, ttl) ==
  /\ calls[c].state = "fetching"
  /\ blockedAt = None
  /\ issued' = issued + 1
  /\ calls' = [calls EXCEPT ![c].state = "replied",
                            ![c].token = [serial |-> issued + 1, domain |-> calls[c].domain,
                                          expiresAt |-> now + ttl]]
  /\ UNCHANGED <<now, tokenCache, blockedAt, invalidations, quietFloor>>

\* The authority refuses, or it cannot be reached.
Refuse(c) ==
  /\ calls[c].state = "fetching"
  /\ calls' = [calls EXCEPT ![c].state = "refused"]
  /\ UNCHANGED <<now, tokenCache, issued, blockedAt, invalidations, quietFloor>>

\* The answer arrives: it is cached whatever happened to the cache meanwhile.
Receive(c) ==
  /\ calls[c].state = "replied"
  /\ tokenCache' = [tokenCache EXCEPT ![calls[c].domain] = calls[c].token]
  /\ calls' = [calls EXCEPT ![c].state = "fetched", ![c].at = now]
  /\ UNCHANGED <<now, issued, blockedAt, invalidations, quietFloor>>

\* TTPUnavailableError: the cache stays as it is.
Fail(c) ==
  /\ calls[c].state = "refused"
  /\ calls' = [calls EXCEPT ![c].state = "failed"]
  /\ UNCHANGED <<now, tokenCache, issued, blockedAt, invalidations, quietFloor>>

\* Mutant: the entry stays.
DropNothing(D) == UNCHANGED tokenCache

Drop(D) == tokenCache' = [d \in Domains |-> IF d \in D THEN None ELSE tokenCache[d]]

Invalidated(D) ==
  /\ invalidations < MaxInvalidations
  /\ invalidations' = invalidations + 1
  /\ Drop(D)
  /\ quietFloor' = [d \in Domains |->
       IF d \in D /\ ~InFlight(d) THEN issued ELSE quietFloor[d]]
  /\ UNCHANGED <<now, calls, issued, blockedAt>>

invalidateToken(d) == Invalidated({d})

invalidateAll == Invalidated(Domains)

\* An operator blocks the agent: the authority issues nothing more.
Block ==
  /\ blockedAt = None
  /\ blockedAt' = now
  /\ UNCHANGED <<now, tokenCache, calls, issued, invalidations, quietFloor>>

Tick ==
  /\ now < MaxTime
  /\ now' = now + 1
  /\ UNCHANGED <<tokenCache, calls, issued, blockedAt, invalidations, quietFloor>>

Next ==
  \/ \E c \in Calls :
       \/ \E d \in Domains, f \in BOOLEAN : Ask(c, d, f)
       \/ \E ttl \in Ttls : Issue(c, ttl)
       \/ Refuse(c) \/ Receive(c) \/ Fail(c)
  \/ \E d \in Domains : invalidateToken(d)
  \/ invalidateAll
  \/ Block
  \/ Tick

Spec == Init /\ [][Next]_vars

-----------------------------------------------------------------------------
(* Properties. *)

MaxTtl == CHOOSE t \in Ttls : \A u \in Ttls : u <= t

\* However late the answers arrive and in whatever order they overwrite each
\* other in the cache, no call is answered from it later than the longest
\* token, less the threshold, after the agent was blocked.
BlockOutlived ==
  \A c \in Calls :
    calls[c].state = "cached" /\ blockedAt # None =>
      calls[c].at + RefreshThreshold < blockedAt + MaxTtl

\* Concurrent calls for several domains share the client: each is answered
\* with a token of the domain it asked for.
DomainsApart == \A c \in Calls : Answered(c) => calls[c].token.domain = calls[c].domain

\* A forced call is answered with a token issued after it was made, although
\* answers to other calls fill the cache while it waits.
ForcedIsNew == \A c \in Calls : Answered(c) => calls[c].token.serial > calls[c].asked

\* A call made after its domain was invalidated with no fetch under way is
\* answered with a token issued after that invalidation.
QuietInvalidationForces ==
  \A c \in Calls : Answered(c) => calls[c].token.serial > calls[c].quietFloor

\* The calls get the right tokens: of their domain, and new where the caller or
\* an invalidation asked for a new one.
RightTokens == TypeOK /\ DomainsApart /\ ForcedIsNew /\ QuietInvalidationForces
=============================================================================
