----------------------------- MODULE PeerIssuer -----------------------------
(***************************************************************************)
(* An agent that attests other agents: TTPPeerIssuer (sdk/typescript),      *)
(* which shares the client, and so the token cache, of TokenClient.  A      *)
(* submission asks the client for the agent's own token, gives up if its    *)
(* score is too low, signs the receipt and posts both; the authority looks  *)
(* at the token when they arrive.  Meanwhile the score may be lost.         *)
(*                                                                          *)
(* A submission is known by its call of getTrustToken.                      *)
(***************************************************************************)
EXTENDS TokenClient

VARIABLES
  high,    \* the tokens whose score is at least the minimum, by their serials
  lowAt,   \* since when the agent's score is below the minimum, or None
  peers    \* how far each submission is, and when it was decided

peerVars == <<high, lowAt, peers>>

PeerInit ==
  /\ high = {}
  /\ lowAt = None
  /\ peers = [c \in Calls |-> [state |-> "none", at |-> 0]]

Becomes(c, state) ==
  /\ peers' = [peers EXCEPT ![c].state = state]
  /\ UNCHANGED <<vars, high, lowAt>>

submitPeerReceipt(c, d) ==
  /\ Ask(c, d, FALSE)
  /\ peers' = [peers EXCEPT ![c].state = "waiting"]
  /\ UNCHANGED <<high, lowAt>>

\* Mutant: whatever its score, the token is sent.
EligibleAnyway(c) == Answered(c)

Eligible(c) == Answered(c) /\ calls[c].token.serial \in high

\* There is no token, its score is too low, or the score to attest is no score.
GiveUp(c) ==
  /\ peers[c].state = "waiting"
  /\ calls[c].state = "failed" \/ Answered(c)
  /\ Becomes(c, "failed")

\* buildPeerReceipt awaits the signature.
Build(c) == peers[c].state = "waiting" /\ Eligible(c) /\ Becomes(c, "signing")

Send(c) == peers[c].state = "signing" /\ Becomes(c, "travelling")

\* The post does not arrive.
Lose(c) == peers[c].state = "travelling" /\ Becomes(c, "failed")

\* The authority decides, by the token alone.
Arrive(c) ==
  /\ peers[c].state = "travelling"
  /\ peers' = [peers EXCEPT ![c] =
       [state |-> IF calls[c].token.expiresAt < now THEN "expired"
                  ELSE IF calls[c].token.serial \notin high THEN "ineligible"
                  ELSE "accepted",
        at    |-> now]]
  /\ UNCHANGED <<vars, high, lowAt>>

LoseScore ==
  /\ lowAt = None
  /\ lowAt' = now
  /\ UNCHANGED <<vars, high, peers>>

IssueScored(c, ttl) ==
  /\ Issue(c, ttl)
  /\ high' = IF lowAt = None THEN high \cup {issued'} ELSE high
  /\ UNCHANGED <<lowAt, peers>>

ClientStep ==
  /\ \/ \E c \in Calls : Refuse(c) \/ Receive(c) \/ Fail(c)
     \/ \E c \in Calls, d \in Domains, f \in BOOLEAN : Ask(c, d, f)
     \/ \E d \in Domains : invalidateToken(d)
     \/ Block \/ Tick
  /\ UNCHANGED peerVars

PeerNext ==
  \/ \E c \in Calls :
       \/ \E d \in Domains : submitPeerReceipt(c, d)
       \/ GiveUp(c) \/ Build(c) \/ Send(c) \/ Lose(c) \/ Arrive(c)
       \/ \E ttl \in Ttls : IssueScored(c, ttl)
  \/ LoseScore
  \/ ClientStep

PeerSpec == Init /\ PeerInit /\ [][PeerNext]_<<vars, peerVars>>

-----------------------------------------------------------------------------
(* Properties. *)

\* An agent that lost its score, or was blocked, attests no longer than its longest
\* token lives, through however many caches, signatures and posts.
AttestsNoLonger ==
  \A c \in Calls : peers[c].state = "accepted" =>
    \A since \in {lowAt, blockedAt} \ {None} : peers[c].at <= since + MaxTtl

\* A receipt that was posted is never refused for the score of its attester; for
\* the expiry of a token from the cache only if signature and post together took
\* longer than the threshold of the cache.
RefusedForDelay ==
  \A c \in Calls :
    /\ peers[c].state # "ineligible"
    /\ peers[c].state = "expired" /\ calls[c].state = "cached" =>
         peers[c].at > calls[c].at + RefreshThreshold

\* What comes of the submissions of an agent.
PeerInv == AttestsNoLonger /\ RefusedForDelay
=============================================================================
