--------------------------- MODULE MCTokenClient ---------------------------
(* Instances of TokenClient and, in other behaviours, of PeerIssuer for TLC: *)
(* calls are interchangeable.  Either time passes and one domain is asked    *)
(* for, or entries are invalidated and both are; one token lasts one unit    *)
(* longer than the other.                                                    *)
EXTENDS PeerIssuer, TLC

CONSTANT home

VARIABLE part   \* which of the two the behaviour is of

CallSymmetry == Permutations(Calls)

Bounded ==
  \/ now = 0
  \/ invalidations = 0 /\ \A c \in Calls : calls[c].domain \in {home, None}

\* Two submissions or other calls for one domain; the agent loses its score or is blocked.
PeersBounded ==
  /\ Bounded /\ invalidations <= 1 /\ None \in {lowAt, blockedAt}
  /\ \A c \in Calls : calls[c].domain \in {home, None}
  /\ Cardinality({c \in Calls : calls[c].state # "idle"}) <= 2

MCInit == Init /\ PeerInit /\ part \in {"tokens", "peers"}

MCNext ==
  /\ \/ part = "tokens" /\ Next /\ Bounded' /\ UNCHANGED peerVars
     \/ part = "peers" /\ PeerNext /\ PeersBounded'
  /\ UNCHANGED part

MCSpec == MCInit /\ [][MCNext]_<<vars, peerVars, part>>
=============================================================================
