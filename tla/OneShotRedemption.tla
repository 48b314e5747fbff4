------------------------- MODULE OneShotRedemption -------------------------
(***************************************************************************)
(* What redeeming something once means, without ledgers, processes or      *)
(* crashes: it is spent at most once and for good, and only what is spent  *)
(* is permitted, to one caller.  StepUpAuthority implements it for receipts *)
(* and EffectBoundary for the nonces of execution authorities.             *)
(***************************************************************************)
CONSTANTS
  Receipts,   \* what can be redeemed
  Callers     \* the requests that may redeem it

VARIABLES
  spent,      \* what can no longer be redeemed
  permitted,  \* what was redeemed and permitted to a caller
  answers     \* the callers it was permitted to

vars == <<spent, permitted, answers>>

Init == spent = {} /\ permitted = {} /\ answers = {}

\* Several at once: a power loss settles which pending records survived, and a
\* flush also carries what an earlier failed flush left behind.
Spend ==
  /\ \E new \in SUBSET (Receipts \ spent) : spent' = spent \cup new
  /\ UNCHANGED <<permitted, answers>>

Permit(x, r) ==
  /\ x \in spent /\ x \notin permitted /\ r \notin answers
  /\ permitted' = permitted \cup {x}
  /\ answers' = answers \cup {r}
  /\ UNCHANGED spent

Next == Spend \/ \E x \in Receipts, r \in Callers : Permit(x, r)

Spec == Init /\ [][Next]_vars
=============================================================================
