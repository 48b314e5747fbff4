-------------------------- MODULE MCEffectBoundary --------------------------
(* Small instances of EffectBoundary: one parameter that is bound, one that *)
(* is not, and executions that differ from the request in one respect each. *)
EXTENDS EffectBoundary, TLC, FiniteSets

CONSTANTS pay, wipe, user, goodKey, otherKey, amount, memo

Symmetry == Permutations(Calls)

\* A payment of 1, at most 1, whose memo is not material and needs approval.
PaymentBy(key) ==
  [effect |-> pay, principal |-> user, params |-> amount :> 1, key |-> key,
   material |-> {amount}, nonMaterial |-> {memo}, max |-> amount :> 1,
   needsApproval |-> TRUE, approval |-> TRUE]

\* materialParams is empty: every parameter is signed.
AllMaterial ==
  [effect |-> pay, principal |-> user, params |-> amount :> 1, key |-> goodKey,
   material |-> {}, nonMaterial |-> {}, max |-> << >>,
   needsApproval |-> FALSE, approval |-> FALSE]

Faithful ==
  [effect |-> pay, principal |-> user, params |-> amount :> 1, approval |-> TRUE]

OneRequest    == {PaymentBy(goodKey)}
OneExecution  == {Faithful}
MixedRequests == {PaymentBy(goodKey), PaymentBy(otherKey), AllMaterial}

\* With a memo, with another amount, another target, unapproved, no principal.
MixedExecutions ==
  {Faithful,
   [Faithful EXCEPT !.params = amount :> 1 @@ memo :> 2],
   [Faithful EXCEPT !.params = amount :> 2],
   [Faithful EXCEPT !.effect = wipe],
   [Faithful EXCEPT !.approval = FALSE],
   [Faithful EXCEPT !.principal = None]}

\* Either many calls for one request while the clock stands and the power stays, or
\* two calls with time, a power loss, and requests and executions of every kind.
Plain ==
  /\ now = 0 /\ powerLosses = 0
  /\ \A c \in Calls :
       /\ issued[c] # None => issued[c].request = PaymentBy(goodKey)
       /\ sent[c] # None => sent[c].execution = Faithful

Bounded == Cardinality({c \in Calls : client[c] # "idle"}) > 2 => Plain

BoundedSpec == Init /\ [][Next /\ Bounded']_vars
=============================================================================
