-------------------------- MODULE MCRouteResolver --------------------------
(* Instances of RouteResolver and, in other behaviours, of TrustCalls for TLC: *)
(* three requests of two subjects; and the calls of MCTrustCalls.              *)
EXTENDS RouteResolver, MCTrustCalls, TLC

CONSTANTS r1, r2, r3, s1, s2

VARIABLE part   \* what the behaviour is of

Asks    == r1 :> Fine @@ r2 :> [Fine EXCEPT !.action = deploy] @@ r3 :> Fine
Subject == r1 :> s1 @@ r2 :> s1 @@ r3 :> s2
Paths   == r1 :> Plain @@ r2 :> Plain @@ r3 :> [Plain EXCEPT !.score = 70]

MCInit == Init /\ CallInit /\ part \in {"service", "calls"}

MCNext ==
  /\ \/ part = "service" /\ Next /\ UNCHANGED asked
     \/ part = "calls" /\ CallNext /\ UNCHANGED vars
  /\ UNCHANGED part

MCSpec == MCInit /\ [][MCNext]_<<vars, asked, part>>
=============================================================================
