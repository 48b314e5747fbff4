-------------------------- MODULE MCRouteResponse --------------------------
(* Instances of RouteResponse and, in other behaviours, of Measuring for TLC:  *)
(* two agents, each a route by itself; severities 1, 2 and 3 for MEDIUM, HIGH  *)
(* and CRITICAL; policies that differ in one or two settings; and the evidence *)
(* of MCMeasuring.                                                             *)
EXTENDS RouteResponse, MCMeasuring

CONSTANTS a1, a2

VARIABLE part   \* what the behaviour is of

Single == {{a1}, {a2}}

\* Below, at and above each limit of the policies.
Previewed ==
  {[severity |-> 1, recordsAffected |-> 0, financialExposure |-> 0],
   [severity |-> 2, recordsAffected |-> 2, financialExposure |-> 0],
   [severity |-> 1, recordsAffected |-> 0, financialExposure |-> 5],
   [severity |-> 3, recordsAffected |-> 1, financialExposure |-> 4]}

Plain == [suspendAfterFailures |-> 2, maxPerWindow |-> [s \in Severities |-> Nothing],
          escalateAtOrAbove |-> Nothing, requireApprovalAtOrAbove |-> 3,
          approvalAmount |-> Nothing, batchLimit |-> 2, constrainAmountAbove |-> Nothing]

Rated == [Plain EXCEPT !.maxPerWindow = (1 :> 2 @@ 2 :> 1 @@ 3 :> 2)]

Tried ==
  {[p EXCEPT !.approvalAmount = m] : p \in {Plain, Rated}, m \in {Nothing, 5}} \cup
  {[p EXCEPT !.escalateAtOrAbove = 2] : p \in {Plain, Rated}} \cup
  {[Plain EXCEPT !.suspendAfterFailures = n] : n \in {0, 1}} \cup
  {[Plain EXCEPT !.requireApprovalAtOrAbove = 2],
   [Plain EXCEPT !.maxPerWindow[1] = 1],
   [Plain EXCEPT !.batchLimit = 1],
   [Plain EXCEPT !.constrainAmountAbove = 4]}

MCInit ==
  /\ ResponseInit
  /\ MeasuringInit
  /\ part \in {"response", "measuring"}
  /\ part = "measuring" => route = {a1} /\ preview.severity = 3

\* A measurement has an end, where it stays.
MCNext ==
  /\ \/ part = "response" /\ ResponseNext /\ UNCHANGED measured
     \/ part = "measuring" /\ MeasureNext /\ UNCHANGED responding
     \/ part = "measuring" /\ UNCHANGED <<responding, measured>>
  /\ UNCHANGED part

MCSpec == MCInit /\ [][MCNext]_<<responding, measured, part>>
=============================================================================
