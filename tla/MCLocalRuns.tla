---------------------------- MODULE MCLocalRuns ----------------------------
(* Instances of LocalRuns and, in other behaviours, of Learning for TLC: the  *)
(* runs are interchangeable, and so are the learns.                           *)
EXTENDS LocalRuns, Learning, TLC

CONSTANTS r1, r2, r3, l1, l2, l3, agent, send, drop

VARIABLE part   \* what the behaviour is of

Symmetry == Permutations(Runs) \cup Permutations(Learns)

\* Everything for the agent and little declared, for a tool with one action or with two;
\* both actions for it, well declared; nothing for it.
Manifests ==
  LET Of(s, d, a, g) == [level |-> send :> s @@ drop :> d, attached |-> a, authority |-> agent :> g]
  IN  {Of(0, Undeclared, {send}, {Wildcard}), Of(0, 0, {send, drop}, {Wildcard}),
       Of(70, 70, {send, drop}, {send, drop}), Of(Undeclared, 130, {}, {})}

RunLevels == send :> {0, 130} @@ drop :> {130}

MCInit ==
  /\ Init
  /\ LearningInit
  /\ part \in {"runs", "learning", "editing"}
  /\ part = "runs" => edited = CHOOSE m \in Manifests : TRUE

MCNext ==
  /\ \/ part = "runs" /\ Next /\ UNCHANGED learning
     \/ part = "learning" /\ LearningNext /\ edits' = 0 /\ UNCHANGED vars
     \/ part = "editing" /\ LearningNext /\ UNCHANGED vars
                         /\ Cardinality({l \in Learns : learns'[l].phase # "idle"}) < 3
  /\ UNCHANGED part

MCSpec == MCInit /\ [][MCNext]_<<vars, learning, part>>
=============================================================================
