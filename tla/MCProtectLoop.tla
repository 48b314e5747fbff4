--------------------------- MODULE MCProtectLoop ---------------------------
(* An instance of ProtectLoop for TLC: one route through two agents, one     *)
(* through a third; severities 1 and 2 for HIGH and CRITICAL.  One of three  *)
(* scenes unfolds: calls that share a timeline, a call that outlives the     *)
(* trust of its agents, or calls that lack what their severity asks for.     *)
EXTENDS Explanation, TLC

CONSTANTS a1, a2, a3, one, minor, dry, understated, unproven, unapproved

Good == [trust |-> 95, age |-> 0, available |-> TRUE]
Worn == [trust |-> 80, age |-> 0, available |-> TRUE]
Old  == [trust |-> 95, age |-> 2, available |-> TRUE]
Away == [trust |-> 95, age |-> 0, available |-> FALSE]
All  == {Good, Worn, Old, Away}

Chain    == {<<a1, a2>>}
Trust    == 1 :> 75 @@ 2 :> 90
Evidence == 1 :> 2 @@ 2 :> 1

Live(severity) == [baseline |-> severity, reported |-> severity, live |-> TRUE,
                   evidence |-> TRUE, approval |-> TRUE]

Asks == one         :> Live(2)
     @@ minor       :> Live(1)
     @@ dry         :> [Live(2) EXCEPT !.live = FALSE]
     @@ understated :> [Live(2) EXCEPT !.reported = 1]
     @@ unproven    :> [Live(2) EXCEPT !.evidence = FALSE]
     @@ unapproved  :> [Live(2) EXCEPT !.approval = FALSE]

Begun == {c \in Calls : calls[c].phase # "idle"}

Swing == {Good, Worn}

Ended == {c \in Begun : calls[c].phase \in {"denied", "completed", "thrown"}}

\* Nothing but trust has changed.
Steady == now = 0 /\ \A a \in Agents : agents[a] \in Swing

\* Two of the first three calls have ended and trust changes again before the third.
Between ==
  /\ changes = 1 /\ Begun = Ended
  /\ Begun \subseteq {one, minor, dry} /\ Cardinality(Begun) = 2

\* The calls C may be begun together: two under way at once while trust changes at
\* most once, and a third after that change was undone.
Together(C) ==
  \/ C \subseteq {one}
  \/ /\ Steady
     /\ \/ changes <= 1 /\ Cardinality(C \ Ended) <= 2
        \/ /\ C = {one, minor, dry} /\ Cardinality(C \ Ended) <= 1
           /\ agents = [a \in Agents |-> Good]
     /\ C \subseteq {one, minor, dry} \/ C \subseteq {understated, unproven, unapproved}

SceneNext ==
  \/ \E c \in Calls : Together(Begun \cup {c}) /\ Step(c)
  \/ \E a \in Agents, s \in States :
       /\ \/ Begun \subseteq {one}
          \/ changes = 0 /\ s \in Swing
          \/ Between /\ s = Good
       /\ Observe(a, s)
  \/ Begun \subseteq {one} /\ Tick

SceneInit == Init /\ agents = [a \in Agents |-> Good]

SceneSpec == SceneInit /\ [][SceneNext]_vars
=============================================================================
