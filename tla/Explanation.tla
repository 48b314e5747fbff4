---------------------------- MODULE Explanation ----------------------------
(***************************************************************************)
(* The time machine of PCTR (timeline.mjs): what "why" tells of an event on *)
(* the timeline that ProtectLoop records.                                   *)
(***************************************************************************)
EXTENDS ProtectLoop

CONSTANT WhyDepth   \* 8: how deep an explanation goes

\* The causes of an event in the order in which they were named: an invalidation names
\* the route first, and every other event its earlier causes first.
Because(t, k) ==
  SetToSortSeq(t[k].because,
    LAMBDA i, j : IF t[k].event = "ROUTE_INVALIDATED" THEN t[i].event = "ROUTE_SELECTED"
                  ELSE i < j)

RECURSIVE visit(_, _, _, _)

\* What is told when event k is visited at a depth, after what was told before.
visit(t, k, depth, told) ==
  IF depth > WhyDepth THEN told
  ELSE FoldLeft(LAMBDA chain, j : IF j \in chain THEN chain
                                  ELSE visit(t, j, depth + 1, chain \cup {j}),
                told, Because(t, k))

\* Mutant: an explanation goes half as deep.
whyHalf(t, k) == visit(t, k, WhyDepth \div 2, {})

why(t, k) == visit(t, k, 0, {})

-----------------------------------------------------------------------------
(* Properties. *)

\* However deep the timeline is, "why" leaves out nothing that led to a receipt within
\* its own call, and no direct reason of that: the route it replaced, the start of the
\* run (timeline.mjs 36: "deterministic explanation built from the recorded causal
\* chain").  Why that earlier route was taken may be left out.
ReceiptsExplained ==
  LET k    == Len(timeline)
      told == why(timeline, k)
      own  == {k} \cup {j \in told : timeline[j].call = timeline[k].call}
  IN  timeline # <<>> /\ timeline[k].event = "RECEIPT_ISSUED" =>
        \A i \in own : timeline[i].because \subseteq told
=============================================================================
