------------------------- MODULE ProtectLoopProofs -------------------------
(***************************************************************************)
(* Proofs about ProtectLoop, for any calls, agents, delegations, trust,     *)
(* severities and clocks: what a shared timeline records stays explained,   *)
(* authority is earned, and a loss of trust reaches the effects.            *)
(*                                                                         *)
(* Properties of a timeline are predicates of a sequence (Sound, Explained, *)
(* Rides, Earned; together Proper), which appending events preserves; what  *)
(* one call adds in a step is built from such appends.  LoopInv adds what a *)
(* call that awaits something relies on (CallKept), and the fit between     *)
(* unfit and agents (UnfitKept).                                            *)
(***************************************************************************)
EXTENDS ProtectLoop, FiniteSetTheorems, SequenceTheorems, TLAPS

-----------------------------------------------------------------------------
(* Least and greatest elements, and the agents of a route. *)

LEMMA Least == ASSUME NEW S \in SUBSET Nat, S # {} PROVE \E x \in S : \A y \in S : x <= y
<1>1. IsWellFoundedOn(OpToRel(<, Nat), Nat)
  BY NatLessThanWellFounded
<1>2. PICK x \in S : \A y \in S : ~(<<y, x>> \in OpToRel(<, Nat))
  BY <1>1, WFMin
<1>3. \A y \in S : ~ (y < x)
  BY <1>2 DEF OpToRel
<1> QED
  BY <1>3

LEMMA Greatest ==
  ASSUME NEW n \in Nat, NEW S \in SUBSET (1..n), S # {}
  PROVE  \E x \in S : \A y \in S : y <= x
<1> DEFINE T == {n - x : x \in S}
<1>1. T \in SUBSET Nat /\ T # {}
  <2>1. \A x \in S : n - x \in Nat
    OBVIOUS
  <2> QED
    BY <2>1
<1>2. PICK z \in T : \A y \in T : z <= y
  BY <1>1, Least
<1>3. PICK x \in S : z = n - x
  OBVIOUS
<1>4. \A y \in S : n - x <= n - y
  BY <1>2, <1>3
<1>5. \A y \in 1..n : n - x <= n - y => y <= x
  OBVIOUS
<1> QED
  BY <1>4, <1>5

LEMMA RouteType ==
  ASSUME NEW r \in Routes
  PROVE  /\ r \in Seq(Agents) /\ Len(r) \in Nat \ {0}
         /\ On(r) \subseteq Agents /\ On(r) # {} /\ IsFiniteSet(On(r))
<1>1. PICK m \in Nat : r \in [1..m -> Agents]
  BY DEF Routes, SeqOf
<1>2. r \in Seq(Agents) /\ r # <<>>
  BY <1>1 DEF Routes
<1>3. Len(r) \in Nat \ {0}
  BY <1>2, EmptySeq
<1>4. r \in [1..Len(r) -> Agents]
  BY <1>2
<1>5. On(r) \subseteq Agents /\ On(r) # {}
  <2>1. 1 \in 1..Len(r)
    BY <1>3
  <2> QED
    BY <1>4, <2>1 DEF On
<1>6. IsFiniteSet(1..Len(r))
  BY <1>3, FS_Interval
<1>7. r \in Surjection(1..Len(r), On(r))
  BY <1>4 DEF Surjection, On
<1>8. IsFiniteSet(On(r))
  BY <1>6, <1>7, FS_Surjection
<1> QED
  BY <1>2, <1>3, <1>5, <1>8

(* SetToSeq names every element of a finite set.                            *)
LEMMA SetToSeqAll ==
  ASSUME NEW S, IsFiniteSet(S)
  PROVE  /\ Cardinality(S) \in Nat
         /\ SetToSeq(S) \in [1..Cardinality(S) -> S]
         /\ \A x \in S : \E k \in 1..Cardinality(S) : SetToSeq(S)[k] = x
<1> DEFINE n == Cardinality(S)
<1>1. n \in Nat /\ ExistsBijection(1..n, S)
  BY FS_CardinalityType
<1>2. \E f \in [1..n -> S] : IsInjective(f)
  BY <1>1 DEF ExistsBijection, Bijection, Injection
<1>3. SetToSeq(S) \in [1..n -> S] /\ IsInjective(SetToSeq(S))
  BY <1>2 DEF SetToSeq
<1>4. SetToSeq(S) \in Injection(1..n, S)
  BY <1>3 DEF Injection
<1>5. Cardinality(1..n) = n
  BY <1>1, FS_Interval
<1>6. SetToSeq(S) \in Surjection(1..n, S)
  BY <1>4, <1>5, FS_Injection
<1>7. \A x \in S : \E k \in 1..n : SetToSeq(S)[k] = x
  BY <1>6 DEF Surjection
<1> QED
  BY <1>1, <1>3, <1>7

-----------------------------------------------------------------------------
(* What a timeline fulfils, and what keeps it so. *)

(* CausesStand, of any timeline t.                                          *)
Cause(t, j, e) ==
  \/ t[j].call = e.call
  \/ t[j].event = "AGENT_STARTED"
  \/ e.event = "ROUTE_INVALIDATED" /\ t[j].event = "ROUTE_SELECTED"

Sound(t) ==
  \A k \in 1..Len(t) : \A j \in t[k].because : j \in 1..(k - 1) /\ Cause(t, j, t[k])

(* ReroutesExplained, of any timeline t: the selection s, which follows the *)
(* one at place j, is explained by the events of t.                         *)
ExplainedBy(t, j, s) ==
  /\ t[j].route # s.route =>
       \E i \in s.because : t[i].event = "ROUTE_INVALIDATED" /\ t[i].route = t[j].route
  /\ \A a \in On(t[j].route) :
       t[j].states[a].trust # s.states[a].trust =>
         \E i \in s.because : t[i].event = "TRUST_CHANGED" /\ t[i].agent = a

Selections(t) == Places(t, "ROUTE_SELECTED")

Explained(t) ==
  \A j, k \in Selections(t) :
    j < k /\ (\A i \in Selections(t) : i <= j \/ k <= i) => ExplainedBy(t, j, t[k])

Rides(t) ==
  \A k \in Selections(t) : t[k].route \in Routes /\ t[k].states \in [Agents -> States]

(* AuthorityEarned, of any timeline t.                                      *)
Earns(c) ==
  /\ RequestOf[c].reported >= RequestOf[c].baseline
  /\ RequestOf[c].live /\ RequestOf[c].baseline >= High => RequestOf[c].evidence
  /\ RequestOf[c].baseline >= ApprovalFrom => RequestOf[c].approval

Earned(t) == \A k \in Places(t, "AUTHORITY_ISSUED") : Earns(t[k].call)

Proper(t) == t \in Seq(Event) /\ Sound(t) /\ Explained(t) /\ Rides(t) /\ Earned(t)

(* u continues t.                                                           *)
Continues(t, u) ==
  /\ u \in Seq(Event)
  /\ Len(t) <= Len(u)
  /\ \A k \in 1..Len(t) : u[k] = t[k]

Later(t, u) == (Len(t) + 1)..Len(u)

LEMMA EventType ==
  ASSUME NEW t \in Seq(Event)
  PROVE  /\ Len(t) \in Nat
         /\ \A k \in 1..Len(t) : t[k] \in Event /\ t[k].because \subseteq Nat /\ t[k].call \in Calls
<1>1. Len(t) \in Nat /\ \A k \in 1..Len(t) : t[k] \in Event
  OBVIOUS
<1> QED
  BY <1>1 DEF Event

LEMMA RecordType ==
  ASSUME NEW e \in Kinds, NEW c \in Calls, NEW b \in SUBSET Nat
  PROVE  /\ record(e, c, b) \in Event
         /\ record(e, c, b).event = e /\ record(e, c, b).call = c
         /\ record(e, c, b).because = b
BY DEF record, Event

LEMMA AppendContinues ==
  ASSUME NEW t \in Seq(Event), NEW e \in Event
  PROVE  /\ Continues(t, Append(t, e))
         /\ Len(Append(t, e)) = Len(t) + 1
         /\ Append(t, e)[Len(t) + 1] = e
         /\ Later(t, Append(t, e)) = {Len(t) + 1}
<1>1. /\ Append(t, e) \in Seq(Event) /\ Len(t) \in Nat
      /\ Len(Append(t, e)) = Len(t) + 1
      /\ Append(t, e)[Len(t) + 1] = e
      /\ \A k \in 1..Len(t) : Append(t, e)[k] = t[k]
  OBVIOUS
<1> QED
  BY <1>1 DEF Continues, Later

LEMMA ConcatContinues ==
  ASSUME NEW t \in Seq(Event), NEW u \in Seq(Event)
  PROVE  /\ Continues(t, t \o u)
         /\ Len(t \o u) = Len(t) + Len(u)
         /\ \A k \in Later(t, t \o u) : k - Len(t) \in 1..Len(u) /\ (t \o u)[k] = u[k - Len(t)]
<1>1. /\ t \o u \in Seq(Event) /\ Len(t) \in Nat /\ Len(u) \in Nat
      /\ Len(t \o u) = Len(t) + Len(u)
      /\ \A k \in 1..Len(t) : (t \o u)[k] = t[k]
  OBVIOUS
<1>2. \A k \in 1..Len(u) : (t \o u)[Len(t) + k] = u[k]
  OBVIOUS
<1>3. ASSUME NEW k \in Later(t, t \o u)
      PROVE  k - Len(t) \in 1..Len(u) /\ (t \o u)[k] = u[k - Len(t)]
  <2>1. k \in Int /\ k - Len(t) \in 1..Len(u) /\ k = Len(t) + (k - Len(t))
    BY <1>1, <1>3 DEF Later
  <2> QED
    BY <1>2, <2>1
<1>4. Len(t) <= Len(t \o u)
  BY <1>1
<1>5. Continues(t, t \o u)
  BY <1>1, <1>4, Zenon DEF Continues
<1> QED
  BY <1>1, <1>3, <1>5, Zenon

LEMMA ContinuesOn ==
  ASSUME NEW t \in Seq(Event), NEW u \in Seq(Event), NEW v,
         Continues(t, u), Continues(u, v)
  PROVE  /\ Continues(t, v)
         /\ \A k \in Later(t, v) : (k \in Later(t, u) /\ v[k] = u[k]) \/ k \in Later(u, v)
<1>1. Len(t) \in Nat /\ Len(u) \in Nat /\ v \in Seq(Event) /\ Len(v) \in Nat
  BY DEF Continues
<1>2. Continues(t, v)
  BY <1>1 DEF Continues
<1> QED
  BY <1>1, <1>2 DEF Continues, Later

(* Where the old events of a kind are, and what may be new.                 *)
LEMMA OldPlaces ==
  ASSUME NEW t \in Seq(Event), NEW u, Continues(t, u), NEW kind
  PROVE  /\ Places(t, kind) \subseteq Places(u, kind)
         /\ Places(t, kind) \subseteq 1..Len(t)
         /\ \A k \in Places(t, kind) : u[k] = t[k]
         /\ \A k \in Places(u, kind) :
              \/ k \in Places(t, kind)
              \/ k \in Later(t, u) /\ u[k].event = kind
<1>1. Len(t) \in Nat /\ Len(u) \in Nat
  BY DEF Continues
<1> QED
  BY <1>1 DEF Continues, Places, Later

(* New events that are caused soundly, and are neither a selection nor an   *)
(* authority that is not earned.                                            *)
LEMMA ProperContinues ==
  ASSUME NEW t, NEW u, Proper(t), Continues(t, u),
         \A k \in Later(t, u) :
           /\ u[k].event # "ROUTE_SELECTED"
           /\ u[k].event = "AUTHORITY_ISSUED" => Earns(u[k].call)
           /\ \A j \in u[k].because : j \in 1..(k - 1) /\ Cause(u, j, u[k])
  PROVE  Proper(u)
<1>1. /\ t \in Seq(Event) /\ u \in Seq(Event) /\ Len(t) \in Nat /\ Len(u) \in Nat
      /\ Len(t) <= Len(u) /\ \A k \in 1..Len(t) : u[k] = t[k]
  BY DEF Proper, Continues
<1>2. \A k \in 1..Len(u) : k \in 1..Len(t) \/ k \in Later(t, u)
  BY <1>1 DEF Later
<1>3. \A k \in 1..Len(t) : \A j \in t[k].because :
        j \in 1..(k - 1) /\ j \in 1..Len(t) /\ Cause(t, j, t[k])
  BY <1>1 DEF Proper, Sound
<1>4. Sound(u)
  <2> SUFFICES ASSUME NEW k \in 1..Len(u), NEW j \in u[k].because
               PROVE  j \in 1..(k - 1) /\ Cause(u, j, u[k])
    BY DEF Sound
  <2>1. CASE k \in 1..Len(t)
    <3>1. u[k] = t[k] /\ j \in 1..(k - 1) /\ j \in 1..Len(t) /\ Cause(t, j, t[k])
      BY <1>1, <1>3, <2>1
    <3>2. u[j] = t[j]
      BY <1>1, <3>1
    <3> QED
      BY <3>1, <3>2 DEF Cause
  <2> QED
    BY <1>2, <2>1
<1>5. Selections(u) = Selections(t) /\ Selections(t) \subseteq 1..Len(t)
  <2>1. /\ Selections(t) \subseteq Selections(u) /\ Selections(t) \subseteq 1..Len(t)
        /\ \A k \in Selections(u) :
             k \in Selections(t) \/ (k \in Later(t, u) /\ u[k].event = "ROUTE_SELECTED")
    <3>1. t \in Seq(Event) /\ Continues(t, u)
      BY DEF Proper
    <3>2. /\ Places(t, "ROUTE_SELECTED") \subseteq Places(u, "ROUTE_SELECTED")
          /\ Places(t, "ROUTE_SELECTED") \subseteq 1..Len(t)
          /\ \A k \in Places(u, "ROUTE_SELECTED") :
               \/ k \in Places(t, "ROUTE_SELECTED")
               \/ k \in Later(t, u) /\ u[k].event = "ROUTE_SELECTED"
      BY <3>1, OldPlaces
    <3> QED
      BY <3>2 DEF Selections
  <2> QED
    BY <2>1
<1>6. \A k \in Selections(t) : u[k] = t[k]
  BY <1>1, <1>5
<1>7. Explained(u)
  <2> SUFFICES ASSUME NEW j \in Selections(u), NEW k \in Selections(u), j < k,
                      \A i \in Selections(u) : i <= j \/ k <= i
               PROVE  ExplainedBy(u, j, u[k])
    BY DEF Explained
  <2>1. ExplainedBy(t, j, t[k])
    BY <1>5 DEF Proper, Explained
  <2>2. u[j] = t[j] /\ u[k] = t[k] /\ \A i \in t[k].because : u[i] = t[i]
    BY <1>1, <1>3, <1>5
  <2> QED
    BY <2>1, <2>2 DEF ExplainedBy
<1>8. Rides(u)
  BY <1>5, <1>6 DEF Proper, Rides
<1>9. Earned(u)
  BY <1>1, OldPlaces DEF Proper, Earned
<1> QED
  BY <1>1, <1>4, <1>7, <1>8, <1>9 DEF Proper

LEMMA ProperAppend ==
  ASSUME NEW t, Proper(t), NEW e \in Event,
         e.event # "ROUTE_SELECTED",
         e.event = "AUTHORITY_ISSUED" => Earns(e.call),
         \A j \in e.because : j \in 1..Len(t) /\ Cause(t, j, e)
  PROVE  Proper(Append(t, e))
<1> DEFINE u == Append(t, e)
<1>1. t \in Seq(Event) /\ Len(t) \in Nat
  BY DEF Proper
<1>2. /\ Continues(t, u) /\ Len(u) = Len(t) + 1 /\ u[Len(t) + 1] = e
      /\ Later(t, u) = {Len(t) + 1}
  BY <1>1, AppendContinues
<1> HIDE DEF u
<1>3. \A j \in e.because : j \in 1..((Len(t) + 1) - 1) /\ Cause(u, j, e)
  <2> SUFFICES ASSUME NEW j \in e.because
               PROVE  j \in 1..((Len(t) + 1) - 1) /\ Cause(u, j, e)
    OBVIOUS
  <2>1. j \in 1..Len(t) /\ Cause(t, j, e)
    OBVIOUS
  <2>2. u[j] = t[j]
    BY <1>2, <2>1 DEF Continues
  <2> QED
    BY <1>1, <2>1, <2>2 DEF Cause
<1> QED
  BY <1>2, <1>3, ProperContinues DEF u

(* A selection that is explained by the events before it.                   *)
LEMMA ProperSelect ==
  ASSUME NEW t, Proper(t), NEW s \in Event,
         s.event = "ROUTE_SELECTED", s.route \in Routes, s.states \in [Agents -> States],
         \A j \in s.because : j \in 1..Len(t) /\ Cause(t, j, s),
         \A j \in Selections(t) :
           (\A i \in Selections(t) : i <= j) => ExplainedBy(t, j, s)
  PROVE  Proper(Append(t, s))
<1> DEFINE u == Append(t, s)
           n == Len(t) + 1
<1>1. t \in Seq(Event) /\ Len(t) \in Nat /\ n \in Nat
  BY DEF Proper
<1>2. /\ Continues(t, u) /\ Len(u) = n /\ u[n] = s /\ Later(t, u) = {n}
  BY <1>1, AppendContinues
<1>3. u \in Seq(Event) /\ \A k \in 1..Len(t) : u[k] = t[k]
  BY <1>2 DEF Continues
<1>4. \A k \in 1..n : k \in 1..Len(t) \/ k = n
  BY <1>1
<1>5. Selections(u) = Selections(t) \cup {n} /\ Selections(t) \subseteq 1..Len(t)
  <2>1. n \in Selections(u)
    BY <1>1, <1>2 DEF Selections, Places
  <2> QED
    BY <1>1, <1>2, <2>1, OldPlaces DEF Selections
<1>6. \A k \in 1..Len(t) : \A j \in t[k].because :
        j \in 1..(k - 1) /\ j \in 1..Len(t) /\ Cause(t, j, t[k])
  BY <1>1 DEF Proper, Sound
<1>7. 1..(n - 1) = 1..Len(t)
  BY <1>1
<1> HIDE DEF u, n
<1>8. Sound(u)
  <2> SUFFICES ASSUME NEW k \in 1..Len(u), NEW j \in u[k].because
               PROVE  j \in 1..(k - 1) /\ Cause(u, j, u[k])
    BY DEF Sound
  <2>1. CASE k \in 1..Len(t)
    <3>1. j \in 1..(k - 1) /\ j \in 1..Len(t) /\ Cause(t, j, t[k]) /\ u[k] = t[k]
      BY <1>3, <1>6, <2>1
    <3> QED
      BY <1>3, <3>1 DEF Cause
  <2>2. CASE k = n
    <3>1. j \in 1..Len(t) /\ Cause(t, j, s)
      BY <1>2, <2>2
    <3> QED
      BY <1>2, <1>3, <1>7, <2>2, <3>1 DEF Cause
  <2> QED
    BY <1>2, <1>4, <2>1, <2>2
<1>9. Explained(u)
  <2> SUFFICES ASSUME NEW j \in Selections(u), NEW k \in Selections(u), j < k,
                      \A i \in Selections(u) : i <= j \/ k <= i
               PROVE  ExplainedBy(u, j, u[k])
    BY DEF Explained
  <2>0. \A i \in Selections(t) : i \in Nat /\ i < n /\ i \in 1..Len(t)
    BY <1>1, <1>5 DEF n
  <2>1. j \in Selections(t)
    BY <1>1, <1>5, <2>0
  <2>2. CASE k \in Selections(t)
    <3>1. ExplainedBy(t, j, t[k])
      BY <1>5, <2>1, <2>2 DEF Proper, Explained
    <3>2. u[j] = t[j] /\ u[k] = t[k] /\ \A i \in t[k].because : u[i] = t[i]
      BY <1>3, <1>6, <2>0, <2>1, <2>2
    <3> QED
      BY <3>1, <3>2 DEF ExplainedBy
  <2>3. CASE k = n
    <3>1. \A i \in Selections(t) : i <= j
      BY <1>1, <1>5, <2>0, <2>1, <2>3
    <3>2. ExplainedBy(t, j, s)
      BY <2>1, <3>1
    <3>3. u[j] = t[j] /\ u[k] = s /\ \A i \in s.because : u[i] = t[i]
      BY <1>2, <1>3, <2>0, <2>1, <2>3
    <3> QED
      BY <3>2, <3>3 DEF ExplainedBy
  <2> QED
    BY <1>5, <2>2, <2>3
<1>10. Rides(u)
  BY <1>2, <1>3, <1>5 DEF Proper, Rides
<1>11. Earned(u)
  BY <1>1, <1>2, OldPlaces DEF Proper, Earned
<1> QED
  BY <1>3, <1>8, <1>9, <1>10, <1>11 DEF Proper, u

-----------------------------------------------------------------------------
(* What a call adds to the timeline when it selects a route. *)

LEMMA LastPlace ==
  ASSUME NEW t \in Seq(Event), NEW kind
  PROVE  /\ LastOf(t, kind) = 0 <=> Places(t, kind) = {}
         /\ LastOf(t, kind) # 0 =>
              /\ LastOf(t, kind) \in Places(t, kind)
              /\ \A j \in Places(t, kind) : j <= LastOf(t, kind)
<1>1. Len(t) \in Nat /\ Places(t, kind) \subseteq 1..Len(t)
  BY DEF Places
<1>2. CASE Places(t, kind) = {}
  BY <1>2 DEF LastOf
<1>3. CASE Places(t, kind) # {}
  <2>1. \E k \in Places(t, kind) : \A j \in Places(t, kind) : j <= k
    BY <1>1, <1>3, Greatest
  <2>2. /\ LastOf(t, kind) \in Places(t, kind)
        /\ \A j \in Places(t, kind) : j <= LastOf(t, kind)
    BY <1>3, <2>1 DEF LastOf
  <2>3. LastOf(t, kind) # 0
    BY <1>1, <2>2
  <2> QED
    BY <1>3, <2>2, <2>3
<1> QED
  BY <1>2, <1>3

(* The events u between the detection and the selection: each is of the     *)
(* call, and together they explain why the previous route is not ridden.    *)
Reasons(u, t, c, d, r) ==
  /\ u \in Seq(Event)
  /\ \A k \in 1..Len(u) :
       /\ u[k].call = c
       /\ \/ u[k].event = "TRUST_CHANGED" /\ u[k].because = {d}
          \/ /\ u[k].event = "ROUTE_INVALIDATED"
             /\ \A j \in u[k].because : j = d \/ j \in Selections(t)
  /\ \A j \in Selections(t) : (\A i \in Selections(t) : i <= j) =>
       /\ t[j].route # r =>
            \E k \in 1..Len(u) : u[k].event = "ROUTE_INVALIDATED" /\ u[k].route = t[j].route
       /\ \A a \in On(t[j].route) : t[j].states[a].trust # agents[a].trust =>
            \E k \in 1..Len(u) : u[k].event = "TRUST_CHANGED" /\ u[k].agent = a

LEMMA ReconsideredEvents ==
  ASSUME NEW t, Proper(t), NEW c \in Calls, NEW d \in 1..Len(t), NEW r \in Routes
  PROVE  Reasons(Reconsidered(t, c, d, r), t, c, d, r)
<1> DEFINE u        == Reconsidered(t, c, d, r)
           previous == Previous(t, c)
           changed  == Changed(t, previous, RequestOf[c].reported)
           n        == Cardinality(changed)
           named    == SetToSeq(changed)
           delta(a) == [record("TRUST_CHANGED", c, {d}) EXCEPT !.agent = a]
           deltas   == [k \in 1..n |-> delta(named[k])]
           stale    == [record("ROUTE_INVALIDATED", c, {previous, d}) EXCEPT
                          !.route = t[previous].route]
<1>1. /\ t \in Seq(Event) /\ Len(t) \in Nat /\ d \in Nat
      /\ previous = LastOf(t, "ROUTE_SELECTED")
  BY DEF Proper, Previous
<1>2. u = IF previous = 0 THEN <<>>
          ELSE IF t[previous].route = r THEN deltas ELSE Append(deltas, stale)
  BY DEF Reconsidered
<1>3. CASE previous = 0
  <2>1. Selections(t) = {}
    BY <1>1, <1>3, LastPlace DEF Selections
  <2>2. u = <<>>
    BY <1>2, <1>3
  <2>3. u \in Seq(Event) /\ 1..Len(u) = {}
    BY <2>2, EmptySeq
  <2> HIDE DEF u
  <2> QED
    BY <2>1, <2>3 DEF u, Reasons
<1>4. CASE previous # 0
  <2>1. /\ previous \in Selections(t) /\ previous \in Nat
        /\ \A j \in Selections(t) : j <= previous
        /\ \A j \in Selections(t) : j \in Nat
    <3>1. Selections(t) \subseteq Nat
      BY <1>1 DEF Selections, Places
    <3> QED
      BY <1>1, <1>4, <3>1, LastPlace DEF Selections
  <2>2. /\ t[previous].route \in Routes
        /\ On(t[previous].route) \subseteq Agents
        /\ IsFiniteSet(On(t[previous].route))
    BY <2>1, RouteType DEF Proper, Rides
  <2>3. changed \subseteq On(t[previous].route) /\ IsFiniteSet(changed)
    <3>1. changed \subseteq On(t[previous].route)
      BY DEF Changed
    <3> QED
      BY <2>2, <3>1, FS_Subset
  <2>4. /\ n \in Nat /\ named \in [1..n -> changed]
        /\ \A a \in changed : \E k \in 1..n : named[k] = a
    BY <2>3, SetToSeqAll
  <2>5. \A a \in Agents : /\ delta(a) \in Event /\ delta(a).call = c
                           /\ delta(a).event = "TRUST_CHANGED" /\ delta(a).because = {d}
                           /\ delta(a).agent = a
    BY <1>1 DEF record, Event, Kinds
  <2>6. /\ stale \in Event /\ stale.call = c /\ stale.event = "ROUTE_INVALIDATED"
        /\ stale.because = {previous, d} /\ stale.route = t[previous].route
    BY <1>1, <2>1, <2>2 DEF record, Event, Kinds
  <2>7. \A j \in Selections(t) : (\A i \in Selections(t) : i <= j) => j = previous
    BY <2>1
  <2>8. \A a \in On(t[previous].route) :
          t[previous].states[a].trust # agents[a].trust => a \in changed
    BY DEF Changed
  <2> HIDE DEF u, previous, changed, n, named, stale, delta
  <2>9. /\ deltas \in Seq(Event) /\ Len(deltas) = n
        /\ \A k \in 1..n : deltas[k] = delta(named[k]) /\ named[k] \in Agents
    <3>1. \A k \in 1..n : named[k] \in Agents /\ delta(named[k]) \in Event
      BY <2>2, <2>3, <2>4, <2>5
    <3>2. deltas \in [1..n -> Event]
      BY <3>1
    <3>3. deltas \in Seq(Event) /\ Len(deltas) = n
      BY <2>4, <3>2
    <3> QED
      BY <3>1, <3>3
  <2> HIDE DEF deltas
  <2>10. /\ u \in Seq(Event) /\ Len(u) \in Nat
         /\ \A k \in 1..Len(u) : k \in 1..n \/ u[k] = stale
         /\ 1..n \subseteq 1..Len(u)
         /\ \A k \in 1..n : u[k] = deltas[k]
         /\ t[previous].route # r => \E k \in 1..Len(u) : u[k] = stale
    <3>1. CASE t[previous].route = r
      <4>1. u = deltas
        BY <1>2, <1>4, <3>1
      <4> QED
        BY <2>4, <2>9, <3>1, <4>1
    <3>2. CASE t[previous].route # r
      <4>1. u = Append(deltas, stale)
        BY <1>2, <1>4, <3>2
      <4>2. /\ u \in Seq(Event) /\ Len(u) = n + 1 /\ u[n + 1] = stale
            /\ \A k \in 1..n : u[k] = deltas[k]
        BY <2>6, <2>9, <4>1
      <4>3. n + 1 \in 1..Len(u) /\ \A k \in 1..Len(u) : k \in 1..n \/ k = n + 1
        BY <2>4, <4>2
      <4>4. 1..n \subseteq 1..Len(u)
        BY <2>4, <4>2
      <4> QED
        BY <2>4, <4>2, <4>3, <4>4
    <3> QED
      BY <3>1, <3>2
  <2>11. \A k \in 1..Len(u) :
           /\ u[k].call = c
           /\ \/ u[k].event = "TRUST_CHANGED" /\ u[k].because = {d}
              \/ /\ u[k].event = "ROUTE_INVALIDATED"
                 /\ \A j \in u[k].because : j = d \/ j \in Selections(t)
    <3> SUFFICES ASSUME NEW k \in 1..Len(u)
                 PROVE  /\ u[k].call = c
                        /\ \/ u[k].event = "TRUST_CHANGED" /\ u[k].because = {d}
                           \/ /\ u[k].event = "ROUTE_INVALIDATED"
                              /\ \A j \in u[k].because : j = d \/ j \in Selections(t)
      OBVIOUS
    <3>1. CASE k \in 1..n
      BY <2>5, <2>9, <2>10, <3>1
    <3>2. CASE u[k] = stale
      BY <2>1, <2>6, <3>2
    <3> QED
      BY <2>10, <3>1, <3>2
  <2>12. t[previous].route # r =>
           \E k \in 1..Len(u) : u[k].event = "ROUTE_INVALIDATED" /\ u[k].route = t[previous].route
    BY <2>6, <2>10
  <2>13. ASSUME NEW a \in On(t[previous].route), t[previous].states[a].trust # agents[a].trust
         PROVE  \E k \in 1..Len(u) : u[k].event = "TRUST_CHANGED" /\ u[k].agent = a
    <3>1. PICK k \in 1..n : named[k] = a
      BY <2>4, <2>8, <2>13
    <3>2. k \in 1..Len(u) /\ u[k] = delta(a) /\ a \in Agents
      BY <2>9, <2>10, <3>1
    <3> QED
      BY <2>5, <3>2
  <2> QED
    BY <2>7, <2>10, <2>11, <2>12, <2>13 DEF u, Reasons
<1> QED
  BY <1>3, <1>4

LEMMA TwoMore ==
  ASSUME NEW t \in Seq(Event), NEW a \in Event, NEW b \in Event
  PROVE  t \o <<a, b>> = Append(Append(t, a), b)
OBVIOUS

LEMMA ThreeMore ==
  ASSUME NEW t \in Seq(Event), NEW a \in Event, NEW b \in Event, NEW e \in Event
  PROVE  t \o <<a, b, e>> = Append(Append(Append(t, a), b), e)
OBVIOUS

(* The events that say how a call ended, and which a call records only then.*)
Loud == {"EXECUTION_DENIED", "EXECUTION_COMPLETED", "RECEIPT_ISSUED", "EXECUTION_ALLOWED"}

Quietly(t, u) == Continues(t, u) /\ \A k \in Later(t, u) : u[k].event \notin Loud

LEMMA QuietlyAppend ==
  ASSUME NEW t \in Seq(Event), NEW e \in Event, e.event \notin Loud
  PROVE  Quietly(t, Append(t, e))
BY AppendContinues DEF Quietly

LEMMA QuietlyOn ==
  ASSUME NEW t \in Seq(Event), NEW u \in Seq(Event), NEW v, Quietly(t, u), Quietly(u, v)
  PROVE  Quietly(t, v)
<1>1. Continues(t, u) /\ Continues(u, v)
  BY DEF Quietly
<1>2. /\ Continues(t, v)
      /\ \A k \in Later(t, v) : (k \in Later(t, u) /\ v[k] = u[k]) \/ k \in Later(u, v)
  BY <1>1, ContinuesOn
<1> QED
  BY <1>2 DEF Quietly

(* The timeline once a route is selected: good, longer by quiet events of   *)
(* the call only, the selection last.                                       *)
Selected(t, c, d, r) ==
  LET w == t \o Reconsidered(t, c, d, r)
  IN  Append(w, [record("ROUTE_SELECTED", c, {d} \cup (Len(t) + 1)..Len(w)) EXCEPT
                   !.route = r, !.states = agents])

LastBy(q, c) == Len(q) \in 1..Len(q) /\ q[Len(q)].call = c

LEMMA Chosen ==
  ASSUME NEW t, Proper(t), NEW c \in Calls, NEW d \in 1..Len(t), t[d].call = c,
         NEW r \in Routes, agents \in [Agents -> States], None \notin Nat
  PROVE  LET q == Selected(t, c, d, r)
         IN  Proper(q) /\ Quietly(t, q) /\ LastBy(q, c) /\ d \in 1..Len(q) /\ q[d].call = c
<1> DEFINE u == Reconsidered(t, c, d, r)
           w == t \o u
           b == {d} \cup (Len(t) + 1)..Len(w)
           s == [record("ROUTE_SELECTED", c, b) EXCEPT !.route = r, !.states = agents]
           q == Append(w, s)
<1>1. t \in Seq(Event) /\ Len(t) \in Nat
  BY DEF Proper
<1>2. /\ u \in Seq(Event)
      /\ \A k \in 1..Len(u) :
           /\ u[k].call = c
           /\ \/ u[k].event = "TRUST_CHANGED" /\ u[k].because = {d}
              \/ /\ u[k].event = "ROUTE_INVALIDATED"
                 /\ \A j \in u[k].because : j = d \/ j \in Selections(t)
      /\ \A j \in Selections(t) : (\A i \in Selections(t) : i <= j) =>
           /\ t[j].route # r =>
                \E k \in 1..Len(u) : u[k].event = "ROUTE_INVALIDATED" /\ u[k].route = t[j].route
           /\ \A a \in On(t[j].route) : t[j].states[a].trust # agents[a].trust =>
                \E k \in 1..Len(u) : u[k].event = "TRUST_CHANGED" /\ u[k].agent = a
  <2>1. Reasons(u, t, c, d, r)
    BY ReconsideredEvents
  <2> HIDE DEF u
  <2> QED
    BY <2>1, Zenon DEF Reasons
<1> HIDE DEF u
<1>3. /\ Continues(t, w) /\ w \in Seq(Event) /\ Len(w) = Len(t) + Len(u)
      /\ \A k \in Later(t, w) : k - Len(t) \in 1..Len(u) /\ w[k] = u[k - Len(t)]
  <2>1. t \in Seq(Event) /\ u \in Seq(Event)
    BY <1>1, <1>2, Zenon
  <2>2. /\ Continues(t, w) /\ Len(w) = Len(t) + Len(u)
        /\ \A k \in Later(t, w) : k - Len(t) \in 1..Len(u) /\ w[k] = u[k - Len(t)]
    BY <2>1, ConcatContinues, Zenon
  <2> QED
    BY <2>2, Zenon DEF Continues
<1>4. /\ \A k \in 1..Len(t) : w[k] = t[k]
      /\ Len(w) \in Nat /\ Len(u) \in Nat /\ Len(t) <= Len(w) /\ d \in Nat
      /\ \A k \in 1..Len(u) : w[Len(t) + k] = u[k]
  BY <1>1, <1>2
<1>5. \A j \in Selections(t) : j \in 1..Len(t) /\ t[j].event = "ROUTE_SELECTED"
  BY DEF Selections, Places
<1> HIDE DEF w
<1>6. \A k \in Later(t, w) :
        /\ w[k].call = c
        /\ w[k].event \in {"TRUST_CHANGED", "ROUTE_INVALIDATED"}
        /\ \A j \in w[k].because : j \in 1..Len(t) /\ Cause(w, j, w[k])
  <2> SUFFICES ASSUME NEW k \in Later(t, w)
               PROVE  /\ w[k].call = c
                      /\ w[k].event \in {"TRUST_CHANGED", "ROUTE_INVALIDATED"}
                      /\ \A j \in w[k].because : j \in 1..Len(t) /\ Cause(w, j, w[k])
    OBVIOUS
  <2> DEFINE i == k - Len(t)
  <2>1. i \in 1..Len(u) /\ w[k] = u[i]
    BY <1>3
  <2> HIDE DEF i
  <2>2. w[d].call = c
    BY <1>4
  <2>3. CASE u[i].event = "TRUST_CHANGED" /\ u[i].because = {d}
    BY <1>2, <2>1, <2>2, <2>3 DEF Cause
  <2>4. CASE /\ u[i].event = "ROUTE_INVALIDATED"
             /\ \A j \in u[i].because : j = d \/ j \in Selections(t)
    BY <1>2, <1>4, <1>5, <2>1, <2>2, <2>4, SMTT(30) DEF Cause
  <2> QED
    BY <1>2, <2>1, <2>3, <2>4
<1>7. \A k \in Later(t, w) : k \in Nat /\ Len(t) < k /\ 1..Len(t) \subseteq 1..(k - 1)
  BY <1>1, <1>4 DEF Later
<1>8. Proper(w)
  BY <1>3, <1>6, <1>7, ProperContinues
<1>9. Quietly(t, w)
  BY <1>3, <1>6 DEF Quietly, Loud
<1>10. b \in SUBSET (1..Len(w))
  BY <1>1, <1>4
<1>11. /\ s \in Event /\ s.event = "ROUTE_SELECTED" /\ s.route = r /\ s.states = agents
       /\ s.because = b /\ s.call = c
  <2>1. b \in SUBSET Nat
    BY <1>10
  <2> HIDE DEF b
  <2> QED
    BY <2>1 DEF record, Event, Kinds
<1>12. \A j \in b : j = d \/ j \in Later(t, w)
  BY DEF Later
<1>13. /\ Later(t, w) \subseteq b
       /\ \A k \in 1..Len(u) : Len(t) + k \in Later(t, w)
  BY <1>1, <1>3, <1>4 DEF Later
<1> HIDE DEF b, s
<1>14. \A j \in b : j \in 1..Len(w) /\ Cause(w, j, s)
  BY <1>4, <1>6, <1>10, <1>11, <1>12 DEF Cause
<1>15. /\ \A j \in Selections(w) : j \in Selections(t) /\ w[j] = t[j]
       /\ Selections(t) \subseteq Selections(w)
  <2>1. /\ Places(t, "ROUTE_SELECTED") \subseteq Places(w, "ROUTE_SELECTED")
        /\ \A k \in Places(t, "ROUTE_SELECTED") : w[k] = t[k]
        /\ \A k \in Places(w, "ROUTE_SELECTED") :
             \/ k \in Places(t, "ROUTE_SELECTED")
             \/ k \in Later(t, w) /\ w[k].event = "ROUTE_SELECTED"
    BY <1>1, <1>3, OldPlaces
  <2> QED
    BY <1>6, <2>1 DEF Selections
<1>16. ASSUME NEW j \in Selections(w), \A i \in Selections(w) : i <= j
       PROVE  ExplainedBy(w, j, s)
  <2>1. j \in Selections(t) /\ w[j] = t[j] /\ \A i \in Selections(t) : i <= j
    BY <1>15, <1>16
  <2>2. t[j].route # r => \E i \in b : w[i].event = "ROUTE_INVALIDATED" /\ w[i].route = t[j].route
    <3> SUFFICES ASSUME t[j].route # r
                 PROVE  \E i \in b : w[i].event = "ROUTE_INVALIDATED" /\ w[i].route = t[j].route
      OBVIOUS
    <3>1. PICK k \in 1..Len(u) : u[k].event = "ROUTE_INVALIDATED" /\ u[k].route = t[j].route
      BY <1>2, <2>1
    <3>2. Len(t) + k \in b /\ w[Len(t) + k] = u[k]
      BY <1>4, <1>13
    <3> QED
      BY <3>1, <3>2
  <2>3. ASSUME NEW a \in On(t[j].route), t[j].states[a].trust # agents[a].trust
        PROVE  \E i \in b : w[i].event = "TRUST_CHANGED" /\ w[i].agent = a
    <3>1. PICK k \in 1..Len(u) : u[k].event = "TRUST_CHANGED" /\ u[k].agent = a
      BY <1>2, <2>1, <2>3
    <3>2. Len(t) + k \in b /\ w[Len(t) + k] = u[k]
      BY <1>4, <1>13
    <3> QED
      BY <3>1, <3>2
  <2> QED
    <3>1. s.route = r /\ s.states = agents /\ s.because = b
      BY <1>11
    <3> QED
      BY <2>1, <2>2, <2>3, <3>1, SMTT(30) DEF ExplainedBy
<1>17. Proper(q)
  BY <1>8, <1>11, <1>14, <1>16, ProperSelect
<1>18. /\ q \in Seq(Event) /\ Len(q) = Len(w) + 1 /\ q[Len(q)] = s
       /\ \A k \in 1..Len(w) : q[k] = w[k]
  BY <1>3, <1>11
<1>19. Quietly(w, q)
  BY <1>3, <1>11, QuietlyAppend DEF Loud
<1> HIDE DEF q
<1>20. Quietly(t, q)
  BY <1>1, <1>3, <1>9, <1>18, <1>19, QuietlyOn
<1>21. d \in 1..Len(q) /\ q[d] = t[d] /\ Len(q) \in 1..Len(q)
  <2>1. d \in 1..Len(w) /\ w[d] = t[d]
    BY <1>1, <1>4
  <2> QED
    BY <1>4, <1>18, <2>1
<1> QED
  <2>1. Proper(q) /\ Quietly(t, q) /\ LastBy(q, c) /\ d \in 1..Len(q) /\ q[d].call = c
    BY <1>11, <1>17, <1>18, <1>20, <1>21 DEF LastBy
  <2>2. q = Selected(t, c, d, r)
    BY DEF Selected, q, s, b, w, u
  <2> HIDE DEF q
  <2> QED
    BY <2>1, <2>2

-----------------------------------------------------------------------------
(* The invariant. *)

Mine(t, c, event) == {k \in Places(t, event) : t[k].call = c}

(* ReceiptOfOutcome, of one call and any timeline t.                        *)
Endings == {"EXECUTION_DENIED", "EXECUTION_COMPLETED", "RECEIPT_ISSUED"}

Outcomes(t, c) == Mine(t, c, "EXECUTION_DENIED") \cup Mine(t, c, "EXECUTION_COMPLETED")

Receipts(t, c) == Mine(t, c, "RECEIPT_ISSUED")

Receipted(t, c) ==
  /\ Cardinality(Receipts(t, c)) = 1 /\ Cardinality(Outcomes(t, c)) = 1
  /\ \A k \in Receipts(t, c) : t[k].because = Outcomes(t, c)

Open(t, c) == Receipts(t, c) \cup Outcomes(t, c) = {}

CallReceipted(c) ==
  IF calls[c].phase \in {"denied", "completed"} THEN Receipted(timeline, c) ELSE Open(timeline, c)

(* What a call that awaits something holds on to stays true: the place of   *)
(* the event that will cause its next one; and while it waits for the       *)
(* boundary no agent of its route has been unfit since before the authority *)
(* was issued.                                                              *)
Place(k, c) == k \in 1..Len(timeline) /\ timeline[k].call = c

FitSince(c) ==
  \A a \in On(calls[c].route) :
    LET since == unfit[RequestOf[c].reported][a] IN since = None \/ calls[c].at <= since

CallKept(c) ==
  /\ calls[c].phase = "measuring" =>
       /\ Place(calls[c].detected, c)
       /\ RequestOf[c].reported >= RequestOf[c].baseline /\ RequestOf[c].evidence
  /\ calls[c].phase = "asking" =>
       /\ Place(calls[c].issued, c)
       /\ calls[c].route \in Routes /\ calls[c].at <= now
       /\ FitSince(c)
  /\ calls[c].phase = "executing" => Place(calls[c].allowed, c)

(* EffectsOnRecord, with the phases in which a call may have had an effect. *)
LiveAllowed(t) == {k \in Places(t, "EXECUTION_ALLOWED") : RequestOf[t[k].call].live}

EffectsKept ==
  /\ IsFiniteSet(effects)
  /\ {e.call : e \in effects} = {timeline[k].call : k \in LiveAllowed(timeline)}
  /\ Cardinality(effects) = Cardinality(LiveAllowed(timeline))
  /\ \A e \in effects : calls[e.call].phase \in {"executing", "completed"}

UnfitKept ==
  \A s \in Severities, a \in Agents : unfit[s][a] = None <=> ~Unfit(agents[a], s)

LoopInv ==
  /\ TypeOK
  /\ Proper(timeline)
  /\ \A c \in Calls : CallKept(c) /\ CallReceipted(c)
  /\ EffectsKept
  /\ UnfitKept
  /\ TrustLossReaches

LEMMA Says == LoopInv => TimelineInv /\ AuthorityEarned /\ TrustLossReaches
<1> SUFFICES ASSUME LoopInv PROVE TimelineInv /\ AuthorityEarned
  BY DEF LoopInv
<1>1. CausesStand
  BY DEF LoopInv, Proper, Sound, Cause, CausesStand
<1>2. ReceiptOfOutcome
  BY Zenon DEF LoopInv, CallReceipted, Receipted, Open, Outcomes, Receipts, Mine, ReceiptOfOutcome
<1>3. EffectsOnRecord
  <2>1. \A e \in effects : calls[e.call].phase # "thrown"
    BY DEF LoopInv, EffectsKept
  <2>2. /\ {e.call : e \in effects} = {timeline[k].call : k \in LiveAllowed(timeline)}
        /\ Cardinality(effects) = Cardinality(LiveAllowed(timeline))
    BY DEF LoopInv, EffectsKept
  <2> QED
    BY <2>1, <2>2, Zenon DEF LiveAllowed, EffectsOnRecord
<1>4. ReroutesExplained
  <2> SUFFICES ASSUME NEW j \in Selections(timeline), NEW k \in Selections(timeline), j < k,
                      \A i \in Selections(timeline) : i <= j \/ k <= i
               PROVE  LET why == {timeline[i] : i \in timeline[k].because} IN
                      /\ timeline[j].route # timeline[k].route =>
                           \E e \in why : e.event = "ROUTE_INVALIDATED" /\ e.route = timeline[j].route
                      /\ \A a \in On(timeline[j].route) :
                           timeline[j].states[a].trust # timeline[k].states[a].trust =>
                             \E e \in why : e.event = "TRUST_CHANGED" /\ e.agent = a
    BY ZenonT(30) DEF ReroutesExplained, Selections
  <2>1. ExplainedBy(timeline, j, timeline[k])
    BY DEF LoopInv, Proper, Explained
  <2> QED
    BY <2>1, Zenon DEF ExplainedBy
<1>5. AuthorityEarned
  BY Zenon DEF LoopInv, Proper, Earned, Earns, AuthorityEarned
<1> QED
  BY <1>1, <1>2, <1>3, <1>4, <1>5 DEF LoopInv, TimelineInv

-----------------------------------------------------------------------------
(* How the timeline may go on. *)

(* Events that end no call c leave the receipts and outcomes of c alone.    *)
LEMMA MineStay ==
  ASSUME NEW t \in Seq(Event), NEW u, Continues(t, u), NEW c,
         \A k \in Later(t, u) : u[k].event \notin Endings \/ u[k].call # c
  PROVE  /\ Receipts(u, c) = Receipts(t, c)
         /\ Outcomes(u, c) = Outcomes(t, c)
         /\ \A k \in Receipts(t, c) : u[k] = t[k]
<1>1. ASSUME NEW event \in Endings
      PROVE  Mine(u, c, event) = Mine(t, c, event) /\ \A k \in Mine(t, c, event) : u[k] = t[k]
  <2>1. /\ Places(t, event) \subseteq Places(u, event)
        /\ \A k \in Places(t, event) : u[k] = t[k]
        /\ \A k \in Places(u, event) :
             k \in Places(t, event) \/ (k \in Later(t, u) /\ u[k].event = event)
    BY OldPlaces
  <2> QED
    BY <2>1 DEF Mine
<1> QED
  BY <1>1 DEF Receipts, Outcomes, Endings

LEMMA OpenStays ==
  ASSUME NEW t \in Seq(Event), NEW u, Continues(t, u), NEW c,
         \A k \in Later(t, u) : u[k].event \notin Endings \/ u[k].call # c
  PROVE  /\ Open(t, c) => Open(u, c)
         /\ Receipted(t, c) => Receipted(u, c)
<1>1. /\ Receipts(u, c) = Receipts(t, c)
      /\ Outcomes(u, c) = Outcomes(t, c)
      /\ \A k \in Receipts(t, c) : u[k] = t[k]
  BY MineStay
<1> QED
  BY <1>1 DEF Open, Receipted

(* u continues t with the outcome and the receipt of call c.                *)
EndsCall(t, u, c) ==
  /\ Proper(u) /\ Continues(t, u) /\ Receipted(u, c)
  /\ \A k \in Later(t, u) : u[k].call = c /\ u[k].event \in Endings

(* The outcome of a call and its receipt, in this order, end it.            *)
LEMMA OutcomeEnds ==
  ASSUME NEW t, Proper(t), NEW c \in Calls, Open(t, c), NEW o \in Event, NEW r \in Event,
         o.event \in {"EXECUTION_DENIED", "EXECUTION_COMPLETED"}, o.call = c,
         r.event = "RECEIPT_ISSUED", r.call = c, r.because = {Len(t) + 1},
         \A j \in o.because : j \in 1..Len(t) /\ t[j].call = c
  PROVE  EndsCall(t, Append(Append(t, o), r), c)
<1> DEFINE w == Append(t, o)
           u == Append(w, r)
           n == Len(t) + 1
<1>1. t \in Seq(Event) /\ Len(t) \in Nat
  BY DEF Proper
<1>2. Continues(t, w) /\ Len(w) = n /\ w[n] = o /\ Later(t, w) = {n}
  BY <1>1, AppendContinues
<1>3. w \in Seq(Event) /\ Len(w) \in Nat /\ n \in 1..Len(w)
  BY <1>1, <1>2 DEF Continues
<1>4. Continues(w, u) /\ Len(u) = n + 1 /\ u[n + 1] = r /\ Later(w, u) = {n + 1}
  <2> HIDE DEF w, n
  <2> QED
    BY <1>2, <1>3, AppendContinues
<1>5. Proper(w)
  BY ProperAppend DEF Cause
<1>6. Proper(u)
  <2>1. \A j \in r.because : j \in 1..Len(w) /\ Cause(w, j, r)
    BY <1>2, <1>3 DEF Cause
  <2> HIDE DEF w
  <2> QED
    BY <1>5, <2>1, ProperAppend
<1>7. u \in Seq(Event) /\ \A k \in 1..n : u[k] = w[k]
  BY <1>2, <1>4 DEF Continues
<1> HIDE DEF w, u
<1>8. /\ Continues(t, u)
      /\ \A k \in Later(t, u) : (k \in Later(t, w) /\ u[k] = w[k]) \/ k \in Later(w, u)
  BY <1>1, <1>2, <1>3, <1>4, ContinuesOn
<1>9. \A k \in Later(t, u) : (k = n /\ u[k] = o) \/ (k = n + 1 /\ u[k] = r)
  BY <1>2, <1>4, <1>8
<1>10. u[n] = o /\ u[n + 1] = r /\ n \in 1..Len(u) /\ n + 1 \in 1..Len(u)
  BY <1>1, <1>2, <1>3, <1>4, <1>7
<1>11. ASSUME NEW event \in Endings
       PROVE  Mine(u, c, event) = {k \in {n, n + 1} : u[k].event = event}
  <2>1. \A k \in Places(u, event) :
          k \in Places(t, event) \/ (k \in Later(t, u) /\ u[k].event = event)
    BY <1>1, <1>8, OldPlaces
  <2>2. \A k \in Places(t, event) : u[k] = t[k] /\ t[k].call # c
    <3>1. Mine(t, c, event) = {}
      BY DEF Open, Receipts, Outcomes, Endings
    <3>2. \A k \in Places(t, event) : u[k] = t[k]
      BY <1>1, <1>8, OldPlaces
    <3> QED
      BY <3>1, <3>2 DEF Mine
  <2> QED
    BY <1>9, <1>10, <2>1, <2>2 DEF Mine, Places
<1>12. Receipts(u, c) = {n + 1} /\ Outcomes(u, c) = {n}
  <2>1. n # n + 1
    BY <1>1
  <2>2. /\ Mine(u, c, "RECEIPT_ISSUED") = {n + 1}
        /\ o.event = "EXECUTION_DENIED" =>
             Mine(u, c, "EXECUTION_DENIED") = {n} /\ Mine(u, c, "EXECUTION_COMPLETED") = {}
        /\ o.event = "EXECUTION_COMPLETED" =>
             Mine(u, c, "EXECUTION_DENIED") = {} /\ Mine(u, c, "EXECUTION_COMPLETED") = {n}
    BY <1>10, <1>11, <2>1 DEF Endings
  <2> QED
    BY <2>2 DEF Receipts, Outcomes
<1>13. Receipted(u, c)
  <2>1. Cardinality({n}) = 1 /\ Cardinality({n + 1}) = 1
    BY FS_Singleton, Zenon
  <2> QED
    BY <1>10, <1>12, <2>1 DEF Receipted
<1>14. \A k \in Later(t, u) : u[k].call = c /\ u[k].event \in Endings
  BY <1>9 DEF Endings
<1> QED
  BY <1>6, <1>8, <1>13, <1>14 DEF EndsCall, u, w

LEMMA DenialEnds ==
  ASSUME NEW t, Proper(t), NEW c \in Calls, Open(t, c), NEW B \in SUBSET (1..Len(t)),
         \A j \in B : t[j].call = c
  PROVE  EndsCall(t, DeniedBy(t, c, B), c)
<1> DEFINE o == record("EXECUTION_DENIED", c, B)
           r == record("RECEIPT_ISSUED", c, {Len(t) + 1})
<1>1. t \in Seq(Event) /\ Len(t) \in Nat /\ B \in SUBSET Nat
  BY DEF Proper
<1>2. /\ o \in Event /\ o.event = "EXECUTION_DENIED" /\ o.call = c /\ o.because = B
      /\ r \in Event /\ r.event = "RECEIPT_ISSUED" /\ r.call = c /\ r.because = {Len(t) + 1}
  BY <1>1, RecordType DEF Kinds
<1>3. DeniedBy(t, c, B) = t \o <<o, r>>
  BY DEF DeniedBy
<1> HIDE DEF o, r
<1>4. DeniedBy(t, c, B) = Append(Append(t, o), r)
  BY <1>1, <1>2, <1>3, TwoMore
<1>5. \A j \in o.because : j \in 1..Len(t) /\ t[j].call = c
  BY <1>2
<1>6. EndsCall(t, Append(Append(t, o), r), c)
  BY <1>2, <1>5, OutcomeEnds
<1> QED
  BY <1>4, <1>6

LEMMA CompletionEnds ==
  ASSUME NEW t, Proper(t), NEW c \in Calls, Open(t, c), NEW a \in 1..Len(t), t[a].call = c
  PROVE  EndsCall(t, Completed(t, c, a), c)
<1> DEFINE o == record("EXECUTION_COMPLETED", c, {a})
           w == Append(t, o)
           l == LastOf(w, "EXECUTION_COMPLETED")
           r == record("RECEIPT_ISSUED", c, {l})
<1>1. t \in Seq(Event) /\ Len(t) \in Nat /\ {a} \in SUBSET Nat
  BY DEF Proper
<1>2. o \in Event /\ o.event = "EXECUTION_COMPLETED" /\ o.call = c /\ o.because = {a}
  BY <1>1, RecordType DEF Kinds
<1>3. Completed(t, c, a) = Append(w, r)
  BY DEF Completed
<1> HIDE DEF o
<1>4. w \in Seq(Event) /\ Len(w) = Len(t) + 1 /\ w[Len(t) + 1] = o
  BY <1>1, <1>2
<1> HIDE DEF w
<1>5. Len(t) + 1 \in Places(w, "EXECUTION_COMPLETED")
  BY <1>1, <1>2, <1>4 DEF Places
<1>6. l = Len(t) + 1
  <2>1. /\ l \in Places(w, "EXECUTION_COMPLETED")
        /\ \A j \in Places(w, "EXECUTION_COMPLETED") : j <= l
    BY <1>4, <1>5, LastPlace
  <2>2. l \in 1..(Len(t) + 1) /\ Len(t) + 1 <= l
    BY <1>4, <1>5, <2>1 DEF Places
  <2> QED
    BY <1>1, <2>2
<1> HIDE DEF l
<1>7. /\ r \in Event /\ r.event = "RECEIPT_ISSUED" /\ r.call = c /\ r.because = {Len(t) + 1}
  BY <1>1, <1>6, RecordType DEF Kinds
<1> HIDE DEF r
<1>8. Completed(t, c, a) = Append(Append(t, o), r)
  BY <1>3 DEF w
<1>9. \A j \in o.because : j \in 1..Len(t) /\ t[j].call = c
  BY <1>2
<1>10. EndsCall(t, Append(Append(t, o), r), c)
  BY <1>2, <1>7, <1>9, OutcomeEnds
<1> QED
  BY <1>8, <1>10

(* New events that allow no live effect leave those that do alone.          *)
LEMMA LiveStay ==
  ASSUME NEW t \in Seq(Event), NEW u, Continues(t, u),
         \A k \in Later(t, u) :
           u[k].event # "EXECUTION_ALLOWED" \/ ~RequestOf[u[k].call].live
  PROVE  /\ LiveAllowed(u) = LiveAllowed(t)
         /\ \A k \in LiveAllowed(t) : u[k] = t[k]
<1>1. /\ Places(t, "EXECUTION_ALLOWED") \subseteq Places(u, "EXECUTION_ALLOWED")
      /\ \A k \in Places(t, "EXECUTION_ALLOWED") : u[k] = t[k]
      /\ \A k \in Places(u, "EXECUTION_ALLOWED") :
           \/ k \in Places(t, "EXECUTION_ALLOWED")
           \/ k \in Later(t, u) /\ u[k].event = "EXECUTION_ALLOWED"
  BY OldPlaces
<1> QED
  BY <1>1 DEF LiveAllowed

-----------------------------------------------------------------------------
(* The choice of a route. *)

LEMMA Constants ==
  /\ Severities \subseteq Nat /\ None \notin Nat
  /\ High \in Nat /\ ApprovalFrom \in Nat /\ DecayPerHop \in Nat
  /\ Validity \in Nat /\ Timeout \in Nat /\ MaxChanges \in Nat /\ MaxTime \in Nat
  /\ Required \in [Severities -> Nat] /\ MaxAge \in [Severities -> Nat]
  /\ \A c \in Calls :
       /\ RequestOf[c].baseline \in Severities /\ RequestOf[c].reported \in Severities
       /\ RequestOf[c].live \in BOOLEAN /\ RequestOf[c].evidence \in BOOLEAN
       /\ RequestOf[c].approval \in BOOLEAN
  /\ \A s \in States : s.trust \in Nat /\ s.age \in Nat /\ s.available \in BOOLEAN
BY LoopAssumption DEF Request, AgentState

(* Every agent of a route that may be ridden is fit: the trust of a route   *)
(* is at most that of each of its agents.                                   *)
LEMMA BestFits ==
  ASSUME TypeOK, NEW s \in Severities, NEW r \in Best(s)
  PROVE  r \in Routes /\ \A a \in On(r) : ~Unfit(agents[a], s)
<1>1. r \in Routes /\ Admissible(r, s)
  BY DEF Best
<1>2. /\ On(r) \subseteq Agents /\ On(r) # {} /\ Len(r) \in Nat \ {0}
  BY <1>1, RouteType
<1>3. /\ Required[s] \in Nat /\ DecayPerHop \in Nat
      /\ \A a \in On(r) : agents[a].trust \in Nat
  BY <1>2, Constants DEF TypeOK
<1> DEFINE T       == {agents[a].trust : a \in On(r)}
           least(t) == t \in T /\ \A a \in On(r) : t <= agents[a].trust
           weakest == CHOOSE t \in T : \A a \in On(r) : t <= agents[a].trust
           loss    == DecayPerHop * (Len(r) - 1)
<1>4. T \in SUBSET Nat /\ T # {}
  BY <1>2, <1>3
<1>5. \E t \in T : \A u \in T : t <= u
  <2> HIDE DEF T
  <2> QED
    BY <1>4, Least
<1>6. least(weakest)
  <2>1. \E t \in T : \A a \in On(r) : t <= agents[a].trust
    BY <1>5
  <2> QED
    BY <2>1
<1>7. weakest \in Nat /\ \A a \in On(r) : weakest <= agents[a].trust
  BY <1>4, <1>6
<1>8. effectiveTrust(r) = weakest - loss
  BY DEF effectiveTrust
<1>9. loss \in Nat
  <2>1. Len(r) - 1 \in Nat
    BY <1>2
  <2>2. \A x, y \in Nat : x * y \in Nat
    OBVIOUS
  <2> QED
    BY <1>3, <2>1, <2>2
<1> HIDE DEF weakest, loss
<1>10. Required[s] <= weakest
  BY <1>1, <1>3, <1>7, <1>8, <1>9 DEF Admissible
<1> SUFFICES ASSUME NEW a \in On(r) PROVE ~Unfit(agents[a], s)
  BY <1>1
<1>11. ~(agents[a].trust < Required[s])
  BY <1>3, <1>7, <1>10
<1>12. ~(agents[a].age > MaxAge[s]) /\ agents[a].available
  BY <1>1 DEF Admissible, evidenceStale
<1> QED
  BY <1>11, <1>12 DEF Unfit

(* What becomes of a call c whose timeline is q so far: it is denied, or    *)
(* holds an authority for a route of the best and awaits the boundary.      *)
Denies(c, q) ==
  \E B \in SUBSET (1..Len(q)) :
    (\A j \in B : q[j].call = c) /\ Ends(c, "denied", DeniedBy(q, c, B))

Awaits(c, q) ==
  \E r \in Best(RequestOf[c].reported), i \in 1..Len(q), d \in Nat :
    /\ q[i].call = c
    /\ timeline' = q
    /\ calls' = [calls EXCEPT ![c].phase = "asking", ![c].route = r, ![c].at = now,
                              ![c].detected = d, ![c].issued = i]

(* The timeline once the authority for the route selected last is issued.   *)
Authorized(q, c) ==
  q \o <<record("AUTHORITY_REQUESTED", c, {Len(q)}),
         record("AUTHORITY_ISSUED", c, {Len(q) + 1}),
         record("EXECUTION_REQUESTED", c, {Len(q) + 2})>>

LEMMA RouteEffect ==
  ASSUME TypeOK, NEW t, Proper(t), NEW c \in Calls, NEW d \in 1..Len(t), t[d].call = c,
         RequestOf[c].reported >= RequestOf[c].baseline,
         RequestOf[c].live /\ RequestOf[c].reported >= High => RequestOf[c].evidence,
         Route(c, t, d)
  PROVE  \E q : Proper(q) /\ Quietly(t, q) /\ (Denies(c, q) \/ Awaits(c, q))
<1> DEFINE severity  == RequestOf[c].reported
           chosen(r) == Selected(t, c, d, r)
<1>1. t \in Seq(Event) /\ Len(t) \in Nat /\ d \in Nat /\ severity \in Severities
  BY Constants DEF Proper
<1>2. Quietly(t, t)
  BY <1>1 DEF Quietly, Continues, Later
<1>3. CASE Best(severity) = {} /\ Ends(c, "denied", DeniedBy(t, c, {d}))
  <2>1. Denies(c, t)
    BY <1>3 DEF Denies
  <2> QED
    BY <1>2, <2>1
<1>4. ASSUME NEW r \in Best(severity)
      PROVE  /\ Proper(chosen(r)) /\ Quietly(t, chosen(r)) /\ LastBy(chosen(r), c)
             /\ d \in 1..Len(chosen(r)) /\ chosen(r)[d].call = c
  <2>1. r \in Routes
    BY DEF Best
  <2>2. agents \in [Agents -> States] /\ None \notin Nat
    BY Constants DEF TypeOK
  <2> QED
    BY <2>1, <2>2, Chosen
<1> HIDE DEF chosen
<1>5. ASSUME NEW r \in Best(severity),
             Ends(c, "denied", DeniedBy(chosen(r), c, {d, Len(chosen(r))}))
      PROVE  Denies(c, chosen(r))
  <2>1. /\ {d, Len(chosen(r))} \in SUBSET (1..Len(chosen(r)))
        /\ \A j \in {d, Len(chosen(r))} : chosen(r)[j].call = c
    BY <1>4 DEF LastBy
  <2> QED
    BY <1>5, <2>1 DEF Denies
<1>6. ASSUME NEW r \in Best(severity), needsApproval(RequestOf[c]) => RequestOf[c].approval
      PROVE  LET sel == Len(chosen(r))
                 q   == Authorized(chosen(r), c)
             IN  Proper(q) /\ Quietly(t, q) /\ sel + 2 \in 1..Len(q) /\ q[sel + 2].call = c
  <2> DEFINE p  == chosen(r)
             n  == Len(p)
             e1 == record("AUTHORITY_REQUESTED", c, {n})
             e2 == record("AUTHORITY_ISSUED", c, {n + 1})
             e3 == record("EXECUTION_REQUESTED", c, {n + 2})
             p1 == Append(p, e1)
             p2 == Append(p1, e2)
             p3 == Append(p2, e3)
  <2>1. Proper(p) /\ Quietly(t, p) /\ n \in 1..n /\ p[n].call = c
    BY <1>4 DEF LastBy
  <2> HIDE DEF p
  <2>2. p \in Seq(Event) /\ n \in Nat
    BY <2>1 DEF Proper
  <2>3. /\ e1 \in Event /\ e1.event = "AUTHORITY_REQUESTED" /\ e1.call = c /\ e1.because = {n}
        /\ e2 \in Event /\ e2.event = "AUTHORITY_ISSUED" /\ e2.call = c /\ e2.because = {n + 1}
        /\ e3 \in Event /\ e3.event = "EXECUTION_REQUESTED" /\ e3.call = c /\ e3.because = {n + 2}
    BY <2>2, RecordType DEF Kinds
  <2>4. Earns(c)
    <3>1. /\ RequestOf[c].baseline \in Nat /\ RequestOf[c].reported \in Nat
          /\ High \in Nat /\ ApprovalFrom \in Nat
      BY Constants
    <3> QED
      BY <1>6, <3>1 DEF Earns, needsApproval
  <2> HIDE DEF e1, e2, e3
  <2>5. /\ Proper(p1) /\ Quietly(p, p1) /\ p1 \in Seq(Event)
        /\ Len(p1) = n + 1 /\ p1[n + 1] = e1
    <3>1. \A j \in e1.because : j \in 1..Len(p) /\ Cause(p, j, e1)
      BY <2>1, <2>3 DEF Cause
    <3> QED
      BY <2>1, <2>2, <2>3, <3>1, ProperAppend, QuietlyAppend DEF Loud
  <2> HIDE DEF n, p1
  <2>6. /\ Proper(p2) /\ Quietly(p1, p2) /\ p2 \in Seq(Event)
        /\ Len(p2) = n + 2 /\ p2[n + 2] = e2
    <3>1. \A j \in e2.because : j \in 1..Len(p1) /\ Cause(p1, j, e2)
      BY <2>2, <2>3, <2>5 DEF Cause
    <3>2. p2 \in Seq(Event) /\ Len(p2) = Len(p1) + 1 /\ p2[Len(p1) + 1] = e2
      BY <2>3, <2>5
    <3> QED
      BY <2>2, <2>3, <2>4, <2>5, <3>1, <3>2, ProperAppend, QuietlyAppend DEF Loud
  <2> HIDE DEF p2
  <2>7. /\ Proper(p3) /\ Quietly(p2, p3) /\ p3 \in Seq(Event)
        /\ Len(p3) = n + 3 /\ p3[n + 2] = e2
    <3>1. \A j \in e3.because : j \in 1..Len(p2) /\ Cause(p2, j, e3)
      BY <2>2, <2>3, <2>6 DEF Cause
    <3>2. p3 \in Seq(Event) /\ Len(p3) = Len(p2) + 1 /\ \A k \in 1..Len(p2) : p3[k] = p2[k]
      BY <2>3, <2>6
    <3> QED
      BY <2>2, <2>3, <2>6, <3>1, <3>2, ProperAppend, QuietlyAppend DEF Loud
  <2> HIDE DEF p3
  <2>8. Quietly(t, p3)
    <3>1. Quietly(t, p1)
      BY <1>1, <2>1, <2>2, <2>5, QuietlyOn
    <3>2. Quietly(t, p2)
      BY <1>1, <2>5, <2>6, <3>1, QuietlyOn
    <3> QED
      BY <1>1, <2>6, <2>7, <3>2, QuietlyOn
  <2>9. p \o <<e1, e2, e3>> = p3
    BY <2>2, <2>3, ThreeMore DEF p3, p2, p1
  <2>10. n + 2 \in 1..Len(p3) /\ p3[n + 2].call = c
    BY <2>2, <2>3, <2>7
  <2> QED
    BY <2>7, <2>8, <2>9, <2>10 DEF Authorized, p, n, e1, e2, e3
<1>7. CASE \E r \in Best(severity) :
             /\ needsApproval(RequestOf[c]) /\ ~RequestOf[c].approval
             /\ Ends(c, "denied", DeniedBy(chosen(r), c, {d, Len(chosen(r))}))
  BY <1>4, <1>5, <1>7
<1>8. CASE \E r \in Best(severity) : LET sel == Len(chosen(r)) IN
             /\ needsApproval(RequestOf[c]) => RequestOf[c].approval
             /\ timeline' = Authorized(chosen(r), c)
             /\ calls' = [calls EXCEPT ![c].phase = "asking", ![c].route = r, ![c].at = now,
                                       ![c].detected = d, ![c].issued = sel + 2]
  <2>1. PICK r \in Best(severity) : LET sel == Len(chosen(r)) IN
             /\ needsApproval(RequestOf[c]) => RequestOf[c].approval
             /\ timeline' = Authorized(chosen(r), c)
             /\ calls' = [calls EXCEPT ![c].phase = "asking", ![c].route = r, ![c].at = now,
                                       ![c].detected = d, ![c].issued = sel + 2]
    BY <1>8
  <2> DEFINE sel == Len(chosen(r))
  <2>2. /\ Proper(timeline') /\ Quietly(t, timeline')
        /\ sel + 2 \in 1..Len(timeline') /\ timeline'[sel + 2].call = c
    BY <1>6, <2>1
  <2> HIDE DEF sel
  <2>3. Awaits(c, timeline')
    BY <1>1, <2>1, <2>2 DEF Awaits, sel
  <2> QED
    BY <2>2, <2>3
<1>9. \/ Best(severity) = {} /\ Ends(c, "denied", DeniedBy(t, c, {d}))
      \/ \E r \in Best(severity) : LET sel == Len(chosen(r)) IN
           \/ /\ needsApproval(RequestOf[c]) /\ ~RequestOf[c].approval
              /\ Ends(c, "denied", DeniedBy(chosen(r), c, {d, sel}))
           \/ /\ needsApproval(RequestOf[c]) => RequestOf[c].approval
              /\ timeline' = Authorized(chosen(r), c)
              /\ calls' = [calls EXCEPT ![c].phase = "asking", ![c].route = r, ![c].at = now,
                                        ![c].detected = d, ![c].issued = sel + 2]
  BY Zenon DEF Route, Authorized, Selected, chosen
<1> QED
  BY <1>3, <1>7, <1>8, <1>9, Zenon

-----------------------------------------------------------------------------
(* The steps. *)

(* What a step of call c leaves to the others.                              *)
LEMMA OthersKept ==
  ASSUME LoopInv, NEW c \in Calls, Continues(timeline, timeline'),
         \A k \in Later(timeline, timeline') :
           timeline'[k].event \notin Endings \/ timeline'[k].call = c,
         \A b \in Calls \ {c} : calls'[b] = calls[b],
         UNCHANGED <<now, unfit>>
  PROVE  \A b \in Calls \ {c} : CallKept(b)' /\ CallReceipted(b)'
<1> SUFFICES ASSUME NEW b \in Calls \ {c} PROVE CallKept(b)' /\ CallReceipted(b)'
  OBVIOUS
<1>1. timeline \in Seq(Event) /\ CallKept(b) /\ CallReceipted(b) /\ calls'[b] = calls[b]
  BY DEF LoopInv, TypeOK
<1>2. \A k \in 1..Len(timeline) : k \in 1..Len(timeline') /\ timeline'[k] = timeline[k]
  BY <1>1 DEF Continues
<1>3. CallKept(b)'
  BY <1>1, <1>2 DEF CallKept, Place, FitSince
<1>4. \A k \in Later(timeline, timeline') :
        timeline'[k].event \notin Endings \/ timeline'[k].call # b
  OBVIOUS
<1>5. /\ Open(timeline, b) => Open(timeline', b)
      /\ Receipted(timeline, b) => Receipted(timeline', b)
  BY <1>1, <1>4, OpenStays
<1> QED
  BY <1>1, <1>3, <1>5 DEF CallReceipted

(* No call that is not executing or completed has had an effect; those that *)
(* have keep it on record while nothing live is allowed.                    *)
LEMMA EffectsStay ==
  ASSUME LoopInv, NEW c \in Calls, Continues(timeline, timeline'),
         \A k \in Later(timeline, timeline') :
           timeline'[k].event # "EXECUTION_ALLOWED" \/ ~RequestOf[timeline'[k].call].live,
         \A b \in Calls \ {c} : calls'[b].phase = calls[b].phase,
         calls[c].phase \notin {"executing", "completed"} \/ calls'[c].phase = "completed",
         effects' = effects
  PROVE  EffectsKept'
<1>1. timeline \in Seq(Event) /\ \A e \in effects : e.call \in Calls
  BY DEF LoopInv, TypeOK
<1>2. /\ LiveAllowed(timeline') = LiveAllowed(timeline)
      /\ \A k \in LiveAllowed(timeline) : timeline'[k] = timeline[k]
  BY <1>1, LiveStay
<1>3. \A e \in effects : calls'[e.call].phase \in {"executing", "completed"}
  BY <1>1 DEF LoopInv, EffectsKept
<1>4. {timeline'[k].call : k \in LiveAllowed(timeline')} = {timeline[k].call : k \in LiveAllowed(timeline)}
  BY <1>2
<1> QED
  BY <1>2, <1>3, <1>4 DEF LoopInv, EffectsKept

(* A call ends, after the events up to q, with an outcome and a receipt.    *)
LEMMA EndKeeps ==
  ASSUME LoopInv, NEW c \in Calls, NEW q, Continues(timeline, q),
         \A k \in Later(timeline, q) :
           /\ q[k].event \notin Endings
           /\ q[k].event # "EXECUTION_ALLOWED" \/ ~RequestOf[q[k].call].live,
         EndsCall(q, timeline', c),
         NEW phase \in {"denied", "completed"},
         calls' = [calls EXCEPT ![c].phase = phase],
         calls[c].phase \notin {"executing", "completed"} \/ phase = "completed",
         UNCHANGED <<now, agents, effects, unfit, changes>>
  PROVE  LoopInv'
<1>1. /\ timeline \in Seq(Event) /\ q \in Seq(Event) /\ calls \in [Calls -> Call]
      /\ Continues(q, timeline') /\ timeline' \in Seq(Event)
  BY DEF LoopInv, TypeOK, Continues, EndsCall
<1>2. /\ Continues(timeline, timeline')
      /\ \A k \in Later(timeline, timeline') :
           (k \in Later(timeline, q) /\ timeline'[k] = q[k]) \/ k \in Later(q, timeline')
  BY <1>1, ContinuesOn
<1>3. \A k \in Later(q, timeline') : timeline'[k].call = c /\ timeline'[k].event \in Endings
  BY DEF EndsCall
<1>4. \A k \in Later(timeline, timeline') :
        /\ timeline'[k].event \notin Endings \/ timeline'[k].call = c
        /\ timeline'[k].event # "EXECUTION_ALLOWED" \/ ~RequestOf[timeline'[k].call].live
  BY <1>2, <1>3 DEF Endings
<1>5. calls' \in [Calls -> Call]
  <2>1. [calls[c] EXCEPT !.phase = phase] \in Call
    BY <1>1 DEF Call, Phases
  <2> QED
    BY <1>1, <2>1
<1>6. calls'[c].phase = phase /\ \A b \in Calls \ {c} : calls'[b] = calls[b]
  BY <1>1 DEF Call
<1>7. TypeOK'
  BY <1>1, <1>5 DEF LoopInv, TypeOK
<1>8. CallKept(c)' /\ CallReceipted(c)'
  BY <1>6 DEF CallKept, CallReceipted, EndsCall
<1>9. \A b \in Calls : CallKept(b)' /\ CallReceipted(b)'
  BY <1>2, <1>4, <1>6, <1>8, OthersKept
<1>10. EffectsKept'
  BY <1>2, <1>4, <1>6, EffectsStay
<1>11. UnfitKept' /\ TrustLossReaches'
  BY DEF LoopInv, UnfitKept, TrustLossReaches
<1>12. Proper(timeline')
  BY DEF EndsCall
<1> QED
  BY <1>7, <1>9, <1>10, <1>11, <1>12 DEF LoopInv

(* A call goes on to await something, or throws.                            *)
LEMMA AwaitKeeps ==
  ASSUME LoopInv, NEW c \in Calls, Quietly(timeline, timeline'), Proper(timeline'),
         NEW x \in Call, calls' = [calls EXCEPT ![c] = x],
         x.phase \in {"measuring", "asking", "thrown"},
         calls[c].phase \in {"idle", "measuring", "asking"},
         CallKept(c)',
         UNCHANGED <<now, agents, effects, unfit, changes>>
  PROVE  LoopInv'
<1>1. /\ timeline \in Seq(Event) /\ timeline' \in Seq(Event) /\ calls \in [Calls -> Call]
      /\ Continues(timeline, timeline')
  BY DEF LoopInv, TypeOK, Quietly, Proper
<1>2. \A k \in Later(timeline, timeline') :
        /\ timeline'[k].event \notin Endings
        /\ timeline'[k].event # "EXECUTION_ALLOWED"
  BY DEF Quietly, Loud, Endings
<1>3. calls' \in [Calls -> Call] /\ calls'[c] = x /\ \A b \in Calls \ {c} : calls'[b] = calls[b]
  BY <1>1
<1>4. TypeOK'
  BY <1>1, <1>3 DEF LoopInv, TypeOK
<1>5. CallReceipted(c)'
  <2>1. Open(timeline, c)
    BY DEF LoopInv, CallReceipted
  <2>2. Open(timeline', c)
    BY <1>1, <1>2, <2>1, OpenStays
  <2> QED
    BY <1>3, <2>2 DEF CallReceipted
<1>6. \A b \in Calls : CallKept(b)' /\ CallReceipted(b)'
  BY <1>1, <1>2, <1>3, <1>5, OthersKept
<1>7. EffectsKept'
  BY <1>1, <1>2, <1>3, EffectsStay
<1>8. UnfitKept' /\ TrustLossReaches'
  BY DEF LoopInv, UnfitKept, TrustLossReaches
<1> QED
  BY <1>4, <1>6, <1>7, <1>8 DEF LoopInv

(* A call that has not ended is denied.                                     *)
LEMMA DenyKeeps ==
  ASSUME LoopInv, NEW c \in Calls, NEW q, Proper(q), Quietly(timeline, q), Denies(c, q),
         calls[c].phase \in {"idle", "measuring", "asking"},
         UNCHANGED <<now, agents, effects, unfit, changes>>
  PROVE  LoopInv'
<1>1. PICK B \in SUBSET (1..Len(q)) :
        (\A j \in B : q[j].call = c) /\ Ends(c, "denied", DeniedBy(q, c, B))
  BY DEF Denies
<1>2. /\ timeline \in Seq(Event) /\ Continues(timeline, q)
      /\ \A k \in Later(timeline, q) :
           q[k].event \notin Endings /\ q[k].event # "EXECUTION_ALLOWED"
  BY DEF LoopInv, TypeOK, Quietly, Loud, Endings
<1>3. Open(q, c)
  <2>1. Open(timeline, c)
    BY DEF LoopInv, CallReceipted
  <2> QED
    BY <1>2, <2>1, OpenStays
<1>4. EndsCall(q, DeniedBy(q, c, B), c)
  BY <1>1, <1>3, DenialEnds
<1>5. EndsCall(q, timeline', c) /\ calls' = [calls EXCEPT ![c].phase = "denied"]
  BY <1>1, <1>4, Zenon DEF Ends
<1>6. "denied" \in {"denied", "completed"} /\ calls[c].phase \notin {"executing", "completed"}
  OBVIOUS
<1> QED
  BY <1>2, <1>5, <1>6, EndKeeps

(* A call is issued an authority: when it is, no agent of its route is      *)
(* unfit.                                                                   *)
LEMMA IssueKeeps ==
  ASSUME LoopInv, NEW c \in Calls, NEW q, Proper(q), Quietly(timeline, q), Awaits(c, q),
         calls[c].phase \in {"idle", "measuring"},
         UNCHANGED <<now, agents, effects, unfit, changes>>
  PROVE  LoopInv'
<1> DEFINE severity == RequestOf[c].reported
<1>1. PICK r \in Best(severity), i \in 1..Len(q), d \in Nat :
        /\ q[i].call = c
        /\ timeline' = q
        /\ calls' = [calls EXCEPT ![c].phase = "asking", ![c].route = r, ![c].at = now,
                                  ![c].detected = d, ![c].issued = i]
  BY DEF Awaits
<1> DEFINE x == [calls[c] EXCEPT !.phase = "asking", !.route = r, !.at = now,
                                 !.detected = d, !.issued = i]
<1>2. /\ TypeOK /\ UnfitKept /\ calls \in [Calls -> Call] /\ now \in Nat
      /\ severity \in Severities /\ i \in Nat
  <2>1. Len(q) \in Nat
    BY DEF Proper
  <2> QED
    BY <2>1, Constants DEF LoopInv, TypeOK
<1>3. r \in Routes /\ \A a \in On(r) : a \in Agents /\ ~Unfit(agents[a], severity)
  BY <1>2, BestFits, RouteType
<1>4. calls' = [calls EXCEPT ![c] = x]
  BY <1>1, <1>2
<1>5. /\ x \in Call /\ x.phase = "asking" /\ x.route = r /\ x.at = now /\ x.issued = i
  BY <1>2, <1>3 DEF Call, Phases
<1> HIDE DEF x
<1>6. calls'[c] = x
  BY <1>2, <1>4
<1>7. FitSince(c)'
  BY <1>2, <1>3, <1>5, <1>6 DEF FitSince, UnfitKept
<1>8. CallKept(c)'
  BY <1>1, <1>2, <1>3, <1>5, <1>6, <1>7 DEF CallKept, Place
<1>9. Quietly(timeline, timeline') /\ Proper(timeline')
  BY <1>1
<1>10. /\ x.phase \in {"measuring", "asking", "thrown"}
       /\ calls[c].phase \in {"idle", "measuring", "asking"}
  BY <1>5
<1> QED
  BY <1>4, <1>5, <1>8, <1>9, <1>10, AwaitKeeps

LEMMA RouteKeeps ==
  ASSUME LoopInv, NEW c \in Calls, calls[c].phase \in {"idle", "measuring"},
         NEW t, Proper(t), Quietly(timeline, t), NEW d \in 1..Len(t), t[d].call = c,
         RequestOf[c].reported >= RequestOf[c].baseline,
         RequestOf[c].live /\ RequestOf[c].reported >= High => RequestOf[c].evidence,
         Route(c, t, d),
         UNCHANGED <<now, agents, effects, unfit, changes>>
  PROVE  LoopInv'
<1>1. TypeOK /\ timeline \in Seq(Event) /\ t \in Seq(Event)
  BY DEF LoopInv, TypeOK, Proper
<1>2. PICK q : Proper(q) /\ Quietly(t, q) /\ (Denies(c, q) \/ Awaits(c, q))
  BY <1>1, RouteEffect
<1>3. Quietly(timeline, q)
  BY <1>1, <1>2, QuietlyOn
<1>4. calls[c].phase \in {"idle", "measuring", "asking"}
  OBVIOUS
<1>5. CASE Denies(c, q)
  BY <1>2, <1>3, <1>4, <1>5, DenyKeeps
<1>6. CASE Awaits(c, q)
  BY <1>2, <1>3, <1>6, IssueKeeps
<1> QED
  BY <1>2, <1>5, <1>6

LEMMA MeasuredKeeps ==
  ASSUME LoopInv, NEW c \in Calls, Measured(c)
  PROVE  LoopInv'
<1>1. /\ calls[c].phase = "measuring" /\ Route(c, timeline, calls[c].detected)
      /\ UNCHANGED <<now, agents, effects, unfit, changes>>
  BY DEF Measured
<1>2. /\ calls[c].detected \in 1..Len(timeline) /\ timeline[calls[c].detected].call = c
      /\ RequestOf[c].reported >= RequestOf[c].baseline /\ RequestOf[c].evidence
  BY <1>1 DEF LoopInv, CallKept, Place
<1>3. Proper(timeline) /\ timeline \in Seq(Event)
  BY DEF LoopInv, TypeOK
<1>4. Quietly(timeline, timeline)
  BY <1>3 DEF Quietly, Continues, Later
<1> QED
  BY <1>1, <1>2, <1>3, <1>4, RouteKeeps

LEMMA RefuseKeeps ==
  ASSUME LoopInv, NEW c \in Calls, Refuse(c)
  PROVE  LoopInv'
<1>1. /\ calls[c].phase = "asking"
      /\ Ends(c, "denied", DeniedBy(timeline, c, {calls[c].issued}))
      /\ UNCHANGED <<now, agents, effects, unfit, changes>>
  BY DEF Refuse
<1>2. calls[c].issued \in 1..Len(timeline) /\ timeline[calls[c].issued].call = c
  BY <1>1 DEF LoopInv, CallKept, Place
<1>3. Proper(timeline) /\ timeline \in Seq(Event)
  BY DEF LoopInv, TypeOK
<1>4. Quietly(timeline, timeline)
  BY <1>3 DEF Quietly, Continues, Later
<1>5. Denies(c, timeline)
  BY <1>1, <1>2 DEF Denies
<1>6. calls[c].phase \in {"idle", "measuring", "asking"}
  BY <1>1
<1> QED
  BY <1>1, <1>3, <1>4, <1>5, <1>6, DenyKeeps

LEMMA ThrowKeeps ==
  ASSUME LoopInv, NEW c \in Calls, Throw(c)
  PROVE  LoopInv'
<1> DEFINE x == [calls[c] EXCEPT !.phase = "thrown"]
<1>1. /\ calls[c].phase = "asking" /\ calls' = [calls EXCEPT ![c].phase = "thrown"]
      /\ timeline' = timeline
      /\ UNCHANGED <<now, agents, effects, unfit, changes>>
  BY DEF Throw
<1>2. Proper(timeline) /\ timeline \in Seq(Event) /\ calls \in [Calls -> Call]
  BY DEF LoopInv, TypeOK
<1>3. Quietly(timeline, timeline') /\ Proper(timeline')
  BY <1>1, <1>2 DEF Quietly, Continues, Later
<1>4. calls' = [calls EXCEPT ![c] = x]
  BY <1>1, <1>2
<1>5. x \in Call /\ x.phase = "thrown"
  BY <1>2 DEF Call, Phases
<1> HIDE DEF x
<1>6. CallKept(c)'
  BY <1>2, <1>4, <1>5 DEF CallKept
<1>7. /\ x.phase \in {"measuring", "asking", "thrown"}
      /\ calls[c].phase \in {"idle", "measuring", "asking"}
  BY <1>1, <1>5
<1> QED
  BY <1>1, <1>3, <1>4, <1>5, <1>6, <1>7, AwaitKeeps

LEMMA SettleKeeps ==
  ASSUME LoopInv, NEW c \in Calls, Settle(c)
  PROVE  LoopInv'
<1>1. /\ calls[c].phase = "executing"
      /\ Ends(c, "completed", Completed(timeline, c, calls[c].allowed))
      /\ UNCHANGED <<now, agents, effects, unfit, changes>>
  BY DEF Settle
<1>2. calls[c].allowed \in 1..Len(timeline) /\ timeline[calls[c].allowed].call = c
  BY <1>1 DEF LoopInv, CallKept, Place
<1>3. Proper(timeline) /\ timeline \in Seq(Event) /\ Open(timeline, c)
  BY <1>1 DEF LoopInv, TypeOK, CallReceipted
<1>4. Continues(timeline, timeline) /\ Later(timeline, timeline) = {}
  BY <1>3 DEF Continues, Later
<1>5. EndsCall(timeline, Completed(timeline, c, calls[c].allowed), c)
  BY <1>2, <1>3, CompletionEnds
<1>6. EndsCall(timeline, timeline', c) /\ calls' = [calls EXCEPT ![c].phase = "completed"]
  BY <1>1, <1>5, Zenon DEF Ends
<1>7. "completed" \in {"denied", "completed"}
  OBVIOUS
<1> QED
  BY <1>1, <1>4, <1>6, <1>7, EndKeeps

(* What Begin records before it turns to a route.                           *)
Started(t, c) ==
  IF Places(t, "AGENT_STARTED") = {} THEN Append(t, record("AGENT_STARTED", c, {})) ELSE t

Proposed(t, c) ==
  Append(Started(t, c), record("ACTION_PROPOSED", c, {LastOf(Started(t, c), "AGENT_STARTED")}))

Detected(t, c) ==
  Append(Proposed(t, c), record("CONSEQUENCE_DETECTED", c, {Len(Proposed(t, c))}))

LEMMA BeginEvents ==
  ASSUME NEW t, Proper(t), NEW c \in Calls
  PROVE  /\ Proper(Proposed(t, c)) /\ Quietly(t, Proposed(t, c))
         /\ LastBy(Proposed(t, c), c)
         /\ Proper(Detected(t, c)) /\ Quietly(t, Detected(t, c))
         /\ LastBy(Detected(t, c), c)
         /\ Len(Detected(t, c)) = Len(Proposed(t, c)) + 1
<1> DEFINE s  == Started(t, c)
           e0 == record("AGENT_STARTED", c, {})
           l  == LastOf(s, "AGENT_STARTED")
           e1 == record("ACTION_PROPOSED", c, {l})
           p  == Proposed(t, c)
           e2 == record("CONSEQUENCE_DETECTED", c, {Len(p)})
           d  == Detected(t, c)
<1>1. t \in Seq(Event) /\ Len(t) \in Nat
  BY DEF Proper
<1>2. Proper(s) /\ Quietly(t, s) /\ Places(s, "AGENT_STARTED") # {}
  <2>1. CASE Places(t, "AGENT_STARTED") = {}
    <3>1. {} \in SUBSET Nat /\ "AGENT_STARTED" \in Kinds
      BY DEF Kinds
    <3>2. e0 \in Event /\ e0.event = "AGENT_STARTED" /\ e0.call = c /\ e0.because = {}
      BY <3>1, RecordType
    <3>3. s = Append(t, e0)
      BY <2>1 DEF Started
    <3> HIDE DEF e0, s
    <3>4. Proper(s)
      BY <3>2, <3>3, ProperAppend
    <3>5. Quietly(t, s)
      BY <1>1, <3>2, <3>3, QuietlyAppend DEF Loud
    <3>6. Len(t) + 1 \in Places(s, "AGENT_STARTED")
      BY <1>1, <3>2, <3>3 DEF Places
    <3> QED
      BY <3>4, <3>5, <3>6
  <2>2. CASE Places(t, "AGENT_STARTED") # {}
    <3>1. s = t
      BY <2>2 DEF Started
    <3>2. Quietly(t, t)
      BY <1>1 DEF Quietly, Continues, Later
    <3> QED
      BY <2>2, <3>1, <3>2
  <2> QED
    BY <2>1, <2>2
<1> HIDE DEF s
<1>3. s \in Seq(Event) /\ Len(s) \in Nat
  BY <1>2 DEF Proper
<1>4. l \in 1..Len(s) /\ l \in Nat /\ s[l].event = "AGENT_STARTED"
  <2>1. l \in Places(s, "AGENT_STARTED")
    BY <1>2, <1>3, LastPlace
  <2> HIDE DEF l
  <2> QED
    BY <1>3, <2>1 DEF Places
<1>5. e1 \in Event /\ e1.event = "ACTION_PROPOSED" /\ e1.call = c /\ e1.because = {l}
  <2> HIDE DEF l
  <2>1. {l} \in SUBSET Nat /\ "ACTION_PROPOSED" \in Kinds
    BY <1>4 DEF Kinds
  <2> QED
    BY <2>1, RecordType
<1>6. p = Append(s, e1)
  BY DEF Proposed, s
<1> HIDE DEF l, e1, p
<1>7. /\ Proper(p) /\ Quietly(s, p) /\ p \in Seq(Event)
      /\ Len(p) = Len(s) + 1 /\ p[Len(s) + 1] = e1
  <2>1. \A j \in e1.because : j \in 1..Len(s) /\ Cause(s, j, e1)
    BY <1>4, <1>5 DEF Cause
  <2>2. p \in Seq(Event) /\ Len(p) = Len(s) + 1 /\ p[Len(s) + 1] = e1
    BY <1>3, <1>5, <1>6
  <2> QED
    BY <1>2, <1>3, <1>5, <1>6, <2>1, <2>2, ProperAppend, QuietlyAppend DEF Loud
<1>8. LastBy(p, c) /\ Len(p) \in 1..Len(p) /\ p[Len(p)].call = c
  BY <1>3, <1>5, <1>7 DEF LastBy
<1>9. Quietly(t, p)
  BY <1>1, <1>2, <1>3, <1>7, QuietlyOn
<1>10. e2 \in Event /\ e2.event = "CONSEQUENCE_DETECTED" /\ e2.call = c /\ e2.because = {Len(p)}
  <2>1. {Len(p)} \in SUBSET Nat /\ "CONSEQUENCE_DETECTED" \in Kinds
    BY <1>8 DEF Kinds
  <2> QED
    BY <2>1, RecordType
<1>11. d = Append(p, e2)
  BY DEF Detected, p
<1> HIDE DEF e2, d
<1>12. /\ Proper(d) /\ Quietly(p, d) /\ d \in Seq(Event)
       /\ Len(d) = Len(p) + 1 /\ d[Len(p) + 1] = e2
  <2>1. \A j \in e2.because : j \in 1..Len(p) /\ Cause(p, j, e2)
    BY <1>8, <1>10 DEF Cause
  <2>2. d \in Seq(Event) /\ Len(d) = Len(p) + 1 /\ d[Len(p) + 1] = e2
    BY <1>7, <1>10, <1>11
  <2> QED
    BY <1>7, <1>10, <1>11, <2>1, <2>2, ProperAppend, QuietlyAppend DEF Loud
<1>13. LastBy(d, c)
  BY <1>7, <1>10, <1>12, <1>3 DEF LastBy
<1>14. Quietly(t, d)
  BY <1>1, <1>7, <1>9, <1>12, QuietlyOn
<1> QED
  BY <1>7, <1>8, <1>9, <1>12, <1>13, <1>14 DEF p, d

LEMMA BeginKeeps ==
  ASSUME LoopInv, NEW c \in Calls, Begin(c)
  PROVE  LoopInv'
<1> DEFINE q == RequestOf[c]
           proposed == Proposed(timeline, c)
           detected == Detected(timeline, c)
           p        == Len(proposed)
           measured == q.live /\ q.reported >= High
<1>1. /\ calls[c].phase = "idle" /\ UNCHANGED <<now, agents, effects, unfit, changes>>
      /\ \/ q.reported < q.baseline /\ Ends(c, "denied", DeniedBy(proposed, c, {p}))
         \/ /\ q.reported >= q.baseline /\ measured /\ ~q.evidence
            /\ Ends(c, "denied", DeniedBy(detected, c, {p + 1}))
         \/ /\ q.reported >= q.baseline /\ measured /\ q.evidence
            /\ timeline' = detected
            /\ calls' = [calls EXCEPT ![c].phase = "measuring", ![c].detected = p + 1]
         \/ /\ q.reported >= q.baseline /\ ~measured
            /\ Route(c, detected, p + 1)
  BY Zenon DEF Begin, Started, Proposed, Detected
<1>2. Proper(timeline) /\ timeline \in Seq(Event) /\ calls \in [Calls -> Call]
  BY DEF LoopInv, TypeOK
<1> HIDE DEF proposed, detected
<1>3. /\ Proper(proposed) /\ Quietly(timeline, proposed)
      /\ p \in 1..p /\ proposed[p].call = c
      /\ Proper(detected) /\ Quietly(timeline, detected)
      /\ p + 1 \in 1..Len(detected) /\ detected[p + 1].call = c
  BY <1>2, BeginEvents DEF LastBy, proposed, detected
<1>4. calls[c].phase \in {"idle", "measuring", "asking"}
  BY <1>1
<1> HIDE DEF p
<1>5. CASE q.reported < q.baseline /\ Ends(c, "denied", DeniedBy(proposed, c, {p}))
  <2>1. Denies(c, proposed)
    BY <1>3, <1>5 DEF Denies, p
  <2> QED
    BY <1>1, <1>3, <1>4, <2>1, DenyKeeps
<1>6. CASE Ends(c, "denied", DeniedBy(detected, c, {p + 1}))
  <2>1. Denies(c, detected)
    BY <1>3, <1>6 DEF Denies
  <2> QED
    BY <1>1, <1>3, <1>4, <2>1, DenyKeeps
<1>7. CASE /\ q.reported >= q.baseline /\ measured /\ q.evidence
           /\ timeline' = detected
           /\ calls' = [calls EXCEPT ![c].phase = "measuring", ![c].detected = p + 1]
  <2> DEFINE x == [calls[c] EXCEPT !.phase = "measuring", !.detected = p + 1]
  <2>1. calls' = [calls EXCEPT ![c] = x]
    BY <1>2, <1>7
  <2>2. p + 1 \in Nat
    <3>1. Len(detected) \in Nat
      BY <1>3 DEF Proper
    <3> QED
      BY <1>3, <3>1
  <2>3. x \in Call /\ x.phase = "measuring" /\ x.detected = p + 1
    BY <1>2, <2>2 DEF Call, Phases
  <2> HIDE DEF x
  <2>4. calls'[c] = x
    BY <1>2, <2>1
  <2>5. CallKept(c)'
    BY <1>3, <1>7, <2>3, <2>4 DEF CallKept, Place
  <2>6. x.phase \in {"measuring", "asking", "thrown"}
    BY <2>3
  <2>7. Quietly(timeline, timeline') /\ Proper(timeline')
    BY <1>3, <1>7
  <2> QED
    BY <1>1, <1>4, <2>1, <2>3, <2>5, <2>6, <2>7, AwaitKeeps
<1>8. CASE q.reported >= q.baseline /\ ~measured /\ Route(c, detected, p + 1)
  <2>1. calls[c].phase \in {"idle", "measuring"}
    BY <1>1
  <2> QED
    BY <1>1, <1>3, <1>8, <2>1, RouteKeeps
<1> QED
  BY <1>1, <1>5, <1>6, <1>7, <1>8

(* A route whose agents were fit until the authority for it was issued has  *)
(* failed its severity, if at all, for no longer than the authority exists. *)
LEMMA FailingLast ==
  ASSUME LoopInv, NEW c \in Calls, calls[c].phase = "asking"
  PROVE  LET since == FailingSince(calls[c].route, RequestOf[c].reported)
         IN  /\ since \in (0..MaxTime) \cup {None}
             /\ since # None => calls[c].at <= since
<1> DEFINE severity == RequestOf[c].reported
           S        == {unfit[severity][a] : a \in On(calls[c].route)} \ {None}
           since    == FailingSince(calls[c].route, severity)
<1>1. /\ calls[c].route \in Routes /\ FitSince(c) /\ severity \in Severities
      /\ unfit \in [Severities -> [Agents -> (0..MaxTime) \cup {None}]]
      /\ MaxTime \in Nat
  BY Constants DEF LoopInv, TypeOK, CallKept
<1>2. On(calls[c].route) \subseteq Agents
  BY <1>1, RouteType
<1>3. \A a \in On(calls[c].route) : unfit[severity][a] \in (0..MaxTime) \cup {None}
  BY <1>1, <1>2
<1>4. S \in SUBSET (0..MaxTime) /\ S \in SUBSET Nat
  BY <1>1, <1>3
<1>5. \A s \in S : calls[c].at <= s
  BY <1>1 DEF FitSince
<1>6. since = IF S = {} THEN None ELSE CHOOSE s \in S : \A u \in S : s <= u
  BY DEF FailingSince
<1> HIDE DEF S, since
<1>7. S # {} => since \in S
  <2>1. S # {} => \E s \in S : \A u \in S : s <= u
    BY <1>4, Least
  <2> QED
    BY <1>6, <2>1
<1>8. since \in (0..MaxTime) \cup {None} /\ (since # None => calls[c].at <= since)
  BY <1>4, <1>5, <1>6, <1>7
<1> QED
  BY <1>8 DEF since

(* One more effect, of a call that had none, and one more event that allows *)
(* it.                                                                      *)
LEMMA OneMoreEffect ==
  ASSUME LoopInv, NEW c \in Calls, RequestOf[c].live, NEW e \in Event, NEW x,
         calls[c].phase = "asking", calls'[c].phase = "executing",
         \A b \in Calls \ {c} : calls'[b] = calls[b],
         e.event = "EXECUTION_ALLOWED", e.call = c, x.call = c,
         timeline' = Append(timeline, e), effects' = effects \cup {x}
  PROVE  EffectsKept'
<1> DEFINE n == Len(timeline) + 1
           u == Append(timeline, e)
           L == LiveAllowed(timeline)
<1>1. /\ timeline \in Seq(Event) /\ Len(timeline) \in Nat /\ n \in Nat
      /\ \A y \in effects : y.call \in Calls
  BY DEF LoopInv, TypeOK
<1>2. /\ IsFiniteSet(effects) /\ Cardinality(effects) = Cardinality(L)
      /\ {y.call : y \in effects} = {timeline[k].call : k \in L}
      /\ \A y \in effects : calls[y.call].phase \in {"executing", "completed"}
  BY DEF LoopInv, EffectsKept
<1>3. Continues(timeline, u) /\ u[n] = e /\ Len(u) = n /\ Later(timeline, u) = {n}
  BY <1>1, AppendContinues
<1>4. /\ Places(timeline, "EXECUTION_ALLOWED") \subseteq Places(u, "EXECUTION_ALLOWED")
      /\ Places(timeline, "EXECUTION_ALLOWED") \subseteq 1..Len(timeline)
      /\ \A k \in Places(timeline, "EXECUTION_ALLOWED") : u[k] = timeline[k]
      /\ \A k \in Places(u, "EXECUTION_ALLOWED") :
           k \in Places(timeline, "EXECUTION_ALLOWED") \/ k \in Later(timeline, u)
  BY <1>1, <1>3, OldPlaces
<1>5. n \in Places(u, "EXECUTION_ALLOWED")
  <2>1. n \in 1..n
    BY <1>1
  <2> HIDE DEF n, u
  <2> QED
    BY <1>3, <2>1 DEF Places
<1>6. L \subseteq 1..Len(timeline) /\ IsFiniteSet(L) /\ n \notin L
  <2>1. L \subseteq 1..Len(timeline)
    BY <1>4 DEF LiveAllowed
  <2>2. IsFiniteSet(1..Len(timeline))
    <3>1. 1 \in Int /\ Len(timeline) \in Int
      BY <1>1
    <3> QED
      BY <3>1, FS_Interval, Zenon
  <2>3. n \notin 1..Len(timeline)
    BY <1>1
  <2> QED
    BY <2>1, <2>2, <2>3, FS_Subset
<1> HIDE DEF n, u
<1>7. LiveAllowed(u) = L \cup {n}
  BY <1>3, <1>4, <1>5 DEF LiveAllowed
<1>8. \A k \in L : u[k] = timeline[k]
  BY <1>4 DEF LiveAllowed
<1>9. x \notin effects
  BY <1>2
<1> HIDE DEF L
<1>10. {y.call : y \in effects \cup {x}} = {u[k].call : k \in L \cup {n}}
  <2>1. {u[k].call : k \in L} = {y.call : y \in effects}
    BY <1>2, <1>8
  <2>2. {u[k].call : k \in L \cup {n}} = {u[k].call : k \in L} \cup {u[n].call}
    OBVIOUS
  <2>3. {y.call : y \in effects \cup {x}} = {y.call : y \in effects} \cup {x.call}
    OBVIOUS
  <2>4. u[n].call = x.call
    BY <1>3
  <2> QED
    BY <2>1, <2>2, <2>3, <2>4, Zenon
<1>11. Cardinality(effects \cup {x}) = Cardinality(L \cup {n}) /\ IsFiniteSet(effects \cup {x})
  <2>1. Cardinality(effects \cup {x}) = Cardinality(effects) + 1 /\ IsFiniteSet(effects \cup {x})
    BY <1>2, <1>9, FS_AddElement
  <2>2. Cardinality(L \cup {n}) = Cardinality(L) + 1
    BY <1>6, FS_AddElement
  <2> QED
    BY <1>2, <2>1, <2>2
<1>12. \A y \in effects \cup {x} : calls'[y.call].phase \in {"executing", "completed"}
  BY <1>1, <1>2
<1>13. timeline' = u /\ LiveAllowed(timeline') = L \cup {n}
  BY <1>7 DEF u
<1> QED
  BY <1>10, <1>11, <1>12, <1>13 DEF EffectsKept

(* The events of an allowed call.                                           *)
LEMMA AllowedEvent ==
  ASSUME LoopInv, NEW c \in Calls, calls[c].phase = "asking"
  PROVE  LET e == record("EXECUTION_ALLOWED", c, {calls[c].issued})
             t == Append(timeline, e)
         IN  /\ e \in Event /\ e.event = "EXECUTION_ALLOWED" /\ e.call = c
             /\ Proper(t) /\ Continues(timeline, t) /\ Later(timeline, t) = {Len(t)}
             /\ Len(t) \in 1..Len(t) /\ t[Len(t)] = e
<1> DEFINE i == calls[c].issued
           e == record("EXECUTION_ALLOWED", c, {i})
           t == Append(timeline, e)
<1>1. /\ timeline \in Seq(Event) /\ Len(timeline) \in Nat /\ Proper(timeline)
      /\ i \in 1..Len(timeline) /\ i \in Nat /\ timeline[i].call = c
  BY DEF LoopInv, TypeOK, CallKept, Place
<1> HIDE DEF i
<1>2. e \in Event /\ e.event = "EXECUTION_ALLOWED" /\ e.call = c /\ e.because = {i}
  <2>1. {i} \in SUBSET Nat /\ "EXECUTION_ALLOWED" \in Kinds
    BY <1>1 DEF Kinds
  <2> QED
    BY <2>1, RecordType
<1> HIDE DEF e
<1>3. Proper(t)
  <2>1. \A j \in e.because : j \in 1..Len(timeline) /\ Cause(timeline, j, e)
    BY <1>1, <1>2 DEF Cause
  <2> QED
    BY <1>1, <1>2, <2>1, ProperAppend
<1>4. /\ Continues(timeline, t) /\ Len(t) = Len(timeline) + 1
      /\ t[Len(timeline) + 1] = e /\ Later(timeline, t) = {Len(timeline) + 1}
  BY <1>1, <1>2, AppendContinues
<1> HIDE DEF t
<1>5. Len(t) \in 1..Len(t)
  BY <1>1, <1>4
<1> QED
  BY <1>2, <1>3, <1>4, <1>5 DEF t, e, i

LEMMA AllowKeeps ==
  ASSUME LoopInv, NEW c \in Calls, Allow(c)
  PROVE  LoopInv'
<1> DEFINE e     == record("EXECUTION_ALLOWED", c, {calls[c].issued})
           t     == Append(timeline, e)
           since == FailingSince(calls[c].route, RequestOf[c].reported)
           x     == [call |-> c, at |-> now, since |-> since]
           y     == [calls[c] EXCEPT !.phase = "executing", !.allowed = Len(t)]
<1>1. /\ calls[c].phase = "asking" /\ now < calls[c].at + Validity + Timeout
      /\ IF RequestOf[c].live
         THEN /\ timeline' = t
              /\ calls' = [calls EXCEPT ![c].phase = "executing", ![c].allowed = Len(t)]
              /\ effects' = effects \cup {x}
         ELSE Ends(c, "completed", Completed(t, c, Len(t))) /\ UNCHANGED effects
      /\ UNCHANGED <<now, agents, unfit, changes>>
  BY DEF Allow
<1>2. /\ e \in Event /\ e.event = "EXECUTION_ALLOWED" /\ e.call = c
      /\ Proper(t) /\ Continues(timeline, t) /\ Later(timeline, t) = {Len(t)}
      /\ Len(t) \in 1..Len(t) /\ t[Len(t)] = e
  BY <1>1, AllowedEvent
<1>3. since \in (0..MaxTime) \cup {None} /\ (since # None => calls[c].at <= since)
  BY <1>1, FailingLast
<1>4. /\ TypeOK /\ timeline \in Seq(Event) /\ t \in Seq(Event) /\ Len(t) \in Nat
      /\ calls \in [Calls -> Call] /\ now \in 0..MaxTime /\ now \in Nat
  BY <1>2, Constants DEF LoopInv, TypeOK, Proper
<1> HIDE DEF since
<1>5. x \in [call: Calls, at: 0..MaxTime, since: (0..MaxTime) \cup {None}]
  BY <1>3, <1>4
<1>6. x.call = c /\ x.at = now /\ x.since = since
  OBVIOUS
<1> HIDE DEF e, t, x
<1>7. Open(t, c)
  <2>1. Open(timeline, c)
    BY <1>1 DEF LoopInv, CallReceipted
  <2>2. \A k \in Later(timeline, t) : t[k].event \notin Endings \/ t[k].call # c
    BY <1>2 DEF Endings
  <2> QED
    BY <1>2, <1>4, <2>1, <2>2, OpenStays
<1>8. CASE /\ RequestOf[c].live /\ timeline' = t
           /\ calls' = [calls EXCEPT ![c].phase = "executing", ![c].allowed = Len(t)]
           /\ effects' = effects \cup {x}
  <2>1. calls' = [calls EXCEPT ![c] = y]
    BY <1>4, <1>8
  <2>2. y \in Call /\ y.phase = "executing" /\ y.allowed = Len(t)
    BY <1>4 DEF Call, Phases
  <2> HIDE DEF y
  <2>3. /\ calls' \in [Calls -> Call] /\ calls'[c] = y
        /\ \A b \in Calls \ {c} : calls'[b] = calls[b]
    BY <1>4, <2>1, <2>2
  <2>4. TypeOK'
    <3>1. effects' \subseteq [call: Calls, at: 0..MaxTime, since: (0..MaxTime) \cup {None}]
      BY <1>4, <1>5, <1>8 DEF TypeOK
    <3> QED
      BY <1>1, <1>4, <1>8, <2>3, <3>1 DEF TypeOK
  <2>5. CallKept(c)' /\ CallReceipted(c)'
    BY <1>2, <1>7, <1>8, <2>2, <2>3 DEF CallKept, Place, CallReceipted
  <2>6. \A b \in Calls : CallKept(b)' /\ CallReceipted(b)'
    <3>1. \A k \in Later(timeline, timeline') :
            timeline'[k].event \notin Endings \/ timeline'[k].call = c
      BY <1>2, <1>8
    <3>2. Continues(timeline, timeline') /\ UNCHANGED <<now, unfit>>
      BY <1>1, <1>2, <1>8
    <3>3. \A b \in Calls \ {c} : CallKept(b)' /\ CallReceipted(b)'
      BY <2>3, <3>1, <3>2, OthersKept
    <3> QED
      BY <2>5, <3>3
  <2>7. EffectsKept'
    <3>1. timeline' = Append(timeline, e) /\ calls'[c].phase = "executing"
      BY <1>8, <2>2, <2>3 DEF t
    <3> QED
      BY <1>1, <1>2, <1>6, <1>8, <2>3, <3>1, OneMoreEffect
  <2>8. TrustLossReaches'
    <3>1. x.since # None => x.at < x.since + Validity + Timeout
      <4>1. calls[c].at \in Nat /\ Validity \in Nat /\ Timeout \in Nat
        BY <1>4, Constants DEF Call
      <4>2. ASSUME since # None PROVE since \in Nat /\ calls[c].at <= since
        BY <1>3, <4>2, Constants
      <4> QED
        BY <1>1, <1>4, <1>6, <4>1, <4>2
    <3>2. \A f \in effects : f.since # None => f.at < f.since + Validity + Timeout
      BY DEF LoopInv, TrustLossReaches
    <3> QED
      BY <1>8, <3>1, <3>2 DEF TrustLossReaches
  <2>9. UnfitKept'
    BY <1>1 DEF LoopInv, UnfitKept
  <2>10. Proper(timeline')
    BY <1>2, <1>8
  <2> QED
    BY <2>4, <2>6, <2>7, <2>8, <2>9, <2>10 DEF LoopInv
<1>9. CASE /\ ~RequestOf[c].live /\ UNCHANGED effects
           /\ Ends(c, "completed", Completed(t, c, Len(t)))
  <2>1. EndsCall(t, Completed(t, c, Len(t)), c)
    BY <1>2, <1>7, CompletionEnds
  <2>2. EndsCall(t, timeline', c) /\ calls' = [calls EXCEPT ![c].phase = "completed"]
    BY <1>9, <2>1, Zenon DEF Ends
  <2>3. \A k \in Later(timeline, t) :
          /\ t[k].event \notin Endings
          /\ t[k].event # "EXECUTION_ALLOWED" \/ ~RequestOf[t[k].call].live
    BY <1>2, <1>9 DEF Endings
  <2>4. "completed" \in {"denied", "completed"}
    OBVIOUS
  <2>5. UNCHANGED <<now, agents, effects, unfit, changes>>
    BY <1>1, <1>9
  <2> QED
    BY <1>2, <2>2, <2>3, <2>4, <2>5, EndKeeps
<1> QED
  BY <1>1, <1>8, <1>9

-----------------------------------------------------------------------------
(* Trust changes, time passes. *)

LEMMA ObserveKeeps ==
  ASSUME LoopInv, NEW a \in Agents, NEW state \in States, Observe(a, state)
  PROVE  LoopInv'
<1>1. /\ changes < MaxChanges /\ changes' = changes + 1
      /\ agents' = [agents EXCEPT ![a] = state]
      /\ unfit' = [s \in Severities |-> [unfit[s] EXCEPT
           ![a] = IF ~Unfit(state, s) THEN None ELSE IF @ = None THEN now ELSE @]]
      /\ UNCHANGED <<now, timeline, calls, effects>>
  BY DEF Observe
<1>2. /\ TypeOK /\ now \in 0..MaxTime /\ now \in Nat /\ None \notin Nat
      /\ changes \in 0..MaxChanges /\ MaxChanges \in Nat
      /\ agents \in [Agents -> States]
      /\ unfit \in [Severities -> [Agents -> (0..MaxTime) \cup {None}]]
  BY Constants DEF LoopInv, TypeOK
<1>3. \A s \in Severities : \A b \in Agents :
        unfit'[s][b] = IF b # a THEN unfit[s][b]
                       ELSE IF ~Unfit(state, s) THEN None
                       ELSE IF unfit[s][a] = None THEN now ELSE unfit[s][a]
  BY <1>1, <1>2
<1>4. unfit' \in [Severities -> [Agents -> (0..MaxTime) \cup {None}]]
  <2>1. \A s \in Severities :
          [unfit[s] EXCEPT ![a] = IF ~Unfit(state, s) THEN None ELSE IF @ = None THEN now ELSE @]
            \in [Agents -> (0..MaxTime) \cup {None}]
    BY <1>2
  <2> QED
    BY <1>1, <2>1
<1>5. agents' \in [Agents -> States] /\ changes' \in 0..MaxChanges
  <2>1. agents' \in [Agents -> States]
    BY <1>1, <1>2
  <2>2. changes' \in 0..MaxChanges
    BY <1>1, <1>2
  <2> QED
    BY <2>1, <2>2
<1>6. TypeOK'
  BY <1>1, <1>2, <1>4, <1>5 DEF TypeOK
<1>7. \A b \in Agents : agents'[b] = IF b = a THEN state ELSE agents[b]
  BY <1>1, <1>2
<1>8. UnfitKept'
  <2> SUFFICES ASSUME NEW s \in Severities, NEW b \in Agents
               PROVE  unfit'[s][b] = None <=> ~Unfit(agents'[b], s)
    BY Zenon DEF UnfitKept, Unfit
  <2>1. unfit[s][b] = None <=> ~Unfit(agents[b], s)
    BY DEF LoopInv, UnfitKept
  <2> QED
    BY <1>2, <1>3, <1>7, <2>1
<1>9. ASSUME NEW c \in Calls
      PROVE  CallKept(c)' /\ CallReceipted(c)'
  <2>1. CallKept(c) /\ CallReceipted(c) /\ RequestOf[c].reported \in Severities
    BY Constants DEF LoopInv
  <2>2. ASSUME calls[c].phase = "asking" PROVE FitSince(c)'
    <3>1. calls[c].route \in Routes /\ calls[c].at <= now /\ FitSince(c)
      BY <2>1, <2>2 DEF CallKept
    <3>2. On(calls[c].route) \subseteq Agents
      BY <3>1, RouteType
    <3> QED
      BY <1>1, <1>3, <2>1, <3>1, <3>2 DEF FitSince
  <2>3. CallKept(c)'
    BY <1>1, <2>1, <2>2 DEF CallKept, Place
  <2>4. CallReceipted(c)'
    BY <1>1, <2>1 DEF CallReceipted
  <2> QED
    BY <2>3, <2>4
<1>10. EffectsKept' /\ TrustLossReaches'
  BY <1>1 DEF LoopInv, EffectsKept, TrustLossReaches
<1>11. Proper(timeline')
  BY <1>1 DEF LoopInv
<1> QED
  BY <1>6, <1>8, <1>9, <1>10, <1>11 DEF LoopInv

LEMMA TickKeeps ==
  ASSUME LoopInv, Tick
  PROVE  LoopInv'
<1>1. /\ now < MaxTime /\ now' = now + 1
      /\ UNCHANGED <<agents, timeline, calls, effects, unfit, changes>>
  BY DEF Tick
<1>2. now \in 0..MaxTime /\ now \in Nat /\ MaxTime \in Nat /\ calls \in [Calls -> Call]
  BY Constants DEF LoopInv, TypeOK
<1>3. TypeOK'
  BY <1>1, <1>2 DEF LoopInv, TypeOK
<1>4. ASSUME NEW c \in Calls
      PROVE  CallKept(c)' /\ CallReceipted(c)'
  <2>1. CallKept(c) /\ CallReceipted(c) /\ calls[c].at \in Nat
    BY <1>2 DEF LoopInv, Call
  <2>2. calls[c].at <= now => calls[c].at <= now'
    BY <1>1, <1>2, <2>1
  <2>3. FitSince(c) => FitSince(c)'
    BY <1>1 DEF FitSince
  <2>4. CallKept(c)'
    BY <1>1, <2>1, <2>2, <2>3 DEF CallKept, Place
  <2>5. CallReceipted(c)'
    BY <1>1, <2>1 DEF CallReceipted
  <2> QED
    BY <2>4, <2>5
<1>5. EffectsKept' /\ TrustLossReaches' /\ UnfitKept'
  BY <1>1 DEF LoopInv, EffectsKept, TrustLossReaches, UnfitKept
<1>6. Proper(timeline')
  BY <1>1 DEF LoopInv
<1> QED
  BY <1>3, <1>4, <1>5, <1>6 DEF LoopInv

LEMMA StutterKeeps ==
  ASSUME LoopInv, UNCHANGED vars
  PROVE  LoopInv'
<1>1. UNCHANGED <<now, agents, timeline, calls, effects, unfit, changes>>
  BY DEF vars
<1>2. TypeOK' /\ UnfitKept' /\ EffectsKept' /\ TrustLossReaches' /\ Proper(timeline')
  BY <1>1 DEF LoopInv, TypeOK, UnfitKept, EffectsKept, TrustLossReaches
<1>3. \A c \in Calls : CallKept(c)' /\ CallReceipted(c)'
  BY <1>1 DEF LoopInv, CallKept, Place, FitSince, CallReceipted
<1> QED
  BY <1>2, <1>3 DEF LoopInv

LEMMA InitHolds == Init => LoopInv
<1> SUFFICES ASSUME Init PROVE LoopInv
  OBVIOUS
<1>1. /\ now = 0 /\ agents \in [Agents -> States] /\ timeline = <<>>
      /\ calls = [c \in Calls |-> NotBegun] /\ effects = {} /\ changes = 0
      /\ unfit = [s \in Severities |-> [a \in Agents |-> IF Unfit(agents[a], s) THEN 0 ELSE None]]
  BY DEF Init
<1>2. MaxTime \in Nat /\ MaxChanges \in Nat /\ None \notin Nat /\ 0 \in 0..MaxTime
  BY Constants
<1>3. timeline \in Seq(Event) /\ 1..Len(timeline) = {}
  BY <1>1, EmptySeq
<1>4. TypeOK
  <2>1. NotBegun \in Call
    BY DEF NotBegun, Call, Phases
  <2>2. unfit \in [Severities -> [Agents -> (0..MaxTime) \cup {None}]]
    BY <1>1, <1>2
  <2> QED
    BY <1>1, <1>2, <1>3, <2>1, <2>2 DEF TypeOK
<1>5. \A kind : Places(timeline, kind) = {}
  BY <1>3 DEF Places
<1>6. Proper(timeline)
  BY <1>3, <1>5 DEF Proper, Sound, Explained, Rides, Earned, Selections
<1>7. \A c \in Calls : CallKept(c) /\ CallReceipted(c)
  <2>1. \A c \in Calls : calls[c].phase = "idle"
    BY <1>1 DEF NotBegun
  <2>2. \A c \in Calls : Open(timeline, c)
    BY <1>5 DEF Open, Receipts, Outcomes, Mine
  <2> QED
    BY <2>1, <2>2 DEF CallKept, CallReceipted
<1>8. EffectsKept
  <2>1. LiveAllowed(timeline) = {}
    BY <1>5 DEF LiveAllowed
  <2>2. IsFiniteSet(effects)
    BY <1>1, FS_EmptySet
  <2>3. Cardinality(effects) = Cardinality(LiveAllowed(timeline))
    BY <1>1, <2>1
  <2> QED
    BY <1>1, <2>1, <2>2, <2>3 DEF EffectsKept
<1>9. UnfitKept
  BY <1>1, <1>2 DEF UnfitKept
<1>10. TrustLossReaches
  BY <1>1 DEF TrustLossReaches
<1> QED
  BY <1>4, <1>6, <1>7, <1>8, <1>9, <1>10 DEF LoopInv

LEMMA StepKeeps == LoopInv /\ [Next]_vars => LoopInv'
<1> SUFFICES ASSUME LoopInv, [Next]_vars PROVE LoopInv'
  OBVIOUS
<1>1. ASSUME NEW c \in Calls, Step(c) PROVE LoopInv'
  BY <1>1, BeginKeeps, MeasuredKeeps, AllowKeeps, RefuseKeeps, ThrowKeeps, SettleKeeps DEF Step
<1>2. ASSUME NEW a \in Agents, NEW s \in States, Observe(a, s) PROVE LoopInv'
  BY <1>2, ObserveKeeps
<1>3. CASE Tick
  BY <1>3, TickKeeps
<1>4. CASE UNCHANGED vars
  BY <1>4, StutterKeeps
<1> QED
  BY <1>1, <1>2, <1>3, <1>4 DEF Next

-----------------------------------------------------------------------------
(* The theorems. *)

(* LoopInv is inductive: every step of a call adds to the timeline only     *)
(* what earlier events explain, and finds the event it was waiting on.      *)
THEOREM LoopInvariance == Spec => []LoopInv
<1> QED
  BY InitHolds, StepKeeps, PTL DEF Spec

(* The timeline of protect.mjs explains what happened, however many calls   *)
(* share it and wherever they interleave: every event follows from earlier  *)
(* ones of its call, every call that ended has one receipt that names its   *)
(* outcome, the effects are those the timeline allowed, and every change of *)
(* route is explained by what changed.                                      *)
THEOREM TimelineHolds == Spec => []TimelineInv
<1> QED
  BY LoopInvariance, Says, PTL

(* No authority is issued for a call that understates its consequence or    *)
(* lacks the evidence or the approval that its severity asks for.           *)
THEOREM AuthorityIsEarned == Spec => []AuthorityEarned
<1> QED
  BY LoopInvariance, Says, PTL

(* No effect is carried by an agent that lost its trust, its evidence or    *)
(* its availability longer ago than an authority and a decision last.       *)
THEOREM LossReaches == Spec => []TrustLossReaches
<1> QED
  BY LoopInvariance, Says, PTL
=============================================================================
