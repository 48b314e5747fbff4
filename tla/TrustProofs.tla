----------------------------- MODULE TrustProofs -----------------------------
(***************************************************************************)
(* Proofs about what is decided and calculated about trust: the service     *)
(* that resolves routes holds one chain of receipts; the decisions of the   *)
(* engine follow trust for any number of candidates; a chain of links of    *)
(* any length is as sound as its parts, and its trust attenuates; a claim   *)
(* only ends; and the aggregation and the measurement of trust do right by  *)
(* any number of receipts, issuers and attestors.                           *)
(***************************************************************************)
EXTENDS RouteResolver, TrustCalls, Measuring, SequenceTheorems, FiniteSetTheorems, TLAPS

-----------------------------------------------------------------------------
(* Induction over numbers and finite sets, and the folds over finite sets. *)

\* Pairs of a number and a larger one: what the induction over numbers descends on.
Below == {p \in Nat \X Nat : p[1] < p[2]}

\* A set of natural numbers that is not empty has a least element.
LEMMA Least ==
  ASSUME NEW T \in SUBSET Nat, T # {}
  PROVE  \E x \in T : \A y \in T : x <= y
<1>1. IsWellFoundedOn(Below, Nat)
  BY NatLessThanWellFounded DEF OpToRel, Below
<1>2. PICK x \in T : \A y \in T : <<y, x>> \notin Below
  BY <1>1, WFMin
<1>3. ASSUME NEW y \in T PROVE x <= y
  <2>1. <<y, x>> \in Nat \X Nat /\ <<y, x>>[1] = y /\ <<y, x>>[2] = x
    OBVIOUS
  <2>2. ~(y < x)
    BY <1>2, <2>1 DEF Below
  <2> QED
    BY <2>2
<1> QED
  BY <1>3

\* Induction over the natural numbers, for a set in place of a predicate.
LEMMA NumberInduction ==
  ASSUME NEW G, 0 \in G, \A n \in Nat : n \in G => n + 1 \in G
  PROVE  Nat \subseteq G
<1> SUFFICES ASSUME Nat \ G # {} PROVE FALSE
  OBVIOUS
<1>1. PICK x \in Nat \ G : \A y \in Nat \ G : x <= y
  BY Least
<1>2. x # 0 /\ x - 1 \in Nat /\ ~(x <= x - 1) /\ x - 1 + 1 = x
  BY <1>1
<1>3. x - 1 \in G
  BY <1>1, <1>2
<1> QED
  BY <1>1, <1>2, <1>3

\* What is left of a finite set without one of its elements.
LEMMA OneLess ==
  ASSUME NEW S, IsFiniteSet(S), NEW n \in Nat, Cardinality(S) = n + 1
  PROVE  S # {} /\ \A x \in S : IsFiniteSet(S \ {x}) /\ Cardinality(S \ {x}) = n
<1>1. S # {}
  BY FS_EmptySet
<1>2. ASSUME NEW x \in S PROVE IsFiniteSet(S \ {x}) /\ Cardinality(S \ {x}) = n
  BY FS_RemoveElement
<1> QED
  BY <1>1, <1>2

\* Induction over the subsets of a finite set.
LEMMA SetInduction ==
  ASSUME NEW S, IsFiniteSet(S), NEW G, {} \in G,
         \A T \in SUBSET S : \A x \in S \ T : T \in G => T \cup {x} \in G
  PROVE  S \in G
<1> DEFINE H == {n \in Nat : \A T \in SUBSET S : Cardinality(T) = n => T \in G}
<1>1. \A T \in SUBSET S : IsFiniteSet(T) /\ Cardinality(T) \in Nat
  BY FS_Subset, FS_CardinalityType
<1>2. 0 \in H
  BY <1>1, FS_EmptySet
<1>3. ASSUME NEW n \in Nat, n \in H PROVE n + 1 \in H
  <2> SUFFICES ASSUME NEW T \in SUBSET S, Cardinality(T) = n + 1 PROVE T \in G
    OBVIOUS
  <2>0. IsFiniteSet(T)
    BY <1>1
  <2>1. T # {}
    BY <2>0, OneLess
  <2>2. PICK x \in T : TRUE
    BY <2>1
  <2>3. Cardinality(T \ {x}) = n
    BY <2>0, <2>2, OneLess
  <2>4. T \ {x} \in G
    BY <1>3, <2>3
  <2>5. (T \ {x}) \cup {x} = T /\ x \in S \ (T \ {x}) /\ T \ {x} \in SUBSET S
    BY <2>2
  <2>6. (T \ {x}) \cup {x} \in G
    BY <2>4, <2>5
  <2> QED
    BY <2>5, <2>6
<1> HIDE DEF H
<1>4. Nat \subseteq H
  BY <1>2, <1>3, NumberInduction
<1>5. Cardinality(S) \in H
  BY <1>1, <1>4
<1> QED
  BY <1>5 DEF H

-----------------------------------------------------------------------------
(* A sum or a product over a finite set, by the kind "o" of the fold.         *)

\* The element that the folds of the library take first.
One(s) == CHOOSE x \in s : TRUE

\* The two folds that are used: sums and products.
Base(o) == IF o = "sum" THEN 0 ELSE 1

Combine(o, x, y) == IF o = "sum" THEN x + y ELSE x * y

\* What the function that a fold chooses satisfies.
Unfolds(o, f, S, g) ==
  g = [s \in SUBSET S |-> IF s = {} THEN Base(o) ELSE Combine(o, f[One(s)], g[s \ {One(s)}])]

\* Two folds agree where both are defined.
LEMMA UnfoldsAgree ==
  ASSUME NEW o, NEW f, NEW S, NEW T \in SUBSET S, IsFiniteSet(T),
         NEW g, Unfolds(o, f, S, g), NEW h, Unfolds(o, f, T, h), NEW t \in SUBSET T
  PROVE  g[t] = h[t]
<1> DEFINE H == {n \in Nat : \A s \in SUBSET T : Cardinality(s) = n => g[s] = h[s]}
<1>1. \A s \in SUBSET T : IsFiniteSet(s) /\ Cardinality(s) \in Nat
  BY FS_Subset, FS_CardinalityType
<1>2. /\ \A s \in SUBSET S : g[s] = IF s = {} THEN Base(o) ELSE Combine(o, f[One(s)], g[s \ {One(s)}])
      /\ \A s \in SUBSET T : h[s] = IF s = {} THEN Base(o) ELSE Combine(o, f[One(s)], h[s \ {One(s)}])
  <2>1. g = [s \in SUBSET S |-> IF s = {} THEN Base(o) ELSE Combine(o, f[One(s)], g[s \ {One(s)}])]
    BY DEF Unfolds
  <2>2. h = [s \in SUBSET T |-> IF s = {} THEN Base(o) ELSE Combine(o, f[One(s)], h[s \ {One(s)}])]
    BY DEF Unfolds
  <2> QED
    BY <2>1, <2>2, Zenon
<1>3. 0 \in H
  BY <1>1, <1>2, FS_EmptySet
<1>4. ASSUME NEW n \in Nat, n \in H PROVE n + 1 \in H
  <2> SUFFICES ASSUME NEW s \in SUBSET T, Cardinality(s) = n + 1 PROVE g[s] = h[s]
    OBVIOUS
  <2>0. IsFiniteSet(s)
    BY <1>1
  <2>1. s # {}
    BY <2>0, OneLess
  <2>2. One(s) \in s
    BY <2>1 DEF One
  <2>3. Cardinality(s \ {One(s)}) = n
    BY <2>0, <2>2, OneLess
  <2>4. g[s \ {One(s)}] = h[s \ {One(s)}]
    BY <1>4, <2>3
  <2> QED
    BY <1>2, <2>1, <2>4
<1> HIDE DEF H
<1>5. Nat \subseteq H
  BY <1>3, <1>4, NumberInduction
<1>6. Cardinality(t) \in H
  BY <1>1, <1>5
<1> QED
  BY <1>6 DEF H

\* There is a fold over every finite set.
LEMMA UnfoldsExists ==
  ASSUME NEW o, NEW f, NEW S, IsFiniteSet(S)
  PROVE  \E g : Unfolds(o, f, S, g)
<1> DEFINE H == {n \in Nat : \A T \in SUBSET S :
                              Cardinality(T) <= n => \E g : Unfolds(o, f, T, g)}
<1>1. \A T \in SUBSET S : IsFiniteSet(T) /\ Cardinality(T) \in Nat
  BY FS_Subset, FS_CardinalityType
<1>2. 0 \in H
  <2> SUFFICES ASSUME NEW T \in SUBSET S, Cardinality(T) <= 0
               PROVE  \E g : Unfolds(o, f, T, g)
    OBVIOUS
  <2>1. T = {}
    BY <1>1, FS_EmptySet
  <2>2. Unfolds(o, f, T, [s \in SUBSET T |-> Base(o)])
    BY <2>1 DEF Unfolds
  <2> QED
    BY <2>2
<1>3. ASSUME NEW n \in Nat, n \in H PROVE n + 1 \in H
  <2> SUFFICES ASSUME NEW T \in SUBSET S, Cardinality(T) <= n + 1
               PROVE  \E g : Unfolds(o, f, T, g)
    OBVIOUS
  <2> DEFINE F(s) == CHOOSE g : Unfolds(o, f, s, g)
             less(s) == s \ {One(s)}
             h == [s \in SUBSET T |-> IF s = {} THEN Base(o) ELSE Combine(o, f[One(s)], F(less(s))[less(s)])]
  <2>1. \A s \in SUBSET T : s # {} => /\ One(s) \in s /\ less(s) \in SUBSET s
                                      /\ Cardinality(less(s)) <= n
    <3> SUFFICES ASSUME NEW s \in SUBSET T, s # {}
                 PROVE  One(s) \in s /\ less(s) \in SUBSET s /\ Cardinality(less(s)) <= n
      OBVIOUS
    <3>1. One(s) \in s
      BY DEF One
    <3>2. Cardinality(s) <= Cardinality(T)
      BY <1>1, FS_Subset
    <3>3. Cardinality(less(s)) = Cardinality(s) - 1
      BY <1>1, <3>1, FS_RemoveElement
    <3> QED
      BY <1>1, <3>1, <3>2, <3>3
  <2>2. \A s \in SUBSET T : s # {} => Unfolds(o, f, less(s), F(less(s)))
    <3> SUFFICES ASSUME NEW s \in SUBSET T, s # {}
                 PROVE  Unfolds(o, f, less(s), F(less(s)))
      OBVIOUS
    <3>1. \E g : Unfolds(o, f, less(s), g)
      BY <1>3, <2>1
    <3> QED
      BY <3>1
  <2>3. \A s \in SUBSET T : s # {} => F(less(s))[less(s)] = h[less(s)]
    <3> SUFFICES ASSUME NEW s \in SUBSET T, s # {}
                 PROVE  F(less(s))[less(s)] = h[less(s)]
      OBVIOUS
    <3> DEFINE u == less(s)
    <3>1. u \in SUBSET T /\ IsFiniteSet(u) /\ Unfolds(o, f, u, F(u))
      BY <1>1, <2>1, <2>2
    <3>2. h[u] = IF u = {} THEN Base(o) ELSE Combine(o, f[One(u)], F(less(u))[less(u)])
      BY <3>1
    <3> HIDE DEF h
    <3>3. F(u)[u] = IF u = {} THEN Base(o) ELSE Combine(o, f[One(u)], F(u)[less(u)])
      <4>1. F(u) = [s_1 \in SUBSET u |-> IF s_1 = {} THEN Base(o)
                                         ELSE Combine(o, f[One(s_1)], F(u)[s_1 \ {One(s_1)}])]
        BY <3>1, Zenon DEF Unfolds
      <4> HIDE DEF u, F
      <4> QED
        BY <4>1, Zenon
    <3>4. u # {} => F(u)[less(u)] = F(less(u))[less(u)]
      <4> SUFFICES ASSUME u # {} PROVE F(u)[less(u)] = F(less(u))[less(u)]
        OBVIOUS
      <4>1. /\ IsFiniteSet(less(u)) /\ less(u) \in SUBSET u
            /\ Unfolds(o, f, less(u), F(less(u)))
        BY <1>1, <2>1, <2>2, <3>1
      <4> DEFINE v == less(u)  G == F(u)  E == F(v)
      <4>2. /\ IsFiniteSet(v) /\ v \in SUBSET u /\ v \in SUBSET v
            /\ Unfolds(o, f, v, E) /\ Unfolds(o, f, u, G)
        BY <3>1, <4>1
      <4> HIDE DEF F, less, u, v, G, E
      <4>3. G[v] = E[v]
        BY <4>2, UnfoldsAgree
      <4> QED
        BY <4>3 DEF v, G, E
    <3> QED
      BY <3>2, <3>3, <3>4
  <2>4. Unfolds(o, f, T, h)
    <3> HIDE DEF F
    <3>1. \A s \in SUBSET T : s # {} => F(less(s))[less(s)] = h[s \ {One(s)}]
      BY <2>3
    <3>2. h = [s \in SUBSET T |-> IF s = {} THEN Base(o) ELSE Combine(o, f[One(s)], h[s \ {One(s)}])]
      BY <3>1
    <3> QED
      BY <3>2, Zenon DEF Unfolds
  <2> QED
    BY <2>4, Zenon
<1> HIDE DEF H
<1>4. Nat \subseteq H
  BY <1>2, <1>3, NumberInduction
<1>5. Cardinality(S) \in H
  BY <1>1, <1>4
<1> QED
  BY <1>1, <1>5 DEF H

\* The fold, as the library defines it.
FoldOf(o, f, S) == (CHOOSE g : Unfolds(o, f, S, g))[S]

\* A fold, one element at a time.
LEMMA FoldStep ==
  ASSUME NEW o, NEW f, NEW S, IsFiniteSet(S)
  PROVE  /\ S = {} => FoldOf(o, f, S) = Base(o)
         /\ S # {} => FoldOf(o, f, S) = Combine(o, f[One(S)], FoldOf(o, f, S \ {One(S)}))
<1> DEFINE g == CHOOSE g : Unfolds(o, f, S, g)
           T == S \ {One(S)}
           h == CHOOSE h : Unfolds(o, f, T, h)
<1>1. Unfolds(o, f, S, g)
  BY UnfoldsExists
<1>2. IsFiniteSet(T) /\ T \in SUBSET S /\ T \in SUBSET T
  BY FS_Subset
<1>3. Unfolds(o, f, T, h)
  BY <1>2, UnfoldsExists
<1> HIDE DEF g, h, T
<1>4. g[T] = h[T]
  BY <1>1, <1>2, <1>3, UnfoldsAgree
<1>5. g[S] = IF S = {} THEN Base(o) ELSE Combine(o, f[One(S)], g[T])
  <2>1. g = [s \in SUBSET S |-> IF s = {} THEN Base(o) ELSE Combine(o, f[One(s)], g[s \ {One(s)}])]
    BY <1>1 DEF Unfolds
  <2> QED
    BY <2>1, Zenon DEF T
<1> QED
  <2>1. FoldOf(o, f, S) = g[S] /\ FoldOf(o, f, T) = h[T]
    BY Zenon DEF FoldOf, g, h
  <2> QED
    BY <1>4, <1>5, <2>1, Zenon DEF T

\* Both combine integers, and it does not matter which comes first.
LEMMA CombineInt ==
  ASSUME NEW o, NEW x \in Int, NEW y \in Int
  PROVE  /\ Combine(o, x, y) \in Int
         /\ \A z \in Int : Combine(o, x, Combine(o, y, z)) = Combine(o, y, Combine(o, x, z))
<1> SUFFICES ASSUME NEW z \in Int
             PROVE  /\ Combine(o, x, y) \in Int
                    /\ Combine(o, x, Combine(o, y, z)) = Combine(o, y, Combine(o, x, z))
  OBVIOUS
<1>1. CASE o = "sum"
  BY <1>1 DEF Combine
<1>2. CASE o # "sum"
  BY <1>2 DEF Combine
<1> QED
  BY <1>1, <1>2

\* Any element may be first.
LEMMA FoldAny ==
  ASSUME NEW o, NEW S, IsFiniteSet(S), NEW f, \A x \in S : f[x] \in Int
  PROVE  /\ FoldOf(o, f, S) \in Int
         /\ \A x \in S : FoldOf(o, f, S) = Combine(o, f[x], FoldOf(o, f, S \ {x}))
<1> DEFINE F == [s \in SUBSET S |-> FoldOf(o, f, s)]
           Fine(s) == F[s] \in Int /\ \A x \in s : F[s] = Combine(o, f[x], F[s \ {x}])
           H == {n \in Nat : \A s \in SUBSET S : Cardinality(s) <= n => Fine(s)}
<1>1. \A s \in SUBSET S : IsFiniteSet(s) /\ Cardinality(s) \in Nat
  BY FS_Subset, FS_CardinalityType
<1>2. ASSUME NEW s \in SUBSET S
      PROVE  F[s] = IF s = {} THEN Base(o) ELSE Combine(o, f[One(s)], F[s \ {One(s)}])
  <2>1. IsFiniteSet(s) /\ s \ {One(s)} \in SUBSET S
    BY <1>1
  <2> QED
    <3> HIDE DEF F
    <3>0. IsFiniteSet(s)
      BY <2>1
    <3>1. /\ s = {} => FoldOf(o, f, s) = Base(o)
          /\ s # {} => FoldOf(o, f, s) = Combine(o, f[One(s)], FoldOf(o, f, s \ {One(s)}))
      BY <3>0, FoldStep
    <3> QED
      BY <2>1, <3>1 DEF F
<1>3. F[S] = FoldOf(o, f, S) /\ \A x \in S : F[S \ {x}] = FoldOf(o, f, S \ {x})
  OBVIOUS
<1> HIDE DEF F, Fine
<1>4. 0 \in H
  <2> SUFFICES ASSUME NEW s \in SUBSET S, Cardinality(s) <= 0 PROVE Fine(s)
    OBVIOUS
  <2>1. s = {}
    BY <1>1, FS_EmptySet
  <2>2. F[s] = Base(o)
    BY <1>2, <2>1
  <2>3. Base(o) \in Int
    BY DEF Base
  <2> QED
    BY <2>1, <2>2, <2>3 DEF Fine
<1>5. ASSUME NEW n \in Nat, n \in H PROVE n + 1 \in H
  <2>0. \A t \in SUBSET S : Cardinality(t) <= n => Fine(t)
    BY <1>5
  <2> SUFFICES ASSUME NEW s \in SUBSET S, Cardinality(s) = n + 1 PROVE Fine(s)
    <3>1. ASSUME NEW s \in SUBSET S, Cardinality(s) <= n + 1
          PROVE  Cardinality(s) <= n \/ Cardinality(s) = n + 1
      BY <1>1, <3>1
    <3> QED
      BY <2>0, <3>1
  <2> HIDE DEF H
  <2> DEFINE c == One(s)
  <2>1. s # {} /\ \A x \in s : IsFiniteSet(s \ {x}) /\ Cardinality(s \ {x}) = n
    BY <1>1, OneLess
  <2>2. c \in s
    BY <2>1 DEF One
  <2>3. \A x \in s : Fine(s \ {x})
    <3> SUFFICES ASSUME NEW x \in s PROVE Fine(s \ {x})
      OBVIOUS
    <3>1. Cardinality(s \ {x}) = n
      BY <2>1
    <3>2. s \ {x} \in SUBSET S /\ n <= n
      OBVIOUS
    <3> QED
      BY <2>0, <3>1, <3>2
  <2>4. F[s] = Combine(o, f[c], F[s \ {c}]) /\ F[s \ {c}] \in Int /\ f[c] \in Int
    BY <1>2, <2>1, <2>2, <2>3 DEF Fine
  <2> HIDE DEF c
  <2>5. F[s] \in Int
    BY <2>4, CombineInt
  <2>6. ASSUME NEW x \in s, x # c PROVE F[s] = Combine(o, f[x], F[s \ {x}])
    <3> DEFINE t == s \ {c, x}
    <3>1. t = (s \ {c}) \ {x} /\ t = (s \ {x}) \ {c} /\ x \in s \ {c} /\ c \in s \ {x}
      BY <2>2, <2>6
    <3>2. F[s \ {c}] = Combine(o, f[x], F[t])
      BY <2>2, <2>3, <3>1 DEF Fine
    <3>3. F[s \ {x}] = Combine(o, f[c], F[t])
      BY <2>3, <3>1 DEF Fine
    <3>4. F[t] \in Int /\ f[x] \in Int
      <4>1. IsFiniteSet(s \ {x}) /\ t \in SUBSET (s \ {x}) /\ t \in SUBSET S
        BY <2>1
      <4>2. Cardinality(t) <= n
        BY <2>1, <4>1, FS_Subset
      <4> QED
        BY <2>0, <4>1, <4>2 DEF Fine
    <3> HIDE DEF t
    <3>5. Combine(o, f[c], Combine(o, f[x], F[t])) = Combine(o, f[x], Combine(o, f[c], F[t]))
      <4> DEFINE p == f[c]  q == f[x]  r == F[t]
      <4>1. p \in Int /\ q \in Int /\ r \in Int
        BY <2>4, <3>4
      <4> HIDE DEF p, q, r
      <4>2. Combine(o, p, Combine(o, q, r)) = Combine(o, q, Combine(o, p, r))
        BY <4>1, CombineInt
      <4> QED
        BY <4>2 DEF p, q, r
    <3> QED
      BY <2>4, <3>2, <3>3, <3>5
  <2> QED
    BY <2>4, <2>5, <2>6 DEF Fine
<1> HIDE DEF H
<1>6. Nat \subseteq H
  BY <1>4, <1>5, NumberInduction
<1>7. Cardinality(S) \in H
  BY <1>1, <1>6
<1>8. Fine(S)
  BY <1>1, <1>7 DEF H
<1> QED
  BY <1>3, <1>8 DEF Fine

\* The sums and the products of the model are such folds.
LEMMA SumFolds == ASSUME NEW f, NEW S PROVE SumFunctionOnSet(f, S) = FoldOf("sum", f, S)
<1>1. "sum" = "sum"
  OBVIOUS
<1> QED
  BY Zenon DEF SumFunctionOnSet, FoldFunctionOnSet, MapThenFoldSet, FoldOf, Unfolds, Base, Combine, One

\* The product, likewise.
LEMMA ProductFolds == ASSUME NEW f, NEW S PROVE FoldFunctionOnSet(LAMBDA a, b : a * b, 1, f, S) = FoldOf("product", f, S)
<1>1. "sum" # "product"
  OBVIOUS
<1> QED
  BY <1>1, Zenon DEF FoldFunctionOnSet, MapThenFoldSet, FoldOf, Unfolds, Base, Combine, One

\* f is a function to the integers on S, a finite set.
Summable(f, S) == IsFiniteSet(S) /\ \A x \in S : f[x] \in Int

\* The sum over nothing.
LEMMA SumEmpty == ASSUME NEW f PROVE SumFunctionOnSet(f, {}) = 0
<1>1. IsFiniteSet({})
  BY FS_EmptySet
<1>2. FoldOf("sum", f, {}) = Base("sum")
  BY <1>1, FoldStep
<1> QED
  BY <1>2, SumFolds DEF Base

\* A sum, and one summand of it.
LEMMA SumOne ==
  ASSUME NEW f, NEW S, Summable(f, S)
  PROVE  /\ SumFunctionOnSet(f, S) \in Int
         /\ \A x \in S : SumFunctionOnSet(f, S) = f[x] + SumFunctionOnSet(f, S \ {x})
<1>1. /\ FoldOf("sum", f, S) \in Int
      /\ \A x \in S : FoldOf("sum", f, S) = Combine("sum", f[x], FoldOf("sum", f, S \ {x}))
  BY FoldAny DEF Summable
<1> QED
  BY <1>1, SumFolds DEF Combine

\* The sum over one element more.
LEMMA SumMore ==
  ASSUME NEW f, NEW S, Summable(f, S), NEW T \in SUBSET S, NEW x \in S \ T
  PROVE  /\ Summable(f, T) /\ SumFunctionOnSet(f, T) \in Int /\ f[x] \in Int
         /\ SumFunctionOnSet(f, T \cup {x}) = f[x] + SumFunctionOnSet(f, T)
<1>1. Summable(f, T) /\ Summable(f, T \cup {x})
  BY FS_Subset DEF Summable
<1>2. (T \cup {x}) \ {x} = T
  OBVIOUS
<1>3. SumFunctionOnSet(f, T \cup {x}) = f[x] + SumFunctionOnSet(f, (T \cup {x}) \ {x})
  BY <1>1, SumOne
<1> QED
  BY <1>1, <1>2, <1>3, SumOne DEF Summable

\* What is nowhere larger has no larger sum.
LEMMA SumCompare ==
  ASSUME NEW f, NEW g, NEW S, Summable(f, S), Summable(g, S), \A x \in S : f[x] <= g[x]
  PROVE  SumFunctionOnSet(f, S) <= SumFunctionOnSet(g, S)
<1> DEFINE G == {T \in SUBSET S : SumFunctionOnSet(f, T) <= SumFunctionOnSet(g, T)}
<1>1. {} \in G
  BY SumEmpty
<1>2. ASSUME NEW T \in SUBSET S, NEW x \in S \ T, T \in G PROVE T \cup {x} \in G
  <2>1. /\ SumFunctionOnSet(f, T) \in Int /\ f[x] \in Int
        /\ SumFunctionOnSet(f, T \cup {x}) = f[x] + SumFunctionOnSet(f, T)
    BY SumMore
  <2>2. /\ SumFunctionOnSet(g, T) \in Int /\ g[x] \in Int
        /\ SumFunctionOnSet(g, T \cup {x}) = g[x] + SumFunctionOnSet(g, T)
    BY SumMore
  <2>3. SumFunctionOnSet(f, T) <= SumFunctionOnSet(g, T) /\ f[x] <= g[x]
    BY <1>2
  <2> HIDE DEF G
  <2>4. SumFunctionOnSet(f, T \cup {x}) <= SumFunctionOnSet(g, T \cup {x})
    BY <2>1, <2>2, <2>3
  <2> QED
    BY <2>4 DEF G
<1> HIDE DEF G
<1>3. S \in G
  BY <1>1, <1>2, SetInduction DEF Summable
<1> QED
  BY <1>3 DEF G

\* Of two sums the larger has a larger summand.
LEMMA SumStrict ==
  ASSUME NEW f, NEW g, NEW S, Summable(f, S), Summable(g, S), \A x \in S : f[x] <= g[x],
         NEW y \in S, f[y] < g[y]
  PROVE  SumFunctionOnSet(f, S) < SumFunctionOnSet(g, S)
<1>1. Summable(f, S \ {y}) /\ Summable(g, S \ {y})
  BY FS_Subset DEF Summable
<1>2. SumFunctionOnSet(f, S \ {y}) <= SumFunctionOnSet(g, S \ {y})
  BY <1>1, SumCompare
<1>3. SumFunctionOnSet(f, S \ {y}) \in Int /\ SumFunctionOnSet(g, S \ {y}) \in Int
  BY <1>1, SumOne
<1>4. /\ SumFunctionOnSet(f, S) = f[y] + SumFunctionOnSet(f, S \ {y})
      /\ SumFunctionOnSet(g, S) = g[y] + SumFunctionOnSet(g, S \ {y})
  BY SumOne
<1> QED
  BY <1>2, <1>3, <1>4 DEF Summable

\* A sum depends on the values in its set only.
LEMMA SumSame ==
  ASSUME NEW f, NEW g, NEW S, Summable(f, S), \A x \in S : f[x] = g[x]
  PROVE  SumFunctionOnSet(f, S) = SumFunctionOnSet(g, S)
<1>1. Summable(g, S) /\ \A x \in S : f[x] \in Int /\ f[x] <= g[x] /\ g[x] <= f[x]
  BY DEF Summable
<1>2. SumFunctionOnSet(f, S) <= SumFunctionOnSet(g, S)
  BY <1>1, SumCompare
<1>3. SumFunctionOnSet(g, S) <= SumFunctionOnSet(f, S)
  BY <1>1, SumCompare
<1> QED
  BY <1>1, <1>2, <1>3, SumOne

\* A common factor can be taken out of a sum.
LEMMA SumScaled ==
  ASSUME NEW f, NEW g, NEW S, NEW c \in Int, Summable(f, S), \A x \in S : g[x] = c * f[x]
  PROVE  Summable(g, S) /\ SumFunctionOnSet(g, S) = c * SumFunctionOnSet(f, S)
<1> DEFINE G == {T \in SUBSET S : SumFunctionOnSet(g, T) = c * SumFunctionOnSet(f, T)}
<1>0. Summable(g, S)
  BY DEF Summable
<1>1. {} \in G
  BY SumEmpty
<1>2. ASSUME NEW T \in SUBSET S, NEW x \in S \ T, T \in G PROVE T \cup {x} \in G
  <2>1. /\ SumFunctionOnSet(f, T) \in Int /\ f[x] \in Int
        /\ SumFunctionOnSet(f, T \cup {x}) = f[x] + SumFunctionOnSet(f, T)
    BY SumMore
  <2>2. SumFunctionOnSet(g, T \cup {x}) = g[x] + SumFunctionOnSet(g, T)
    BY <1>0, SumMore
  <2>3. SumFunctionOnSet(g, T) = c * SumFunctionOnSet(f, T) /\ g[x] = c * f[x]
    BY <1>2
  <2> HIDE DEF G
  <2>4. SumFunctionOnSet(g, T \cup {x}) = c * SumFunctionOnSet(f, T \cup {x})
    BY <2>1, <2>2, <2>3
  <2> QED
    BY <2>4 DEF G
<1> HIDE DEF G
<1>3. S \in G
  BY <1>1, <1>2, SetInduction DEF Summable
<1> QED
  BY <1>0, <1>3 DEF G

\* A sum is that over a part and that over the rest.
LEMMA SumSplit ==
  ASSUME NEW f, NEW S, Summable(f, S), NEW A \in SUBSET S
  PROVE  /\ Summable(f, A) /\ Summable(f, S \ A)
         /\ SumFunctionOnSet(f, S) = SumFunctionOnSet(f, A) + SumFunctionOnSet(f, S \ A)
<1> DEFINE R == S \ A
           G == {T \in SUBSET A : SumFunctionOnSet(f, T \cup R)
                                    = SumFunctionOnSet(f, T) + SumFunctionOnSet(f, R)}
<1>0. Summable(f, A) /\ Summable(f, R) /\ IsFiniteSet(A)
  BY FS_Subset DEF Summable
<1>1. {} \in G
  <2>1. {} \cup R = R
    OBVIOUS
  <2> QED
    BY <1>0, <2>1, SumEmpty, SumOne
<1>2. ASSUME NEW T \in SUBSET A, NEW x \in A \ T, T \in G PROVE T \cup {x} \in G
  <2>1. /\ SumFunctionOnSet(f, T) \in Int /\ f[x] \in Int
        /\ SumFunctionOnSet(f, T \cup {x}) = f[x] + SumFunctionOnSet(f, T)
    BY <1>0, SumMore
  <2>2. /\ T \cup R \in SUBSET S /\ x \in S \ (T \cup R)
        /\ (T \cup R) \cup {x} = (T \cup {x}) \cup R
    OBVIOUS
  <2>3. SumFunctionOnSet(f, (T \cup {x}) \cup R) = f[x] + SumFunctionOnSet(f, T \cup R)
    BY <2>2, SumMore
  <2>4. SumFunctionOnSet(f, T \cup R) = SumFunctionOnSet(f, T) + SumFunctionOnSet(f, R)
    BY <1>2
  <2>5. SumFunctionOnSet(f, R) \in Int
    BY <1>0, SumOne
  <2> HIDE DEF G, R
  <2>6. SumFunctionOnSet(f, (T \cup {x}) \cup R)
          = SumFunctionOnSet(f, T \cup {x}) + SumFunctionOnSet(f, R)
    BY <2>1, <2>3, <2>4, <2>5
  <2> QED
    BY <2>6 DEF G
<1> HIDE DEF G, R
<1>3. A \in G
  BY <1>0, <1>1, <1>2, SetInduction
<1>4. A \cup R = S
  BY DEF R
<1> QED
  BY <1>0, <1>3, <1>4 DEF G, R

\* The sum of one value over and over.
LEMMA SumConstant ==
  ASSUME NEW f, NEW S, IsFiniteSet(S), NEW c \in Int, \A x \in S : f[x] = c
  PROVE  Summable(f, S) /\ SumFunctionOnSet(f, S) = Cardinality(S) * c
<1> DEFINE G == {T \in SUBSET S : SumFunctionOnSet(f, T) = Cardinality(T) * c}
<1>0. Summable(f, S)
  BY DEF Summable
<1>1. {} \in G
  BY SumEmpty, FS_EmptySet
<1>2. ASSUME NEW T \in SUBSET S, NEW x \in S \ T, T \in G PROVE T \cup {x} \in G
  <2>1. SumFunctionOnSet(f, T \cup {x}) = c + SumFunctionOnSet(f, T)
    BY <1>0, SumMore
  <2>2. IsFiniteSet(T) /\ Cardinality(T) \in Nat /\ Cardinality(T \cup {x}) = Cardinality(T) + 1
    BY FS_Subset, FS_AddElement, FS_CardinalityType
  <2>3. SumFunctionOnSet(f, T) = Cardinality(T) * c
    BY <1>2
  <2> HIDE DEF G
  <2>4. SumFunctionOnSet(f, T \cup {x}) = Cardinality(T \cup {x}) * c
    BY <2>1, <2>2, <2>3
  <2> QED
    BY <2>4 DEF G
<1> HIDE DEF G
<1>3. S \in G
  BY <1>1, <1>2, SetInduction
<1> QED
  BY <1>0, <1>3 DEF G

\* A sum of what is not negative is not, and of what is positive is positive.
LEMMA SumPositive ==
  ASSUME NEW f, NEW S, Summable(f, S), \A x \in S : f[x] >= 0
  PROVE  /\ SumFunctionOnSet(f, S) >= 0
         /\ \A y \in S : f[y] <= SumFunctionOnSet(f, S)
<1> DEFINE z == [x \in S |-> 0]
<1>1. IsFiniteSet(S)
  BY DEF Summable
<1>2. ASSUME NEW T \in SUBSET S PROVE SumFunctionOnSet(f, T) >= 0 /\ SumFunctionOnSet(f, T) \in Int
  <2>1. IsFiniteSet(T) /\ Summable(f, T) /\ Cardinality(T) \in Nat
    BY <1>1, FS_Subset, FS_CardinalityType DEF Summable
  <2>2. Summable(z, T) /\ SumFunctionOnSet(z, T) = Cardinality(T) * 0
    <3>1. \A x \in T : z[x] = 0
      OBVIOUS
    <3> HIDE DEF z
    <3> QED
      BY <2>1, <3>1, SumConstant
  <2>3. \A x \in T : z[x] <= f[x]
    BY DEF Summable
  <2> HIDE DEF z
  <2>4. SumFunctionOnSet(z, T) <= SumFunctionOnSet(f, T)
    BY <2>1, <2>2, <2>3, SumCompare
  <2> QED
    BY <2>1, <2>2, <2>4, SumOne
<1>3. ASSUME NEW y \in S PROVE f[y] <= SumFunctionOnSet(f, S)
  <2>1. SumFunctionOnSet(f, S) = f[y] + SumFunctionOnSet(f, S \ {y}) /\ f[y] \in Int
    BY SumOne DEF Summable
  <2> QED
    BY <1>2, <2>1
<1> QED
  BY <1>2, <1>3

\* The product over nothing.
LEMMA ProductEmpty == ASSUME NEW f PROVE Product(f, {}) = 1
<1>1. IsFiniteSet({})
  BY FS_EmptySet
<1>2. FoldOf("product", f, {}) = Base("product")
  BY <1>1, FoldStep
<1> QED
  BY <1>2, ProductFolds DEF Base, Product

\* Any element can be taken out of a product first.
LEMMA ProductOne ==
  ASSUME NEW f, NEW S, Summable(f, S)
  PROVE  /\ Product(f, S) \in Int
         /\ \A x \in S : Product(f, S) = f[x] * Product(f, S \ {x})
<1>1. /\ FoldOf("product", f, S) \in Int
      /\ \A x \in S : FoldOf("product", f, S) = Combine("product", f[x], FoldOf("product", f, S \ {x}))
  BY FoldAny DEF Summable
<1>2. \A T : Product(f, T) = FoldOf("product", f, T)
  BY ProductFolds DEF Product
<1> QED
  BY <1>1, <1>2 DEF Combine

\* The product over one element more.
LEMMA ProductMore ==
  ASSUME NEW f, NEW S, Summable(f, S), NEW T \in SUBSET S, NEW x \in S \ T
  PROVE  /\ Summable(f, T) /\ Product(f, T) \in Int /\ f[x] \in Int
         /\ Product(f, T \cup {x}) = f[x] * Product(f, T)
<1>1. Summable(f, T) /\ Summable(f, T \cup {x})
  BY FS_Subset DEF Summable
<1>2. (T \cup {x}) \ {x} = T
  OBVIOUS
<1>3. Product(f, T \cup {x}) = f[x] * Product(f, (T \cup {x}) \ {x})
  BY <1>1, ProductOne
<1> QED
  BY <1>1, <1>2, <1>3, ProductOne DEF Summable

\* A product depends on the values in its set only.
LEMMA ProductSame ==
  ASSUME NEW f, NEW g, NEW S, Summable(f, S), \A x \in S : f[x] = g[x]
  PROVE  Product(f, S) = Product(g, S)
<1> DEFINE G == {T \in SUBSET S : Product(f, T) = Product(g, T)}
<1>0. Summable(g, S)
  BY DEF Summable
<1>1. {} \in G
  BY ProductEmpty
<1>2. ASSUME NEW T \in SUBSET S, NEW x \in S \ T, T \in G PROVE T \cup {x} \in G
  <2>1. Product(f, T \cup {x}) = f[x] * Product(f, T)
    BY ProductMore
  <2>2. Product(g, T \cup {x}) = g[x] * Product(g, T)
    BY <1>0, ProductMore
  <2> QED
    BY <1>2, <2>1, <2>2
<1> HIDE DEF G
<1>3. S \in G
  BY <1>1, <1>2, SetInduction DEF Summable
<1> QED
  BY <1>3 DEF G

\* A product of positive numbers is positive.
LEMMA ProductPositive ==
  ASSUME NEW f, NEW S, Summable(f, S), \A x \in S : f[x] > 0
  PROVE  Product(f, S) > 0
<1> DEFINE G == {T \in SUBSET S : Product(f, T) > 0}
<1>1. {} \in G
  BY ProductEmpty
<1>2. ASSUME NEW T \in SUBSET S, NEW x \in S \ T, T \in G PROVE T \cup {x} \in G
  <2>1. /\ Product(f, T) \in Int /\ f[x] \in Int
        /\ Product(f, T \cup {x}) = f[x] * Product(f, T)
    BY ProductMore
  <2>2. Product(f, T) > 0 /\ f[x] > 0
    BY <1>2
  <2> HIDE DEF G
  <2>3. Product(f, T \cup {x}) > 0
    BY <2>1, <2>2
  <2> QED
    BY <2>3 DEF G
<1> HIDE DEF G
<1>3. S \in G
  BY <1>1, <1>2, SetInduction DEF Summable
<1> QED
  BY <1>3 DEF G

\* A power is one factor more than the power before.
LEMMA PowerStep ==
  ASSUME NEW x \in Int
  PROVE  /\ Power(x, 0) = 1
         /\ \A n \in Nat : Power(x, n) \in Int /\ Power(x, n + 1) = x * Power(x, n)
<1>1. Power(x, 0) = 1
  <2>1. 1..0 = {}
    OBVIOUS
  <2> QED
    BY <2>1, ProductEmpty DEF Power
<1>2. ASSUME NEW n \in Nat PROVE Power(x, n) \in Int /\ Power(x, n + 1) = x * Power(x, n)
  <2> DEFINE f == [k \in 1..n |-> x]  g == [k \in 1..(n + 1) |-> x]
  <2>1. Summable(f, 1..n) /\ Summable(g, 1..(n + 1)) /\ Summable(g, 1..n)
    BY FS_Interval DEF Summable
  <2>2. n + 1 \in 1..(n + 1) /\ g[n + 1] = x /\ (1..(n + 1)) \ {n + 1} = 1..n
    OBVIOUS
  <2>3. \A k \in 1..n : g[k] = f[k]
    OBVIOUS
  <2>4. Power(x, n) = Product(f, 1..n) /\ Power(x, n + 1) = Product(g, 1..(n + 1))
    BY DEF Power
  <2> HIDE DEF f, g
  <2>5. Product(g, 1..(n + 1)) = x * Product(g, 1..n)
    BY <2>1, <2>2, ProductOne
  <2>6. Product(g, 1..n) = Product(f, 1..n)
    BY <2>1, <2>3, ProductSame
  <2>7. Product(f, 1..n) \in Int
    BY <2>1, ProductOne
  <2> QED
    BY <2>4, <2>5, <2>6, <2>7
<1> QED
  BY <1>1, <1>2

\* A power of a positive number is positive.
LEMMA PowerPositive ==
  ASSUME NEW x \in Int, x > 0, NEW n \in Nat
  PROVE  Power(x, n) \in Int /\ Power(x, n) > 0
<1> DEFINE G == {m \in Nat : Power(x, m) > 0}
<1>1. 0 \in G
  BY PowerStep
<1>2. ASSUME NEW m \in Nat, m \in G PROVE m + 1 \in G
  <2>1. Power(x, m) \in Int /\ Power(x, m) > 0 /\ Power(x, m + 1) = x * Power(x, m)
    BY <1>2, PowerStep
  <2>2. Power(x, m + 1) > 0
    BY <2>1
  <2> QED
    BY <2>2
<1> HIDE DEF G
<1>3. Nat \subseteq G
  BY <1>1, <1>2, NumberInduction
<1> QED
  BY <1>3, PowerStep DEF G

\* The power of a sum of exponents is a product of powers.
LEMMA PowerSum ==
  ASSUME NEW x \in Int, NEW m \in Nat, NEW n \in Nat
  PROVE  Power(x, m + n) = Power(x, m) * Power(x, n)
<1> DEFINE G == {k \in Nat : Power(x, m + k) = Power(x, m) * Power(x, k)}
<1>1. 0 \in G
  <2>1. m + 0 = m /\ Power(x, m) \in Int /\ Power(x, 0) = 1
    BY PowerStep
  <2> QED
    BY <2>1
<1>2. ASSUME NEW k \in Nat, k \in G PROVE k + 1 \in G
  <2>1. m + (k + 1) = (m + k) + 1 /\ m + k \in Nat
    OBVIOUS
  <2>2. Power(x, (m + k) + 1) = x * Power(x, m + k) /\ Power(x, k + 1) = x * Power(x, k)
    BY <2>1, PowerStep
  <2>3. Power(x, m) \in Int /\ Power(x, k) \in Int
    BY PowerStep
  <2>4. Power(x, m + k) = Power(x, m) * Power(x, k)
    BY <1>2
  <2> HIDE DEF G
  <2>5. x * (Power(x, m) * Power(x, k)) = Power(x, m) * (x * Power(x, k))
    BY <2>3
  <2>6. Power(x, m + (k + 1)) = Power(x, m) * Power(x, k + 1)
    BY <2>1, <2>2, <2>4, <2>5
  <2> QED
    BY <2>6 DEF G
<1> HIDE DEF G
<1>3. Nat \subseteq G
  BY <1>1, <1>2, NumberInduction
<1> QED
  BY <1>3 DEF G

\* A product of n numbers up to u is at most the n-th power of u.
LEMMA ProductBound ==
  ASSUME NEW u \in Nat, NEW f, NEW S, IsFiniteSet(S), \A x \in S : f[x] \in 0..u
  PROVE  /\ Summable(f, S) /\ Cardinality(S) \in Nat
         /\ 0 <= Product(f, S) /\ Product(f, S) <= Power(u, Cardinality(S))
<1> DEFINE G == {T \in SUBSET S : /\ Cardinality(T) \in Nat /\ 0 <= Product(f, T)
                                  /\ Product(f, T) <= Power(u, Cardinality(T))}
<1>0. Summable(f, S)
  BY DEF Summable
<1>1. {} \in G
  <2>1. Product(f, {}) = 1
    BY ProductEmpty
  <2>2. Cardinality({}) = 0
    BY FS_EmptySet
  <2>3. u \in Int /\ Power(u, 0) = 1
    BY PowerStep
  <2> QED
    BY <2>1, <2>2, <2>3
<1>2. ASSUME NEW T \in SUBSET S, NEW x \in S \ T, T \in G PROVE T \cup {x} \in G
  <2>1. /\ Product(f, T) \in Int /\ f[x] \in Int
        /\ Product(f, T \cup {x}) = f[x] * Product(f, T)
    BY <1>0, ProductMore
  <2>2. Cardinality(T \cup {x}) = Cardinality(T) + 1
    BY FS_Subset, FS_AddElement
  <2>3. Cardinality(T) \in Nat /\ 0 <= Product(f, T) /\ Product(f, T) <= Power(u, Cardinality(T))
    BY <1>2
  <2>4. Power(u, Cardinality(T) + 1) = u * Power(u, Cardinality(T)) /\ Power(u, Cardinality(T)) \in Int
    BY <2>3, PowerStep
  <2>5. 0 <= f[x] /\ f[x] <= u
    OBVIOUS
  <2> HIDE DEF G
  <2> DEFINE a == f[x]  p == Product(f, T)  q == Power(u, Cardinality(T))
  <2>6. a \in Int /\ p \in Int /\ q \in Int /\ 0 <= a /\ a <= u /\ 0 <= p /\ p <= q
    BY <2>1, <2>3, <2>4, <2>5
  <2> HIDE DEF a, p, q
  <2>7. 0 <= a * p /\ a * p <= u * p /\ u * p <= u * q
    BY <2>6
  <2>8. a * p <= u * q
    BY <2>6, <2>7
  <2>9. 0 <= Product(f, T \cup {x}) /\ Product(f, T \cup {x}) <= Power(u, Cardinality(T \cup {x}))
    BY <2>1, <2>2, <2>4, <2>7, <2>8 DEF a, p, q
  <2> QED
    BY <2>2, <2>3, <2>9 DEF G
<1> HIDE DEF G
<1>3. S \in G
  BY <1>1, <1>2, SetInduction
<1> QED
  BY <1>0, <1>3 DEF G

\* A product is that over a part times that over the rest.
LEMMA ProductSplit ==
  ASSUME NEW f, NEW S, Summable(f, S), NEW A \in SUBSET S
  PROVE  /\ Summable(f, A) /\ Summable(f, S \ A)
         /\ Product(f, S) = Product(f, A) * Product(f, S \ A)
<1> DEFINE R == S \ A
           G == {T \in SUBSET A : Product(f, T \cup R) = Product(f, T) * Product(f, R)}
<1>0. Summable(f, A) /\ Summable(f, R) /\ IsFiniteSet(A)
  BY FS_Subset DEF Summable
<1>1. {} \in G
  <2>1. {} \cup R = R
    OBVIOUS
  <2> QED
    BY <1>0, <2>1, ProductEmpty, ProductOne
<1>2. ASSUME NEW T \in SUBSET A, NEW x \in A \ T, T \in G PROVE T \cup {x} \in G
  <2>1. /\ Product(f, T) \in Int /\ f[x] \in Int
        /\ Product(f, T \cup {x}) = f[x] * Product(f, T)
    BY <1>0, ProductMore
  <2>2. /\ T \cup R \in SUBSET S /\ x \in S \ (T \cup R)
        /\ (T \cup R) \cup {x} = (T \cup {x}) \cup R
    OBVIOUS
  <2>3. Product(f, (T \cup {x}) \cup R) = f[x] * Product(f, T \cup R)
    <3> DEFINE W == T \cup R
    <3>1. W \in SUBSET S /\ x \in S \ W
      BY <2>2
    <3> HIDE DEF W
    <3>2. Product(f, W \cup {x}) = f[x] * Product(f, W)
      BY <3>1, ProductMore
    <3> QED
      BY <2>2, <3>2 DEF W
  <2>4. Product(f, T \cup R) = Product(f, T) * Product(f, R)
    BY <1>2
  <2>5. Product(f, R) \in Int
    BY <1>0, ProductOne
  <2> HIDE DEF G, R
  <2>6. Product(f, (T \cup {x}) \cup R) = Product(f, T \cup {x}) * Product(f, R)
    BY <2>1, <2>3, <2>4, <2>5
  <2> QED
    BY <2>6 DEF G
<1> HIDE DEF G, R
<1>3. A \in G
  BY <1>0, <1>1, <1>2, SetInduction
<1>4. A \cup R = S
  BY DEF R
<1> QED
  BY <1>0, <1>3, <1>4 DEF G, R

-----------------------------------------------------------------------------
(* Recursion. *)

\* The first n values of a recursion.
LEMMA Recursion ==
  ASSUME NEW V, NEW b \in V, NEW n \in Nat, NEW step \in [1..n -> [V -> V]]
  PROVE  \E h \in [0..n -> V] : h[0] = b /\ \A k \in 1..n : h[k] = step[k][h[k - 1]]
<1> DEFINE Reaches(m, h) == /\ h \in [0..m -> V] /\ h[0] = b
                            /\ \A k \in 1..m : h[k] = step[k][h[k - 1]]
           G == {m \in Nat : m <= n => \E h : Reaches(m, h)}
<1>1. 0 \in G
  <2>1. Reaches(0, [k \in 0..0 |-> b])
    OBVIOUS
  <2> QED
    BY <2>1
<1>2. ASSUME NEW m \in Nat, m \in G PROVE m + 1 \in G
  <2> SUFFICES ASSUME m + 1 <= n PROVE \E h : Reaches(m + 1, h)
    OBVIOUS
  <2>1. PICK h : Reaches(m, h)
    BY <1>2
  <2> DEFINE h2 == [k \in 0..(m + 1) |-> IF k = m + 1 THEN step[m + 1][h[m]] ELSE h[k]]
  <2>2. h[m] \in V /\ m + 1 \in 1..n /\ step[m + 1] \in [V -> V]
    BY <2>1
  <2>3. h2 \in [0..(m + 1) -> V]
    BY <2>1, <2>2
  <2>4. h2[0] = b
    BY <2>1
  <2>5. ASSUME NEW k \in 1..(m + 1) PROVE h2[k] = step[k][h2[k - 1]]
    <3>1. CASE k = m + 1
      BY <3>1
    <3>2. CASE k # m + 1
      <4>1. k \in 1..m /\ k \in 0..(m + 1) /\ k - 1 \in 0..(m + 1) /\ k - 1 # m + 1
        BY <3>2
      <4> QED
        BY <2>1, <4>1
    <3> QED
      BY <3>1, <3>2
  <2> HIDE DEF h2
  <2>6. Reaches(m + 1, h2)
    BY <2>3, <2>4, <2>5
  <2> QED
    BY <2>6
<1> HIDE DEF G
<1>3. Nat \subseteq G
  BY <1>1, <1>2, NumberInduction
<1>4. n \in G /\ n <= n
  BY <1>3
<1> QED
  BY <1>4 DEF G

-----------------------------------------------------------------------------
(* The resolver. *)

\* What the engine can decide.
Decisions == {"PERMIT", "CONSTRAIN", "THROTTLE", "STEP_UP", "DENY"}

\* The decision about a candidate is one of the five.
LEMMA DecisionType ==
  ASSUME NEW strategy, NEW q, NEW cs
  PROVE  Decision(strategy, q, cs) \in Decisions
<1> DEFINE k == Selected(strategy, cs)
           c == cs[k]
<1>1. \/ resolveTrustRoute(strategy, q, cs) = Denied
      \/ resolveTrustRoute(strategy, q, cs) = [decision |-> Terms(q, c), path |-> k]
  BY Zenon DEF resolveTrustRoute
<1> HIDE DEF k, c
<1>2. Terms(q, c) \in Decisions
  BY DEF Terms, Decisions
<1>3. Decision(strategy, q, cs) = "DENY" \/ Decision(strategy, q, cs) = Terms(q, c)
  BY <1>1 DEF Decision, Denied
<1> QED
  BY <1>2, <1>3 DEF Decisions

\* What a receipt of the service is made from.
LEMMA ReceiptIssued ==
  ASSUME ServiceInv, NEW r \in Requests, Authorize(r)
  PROVE  ServiceInv'
<1> DEFINE x == [request |-> r, id |-> Len(log) + 1,
                 decision |-> Decision("strongest_path_wins", RequestOf[r], demoCandidates(r)),
                 prior |-> prior]
<1>1. /\ pending' = pending \ {r} /\ prior' = x.id
      /\ receipts' = Append(receipts, x) /\ log' = Append(log, x)
      /\ UNCHANGED <<revocations, attestations, restarts>>
  BY DEF Authorize
<1>2. /\ TypeOK /\ OneChain /\ receipts \in Seq(Receipt) /\ log \in Seq(Receipt)
      /\ prior \in Nat /\ Len(log) \in Nat /\ Len(receipts) \in Nat
  BY DEF ServiceInv, TypeOK
<1>3. x \in Receipt /\ x.prior = prior /\ x.id = Len(log) + 1 /\ x.id \in Nat
  <2>1. Decision("strongest_path_wins", RequestOf[r], demoCandidates(r)) \in Decisions
    BY DecisionType
  <2> QED
    BY <1>2, <2>1 DEF Receipt, Decisions
<1> HIDE DEF x
<1>4. /\ receipts' \in Seq(Receipt) /\ Len(receipts') = Len(receipts) + 1
      /\ receipts'[Len(receipts) + 1] = x
      /\ \A k \in 1..Len(receipts) : receipts'[k] = receipts[k]
  BY <1>1, <1>2, <1>3
<1>5. log' \in Seq(Receipt) /\ Len(log') = Len(log) + 1
  BY <1>1, <1>2, <1>3
<1>6. TypeOK'
  <2>1. pending' \subseteq Requests /\ revocations' \cup attestations' \subseteq Subjects
    BY <1>1 DEF ServiceInv, TypeOK
  <2>2. prior' \in 0..Len(log')
    BY <1>1, <1>2, <1>3, <1>5
  <2> QED
    BY <1>1, <1>2, <1>4, <1>5, <2>1, <2>2 DEF TypeOK
<1>7. receipts' # <<>> /\ Last(receipts') = x
  BY <1>2, <1>4 DEF Last
<1>8. ASSUME NEW k \in 1..Len(receipts')
      PROVE  receipts'[k].prior = IF k = 1 THEN 0 ELSE receipts'[k - 1].id
  <2>1. CASE k \in 1..Len(receipts)
    <3>1. receipts[k].prior = IF k = 1 THEN 0 ELSE receipts[k - 1].id
      BY <1>2, <2>1 DEF OneChain
    <3>2. receipts'[k] = receipts[k] /\ (k # 1 => receipts'[k - 1] = receipts[k - 1])
      BY <1>2, <1>4, <2>1, SMTT(30)
    <3> QED
      BY <3>1, <3>2
  <2>2. CASE k = Len(receipts) + 1
    <3>1. prior = IF receipts = <<>> THEN 0 ELSE receipts[Len(receipts)].id
      BY <1>2 DEF OneChain, Last
    <3>2. receipts = <<>> <=> k = 1
      BY <1>2, <2>2
    <3>3. k # 1 => receipts'[k - 1] = receipts[Len(receipts)]
      BY <1>2, <1>4, <2>2
    <3>4. receipts'[k].prior = prior
      BY <1>3, <1>4, <2>2
    <3> QED
      BY <3>1, <3>2, <3>3, <3>4
  <2> QED
    BY <1>2, <1>4, <2>1, <2>2
<1>9. OneChain'
  BY <1>1, <1>7, <1>8 DEF OneChain
<1> QED
  BY <1>6, <1>9 DEF ServiceInv

\* Every step of the service keeps the invariant.
LEMMA ServiceStep == ServiceInv /\ [Next]_vars => ServiceInv'
<1> SUFFICES ASSUME ServiceInv, [Next]_vars PROVE ServiceInv'
  OBVIOUS
<1>1. ASSUME pending' \subseteq Requests, revocations' \cup attestations' \subseteq Subjects,
             UNCHANGED <<receipts, prior, log, restarts>>
      PROVE  ServiceInv'
  BY <1>1 DEF ServiceInv, TypeOK, OneChain
<1>2. ASSUME NEW r \in Requests, Arrive(r) \/ Refuse(r) PROVE ServiceInv'
  BY <1>1, <1>2 DEF Arrive, Refuse, ServiceInv, TypeOK
<1>3. ASSUME NEW s \in Subjects, Revoke(s) \/ Attest(s) PROVE ServiceInv'
  BY <1>1, <1>3 DEF Revoke, Attest, ServiceInv, TypeOK
<1>4. CASE Restart
  <2>1. /\ pending' = {} /\ revocations' = {} /\ attestations' = {} /\ receipts' = <<>>
        /\ prior' = 0 /\ log' = log /\ restarts' = restarts + 1 /\ restarts < MaxRestarts
    BY <1>4 DEF Restart
  <2>2. restarts' \in 0..MaxRestarts /\ prior' \in 0..Len(log') /\ log' \in Seq(Receipt)
    BY <2>1, ResolverAssumption DEF ServiceInv, TypeOK
  <2>3. receipts' \in Seq(Receipt) /\ Len(receipts') = 0
    BY <2>1
  <2>4. TypeOK'
    BY <2>1, <2>2, <2>3 DEF TypeOK
  <2>5. OneChain'
    BY <2>1, <2>3 DEF OneChain
  <2> QED
    BY <2>4, <2>5 DEF ServiceInv
<1>5. CASE UNCHANGED vars
  BY <1>1, <1>5 DEF vars, ServiceInv, TypeOK
<1> QED
  BY <1>2, <1>3, <1>4, <1>5, ReceiptIssued DEF Next

(* The receipts the service holds are one chain, in whatever order bodies   *)
(* arrive and subjects are revoked, and however often it restarts           *)
(* (server.mjs 101-121).                                                    *)
THEOREM ServiceHolds == Spec => []ServiceInv
<1>1. Init => ServiceInv
  <2> SUFFICES ASSUME Init PROVE ServiceInv
    OBVIOUS
  <2>1. /\ pending = {} /\ revocations = {} /\ attestations = {} /\ receipts = <<>>
        /\ prior = 0 /\ log = <<>> /\ restarts = 0
    BY DEF Init
  <2>2. receipts \in Seq(Receipt) /\ log \in Seq(Receipt) /\ Len(receipts) = 0 /\ Len(log) = 0
    BY <2>1
  <2> QED
    BY <2>1, <2>2, ResolverAssumption DEF ServiceInv, TypeOK, OneChain
<1> QED
  BY <1>1, ServiceStep, PTL DEF Spec

-----------------------------------------------------------------------------
(* The engine. *)

\* Scores are numbers.
LEMMA ScoreType == \A x \in Scores : x \in Int
<1>1. Scores \subseteq 0..100
  BY RoutingAssumption
<1>2. \A x \in 0..100 : x \in Int
  OBVIOUS
<1> QED
  BY <1>1, <1>2, Zenon

\* The fields of a candidate.
LEMMA CandidateType ==
  ASSUME NEW c \in Candidate
  PROVE  c.score \in Int /\ c.minimum \in Int /\ c.age \in Int
<1>1. c.score \in Scores /\ c.minimum \in 0..100 /\ c.age \in Nat
  BY DEF Candidate
<1> QED
  BY <1>1, ScoreType

\* How strict each decision is.
LEMMA Restrictions ==
  /\ Restriction("PERMIT") = 1 /\ Restriction("CONSTRAIN") = 2 /\ Restriction("THROTTLE") = 3
  /\ Restriction("STEP_UP") = 4 /\ Restriction("DENY") = 5
<1> DEFINE t == <<"PERMIT", "CONSTRAIN", "THROTTLE", "STEP_UP", "DENY">>
<1>1. /\ t[1] = "PERMIT" /\ t[2] = "CONSTRAIN" /\ t[3] = "THROTTLE"
      /\ t[4] = "STEP_UP" /\ t[5] = "DENY"
      /\ \A k \in 1..5 : k = 1 \/ k = 2 \/ k = 3 \/ k = 4 \/ k = 5
  OBVIOUS
<1> HIDE DEF t
<1>2. \A d : Restriction(d) = CHOOSE k \in 1..5 : t[k] = d
  BY DEF Restriction, t
<1>3. /\ \A k \in 1..5 : t[k] = "PERMIT" <=> k = 1
      /\ \A k \in 1..5 : t[k] = "CONSTRAIN" <=> k = 2
      /\ \A k \in 1..5 : t[k] = "THROTTLE" <=> k = 3
      /\ \A k \in 1..5 : t[k] = "STEP_UP" <=> k = 4
      /\ \A k \in 1..5 : t[k] = "DENY" <=> k = 5
  BY <1>1
<1> QED
  BY <1>2, <1>3

(* The five decisions, from the least to the most restrictive.              *)
LEMMA Rank ==
  /\ \A d \in Decisions : Restriction(d) \in 1..5 /\ ~LooserThan("DENY", d) /\ ~LooserThan(d, d)
BY Restrictions DEF Decisions, LooserThan

(* A strategy that demands more denies, or answers like the other.          *)
LEMMA DemandsTighten ==
  ASSUME NEW q, NEW cs
  PROVE  DemandsOnlyTighten(q, cs)
<1>1. ASSUME NEW s, NEW t,
             \/ s = "require_all" /\ t = "require_any"
             \/ s = "domain_hard_deny_overrides_all" /\ t = "strongest_path_wins"
      PROVE  ~LooserThan(Decision(s, q, cs), Decision(t, q, cs))
  <2>1. ~Withheld(t, cs) /\ Selected(s, cs) = Strongest(cs) /\ Selected(t, cs) = Strongest(cs)
    BY <1>1 DEF Withheld, Selected
  <2>2. \/ resolveTrustRoute(s, q, cs) = Denied
        \/ resolveTrustRoute(s, q, cs) = resolveTrustRoute(t, q, cs)
    BY <2>1, Zenon DEF resolveTrustRoute
  <2>3. Decision(s, q, cs) = "DENY" \/ Decision(s, q, cs) = Decision(t, q, cs)
    BY <2>2 DEF Decision, Denied
  <2> QED
    BY <2>3, DecisionType, Rank
<1> QED
  BY <1>1 DEF DemandsOnlyTighten

(* A revoked candidate denies.                                              *)
LEMMA RevocationDenies ==
  ASSUME NEW q, NEW cs
  PROVE  RevokedDenies(q, cs)
<1> SUFFICES ASSUME \E k \in 1..Len(cs) : cs[k].revoked, NEW s \in Strategies
             PROVE  Decision(s, q, cs) = "DENY"
  BY DEF RevokedDenies
<1>1. resolveTrustRoute(s, q, cs) = Denied
  BY Zenon DEF resolveTrustRoute
<1> QED
  BY <1>1 DEF Decision, Denied

(* Of one candidate, the one that is selected is that one.                  *)
LEMMA OneCandidate ==
  ASSUME NEW c \in Candidate, NEW strategy
  PROVE  LET cs == <<c>> IN
         /\ Valid(cs) = IF c.fits /\ c.score >= c.minimum THEN {1} ELSE {}
         /\ Valid(cs) # {} => Selected(strategy, cs) = 1
         /\ Withheld(strategy, cs) <=>
              \/ strategy = "require_all" /\ Valid(cs) = {}
              \/ /\ strategy = "domain_hard_deny_overrides_all"
                 /\ Valid(cs) # {} /\ c.issuer = "domain" /\ c.refuses
<1> DEFINE cs == <<c>>
<1>1. Len(cs) = 1 /\ cs[1] = c /\ 1..Len(cs) = {1}
  OBVIOUS
<1> HIDE DEF cs
<1>2. Valid(cs) = IF c.fits /\ c.score >= c.minimum THEN {1} ELSE {}
  BY <1>1 DEF Valid
<1>3. First({1}) = 1
  BY DEF First
<1>4. ASSUME Valid(cs) # {} PROVE Selected(strategy, cs) = 1
  <2>1. Valid(cs) = {1}
    BY <1>2, <1>4
  <2>2. c.score \in Int /\ c.age \in Int
    BY CandidateType
  <2>3. Strongest(cs) = 1 /\ Freshest(cs) = 1
    <3>1. {k \in Valid(cs) : \A j \in Valid(cs) : cs[j].score <= cs[k].score} = {1}
      BY <1>1, <2>1, <2>2
    <3>2. {k \in Valid(cs) : \A j \in Valid(cs) : cs[k].age <= cs[j].age} = {1}
      BY <1>1, <2>1, <2>2
    <3> QED
      BY <1>3, <3>1, <3>2 DEF Strongest, Freshest
  <2>4. Supervisors(cs) # {} => Supervisors(cs) = {1}
    BY <2>1 DEF Supervisors
  <2> QED
    BY <1>3, <2>3, <2>4, Zenon DEF Selected
<1>5. Withheld(strategy, cs) <=>
        \/ strategy = "require_all" /\ Valid(cs) = {}
        \/ /\ strategy = "domain_hard_deny_overrides_all"
           /\ Valid(cs) # {} /\ c.issuer = "domain" /\ c.refuses
  BY <1>1, <1>2 DEF Withheld
<1> QED
  BY <1>2, <1>4, <1>5 DEF cs

(* What a score decides: the terms are no looser for a lower one.           *)
LEMMA TermsFollowScore ==
  ASSUME NEW q \in Request, NEW c \in Candidate, NEW score \in Scores, score >= c.score,
         trustZone(c.score) # "critical"
  PROVE  LET d == [c EXCEPT !.score = score] IN
         /\ trustZone(d.score) # "critical"
         /\ ~LooserThan(Terms(q, c), Terms(q, d))
<1> DEFINE d == [c EXCEPT !.score = score]
<1>1. d.score = score /\ d.stepUp = c.stepUp /\ c.score \in Int /\ score \in Int
  BY RoutingAssumption DEF Candidate
<1> HIDE DEF d
<1>2. /\ trustZone(d.score) # "critical"
      /\ trustZone(d.score) = "warning" => trustZone(c.score) = "warning"
      /\ trustZone(d.score) = "degraded" => trustZone(c.score) \in {"warning", "degraded"}
  BY <1>1 DEF trustZone
<1>3. Restriction(Terms(q, c)) >= Restriction(Terms(q, d))
  BY <1>1, <1>2, Restrictions DEF Terms
<1>4. Terms(q, c) \in Decisions /\ Terms(q, d) \in Decisions
  BY DEF Terms, Decisions
<1>5. ~LooserThan(Terms(q, c), Terms(q, d))
  BY <1>3, <1>4, Rank DEF LooserThan
<1> QED
  BY <1>2, <1>5 DEF d

\* More trust never makes the decision about a candidate stricter.
LEMMA TrustHelps ==
  ASSUME NEW q \in Request, NEW cs \in Seq(Candidate)
  PROVE  TrustOnlyHelps(q, cs)
<1> SUFFICES ASSUME NEW s \in Strategies, NEW score \in Scores, Len(cs) = 1, score >= cs[1].score
             PROVE  ~LooserThan(Decision(s, q, cs),
                                Decision(s, q, <<[cs[1] EXCEPT !.score = score]>>))
  BY DEF TrustOnlyHelps
<1> DEFINE c  == cs[1]
           d  == [c EXCEPT !.score = score]
           ds == <<d>>
<1>1. c \in Candidate /\ cs = <<c>>
  <2>1. 1 \in 1..Len(cs)
    OBVIOUS
  <2>2. cs = <<cs[1]>>
    OBVIOUS
  <2> QED
    BY <2>1, <2>2, SMTT(30)
<1>2. /\ d \in Candidate /\ d.score = score
      /\ d.fits = c.fits /\ d.minimum = c.minimum /\ d.revoked = c.revoked
      /\ d.issuer = c.issuer /\ d.refuses = c.refuses
  BY <1>1 DEF Candidate
<1>3. c.score \in Int /\ score \in Int /\ c.minimum \in Int
  <2>1. score \in Int
    BY ScoreType
  <2> QED
    BY <1>1, <2>1, CandidateType
<1>4. /\ ~LooserThan("DENY", Decision(s, q, ds))
      /\ Decision(s, q, cs) \in Decisions
  BY DecisionType, Rank
<1>5. CASE Decision(s, q, cs) = "DENY"
  BY <1>4, <1>5
<1>6. CASE Decision(s, q, cs) # "DENY"
  <2> HIDE DEF c, d
  <2>1. /\ Valid(cs) = IF c.fits /\ c.score >= c.minimum THEN {1} ELSE {}
        /\ Valid(cs) # {} => Selected(s, cs) = 1
        /\ Withheld(s, cs) <=>
             \/ s = "require_all" /\ Valid(cs) = {}
             \/ /\ s = "domain_hard_deny_overrides_all"
                /\ Valid(cs) # {} /\ c.issuer = "domain" /\ c.refuses
    BY <1>1, OneCandidate
  <2>2. /\ Valid(ds) = IF d.fits /\ d.score >= d.minimum THEN {1} ELSE {}
        /\ Valid(ds) # {} => Selected(s, ds) = 1
        /\ Withheld(s, ds) <=>
             \/ s = "require_all" /\ Valid(ds) = {}
             \/ /\ s = "domain_hard_deny_overrides_all"
                /\ Valid(ds) # {} /\ d.issuer = "domain" /\ d.refuses
    BY <1>2, OneCandidate
  <2>3. /\ q.served /\ q.provable /\ q.bound /\ q.hashed
        /\ ~\E k \in 1..Len(cs) : cs[k].revoked
        /\ Valid(cs) # {} /\ ~Withheld(s, cs)
        /\ trustZone(cs[Selected(s, cs)].score) # "critical"
        /\ ~(q.late /\ q.action \in highRiskActions)
        /\ Decision(s, q, cs) = Terms(q, cs[Selected(s, cs)])
    <3>1. resolveTrustRoute(s, q, cs) # Denied
      BY <1>6 DEF Decision, Denied
    <3> QED
      BY <3>1, Zenon DEF resolveTrustRoute, Decision
  <2>4. Selected(s, cs) = 1 /\ cs[1] = c
    BY <2>1, <2>3 DEF c
  <2>5. Valid(ds) # {} /\ ~Withheld(s, ds) /\ Selected(s, ds) = 1 /\ ds[1] = d
    <3>1. c.fits /\ c.score >= c.minimum /\ score >= c.score
      BY <2>1, <2>3 DEF c
    <3>2. d.fits /\ d.score >= d.minimum
      BY <1>2, <1>3, <3>1
    <3> QED
      BY <1>2, <2>1, <2>2, <2>3, <3>2
  <2>6. ~\E k \in 1..Len(ds) : ds[k].revoked
    BY <1>2, <2>3, <2>4
  <2>7. trustZone(d.score) # "critical" /\ ~LooserThan(Terms(q, c), Terms(q, d))
    <3>1. trustZone(c.score) # "critical" /\ score >= c.score
      BY <2>3, <2>4 DEF c
    <3> QED
      BY <1>1, <3>1, TermsFollowScore DEF d
  <2>8. Decision(s, q, ds) = Terms(q, d)
    <3>1. resolveTrustRoute(s, q, ds) = [decision |-> Terms(q, d), path |-> 1]
      BY <2>3, <2>5, <2>6, <2>7, Zenon DEF resolveTrustRoute
    <3> QED
      BY <3>1 DEF Decision
  <2> QED
    BY <2>3, <2>4, <2>7, <2>8 DEF d, c
<1> QED
  BY <1>5, <1>6

(* resolve.js: whatever the request, and however many candidates: a strategy *)
(* that demands more is never looser than the one it adds to, a revoked     *)
(* candidate denies under each strategy, and more trust in a single path is *)
(* never answered more restrictively (resolve.js 54-140).                   *)
THEOREM DecisionsFollow ==
  \A q \in Request, cs \in Seq(Candidate) :
    DemandsOnlyTighten(q, cs) /\ RevokedDenies(q, cs) /\ TrustOnlyHelps(q, cs)
BY DemandsTighten, RevocationDenies, TrustHelps

-----------------------------------------------------------------------------
(* Chains. *)

\* f is the first n links of the chain s, and g the others.
Cut(s, n, f, g) ==
  /\ n \in Nat /\ n >= 1 /\ n < Len(s) /\ Len(s) \in Nat
  /\ Len(f) = n /\ \A k \in 1..n : f[k] = s[k]
  /\ Len(g) = Len(s) - n /\ \A k \in 1..(Len(s) - n) : g[k] = s[n + k]

\* What a cut leaves of a chain.
LEMMA CutParts ==
  ASSUME NEW S, NEW s \in Seq(S), NEW n \in 1..(Len(s) - 1)
  PROVE  Cut(s, n, SubSeq(s, 1, n), SubSeq(s, n + 1, Len(s)))
<1>1. n \in Nat /\ n >= 1 /\ n < Len(s) /\ Len(s) \in Nat
  OBVIOUS
<1>2. \A k \in 1..Len(s) : s[k] \in S
  OBVIOUS
<1>3. \A k \in 1..n : s[k] \in S
  BY <1>1, <1>2
<1>4. \A k \in (n + 1)..Len(s) : s[k] \in S
  BY <1>1, <1>2
<1>5. /\ Len(SubSeq(s, 1, n)) = n - 1 + 1
      /\ \A k \in 1..(n - 1 + 1) : SubSeq(s, 1, n)[k] = s[1 + k - 1]
  BY <1>1, <1>3, SubSeqProperties
<1>6. /\ Len(SubSeq(s, n + 1, Len(s))) = Len(s) - (n + 1) + 1
      /\ \A k \in 1..(Len(s) - (n + 1) + 1) : SubSeq(s, n + 1, Len(s))[k] = s[n + 1 + k - 1]
  <2>1. n + 1 \in Int /\ Len(s) \in Int /\ n + 1 <= Len(s)
    BY <1>1
  <2> QED
    BY <2>1, <1>4, SubSeqProperties
<1> QED
  BY <1>1, <1>5, <1>6 DEF Cut

\* A chain that is continuous is so in its parts, which meet where it is cut.
LEMMA CutContinuous ==
  ASSUME NEW s, NEW n, NEW f, NEW g, Cut(s, n, f, g),
         s # <<>>, f # <<>>, g # <<>>
  PROVE  Continuous(s) <=> /\ Continuous(f) /\ Continuous(g)
                           /\ s[n + 1].issuer = s[n].subject
<1> USE DEF Cut
<1>1. \A k \in 1..Len(s) : k \in 1..n \/ (k - n \in 1..(Len(s) - n) /\ n + (k - n) = k)
  OBVIOUS
<1>2. \A k \in 2..Len(s) :
        \/ k \in 2..n
        \/ k = n + 1
        \/ k - n \in 2..(Len(s) - n) /\ n + (k - n) = k /\ n + (k - n - 1) = k - 1
  OBVIOUS
<1>3. ASSUME Continuous(s)
      PROVE  Continuous(f) /\ Continuous(g) /\ s[n + 1].issuer = s[n].subject
  <2>1. /\ \A k \in 1..Len(s) : s[k].issuer # s[k].subject
        /\ \A k \in 2..Len(s) : s[k].issuer = s[k - 1].subject
    BY <1>3 DEF Continuous
  <2>2. Continuous(f)
    BY <2>1, SMTT(30) DEF Continuous
  <2>3. ASSUME NEW k \in 1..(Len(s) - n)
        PROVE  g[k].issuer # g[k].subject
    <3>1. n + k \in 1..Len(s) /\ g[k] = s[n + k]
      OBVIOUS
    <3> QED
      BY <2>1, <3>1
  <2>4. ASSUME NEW k \in 2..(Len(s) - n)
        PROVE  g[k].issuer = g[k - 1].subject
    <3>1. /\ k \in 1..(Len(s) - n) /\ k - 1 \in 1..(Len(s) - n)
          /\ n + k \in 2..Len(s) /\ n + (k - 1) = n + k - 1
      OBVIOUS
    <3>2. g[k] = s[n + k] /\ g[k - 1] = s[n + k - 1]
      BY <3>1
    <3> QED
      BY <2>1, <3>1, <3>2
  <2>5. n + 1 \in 2..Len(s) /\ n + 1 - 1 = n
    OBVIOUS
  <2> QED
    BY <2>1, <2>2, <2>3, <2>4, <2>5 DEF Continuous
<1>4. ASSUME Continuous(f), Continuous(g), s[n + 1].issuer = s[n].subject
      PROVE  Continuous(s)
  <2>1. /\ \A k \in 1..n : f[k].issuer # f[k].subject
        /\ \A k \in 2..n : f[k].issuer = f[k - 1].subject
        /\ \A k \in 1..(Len(s) - n) : g[k].issuer # g[k].subject
        /\ \A k \in 2..(Len(s) - n) : g[k].issuer = g[k - 1].subject
    BY <1>4 DEF Continuous
  <2>2. ASSUME NEW k \in 1..Len(s)
        PROVE  s[k].issuer # s[k].subject
    <3>1. CASE k \in 1..n
      BY <2>1, <3>1
    <3>2. CASE k - n \in 1..(Len(s) - n) /\ n + (k - n) = k
      <4>1. g[k - n] = s[k]
        BY <3>2
      <4> QED
        BY <2>1, <3>2, <4>1
    <3> QED
      BY <1>1, <3>1, <3>2
  <2>3. ASSUME NEW k \in 2..Len(s)
        PROVE  s[k].issuer = s[k - 1].subject
    <3>1. CASE k \in 2..n
      <4>1. k \in 1..n /\ k - 1 \in 1..n
        BY <3>1
      <4> QED
        BY <2>1, <3>1, <4>1
    <3>2. CASE k = n + 1
      <4>1. k - 1 = n
        BY <3>2
      <4> QED
        BY <1>4, <3>2, <4>1
    <3>3. CASE k - n \in 2..(Len(s) - n) /\ n + (k - n) = k /\ n + (k - n - 1) = k - 1
      <4>1. k - n \in 1..(Len(s) - n) /\ k - n - 1 \in 1..(Len(s) - n)
        BY <3>3
      <4>2. g[k - n] = s[k] /\ g[k - n - 1] = s[k - 1]
        BY <3>3, <4>1
      <4> QED
        BY <2>1, <3>3, <4>2
    <3> QED
      BY <1>2, <3>1, <3>2, <3>3
  <2> QED
    BY <2>2, <2>3 DEF Continuous
<1> QED
  BY <1>3, <1>4

\* Every link but the last of a chain is handed on: those of the first part, the one at
\* the cut, and those of the second.
LEMMA CutHandedOn ==
  ASSUME NEW s, NEW n, NEW f, NEW g, Cut(s, n, f, g)
  PROVE  HandedOn(s) <=> HandedOn(f) /\ s[n].transferable /\ HandedOn(g)
<1> USE DEF Cut
<1>1. ASSUME HandedOn(s)
      PROVE  HandedOn(f) /\ s[n].transferable /\ HandedOn(g)
  <2>1. \A k \in 1..(Len(s) - 1) : s[k].transferable
    BY <1>1 DEF HandedOn
  <2>2. ASSUME NEW k \in 1..(Len(g) - 1)
        PROVE  g[k].transferable
    <3>1. n + k \in 1..(Len(s) - 1) /\ g[k] = s[n + k]
      OBVIOUS
    <3> QED
      BY <2>1, <3>1
  <2> QED
    BY <2>1, <2>2 DEF HandedOn
<1>2. ASSUME HandedOn(f), s[n].transferable, HandedOn(g), NEW k \in 1..(Len(s) - 1)
      PROVE  s[k].transferable
  <2>1. /\ \A j \in 1..(n - 1) : f[j].transferable
        /\ \A j \in 1..(Len(s) - n - 1) : g[j].transferable
    BY <1>2 DEF HandedOn
  <2>2. CASE k \in 1..(n - 1)
    BY <2>1, <2>2
  <2>3. CASE k = n
    BY <1>2, <2>3
  <2>4. CASE k > n
    <3>1. k - n \in 1..(Len(s) - n - 1) /\ k - n \in 1..(Len(s) - n) /\ n + (k - n) = k
      BY <2>4
    <3>2. g[k - n] = s[k]
      BY <3>1
    <3> QED
      BY <2>1, <3>1, <3>2
  <2> QED
    BY <2>2, <2>3, <2>4
<1> QED
  BY <1>1, <1>2 DEF HandedOn

\* Every link of a sequence holds by itself.
LinksHold(q, s) == \A k \in 1..Len(s) : LinkHolds(q, s[k])

\* The links of a chain hold if and only if those of both its parts do.
LEMMA CutLinks ==
  ASSUME NEW q, NEW s, NEW n, NEW f, NEW g, Cut(s, n, f, g)
  PROVE  LinksHold(q, s) <=> LinksHold(q, f) /\ LinksHold(q, g)
<1> USE DEF Cut
<1>1. ASSUME LinksHold(q, s)
      PROVE  LinksHold(q, f) /\ LinksHold(q, g)
  <2>1. \A k \in 1..Len(s) : LinkHolds(q, s[k])
    BY <1>1 DEF LinksHold
  <2>2. ASSUME NEW k \in 1..Len(g)
        PROVE  LinkHolds(q, g[k])
    <3>1. n + k \in 1..Len(s) /\ g[k] = s[n + k]
      OBVIOUS
    <3> QED
      BY <2>1, <3>1
  <2>3. ASSUME NEW k \in 1..Len(f)
        PROVE  LinkHolds(q, f[k])
    <3>1. k \in 1..Len(s) /\ f[k] = s[k]
      OBVIOUS
    <3> QED
      BY <2>1, <3>1
  <2> QED
    BY <2>2, <2>3 DEF LinksHold
<1>2. ASSUME LinksHold(q, f), LinksHold(q, g), NEW k \in 1..Len(s)
      PROVE  LinkHolds(q, s[k])
  <2>1. CASE k \in 1..n
    <3>1. LinkHolds(q, f[k]) /\ f[k] = s[k]
      BY <1>2, <2>1 DEF LinksHold
    <3> QED
      BY <3>1
  <2>2. CASE k > n
    <3>1. k - n \in 1..(Len(s) - n) /\ n + (k - n) = k
      BY <2>2
    <3>2. LinkHolds(q, g[k - n]) /\ g[k - n] = s[k]
      BY <1>2, <3>1 DEF LinksHold
    <3> QED
      BY <3>2
  <2> QED
    BY <2>1, <2>2
<1> QED
  BY <1>1, <1>2 DEF LinksHold

\* No link gives more than the one before.
Falls(s) == \A k \in 2..Len(s) : s[k].amount <= s[k - 1].amount

\* Amounts fall along a chain if and only if they fall along both its parts and at the cut.
LEMMA CutFalls ==
  ASSUME NEW s, NEW n, NEW f, NEW g, Cut(s, n, f, g)
  PROVE  Falls(s) <=> Falls(f) /\ Falls(g) /\ s[n + 1].amount <= s[n].amount
<1> USE DEF Cut
<1>1. ASSUME Falls(s)
      PROVE  Falls(f) /\ Falls(g) /\ s[n + 1].amount <= s[n].amount
  <2>1. \A k \in 2..Len(s) : s[k].amount <= s[k - 1].amount
    BY <1>1 DEF Falls
  <2>2. ASSUME NEW k \in 2..Len(g)
        PROVE  g[k].amount <= g[k - 1].amount
    <3>1. /\ k \in 1..(Len(s) - n) /\ k - 1 \in 1..(Len(s) - n)
          /\ n + k \in 2..Len(s) /\ n + (k - 1) = n + k - 1
      OBVIOUS
    <3>2. g[k] = s[n + k] /\ g[k - 1] = s[n + k - 1]
      BY <3>1
    <3>3. s[n + k].amount <= s[n + k - 1].amount
      BY <2>1, <3>1
    <3> QED
      BY <3>2, <3>3
  <2>3. ASSUME NEW k \in 2..Len(f)
        PROVE  f[k].amount <= f[k - 1].amount
    <3>1. k \in 1..n /\ k - 1 \in 1..n /\ k \in 2..Len(s)
      OBVIOUS
    <3>2. f[k] = s[k] /\ f[k - 1] = s[k - 1]
      BY <3>1
    <3> QED
      BY <2>1, <3>1, <3>2
  <2>4. n + 1 \in 2..Len(s) /\ n + 1 - 1 = n
    OBVIOUS
  <2> QED
    BY <2>1, <2>2, <2>3, <2>4 DEF Falls
<1>2. ASSUME Falls(f), Falls(g), s[n + 1].amount <= s[n].amount, NEW k \in 2..Len(s)
      PROVE  s[k].amount <= s[k - 1].amount
  <2>1. CASE k \in 2..n
    <3>1. k \in 1..n /\ k - 1 \in 1..n
      BY <2>1
    <3>2. f[k] = s[k] /\ f[k - 1] = s[k - 1]
      BY <3>1
    <3>3. f[k].amount <= f[k - 1].amount
      BY <1>2, <2>1 DEF Falls
    <3> QED
      BY <3>2, <3>3
  <2>2. CASE k = n + 1
    <3>1. k - 1 = n
      BY <2>2
    <3> QED
      BY <1>2, <2>2, <3>1
  <2>3. CASE k > n + 1
    <3>1. /\ k - n \in 2..(Len(s) - n) /\ k - n \in 1..(Len(s) - n)
          /\ k - n - 1 \in 1..(Len(s) - n)
          /\ n + (k - n) = k /\ n + (k - n - 1) = k - 1
      BY <2>3
    <3>2. g[k - n] = s[k] /\ g[k - n - 1] = s[k - 1]
      BY <3>1
    <3>3. g[k - n].amount <= g[k - n - 1].amount
      BY <1>2, <3>1 DEF Falls
    <3> QED
      BY <3>2, <3>3
  <2> QED
    BY <2>1, <2>2, <2>3
<1> QED
  BY <1>1, <1>2 DEF Falls

\* verify_isnad_chain: a chain of links of any length, between parties none of which is
\* the root of a request that names none, is valid exactly if its parts are, wherever it
\* is cut (isnad.mjs).
THEOREM ChainsCut ==
  ASSUME NEW q \in Demand, NEW s \in Seq(Link)
  PROVE  CutsAnywhere(q, s)
<1> SUFFICES ASSUME NEW n \in 1..(Len(s) - 1)
             PROVE  Sound(q, s) <=>
                      /\ Sound(q, SubSeq(s, 1, n))
                      /\ Sound([q EXCEPT !.root = s[n].subject], SubSeq(s, n + 1, Len(s)))
                      /\ Len(s) <= q.maxLength
                      /\ s[n].transferable
                      /\ q.enforceMonotonic => s[n + 1].amount <= s[n].amount
  BY DEF CutsAnywhere
<1> DEFINE f == SubSeq(s, 1, n)
           g == SubSeq(s, n + 1, Len(s))
           p == [q EXCEPT !.root = s[n].subject]
<1>0. Cut(s, n, f, g)
  BY CutParts
<1>1. /\ n \in Nat /\ n >= 1 /\ n < Len(s) /\ Len(s) \in Nat
      /\ Len(f) = n /\ \A k \in 1..n : f[k] = s[k]
      /\ Len(g) = Len(s) - n /\ \A k \in 1..(Len(s) - n) : g[k] = s[n + k]
  BY <1>0 DEF Cut
<1>2. /\ p.root = s[n].subject /\ p.trusted = q.trusted /\ p.maxLength = q.maxLength
      /\ p.minLinkTrust = q.minLinkTrust /\ p.enforceMonotonic = q.enforceMonotonic
  BY DEF Demand
<1>3. q.maxLength \in Int /\ q.enforceMonotonic \in BOOLEAN
  BY DEF Demand
<1>4. s[n] \in Link
  BY <1>1
<1>5. s[n].subject # AnyRoot
  BY <1>4, ChainAssumption DEF Link
<1> HIDE DEF f, g, p
<1>6. s # <<>> /\ f # <<>> /\ g # <<>>
  BY <1>1
<1>7. Continuous(s) <=> Continuous(f) /\ Continuous(g) /\ s[n + 1].issuer = s[n].subject
  BY <1>0, <1>6, CutContinuous
<1>8. HandedOn(s) <=> HandedOn(f) /\ s[n].transferable /\ HandedOn(g)
  BY <1>0, CutHandedOn
<1>9. LinksHold(q, s) <=> LinksHold(q, f) /\ LinksHold(q, g)
  BY <1>0, CutLinks
<1>10. Falls(s) <=> Falls(f) /\ Falls(g) /\ s[n + 1].amount <= s[n].amount
  BY <1>0, CutFalls
<1>11. LinksHold(p, g) <=> LinksHold(q, g)
  BY <1>2 DEF LinksHold, LinkHolds
<1>12. f[1] = s[1] /\ g[1] = s[n + 1]
  <2>1. 1 \in 1..n /\ 1 \in 1..(Len(s) - n)
    BY <1>1
  <2> QED
    BY <1>1, <2>1
<1>13. Len(s) <= q.maxLength => Len(f) <= q.maxLength /\ Len(g) <= p.maxLength
  BY <1>1, <1>2, <1>3
<1>14. \A r, c : Sound(r, c) <=> /\ Continuous(c) /\ Len(c) <= r.maxLength
                                 /\ r.root \in {AnyRoot, c[1].issuer}
                                 /\ HandedOn(c) /\ LinksHold(r, c)
                                 /\ r.enforceMonotonic => Falls(c)
  BY DEF Sound, LinksHold, Falls
<1>15. p.root \in {AnyRoot, g[1].issuer} <=> s[n + 1].issuer = s[n].subject
  BY <1>2, <1>5, <1>12
<1>16. Sound(q, s) <=> /\ Sound(q, f) /\ Sound(p, g) /\ Len(s) <= q.maxLength
                       /\ s[n].transferable
                       /\ q.enforceMonotonic => s[n + 1].amount <= s[n].amount
  <2>1. Sound(q, s) <=> /\ Continuous(s) /\ Len(s) <= q.maxLength
                        /\ q.root \in {AnyRoot, s[1].issuer}
                        /\ HandedOn(s) /\ LinksHold(q, s)
                        /\ q.enforceMonotonic => Falls(s)
    BY <1>14
  <2>2. Sound(q, f) <=> /\ Continuous(f) /\ Len(f) <= q.maxLength
                        /\ q.root \in {AnyRoot, s[1].issuer}
                        /\ HandedOn(f) /\ LinksHold(q, f)
                        /\ q.enforceMonotonic => Falls(f)
    BY <1>12, <1>14
  <2>3. Sound(p, g) <=> /\ Continuous(g) /\ Len(g) <= p.maxLength
                        /\ s[n + 1].issuer = s[n].subject
                        /\ HandedOn(g) /\ LinksHold(q, g)
                        /\ q.enforceMonotonic => Falls(g)
    BY <1>2, <1>11, <1>14, <1>15
  <2> QED
    BY Zenon, <2>1, <2>2, <2>3, <1>7, <1>8, <1>9, <1>10, <1>13
<1> QED
  BY <1>16 DEF f, g, p

-----------------------------------------------------------------------------
(* Claims. *)

\* A claim ages, from 0 on, as the time goes by.
LEMMA Ages ==
  ASSUME NEW c \in Claim, NEW t \in Moments, NEW u \in Moments, t <= u
  PROVE  /\ elapsed(c, t) \in Moments /\ elapsed(c, u) \in Moments
         /\ elapsed(c, t) <= elapsed(c, u)
  BY ClaimAssumption DEF Claim, Moments, elapsed

\* The score that counts falls with time, once it is a number.
LEMMA ScoreFalls ==
  ASSUME NEW c \in Claim, NEW t \in Moments, NEW u \in Moments, t <= u,
         c.halfLife = 0 => elapsed(c, t) > 0 \/ c.decay = "none"
  PROVE  /\ calculateEffectiveScore(c, t) \in Nat
         /\ calculateEffectiveScore(c, u) \in Nat
         /\ calculateEffectiveScore(c, u) <= calculateEffectiveScore(c, t)
<1>1. /\ elapsed(c, t) \in Moments /\ elapsed(c, u) \in Moments
      /\ elapsed(c, t) <= elapsed(c, u)
  BY Ages
<1>2. c.score \in Nat /\ c.minimum \in Nat /\ c.halfLife \in HalfLives
  BY ClaimAssumption DEF Claim, Marks
<1>3. CASE c.decay = "none"
  BY <1>2, <1>3 DEF calculateEffectiveScore
<1>4. CASE c.decay # "none" /\ (c.halfLife = 0 \/ c.score < c.minimum)
  <2>1. ~(c.halfLife = 0 /\ elapsed(c, t) = 0) /\ ~(c.halfLife = 0 /\ elapsed(c, u) = 0)
    BY <1>1, <1>4, ClaimAssumption DEF Moments
  <2>2. /\ calculateEffectiveScore(c, t) = c.minimum
        /\ calculateEffectiveScore(c, u) = c.minimum
    BY <1>4, <2>1, Zenon DEF calculateEffectiveScore
  <2> QED
    BY <1>2, <2>2
<1>5. CASE c.decay # "none" /\ c.halfLife # 0 /\ ~(c.score < c.minimum)
  <2> DEFINE x == c.score - c.minimum
             at(v) == Halved[x, elapsed(c, v), c.halfLife]
  <2>1. x \in Marks /\ c.halfLife \in HalfLives \ {0}
    BY <1>2, <1>5, ClaimAssumption, SMTT(30) DEF Claim, Marks
  <2>2. at(t) \in Marks /\ at(u) \in Marks /\ at(u) <= at(t)
    <3>1. /\ Halved \in [Marks \X Moments \X (HalfLives \ {0}) -> Marks]
          /\ elapsed(c, t) <= elapsed(c, u) => at(u) <= at(t)
      BY <1>1, <2>1, DecayAssumption, ZenonT(30)
    <3> QED
      BY <1>1, <2>1, <3>1
  <2>3. /\ calculateEffectiveScore(c, t) = c.minimum + at(t)
        /\ calculateEffectiveScore(c, u) = c.minimum + at(u)
    BY <1>5 DEF calculateEffectiveScore
  <2> QED
    <3> HIDE DEF at
    <3> QED
      BY <1>2, <2>2, <2>3, ClaimAssumption DEF Marks
<1> QED
  BY <1>3, <1>4, <1>5

\* A claim that has expired stays expired.
LEMMA ExpiryLasts ==
  ASSUME NEW c \in Claim, NEW p \in Proof, NEW t \in Moments, NEW u \in Moments, t <= u,
         Expired(c, p, t)
  PROVE  Expired(c, p, u)
<1>1. c.issuedAt \in Int /\ c.expiresAt \in Int /\ t \in Int /\ u \in Int
  BY ClaimAssumption DEF Claim, Moments
<1>2. p.freshness # Nothing => p.freshness \in Int
  BY ClaimAssumption DEF Proof, Moments
<1> QED
  BY <1>1, <1>2 DEF Expired

\* calculateEffectiveScore and evaluate: no claim begins to hold, or holds again, but one
\* with a half-life of 0 when it is issued; and none comes back from its expiry.
THEOREM ClaimsEnd == \A c \in Claim, p \in Proof : ValidityEnds(c, p)
<1> SUFFICES ASSUME NEW c \in Claim, NEW p \in Proof, NEW t \in Moments, NEW u \in Moments, t <= u
             PROVE  /\ evaluate(c, p, t) = "TRUST_PROOF_EXPIRED" => evaluate(c, p, u) = "TRUST_PROOF_EXPIRED"
                    /\ evaluate(c, p, u) = "TRUST_PROOF_VALID" =>
                         \/ evaluate(c, p, t) = "TRUST_PROOF_VALID"
                         \/ c.decay = "linear" /\ c.halfLife = 0 /\ elapsed(c, t) = 0
  BY DEF ValidityEnds
<1>1. ASSUME evaluate(c, p, t) = "TRUST_PROOF_EXPIRED"
      PROVE  evaluate(c, p, u) = "TRUST_PROOF_EXPIRED"
  <2>1. p.cleartext /\ Expired(c, p, t)
    BY <1>1 DEF evaluate
  <2> QED
    BY <2>1, ExpiryLasts DEF evaluate
<1>2. ASSUME evaluate(c, p, u) = "TRUST_PROOF_VALID",
             ~(c.decay = "linear" /\ c.halfLife = 0 /\ elapsed(c, t) = 0)
      PROVE  evaluate(c, p, t) = "TRUST_PROOF_VALID"
  <2>1. p.cleartext /\ ~Expired(c, p, u) /\ c.decay # "unsupported" /\ Meets(c, p, u)
    BY <1>2 DEF evaluate
  <2>2. ~Expired(c, p, t)
    BY <2>1, ExpiryLasts
  <2>3. c.halfLife = 0 => elapsed(c, t) > 0 \/ c.decay = "none"
    BY <1>2, <2>1, Ages, ClaimAssumption DEF Claim, Moments
  <2>4. /\ calculateEffectiveScore(c, t) \in Nat
        /\ calculateEffectiveScore(c, u) \in Nat
        /\ calculateEffectiveScore(c, u) <= calculateEffectiveScore(c, t)
    BY <2>3, ScoreFalls
  <2>5. p.required \in Nat
    BY ClaimAssumption DEF Proof, Marks
  <2>6. Meets(c, p, t)
    BY <2>1, <2>4, <2>5, ClaimAssumption DEF Meets
  <2> QED
    BY <2>1, <2>2, <2>6 DEF evaluate
<1> QED
  BY <1>1, <1>2

-----------------------------------------------------------------------------
(* Chains of any length: their trust attenuates. *)

\* Products of what is not negative keep an order.
LEMMA TimesOrder ==
  ASSUME NEW x \in Int, NEW y \in Int, NEW z \in Int, x <= y, z >= 0
  PROVE  x * z <= y * z /\ z * x <= z * y
  OBVIOUS

\* How many places are left of an interval.
LEMMA Interval ==
  ASSUME NEW n \in Nat, NEW m \in Nat, n <= m
  PROVE  IsFiniteSet((1..m) \ (1..n)) /\ Cardinality((1..m) \ (1..n)) = m - n
<1>1. (1..m) \ (1..n) = (n + 1)..m
  OBVIOUS
<1> DEFINE R == (n + 1)..m
<1>2. IsFiniteSet(R) /\ Cardinality(R) = IF n + 1 > m THEN 0 ELSE m - (n + 1) + 1
  BY FS_Interval
<1> HIDE DEF R
<1>3. Cardinality(R) = m - n
  BY <1>2
<1> QED
  BY <1>1, <1>2, <1>3 DEF R

\* A set of amounts has a smallest.
LEMMA Smallest ==
  ASSUME NEW S \in SUBSET Nat, S # {}
  PROVE  Min(S) \in S /\ \A x \in S : Min(S) <= x
<1>1. \E x \in S : \A y \in S : x <= y
  BY Least
<1> QED
  BY <1>1 DEF Min

\* What the links of a chain that has failed nowhere are worth.
Amounts(s) == [k \in 1..Len(s) |-> s[k].amount]

\* The amounts of a sound chain.
LEMMA SoundAmounts ==
  ASSUME NEW q \in Demand, NEW s \in Seq(Link), Sound(q, s)
  PROVE  /\ Len(s) \in Nat /\ Len(s) >= 1 /\ DOMAIN s = 1..Len(s)
         /\ \A k \in 1..Len(s) : s[k].amount \in 0..Unit
         /\ q.enforceMonotonic => Falls(s)
<1>1. s # <<>>
  BY DEF Sound, Continuous
<1>2. Len(s) \in Nat /\ DOMAIN s = 1..Len(s) /\ Len(s) >= 1
  BY <1>1
<1> QED
  BY <1>2 DEF Sound, LinkHolds, Falls

\* Where each link gives no more than the one before, none gives more than an earlier one.
LEMMA FallsFar ==
  ASSUME NEW s \in Seq(Link), Falls(s), \A k \in 1..Len(s) : s[k].amount \in Int,
         NEW k \in 1..Len(s)
  PROVE  s[Len(s)].amount <= s[k].amount
<1> DEFINE L == Len(s)
           a(j) == s[j].amount
           G == {d \in Nat : \A j \in 1..L : j + d <= L => a(j + d) <= a(j)}
<1>0. L \in Nat /\ \A j \in 1..L : a(j) \in Int
  OBVIOUS
<1>1. \A j \in 2..L : a(j) <= a(j - 1)
  BY DEF Falls
<1> HIDE DEF a, L
<1>2. 0 \in G
  BY <1>0
<1>3. ASSUME NEW d \in Nat, d \in G
      PROVE  d + 1 \in G
  <2> SUFFICES ASSUME NEW j \in 1..L, j + (d + 1) <= L
               PROVE  a(j + (d + 1)) <= a(j)
    BY <1>3
  <2>1. j + d \in 1..L /\ j + d + 1 \in 2..L /\ j + d + 1 \in 1..L /\ j + d + 1 - 1 = j + d
        /\ j + (d + 1) = j + d + 1
    BY <1>0
  <2>2. a(j + d) <= a(j)
    BY <1>3, <2>1
  <2>3. a(j + d + 1) <= a(j + d)
    BY <1>1, <2>1
  <2> QED
    BY <1>0, <2>1, <2>2, <2>3
<1> HIDE DEF G
<1>4. Nat \subseteq G
  BY <1>2, <1>3, NumberInduction
<1>5. L - k \in G /\ k + (L - k) = L /\ k \in 1..L
  BY <1>0, <1>4 DEF L
<1>6. a(k + (L - k)) <= a(k)
  BY <1>0, <1>5 DEF G
<1> QED
  BY <1>5, <1>6 DEF a, L

\* The powers of the unit are positive.
LEMMA UnitPower ==
  ASSUME NEW n \in Nat
  PROVE  Power(Unit, n) \in Int /\ Power(Unit, n) > 0
  BY ChainAssumption, PowerPositive

\* What the links have passed on is no more than what a part of them has.
LEMMA ProductFalls ==
  ASSUME NEW q \in Demand, NEW s \in Seq(Link), Sound(q, s), NEW A \in SUBSET (1..Len(s))
  PROVE  /\ Product(Amounts(s), A) \in Int
         /\ Product(Amounts(s), 1..Len(s))
              <= Product(Amounts(s), A) * Power(Unit, Cardinality((1..Len(s)) \ A))
<1> DEFINE f == Amounts(s)
           S == 1..Len(s)
           R == S \ A
<1>1. Unit \in Nat /\ IsFiniteSet(S) /\ \A x \in S : f[x] \in 0..Unit
  <2>1. Len(s) \in Nat /\ \A k \in 1..Len(s) : s[k].amount \in 0..Unit
    BY SoundAmounts
  <2>2. IsFiniteSet(1..Len(s))
    BY <2>1, FS_Interval
  <2> QED
    BY <2>1, <2>2, ChainAssumption DEF Amounts
<1>0. A \in SUBSET S
  OBVIOUS
<1> HIDE DEF f, S
<1>2. IsFiniteSet(R) /\ IsFiniteSet(A)
  BY <1>0, <1>1, FS_Subset
<1>3. \A x \in R : f[x] \in 0..Unit
  BY <1>1
<1>4. \A x \in A : f[x] \in 0..Unit
  BY <1>0, <1>1
<1>5. /\ Summable(f, R) /\ Cardinality(R) \in Nat
      /\ 0 <= Product(f, R) /\ Product(f, R) <= Power(Unit, Cardinality(R))
  <2> HIDE DEF R
  <2> QED
    BY <1>1, <1>2, <1>3, ProductBound
<1>6. Summable(f, A) /\ 0 <= Product(f, A)
  BY <1>1, <1>2, <1>4, ProductBound
<1>7. Summable(f, S)
  BY <1>1, ProductBound
<1>8. Product(f, S) = Product(f, A) * Product(f, R)
  <2>1. \A B \in SUBSET S : Product(f, S) = Product(f, B) * Product(f, S \ B)
    BY <1>7, ProductSplit
  <2> QED
    BY <1>0, <2>1, Zenon
<1>9. Product(f, A) \in Int /\ Product(f, R) \in Int
  BY <1>5, <1>6, ProductOne
<1>10. Power(Unit, Cardinality(R)) \in Int
  BY <1>5, UnitPower
<1> DEFINE x == Product(f, A)
           y == Product(f, R)
           z == Power(Unit, Cardinality(R))
<1>11. x * y <= x * z
  <2>1. x \in Int /\ y \in Int /\ z \in Int /\ y <= z /\ x >= 0
    BY <1>5, <1>6, <1>9, <1>10
  <2> HIDE DEF x, y, z
  <2> QED
    BY <2>1, TimesOrder
<1> QED
  BY <1>8, <1>9, <1>11 DEF f, S

\* The first links of a chain, and what it attenuates to with each of the three rules.
LEMMA Rules ==
  ASSUME NEW q \in Demand, NEW s \in Seq(Link), Sound(q, s)
  PROVE  /\ q.attenuation = "product" => effectiveTrust(q, s) = Product(Amounts(s), 1..Len(s))
         /\ q.attenuation = "min" =>
              \E x \in 0..Unit : /\ effectiveTrust(q, s) = x * Power(Unit, Len(s) - 1)
                                 /\ \E k \in 1..Len(s) : x = s[k].amount
                                 /\ \A k \in 1..Len(s) : x <= s[k].amount
         /\ q.attenuation = "none" =>
              effectiveTrust(q, s) = s[Len(s)].amount * Power(Unit, Len(s) - 1)
<1>1. /\ Len(s) \in Nat /\ Len(s) >= 1 /\ DOMAIN s = 1..Len(s)
      /\ \A k \in 1..Len(s) : s[k].amount \in 0..Unit
  BY SoundAmounts
<1>2. CASE q.attenuation = "product"
  <2>1. [k \in DOMAIN s |-> s[k].amount] = Amounts(s)
    BY <1>1 DEF Amounts
  <2>2. effectiveTrust(q, s) = Product([k \in DOMAIN s |-> s[k].amount], DOMAIN s)
    BY <1>2 DEF effectiveTrust
  <2> QED
    BY <1>1, <1>2, <2>1, <2>2
<1>3. CASE q.attenuation = "min"
  <2> DEFINE S == {s[k].amount : k \in DOMAIN s}
  <2>1. S \in SUBSET Nat /\ s[1].amount \in S
    BY <1>1, ChainAssumption
  <2>2. effectiveTrust(q, s) = Min(S) * Power(Unit, Len(s) - 1)
    BY <1>3 DEF effectiveTrust
  <2> HIDE DEF S
  <2>3. Min(S) \in S /\ \A x \in S : Min(S) <= x
    BY <2>1, Smallest
  <2>4. /\ \E k \in 1..Len(s) : Min(S) = s[k].amount
        /\ \A k \in 1..Len(s) : Min(S) <= s[k].amount
    BY <1>1, <2>3 DEF S
  <2>5. Min(S) \in 0..Unit
    BY <1>1, <2>4
  <2> QED
    BY <1>3, <2>2, <2>4, <2>5
<1>4. CASE q.attenuation = "none"
  BY <1>4 DEF effectiveTrust, Last
<1> QED
  BY <1>2, <1>3, <1>4 DEF Demand

\* The first links of a sound chain are a sound chain.
LEMMA FirstLinks ==
  ASSUME NEW q \in Demand, NEW s \in Seq(Link), Sound(q, s), NEW n \in 1..(Len(s) - 1)
  PROVE  /\ SubSeq(s, 1, n) \in Seq(Link) /\ Sound(q, SubSeq(s, 1, n))
         /\ Len(SubSeq(s, 1, n)) = n /\ \A k \in 1..n : SubSeq(s, 1, n)[k] = s[k]
<1>1. Cut(s, n, SubSeq(s, 1, n), SubSeq(s, n + 1, Len(s)))
  BY CutParts
<1>2. CutsAnywhere(q, s)
  BY ChainsCut
<1>3. Len(s) \in Nat
  OBVIOUS
<1>4. SubSeq(s, 1, n) \in Seq(Link)
  BY <1>3, SubSeqProperties
<1> QED
  BY <1>1, <1>2, <1>4 DEF CutsAnywhere, Cut

\* Whatever the rule, and however many links: what reaches a subject is no more than what
\* reached an earlier one, and no more than any link gave (isnad.mjs 32-34).
THEOREM ChainAttenuates == \A q \in Demand, s \in Seq(Link) : Attenuates(q, s)
<1> SUFFICES ASSUME NEW q \in Demand, NEW s \in Seq(Link), Sound(q, s),
                    q.attenuation # "none" \/ q.enforceMonotonic
             PROVE  /\ \A n \in 1..(Len(s) - 1) :
                         effectiveTrust(q, s)
                           <= effectiveTrust(q, SubSeq(s, 1, n)) * Power(Unit, Len(s) - n)
                    /\ \A k \in 1..Len(s) :
                         effectiveTrust(q, s) <= s[k].amount * Power(Unit, Len(s) - 1)
  BY DEF Attenuates
<1>1. /\ Len(s) \in Nat /\ Len(s) >= 1 /\ DOMAIN s = 1..Len(s)
      /\ \A k \in 1..Len(s) : s[k].amount \in 0..Unit
      /\ q.enforceMonotonic => Falls(s)
  BY SoundAmounts
<1>2. \A k \in 1..Len(s) : s[k].amount \in Int /\ s[k].amount >= 0
  BY <1>1, ChainAssumption
<1>3. /\ Power(Unit, Len(s) - 1) \in Int /\ Power(Unit, Len(s) - 1) > 0
      /\ \A n \in 1..(Len(s) - 1) :
           /\ Power(Unit, Len(s) - n) \in Int /\ Power(Unit, Len(s) - n) > 0
           /\ Power(Unit, n - 1) \in Int /\ Power(Unit, n - 1) > 0
           /\ Power(Unit, Len(s) - 1) = Power(Unit, n - 1) * Power(Unit, Len(s) - n)
  <2>1. Len(s) - 1 \in Nat
    BY <1>1
  <2>2. \A n \in 1..(Len(s) - 1) : /\ n - 1 \in Nat /\ Len(s) - n \in Nat
                                   /\ (n - 1) + (Len(s) - n) = Len(s) - 1
    BY <1>1
  <2>3. \A i, j \in Nat : Power(Unit, i + j) = Power(Unit, i) * Power(Unit, j)
    BY ChainAssumption, PowerSum
  <2> QED
    BY <2>1, <2>2, <2>3, UnitPower
<1>4. ASSUME NEW n \in 1..(Len(s) - 1)
      PROVE  effectiveTrust(q, s) <= effectiveTrust(q, SubSeq(s, 1, n)) * Power(Unit, Len(s) - n)
  <2> DEFINE f == SubSeq(s, 1, n)
             u == Power(Unit, Len(s) - n)
             v == Power(Unit, n - 1)
             w == Power(Unit, Len(s) - 1)
  <2>1. /\ f \in Seq(Link) /\ Sound(q, f)
        /\ Len(f) = n /\ \A k \in 1..n : f[k] = s[k]
    BY FirstLinks
  <2>2. u \in Int /\ u > 0 /\ v \in Int /\ v > 0 /\ w \in Int /\ w = v * u
    BY <1>3
  <2> HIDE DEF f, u, v, w
  <2>3. CASE q.attenuation = "product"
    <3> DEFINE A == 1..n
               R == (1..Len(s)) \ A
    <3>1. effectiveTrust(q, s) = Product(Amounts(s), 1..Len(s))
      BY <2>3, Rules
    <3>2. effectiveTrust(q, f) = Product(Amounts(f), 1..Len(f))
      BY <2>1, <2>3, Rules
    <3>3. A \in SUBSET (1..Len(s)) /\ Cardinality(R) = Len(s) - n
      <4>1. n \in Nat /\ n <= Len(s)
        BY <1>1
      <4>2. A \in SUBSET (1..Len(s))
        BY <1>1
      <4> QED
        BY <1>1, <4>1, <4>2, Interval
    <3>4. Product(Amounts(s), 1..Len(s)) <= Product(Amounts(s), A) * Power(Unit, Cardinality(R))
      <4> HIDE DEF A
      <4> QED
        BY <3>3, ProductFalls
    <3>5. Product(Amounts(f), A) = Product(Amounts(s), A)
      <4>1. \A k \in A : Amounts(f)[k] = Amounts(s)[k] /\ Amounts(f)[k] \in Int
        BY <1>1, <1>2, <2>1 DEF Amounts
      <4>2. IsFiniteSet(A)
        BY FS_Interval
      <4> HIDE DEF A
      <4>3. Summable(Amounts(f), A)
        BY <4>1, <4>2 DEF Summable
      <4> QED
        BY <4>1, <4>3, ProductSame
    <3>6. effectiveTrust(q, f) = Product(Amounts(s), A)
      BY <2>1, <3>2, <3>5
    <3>7. effectiveTrust(q, s) <= effectiveTrust(q, f) * Power(Unit, Len(s) - n)
      BY <3>1, <3>3, <3>4, <3>6
    <3> QED
      BY <3>7 DEF f
  <2>4. CASE q.attenuation = "min"
    <3>1. PICK x \in 0..Unit : /\ effectiveTrust(q, s) = x * w
                               /\ \A k \in 1..Len(s) : x <= s[k].amount
      BY <2>4, Rules DEF w
    <3>2. PICK y \in 0..Unit : /\ effectiveTrust(q, f) = y * Power(Unit, Len(f) - 1)
                               /\ \E k \in 1..Len(f) : y = f[k].amount
      BY <2>1, <2>4, Rules
    <3>3. effectiveTrust(q, f) = y * v
      BY <2>1, <3>2 DEF v
    <3>4. x <= y
      BY <1>1, <2>1, <3>1, <3>2
    <3>5. x \in Int /\ y \in Int
      BY ChainAssumption
    <3>6. x * w <= y * w
      <4>1. w >= 0
        BY <1>3 DEF w
      <4> QED
        BY <2>2, <3>4, <3>5, <4>1, TimesOrder
    <3>7. y * w = (y * v) * u
      BY <2>2, <3>5
    <3> QED
      BY <3>1, <3>3, <3>6, <3>7 DEF f, u
  <2>5. CASE q.attenuation = "none"
    <3>1. effectiveTrust(q, s) = s[Len(s)].amount * w
      BY <2>5, Rules DEF w
    <3>2. effectiveTrust(q, f) = f[Len(f)].amount * Power(Unit, Len(f) - 1)
      BY <2>1, <2>5, Rules
    <3>3. effectiveTrust(q, f) = s[n].amount * v
      BY <2>1, <3>2 DEF v
    <3> DEFINE x == s[Len(s)].amount
               y == s[n].amount
    <3>4. x <= y /\ x \in Int /\ y \in Int
      <4>1. n \in 1..Len(s) /\ Len(s) \in 1..Len(s)
        BY <1>1
      <4>2. Falls(s)
        BY <1>1, <2>5
      <4>3. s[Len(s)].amount <= s[n].amount
        BY <1>2, <4>1, <4>2, FallsFar
      <4> QED
        BY <1>2, <4>1, <4>3
    <3> HIDE DEF x, y
    <3>5. x * w <= y * w
      <4>1. w >= 0
        BY <1>3 DEF w
      <4> QED
        BY <2>2, <3>4, <4>1, TimesOrder
    <3>6. y * w = (y * v) * u
      BY <2>2, <3>4
    <3> QED
      BY <3>1, <3>3, <3>5, <3>6 DEF f, u, x, y
  <2> QED
    BY <2>3, <2>4, <2>5 DEF Demand
<1>5. ASSUME NEW k \in 1..Len(s)
      PROVE  effectiveTrust(q, s) <= s[k].amount * Power(Unit, Len(s) - 1)
  <2> DEFINE w == Power(Unit, Len(s) - 1)
             y == s[k].amount
  <2>1. w \in Int /\ w >= 0 /\ y \in Int
    BY <1>2, <1>3
  <2>2. CASE q.attenuation = "product"
    <3> DEFINE f == Amounts(s)
               A == {k}
               R == (1..Len(s)) \ A
    <3>1. A \in SUBSET (1..Len(s))
      OBVIOUS
    <3>2. Product(f, 1..Len(s)) <= Product(f, A) * Power(Unit, Cardinality(R))
      <4> HIDE DEF A
      <4> QED
        BY <3>1, ProductFalls
    <3>3. Cardinality(R) = Len(s) - 1
      <4>1. IsFiniteSet(1..Len(s)) /\ Cardinality(1..Len(s)) = Len(s)
        BY <1>1, FS_Interval
      <4> QED
        BY <4>1, FS_RemoveElement, ZenonT(60)
    <3>4. Product(f, A) = y
      <4>1. Summable(f, A) /\ f[k] = y
        BY <2>1, FS_Singleton DEF Summable, Amounts
      <4>2. A \ {k} = {} /\ k \in A
        OBVIOUS
      <4>3. Product(f, A) = f[k] * Product(f, A \ {k})
        BY <4>1, <4>2, ProductOne
      <4>4. Product(f, A \ {k}) = 1
        BY <4>2, ProductEmpty
      <4> HIDE DEF f, y, A
      <4> QED
        BY <2>1, <4>1, <4>3, <4>4
    <3>5. effectiveTrust(q, s) = Product(f, 1..Len(s))
      BY <2>2, Rules
    <3> QED
      BY <3>2, <3>3, <3>4, <3>5
  <2>3. CASE q.attenuation = "min"
    <3>1. PICK x \in 0..Unit : effectiveTrust(q, s) = x * w /\ x <= y
      BY <2>3, Rules
    <3>2. x \in Int
      BY ChainAssumption
    <3> HIDE DEF w, y
    <3>3. x * w <= y * w
      BY <2>1, <3>1, <3>2, TimesOrder
    <3> QED
      BY <3>1, <3>3 DEF w, y
  <2>4. CASE q.attenuation = "none"
    <3> DEFINE x == s[Len(s)].amount
    <3>1. effectiveTrust(q, s) = x * w
      BY <2>4, Rules
    <3>2. x <= y /\ x \in Int
      <4>1. Falls(s) /\ Len(s) \in 1..Len(s)
        BY <1>1, <2>4
      <4> QED
        BY <1>2, <4>1, FallsFar
    <3> HIDE DEF w, x, y
    <3>3. x * w <= y * w
      BY <2>1, <3>2, TimesOrder
    <3> QED
      BY <3>1, <3>3 DEF w, y
  <2> QED
    BY <2>2, <2>3, <2>4 DEF Demand
<1> QED
  BY <1>4, <1>5

-----------------------------------------------------------------------------
(* The calls. *)

\* One call at a time, of those that may be made.
LEMMA OneCall == CallSpec => [](asked \in Calls \cup {None})
<1>1. CallInit => asked \in Calls \cup {None}
  BY DEF CallInit
<1>2. asked \in Calls \cup {None} /\ [CallNext]_asked => (asked \in Calls \cup {None})'
  BY DEF CallNext, Ask, Answer, Calls
<1> QED
  BY <1>1, <1>2, PTL DEF CallSpec

\* What is asked of the engine, of the check of a chain or of the evaluator is a call of it.
LEMMA CallOf ==
  ASSUME asked \in Calls \cup {None}, asked # None
  PROVE  /\ asked.of = "engine" => asked.request \in Request /\ asked.candidates \in Seq(Candidate)
         /\ asked.of = "chain" => asked.request \in Demand /\ asked.links \in Seq(Link)
         /\ asked.of = "claim" => asked.claim \in Claim /\ asked.proof \in Proof
<1>1. CASE asked \in EngineCalls
  <2>1. asked \in [of: {"engine"}, request: Request, candidates: Seq(Candidate)]
    BY <1>1, CallsAssumption
  <2> QED
    BY <2>1
<1>2. CASE asked \in ChainCalls
  <2>1. asked \in [of: {"chain"}, request: Demand, links: Seq(Link)]
    BY <1>2, CallsAssumption
  <2> QED
    BY <2>1
<1>3. CASE asked \in ClaimCalls
  <2>1. asked \in [of: {"claim"}, claim: Claim, proof: Proof]
    BY <1>3, CallsAssumption
  <2> QED
    BY <2>1
<1> QED
  BY <1>1, <1>2, <1>3 DEF Calls

\* resolve.js: whatever the requests, and however many candidates, the answers follow
\* trust, as DecisionsFollow says.
THEOREM CallsFollowTrust == CallSpec => []DecisionsFollowTrust
<1>1. asked \in Calls \cup {None} => DecisionsFollowTrust
  BY CallOf, DecisionsFollow DEF DecisionsFollowTrust
<1> QED
  BY <1>1, OneCall, PTL

\* isnad.mjs: whatever the chains, however long, each is as sound as its parts wherever it
\* is cut, and its trust attenuates.
THEOREM CallsAttenuate == CallSpec => []ChainsAttenuate
<1>1. asked \in Calls \cup {None} => ChainsAttenuate
  BY CallOf, ChainsCut, ChainAttenuates DEF ChainsAttenuate
<1> QED
  BY <1>1, OneCall, PTL

\* evaluator.js: whatever the claims and the decay, nothing becomes valid with time but a
\* new claim of no half-life.
THEOREM CallsOnlyEnd == CallSpec => []ClaimsOnlyEnd
<1>1. asked \in Calls \cup {None} => ClaimsOnlyEnd
  BY CallOf, ClaimsEnd DEF ClaimsOnlyEnd
<1> QED
  BY <1>1, OneCall, PTL

-----------------------------------------------------------------------------
(* Lists. *)

\* h is what the steps make of b, one after the other.
Steps(step, n, V) == step \in [1..n -> [V -> V]]

\* The values that the steps give one after the other.
Runs(h, step, b, n, V) ==
  h \in [0..n -> V] /\ h[0] = b /\ \A k \in 1..n : h[k] = step[k][h[k - 1]]

\* Any number of steps gives such values.
LEMMA StepsRun ==
  ASSUME NEW V, NEW b, NEW n, NEW step, b \in V, n \in Nat, Steps(step, n, V)
  PROVE  \E h : Runs(h, step, b, n, V)
<1>1. step \in [1..n -> [V -> V]]
  BY DEF Steps
<1>2. \E h \in [0..n -> V] : h[0] = b /\ \A k \in 1..n : h[k] = step[k][h[k - 1]]
  BY <1>1, Recursion
<1> QED
  BY <1>2 DEF Runs

\* FlattenSeq joins its sequences one after the other.
LEMMA Flattened ==
  ASSUME NEW X, NEW s \in Seq(Seq(X))
  PROVE  \E h \in [0..Len(s) -> Seq(X)] :
           /\ h[0] = <<>> /\ FlattenSeq(s) = h[Len(s)]
           /\ \A k \in 1..Len(s) : h[k] = h[k - 1] \o s[k]
<1> DEFINE L == Len(s)
           V == Seq(X)
           step == [k \in 1..L |-> [x \in V |-> x \o s[k]]]
           Unfolded(g) == g = [i \in 1..L |-> IF i = 1 THEN s[i] ELSE g[i - 1] \o s[i]]
<1>1. L \in Nat /\ \A k \in 1..L : s[k] \in V
  OBVIOUS
<1>2. step \in [1..L -> [V -> V]]
  BY <1>1
<1>3. <<>> \in V
  OBVIOUS
<1>4. PICK h \in [0..L -> V] : h[0] = <<>> /\ \A k \in 1..L : h[k] = step[k][h[k - 1]]
  <2> DEFINE b == <<>>
  <2>1. L \in Nat /\ b \in V
    OBVIOUS
  <2> HIDE DEF step, V, L, b
  <2>2. Steps(step, L, V)
    BY <1>2 DEF Steps
  <2>3. \E h : Runs(h, step, b, L, V)
    BY <2>1, <2>2, StepsRun
  <2> QED
    BY <2>3 DEF b, Runs
<1>5. \A k \in 1..L : h[k - 1] \in V /\ h[k] = h[k - 1] \o s[k]
  <2> SUFFICES ASSUME NEW k \in 1..L
               PROVE  h[k - 1] \in V /\ h[k] = h[k - 1] \o s[k]
    OBVIOUS
  <2>1. k - 1 \in 0..L
    BY <1>1
  <2>2. h[k - 1] \in V
    <3> HIDE DEF V, L
    <3> QED
      BY <1>4, <2>1
  <2>3. \A x \in V : step[k][x] = x \o s[k]
    OBVIOUS
  <2>4. h[k] = step[k][h[k - 1]]
    BY <1>4
  <2> HIDE DEF step, V, L
  <2> QED
    BY <2>2, <2>3, <2>4
<1>6. CASE L = 0
  <2>1. s = <<>>
    BY <1>6
  <2>2. FlattenSeq(s) = s
    BY <1>6 DEF FlattenSeq
  <2> QED
    BY <1>4, <1>5, <1>6, <2>1, <2>2
<1>7. CASE L # 0
  <2> DEFINE flatten == CHOOSE g : Unfolded(g)
             G == {k \in Nat : k \in 1..L => flatten[k] = h[k]}
  <2>1. FlattenSeq(s) = flatten[L]
    BY <1>7 DEF FlattenSeq
  <2> DEFINE first == [i \in 1..L |-> h[i]]
  <2>2. Unfolded(first)
    <3>1. ASSUME NEW i \in 1..L
          PROVE  h[i] = IF i = 1 THEN s[i] ELSE first[i - 1] \o s[i]
      <4>1. CASE i = 1
        <5>0. 1 \in 1..L /\ 1 - 1 = 0
          BY <4>1
        <5>1. h[1] = <<>> \o s[1] /\ s[1] \in Seq(X)
          <6>1. h[1] = h[1 - 1] \o s[1] /\ s[1] \in Seq(X)
            BY <1>1, <1>5, <5>0
          <6> QED
            BY <1>4, <5>0, <6>1
        <5>2. <<>> \o s[1] = s[1]
          BY <5>1, ConcatEmptySeq
        <5> QED
          BY <4>1, <5>1, <5>2
      <4>2. CASE i # 1
        <5>1. i - 1 \in 1..L
          BY <1>1, <4>2
        <5> QED
          BY <1>5, <4>2, <5>1
      <4> QED
        BY <4>1, <4>2
    <3> QED
      BY <3>1
  <2>3. Unfolded(flatten)
    <3> HIDE DEF Unfolded, first
    <3> QED
      BY <2>2
  <2>4. \A i \in 1..L : flatten[i] = IF i = 1 THEN s[i] ELSE flatten[i - 1] \o s[i]
    <3> HIDE DEF flatten
    <3> QED
      BY <2>3
  <2>5. \A i \in 1..L : h[i] = IF i = 1 THEN s[i] ELSE h[i - 1] \o s[i]
    <3>1. \A i \in 1..L : first[i] = h[i]
      OBVIOUS
    <3>2. \A i \in 1..L : first[i] = IF i = 1 THEN s[i] ELSE first[i - 1] \o s[i]
      <4> HIDE DEF first
      <4> QED
        BY <2>2
    <3> HIDE DEF first
    <3>3. \A i \in 1..L : i # 1 => i - 1 \in 1..L
      BY <1>1
    <3> QED
      BY <3>1, <3>2, <3>3
  <2> HIDE DEF flatten
  <2>6. 0 \in G
    OBVIOUS
  <2>7. ASSUME NEW k \in Nat, k \in G
        PROVE  k + 1 \in G
    <3> SUFFICES ASSUME k + 1 \in 1..L
                 PROVE  flatten[k + 1] = h[k + 1]
      OBVIOUS
    <3>1. CASE k = 0
      BY <2>4, <2>5, <3>1
    <3>2. CASE k # 0
      <4>1. k \in 1..L /\ k + 1 # 1 /\ (k + 1) - 1 = k
        BY <1>1, <3>2
      <4>2. flatten[k] = h[k]
        BY <2>7, <4>1
      <4> QED
        BY <2>4, <2>5, <4>1, <4>2
    <3> QED
      BY <3>1, <3>2
  <2> HIDE DEF G
  <2>8. Nat \subseteq G
    BY <2>6, <2>7, NumberInduction
  <2>9. L \in G /\ L \in 1..L
    BY <1>1, <1>7, <2>8
  <2>10. flatten[L] = h[L]
    BY <2>9 DEF G
  <2> QED
    BY <1>4, <1>5, <2>1, <2>10
<1> QED
  BY <1>6, <1>7

\* A sequence holds x.
Holds(s, x) == \E k \in 1..Len(s) : s[k] = x

\* Two lists one after the other hold what either holds.
LEMMA HoldsJoined ==
  ASSUME NEW X, NEW s \in Seq(X), NEW t \in Seq(X), NEW x
  PROVE  s \o t \in Seq(X) /\ (Holds(s \o t, x) <=> Holds(s, x) \/ Holds(t, x))
<1>1. s \o t \in Seq(X) /\ Len(s \o t) = Len(s) + Len(t) /\ Len(s) \in Nat /\ Len(t) \in Nat
      /\ \A k \in 1..(Len(s) + Len(t)) :
           (s \o t)[k] = IF k <= Len(s) THEN s[k] ELSE t[k - Len(s)]
  OBVIOUS
<1>2. ASSUME Holds(s \o t, x)
      PROVE  Holds(s, x) \/ Holds(t, x)
  <2>1. PICK k \in 1..(Len(s) + Len(t)) : (s \o t)[k] = x
    BY <1>1, <1>2 DEF Holds
  <2>2. CASE k <= Len(s)
    BY <1>1, <2>1, <2>2 DEF Holds
  <2>3. CASE ~(k <= Len(s))
    <3>1. k - Len(s) \in 1..Len(t)
      BY <1>1, <2>3
    <3> QED
      BY <1>1, <2>1, <2>3, <3>1 DEF Holds
  <2> QED
    BY <2>2, <2>3
<1>3. ASSUME Holds(s, x)
      PROVE  Holds(s \o t, x)
  <2>1. PICK k \in 1..Len(s) : s[k] = x
    BY <1>3 DEF Holds
  <2>2. k \in 1..(Len(s) + Len(t)) /\ k <= Len(s)
    BY <1>1
  <2> QED
    BY <1>1, <2>1, <2>2 DEF Holds
<1>4. ASSUME Holds(t, x)
      PROVE  Holds(s \o t, x)
  <2>1. PICK k \in 1..Len(t) : t[k] = x
    BY <1>4 DEF Holds
  <2>2. /\ Len(s) + k \in 1..(Len(s) + Len(t)) /\ ~(Len(s) + k <= Len(s))
        /\ Len(s) + k - Len(s) = k
    BY <1>1
  <2>3. (s \o t)[Len(s) + k] = x
    BY <1>1, <2>1, <2>2
  <2> QED
    BY <1>1, <2>2, <2>3 DEF Holds
<1> QED
  BY <1>1, <1>2, <1>3, <1>4

\* What is joined holds what its parts hold.
LEMMA HoldsFlattened ==
  ASSUME NEW X, NEW s \in Seq(Seq(X))
  PROVE  /\ FlattenSeq(s) \in Seq(X)
         /\ \A x : Holds(FlattenSeq(s), x) <=> \E k \in 1..Len(s) : Holds(s[k], x)
<1>1. PICK h \in [0..Len(s) -> Seq(X)] :
           /\ h[0] = <<>> /\ FlattenSeq(s) = h[Len(s)]
           /\ \A k \in 1..Len(s) : h[k] = h[k - 1] \o s[k]
  BY Flattened
<1>2. Len(s) \in Nat /\ Len(s) \in 0..Len(s) /\ \A k \in 1..Len(s) : s[k] \in Seq(X)
  OBVIOUS
<1>3. FlattenSeq(s) \in Seq(X)
  BY <1>1, <1>2
<1>4. ASSUME NEW x
      PROVE  Holds(FlattenSeq(s), x) <=> \E k \in 1..Len(s) : Holds(s[k], x)
  <2> DEFINE Joins(k) == h[k] = h[k - 1] \o s[k]
             G == {n \in Nat : n <= Len(s) =>
                     (Holds(h[n], x) <=> \E k \in 1..n : Holds(s[k], x))}
  <2>0. \A k \in 1..Len(s) : Joins(k)
    BY <1>1
  <2> HIDE DEF Joins
  <2>1. 0 \in G
    BY <1>1 DEF Holds
  <2>2. ASSUME NEW n \in Nat, n \in G
        PROVE  n + 1 \in G
    <3> SUFFICES ASSUME n + 1 <= Len(s)
                 PROVE  Holds(h[n + 1], x) <=> \E k \in 1..(n + 1) : Holds(s[k], x)
      OBVIOUS
    <3>1. n \in 0..Len(s) /\ n + 1 \in 1..Len(s) /\ (n + 1) - 1 = n
      BY <1>2
    <3>2. h[n + 1] = h[n] \o s[n + 1] /\ h[n] \in Seq(X) /\ s[n + 1] \in Seq(X)
      <4>1. h[n + 1] = h[(n + 1) - 1] \o s[n + 1]
        <5>1. Joins(n + 1)
          BY <2>0, <3>1
        <5> QED
          BY <5>1 DEF Joins
      <4>2. h[n] \in Seq(X)
        BY <1>1, <3>1
      <4> QED
        BY <1>2, <3>1, <4>1, <4>2
    <3>3. Holds(h[n + 1], x) <=> Holds(h[n], x) \/ Holds(s[n + 1], x)
      BY <3>2, HoldsJoined
    <3>4. Holds(h[n], x) <=> \E k \in 1..n : Holds(s[k], x)
      BY <1>2, <2>2, <3>1
    <3>5. \A k : k \in 1..(n + 1) <=> k \in 1..n \/ k = n + 1
      OBVIOUS
    <3> QED
      BY <3>3, <3>4, <3>5
  <2> HIDE DEF G
  <2>3. Nat \subseteq G
    BY <2>1, <2>2, NumberInduction
  <2>4. Len(s) \in G /\ Len(s) <= Len(s)
    BY <1>2, <2>3
  <2> QED
    BY <1>1, <2>4 DEF G
<1> QED
  BY <1>3, <1>4

\* A sequence is joined from its elements.
LEMMA FlattenedElements ==
  ASSUME NEW X, NEW e \in Seq(X), NEW s \in Seq(Seq(X)), Len(s) = Len(e),
         \A k \in 1..Len(e) : s[k] = <<e[k]>>
  PROVE  FlattenSeq(s) = e
<1>1. PICK h \in [0..Len(s) -> Seq(X)] :
           /\ h[0] = <<>> /\ FlattenSeq(s) = h[Len(s)]
           /\ \A k \in 1..Len(s) : h[k] = h[k - 1] \o s[k]
  BY Flattened
<1>2. Len(e) \in Nat /\ \A k \in 1..Len(e) : e[k] \in X
  OBVIOUS
<1> DEFINE Joins(k) == h[k] = h[k - 1] \o s[k]
           G == {n \in Nat : n <= Len(e) =>
                   Len(h[n]) = n /\ \A k \in 1..n : h[n][k] = e[k]}
<1>0. \A k \in 1..Len(s) : Joins(k)
  BY <1>1
<1> HIDE DEF Joins
<1>3. 0 \in G
  BY <1>1
<1>4. ASSUME NEW n \in Nat, n \in G
      PROVE  n + 1 \in G
  <2> SUFFICES ASSUME n + 1 <= Len(e)
               PROVE  Len(h[n + 1]) = n + 1 /\ \A k \in 1..(n + 1) : h[n + 1][k] = e[k]
    OBVIOUS
  <2>1. n \in 0..Len(s) /\ n + 1 \in 1..Len(s) /\ (n + 1) - 1 = n /\ n + 1 \in 1..Len(e)
    BY <1>2
  <2>2. h[n] \in Seq(X) /\ Len(h[n]) = n /\ \A k \in 1..n : h[n][k] = e[k]
    <3>1. h[n] \in Seq(X)
      BY <1>1, <2>1
    <3>2. n <= Len(e)
      BY <1>2, <2>1
    <3> QED
      BY <1>4, <3>1, <3>2
  <2>3. h[n + 1] = h[n] \o <<e[n + 1]>> /\ e[n + 1] \in X
    <3>1. h[n + 1] = h[(n + 1) - 1] \o s[n + 1]
      <4>1. Joins(n + 1)
        BY <1>0, <2>1
      <4> QED
        BY <4>1 DEF Joins
    <3> QED
      BY <1>2, <2>1, <3>1
  <2> DEFINE t == h[n]
             y == e[n + 1]
  <2>4. /\ Len(t \o <<y>>) = n + 1
        /\ \A k \in 1..(n + 1) : (t \o <<y>>)[k] = IF k <= n THEN t[k] ELSE y
    <3> HIDE DEF t, y
    <3>1. t \in Seq(X) /\ Len(t) = n /\ y \in X
      BY <2>2, <2>3 DEF t, y
    <3> QED
      BY <3>1
  <2> QED
    BY <2>2, <2>3, <2>4
<1> HIDE DEF G
<1>5. Nat \subseteq G
  BY <1>3, <1>4, NumberInduction
<1>6. Len(e) \in G /\ Len(e) <= Len(e) /\ Len(e) \in 0..Len(s)
  BY <1>2, <1>5
<1> DEFINE f == FlattenSeq(s)
<1>7. f \in Seq(X) /\ Len(f) = Len(e) /\ \A k \in 1..Len(e) : f[k] = e[k]
  BY <1>1, <1>6 DEF G
<1> HIDE DEF f
<1>8. f = e
  BY <1>7, SeqEqual
<1> QED
  BY <1>8 DEF f

\* s is a list of n parts, each one of the given elements if it is kept.
Keeps(s, n, kept, given, X) ==
  /\ n \in Nat /\ s \in Seq(Seq(X)) /\ Len(s) = n
  /\ \A k \in 1..n : given[k] \in X /\ s[k] = OnlyIf(kept[k], given[k])

\* A list of what is kept holds exactly that.
LEMMA HoldsKept ==
  ASSUME NEW s, NEW n, NEW kept, NEW given, NEW X, Keeps(s, n, kept, given, X)
  PROVE  /\ FlattenSeq(s) \in Seq(X)
         /\ \A x : Holds(FlattenSeq(s), x) <=> \E k \in 1..n : kept[k] /\ x = given[k]
<1>1. \A k \in 1..n : \A x : Holds(s[k], x) <=> kept[k] /\ x = given[k]
  <2>1. \A c, y, x : Holds(OnlyIf(c, y), x) <=> c /\ x = y
    BY DEF OnlyIf, Holds
  <2> QED
    BY <2>1 DEF Keeps
<1>2. /\ FlattenSeq(s) \in Seq(X)
      /\ \A x : Holds(FlattenSeq(s), x) <=> \E k \in 1..Len(s) : Holds(s[k], x)
  BY HoldsFlattened DEF Keeps
<1>3. Len(s) = n
  BY DEF Keeps
<1> QED
  BY <1>1, <1>2, <1>3

-----------------------------------------------------------------------------
(* The weights of receipts and issuers. *)

\* What is aggregated.
Scored == [issuer: Sources \cup {"pctr.effect-boundary"}, score: Int, age: Int]

\* The largest of finitely many numbers.
LEMMA Largest ==
  ASSUME NEW S \in SUBSET Int, IsFiniteSet(S), S # {}
  PROVE  Max(S) \in S /\ Max(S) \in Int /\ \A y \in S : Max(S) >= y
<1> DEFINE Topped(T) == T = {} \/ \E x \in T : \A y \in T : x >= y
           G == {T \in SUBSET S : Topped(T)}
<1>1. {} \in G
  OBVIOUS
<1>2. ASSUME NEW T \in SUBSET S, NEW x \in S \ T, T \in G
      PROVE  T \cup {x} \in G
  <2>1. x \in Int /\ \A y \in T : y \in Int
    OBVIOUS
  <2>2. Topped(T)
    BY <1>2
  <2>3. CASE T = {}
    <3>1. \A y \in T \cup {x} : x >= y
      BY <2>1, <2>3
    <3> QED
      BY <3>1
  <2>4. CASE T # {}
    <3>1. PICK z \in T : \A y \in T : z >= y
      BY <2>2, <2>4
    <3>2. CASE x >= z
      <4>1. \A y \in T \cup {x} : x >= y
        BY <2>1, <3>1, <3>2
      <4> QED
        BY <4>1
    <3>3. CASE ~(x >= z)
      <4>1. \A y \in T \cup {x} : z >= y
        BY <2>1, <3>1, <3>3
      <4> QED
        BY <4>1
    <3> QED
      BY <3>2, <3>3
  <2> QED
    BY <2>3, <2>4
<1> HIDE DEF G
<1>3. S \in G
  BY <1>1, <1>2, SetInduction
<1>4. \E x \in S : \A y \in S : x >= y
  BY <1>3 DEF G
<1>5. Max(S) \in S /\ \A y \in S : Max(S) >= y
  BY <1>4 DEF Max
<1> QED
  BY <1>5

\* What finitely many are mapped to is finite.
LEMMA ImageFinite ==
  ASSUME NEW S, IsFiniteSet(S), NEW T, NEW f \in [S -> T], \A t \in T : \E x \in S : f[x] = t
  PROVE  IsFiniteSet(T)
<1>1. f \in Surjection(S, T)
  BY DEF Surjection
<1> QED
  BY <1>1, FS_Surjection

\* What stands at a place of a list of scores.
LEMMA ScoredPlace ==
  ASSUME NEW e \in Seq(Scored)
  PROVE  /\ Len(e) \in Nat /\ DOMAIN e = 1..Len(e) /\ IsFiniteSet(DOMAIN e)
         /\ \A k \in DOMAIN e : e[k] \in Scored /\ e[k].age \in Int /\ e[k].score \in Int
<1>1. Len(e) \in Nat /\ DOMAIN e = 1..Len(e) /\ \A k \in 1..Len(e) : e[k] \in Scored
  OBVIOUS
<1>2. IsFiniteSet(1..Len(e))
  BY <1>1, FS_Interval
<1> QED
  BY <1>1, <1>2 DEF Scored

\* Receipts in the window.
LEMMA WindowHolds ==
  ASSUME NEW e \in Seq(Scored), NEW limit
  PROVE  /\ windowReceipts(e, limit) \in Seq(Scored)
         /\ \A x : Holds(windowReceipts(e, limit), x)
                     <=> Holds(e, x) /\ Within(x.age, limit)
<1> DEFINE s == [k \in DOMAIN e |-> OnlyIf(Within(e[k].age, limit), e[k])]
           kept == [k \in DOMAIN e |-> Within(e[k].age, limit)]
           n == Len(e)
<1>1. n \in Nat /\ DOMAIN e = 1..n /\ \A k \in 1..n : e[k] \in Scored
  BY ScoredPlace
<1>2. \A k \in 1..n : s[k] = OnlyIf(kept[k], e[k])
  BY <1>1
<1>3. \A k \in 1..n : OnlyIf(kept[k], e[k]) \in Seq(Scored)
  BY <1>1 DEF OnlyIf
<1>4. s \in Seq(Seq(Scored)) /\ Len(s) = n
  <2>1. s \in [1..n -> Seq(Scored)]
    <3>1. \A k \in 1..n : s[k] \in Seq(Scored)
      BY <1>2, <1>3
    <3> QED
      BY <1>1, <3>1
  <2> HIDE DEF s, n
  <2> QED
    BY <1>1, <2>1, IsASeq, LenProperties
<1>5. \A k \in 1..n : kept[k] <=> Within(e[k].age, limit)
  BY <1>1
<1> HIDE DEF s, kept, n
<1>6. /\ FlattenSeq(s) \in Seq(Scored)
      /\ \A x : Holds(FlattenSeq(s), x) <=> \E k \in 1..n : kept[k] /\ x = e[k]
  <2>1. \A k \in 1..n : e[k] \in Scored /\ s[k] = OnlyIf(kept[k], e[k])
    BY <1>1, <1>2
  <2>2. Keeps(s, n, kept, e, Scored)
    BY <1>1, <1>4, <2>1 DEF Keeps
  <2> QED
    BY <2>2, HoldsKept
<1>7. \A x : Holds(FlattenSeq(s), x) <=> Holds(e, x) /\ Within(x.age, limit)
  BY <1>1, <1>5, <1>6 DEF Holds, n
<1>8. windowReceipts(e, limit) = FlattenSeq(s)
  BY DEF windowReceipts, s
<1> QED
  BY <1>6, <1>7, <1>8

\* Without a limit everything is in the window.
LEMMA WholeWindow ==
  ASSUME NEW e \in Seq(Scored)
  PROVE  windowReceipts(e, Unlimited) = e
<1> DEFINE s == [k \in DOMAIN e |-> OnlyIf(Within(e[k].age, Unlimited), e[k])]
           n == Len(e)
<1>1. n \in Nat /\ DOMAIN e = 1..n /\ \A k \in 1..n : e[k] \in Scored
  BY ScoredPlace
<1>2. \A k \in 1..n : s[k] = <<e[k]>>
  BY <1>1 DEF OnlyIf, Within
<1>3. s \in Seq(Seq(Scored)) /\ Len(s) = n
  <2>1. \A k \in 1..n : s[k] \in Seq(Scored)
    <3>1. \A k \in 1..n : <<e[k]>> \in Seq(Scored)
      BY <1>1
    <3> HIDE DEF s
    <3> QED
      BY <1>2, <3>1
  <2>2. s \in [1..n -> Seq(Scored)]
    BY <1>1, <2>1
  <2> HIDE DEF s, n
  <2> QED
    BY <1>1, <2>2, IsASeq, LenProperties
<1> HIDE DEF s
<1>4. FlattenSeq(s) = e
  BY <1>2, <1>3, FlattenedElements
<1> QED
  BY <1>4 DEF windowReceipts, s

\* There are issuers, and each has issued something.
LEMMA IssuersOf ==
  ASSUME NEW e \in Seq(Scored)
  PROVE  /\ IsFiniteSet(Issuers(e))
         /\ e # <<>> => Issuers(e) # {}
         /\ \A i : Of(e, i) \in SUBSET (DOMAIN e) /\ IsFiniteSet(Of(e, i))
         /\ \A i \in Issuers(e) : Of(e, i) # {}
<1>1. /\ Len(e) \in Nat /\ DOMAIN e = 1..Len(e) /\ IsFiniteSet(DOMAIN e)
  BY ScoredPlace
<1>2. IsFiniteSet({e[k].issuer : k \in DOMAIN e})
  <2> DEFINE f == [k \in DOMAIN e |-> e[k].issuer]
             T == {e[k].issuer : k \in DOMAIN e}
  <2>1. f \in [DOMAIN e -> T] /\ \A t \in T : \E k \in DOMAIN e : f[k] = t
    OBVIOUS
  <2> HIDE DEF f
  <2> QED
    BY <1>1, <2>1, ImageFinite
<1>3. e # <<>> => Issuers(e) # {}
  <2>1. ASSUME e # <<>> PROVE 1 \in DOMAIN e
    BY <1>1, <2>1
  <2> QED
    BY <2>1 DEF Issuers
<1>4. \A i : Of(e, i) \in SUBSET (DOMAIN e)
  BY DEF Of
<1>5. \A i : IsFiniteSet(Of(e, i))
  BY <1>1, <1>4, FS_Subset
<1> QED
  BY <1>2, <1>3, <1>4, <1>5 DEF Issuers, Of

\* The age that the weights are counted from.
Oldest(e) == Max({e[k].age : k \in DOMAIN e})

\* No receipt is older than the oldest.
LEMMA OldestAge ==
  ASSUME NEW e \in Seq(Scored), e # <<>>
  PROVE  /\ Oldest(e) \in Int
         /\ \E k \in DOMAIN e : Oldest(e) = e[k].age
         /\ \A k \in DOMAIN e : e[k].age <= Oldest(e)
<1> DEFINE S == {e[k].age : k \in DOMAIN e}
           f == [k \in DOMAIN e |-> e[k].age]
<1>1. /\ Len(e) \in Nat /\ DOMAIN e = 1..Len(e) /\ IsFiniteSet(DOMAIN e)
      /\ \A k \in DOMAIN e : e[k].age \in Int
  BY ScoredPlace
<1>2. IsFiniteSet(S)
  <2>1. f \in [DOMAIN e -> S] /\ \A t \in S : \E k \in DOMAIN e : f[k] = t
    OBVIOUS
  <2> HIDE DEF f
  <2> QED
    BY <1>1, <2>1, ImageFinite
<1>3. 1 \in DOMAIN e
  BY <1>1
<1>4. S \in SUBSET Int /\ S # {}
  BY <1>1, <1>3
<1>5. \A k \in DOMAIN e : e[k].age \in S
  OBVIOUS
<1>6. Oldest(e) = Max(S)
  BY DEF Oldest
<1> HIDE DEF S
<1>7. Max(S) \in S /\ Max(S) \in Int /\ \A y \in S : Max(S) >= y
  BY <1>2, <1>4, Largest
<1> QED
  BY <1>1, <1>5, <1>6, <1>7 DEF S

\* The weights of receipts are positive.
LEMMA SignalWeights ==
  ASSUME NEW e \in Seq(Scored), e # <<>>, NEW k \in DOMAIN e
  PROVE  /\ decay_weight(e)[k] = Power(2, Oldest(e) - e[k].age)
         /\ decay_weight(e)[k] \in Int /\ decay_weight(e)[k] > 0
         /\ signal_weight(e)[k] = decay_weight(e)[k] * (IF e[k].score < 10 THEN 3 ELSE 2)
         /\ signal_weight(e)[k] \in Int /\ signal_weight(e)[k] > 0
<1>1. e[k].age \in Int /\ e[k].score \in Int
  BY ScoredPlace
<1>2. Oldest(e) \in Int /\ e[k].age <= Oldest(e)
  BY OldestAge
<1>3. Oldest(e) - e[k].age \in Nat
  BY <1>1, <1>2
<1>4. decay_weight(e)[k] = Power(2, Oldest(e) - e[k].age)
  BY DEF decay_weight, Oldest
<1>5. decay_weight(e)[k] \in Int /\ decay_weight(e)[k] > 0
  <2> DEFINE d == Oldest(e) - e[k].age
  <2>1. d \in Nat
    BY <1>3
  <2> HIDE DEF d
  <2>2. Power(2, d) \in Int /\ Power(2, d) > 0
    <3>1. 2 \in Int /\ 2 > 0
      OBVIOUS
    <3> QED
      BY <2>1, <3>1, PowerPositive
  <2> QED
    BY <1>4, <2>2 DEF d
<1>6. signal_weight(e)[k] = decay_weight(e)[k] * (IF e[k].score < 10 THEN 3 ELSE 2)
  BY DEF signal_weight
<1> HIDE DEF decay_weight
<1> QED
  BY <1>1, <1>4, <1>5, <1>6

\* So are those of the issuers.
LEMMA RawWeights ==
  ASSUME NEW e \in Seq(Scored), e # <<>>
  PROVE  /\ DOMAIN issuer_raw_weight(e) = Issuers(e)
         /\ \A i : Summable(signal_weight(e), Of(e, i))
         /\ \A i \in Issuers(e) :
              /\ issuer_raw_weight(e)[i] = SumFunctionOnSet(signal_weight(e), Of(e, i))
              /\ issuer_raw_weight(e)[i] \in Int /\ issuer_raw_weight(e)[i] > 0
<1> DEFINE signal == signal_weight(e)
<1>1. \A k \in DOMAIN e : signal[k] \in Int /\ signal[k] > 0
  BY SignalWeights
<1>2. \A i : Of(e, i) \in SUBSET (DOMAIN e) /\ IsFiniteSet(Of(e, i))
  BY IssuersOf
<1>3. \A i \in Issuers(e) : Of(e, i) # {}
  BY IssuersOf
<1>4. /\ DOMAIN issuer_raw_weight(e) = Issuers(e)
      /\ \A i \in Issuers(e) : issuer_raw_weight(e)[i] = SumFunctionOnSet(signal, Of(e, i))
  BY DEF issuer_raw_weight
<1> HIDE DEF signal
<1>5. ASSUME NEW i
      PROVE  /\ Summable(signal, Of(e, i))
             /\ i \in Issuers(e) => /\ SumFunctionOnSet(signal, Of(e, i)) \in Int
                                    /\ SumFunctionOnSet(signal, Of(e, i)) > 0
  <2>1. Summable(signal, Of(e, i))
    BY <1>1, <1>2 DEF Summable
  <2>2. SumFunctionOnSet(signal, Of(e, i)) \in Int
    BY <2>1, SumOne
  <2>3. ASSUME i \in Issuers(e)
        PROVE  SumFunctionOnSet(signal, Of(e, i)) > 0
    <3>1. PICK k \in Of(e, i) : TRUE
      BY <1>3, <2>3
    <3>2. signal[k] <= SumFunctionOnSet(signal, Of(e, i))
      <4>1. \A j \in Of(e, i) : signal[j] >= 0
        BY <1>1, <1>2
      <4> QED
        BY <2>1, <3>1, <4>1, SumPositive
    <3> QED
      BY <1>1, <1>2, <2>2, <3>1, <3>2
  <2> QED
    BY <2>1, <2>2, <2>3
<1> QED
  BY <1>4, <1>5 DEF signal

-----------------------------------------------------------------------------
(* The water-fill. *)

\* Of products with a positive number, the order is that of the others.
LEMMA Divide ==
  ASSUME NEW x \in Int, NEW y \in Int, NEW z \in Int, z > 0, x * z <= y * z
  PROVE  x <= y
<1> SUFFICES ASSUME x > y PROVE FALSE
  OBVIOUS
<1>1. x - y >= 1 /\ (x - y) * z >= 1 * z
  BY TimesOrder
<1>2. (x - y) * z = x * z - y * z
  OBVIOUS
<1> QED
  BY <1>1, <1>2

\* There are issuers, and each has a weight.
Weighted(raw) ==
  /\ IsFiniteSet(DOMAIN raw) /\ DOMAIN raw # {}
  /\ \A i \in DOMAIN raw : raw[i] \in Int /\ raw[i] > 0

\* What the issuers that are not capped share, and their weight.
Left(cap, C) == cap.den - Cardinality(C) * cap.num

\* The weight of those who are not capped.
Free(raw, C) == SumFunctionOnSet(raw, DOMAIN raw \ C)

\* The capped issuers have at least the cap's part of what they share with the others.
Level(raw, cap, C) ==
  /\ C \in SUBSET (DOMAIN raw)
  /\ Left(cap, C) > 0
  /\ \A j \in C : raw[j] * Left(cap, C) >= cap.num * Free(raw, C)

\* A cap that n issuers can keep.
Keepable(cap, n) == /\ cap.num \in Nat /\ cap.num > 0 /\ cap.den \in Nat /\ cap.den > 0
                    /\ n * cap.num >= cap.den

\* The cap can be kept, and what it is.
LEMMA CapKept ==
  ASSUME NEW n \in Nat, n > 0
  PROVE  /\ Keepable(effectiveCap(n), n)
         /\ n <= 2 => effectiveCap(n).num = 1 /\ effectiveCap(n).den = n
         /\ n > 2 => effectiveCap(n).num = 2 /\ effectiveCap(n).den = 5
  BY DEF Keepable, effectiveCap, max_issuer_weight

\* The numbers that a level of capped issuers is about.
LEMMA LevelParts ==
  ASSUME NEW raw, Weighted(raw), NEW cap, Keepable(cap, Cardinality(DOMAIN raw)),
         NEW C, Level(raw, cap, C)
  PROVE  /\ IsFiniteSet(C) /\ Cardinality(C) \in Nat
         /\ Cardinality(DOMAIN raw) \in Nat
         /\ Cardinality(C) < Cardinality(DOMAIN raw)
         /\ Left(cap, C) \in Int /\ Left(cap, C) > 0
         /\ Summable(raw, DOMAIN raw)
         /\ Free(raw, C) \in Int /\ Free(raw, C) > 0
<1> DEFINE I == DOMAIN raw
           n == Cardinality(I)
<1>1. IsFiniteSet(I) /\ n \in Nat /\ \A i \in I : raw[i] \in Int /\ raw[i] > 0
  BY FS_CardinalityType DEF Weighted
<1>2. C \in SUBSET I /\ Left(cap, C) > 0
  BY DEF Level
<1>3. IsFiniteSet(C) /\ Cardinality(C) \in Nat /\ Cardinality(C) <= n
      /\ (Cardinality(C) = n => C = I)
  BY <1>1, <1>2, FS_Subset, FS_CardinalityType
<1>4. cap.num \in Nat /\ cap.den \in Nat /\ n * cap.num >= cap.den
  BY DEF Keepable
<1>5. Left(cap, C) \in Int
  BY <1>3, <1>4 DEF Left
<1>6. Cardinality(C) # n
  <2> SUFFICES ASSUME Cardinality(C) = n PROVE FALSE
    OBVIOUS
  <2>1. Left(cap, C) = cap.den - n * cap.num
    BY DEF Left
  <2> HIDE DEF n
  <2> QED
    BY <1>1, <1>2, <1>4, <2>1
<1>7. Summable(raw, I)
  BY <1>1 DEF Summable
<1>8. Summable(raw, I \ C)
  BY <1>2, <1>7, FS_Subset DEF Summable
<1>9. PICK i \in I \ C : TRUE
  <2>1. C # I
    BY <1>6
  <2> QED
    BY <1>2, <2>1
<1>10. Free(raw, C) \in Int /\ raw[i] <= Free(raw, C)
  <2> DEFINE R == I \ C
  <2>1. \A j \in R : raw[j] >= 0
    BY <1>1
  <2> HIDE DEF R
  <2>2. SumFunctionOnSet(raw, R) \in Int
    BY <1>8, SumOne DEF R
  <2>3. \A j \in R : raw[j] <= SumFunctionOnSet(raw, R)
    BY <1>8, <2>1, SumPositive DEF R
  <2> QED
    BY <1>9, <2>2, <2>3 DEF Free, R
<1>11. Free(raw, C) > 0
  BY <1>1, <1>9, <1>10
<1> QED
  BY <1>1, <1>2, <1>3, <1>5, <1>6, <1>7, <1>10, <1>11

\* The arithmetic of a pass: a issuers of weight w, each above the cap, leave less weight
\* to a larger part.
LEMMA Rise ==
  ASSUME NEW left \in Int, NEW free \in Int, NEW a \in Int, NEW num \in Int, NEW w \in Int,
         left > 0, free > 0, w <= free, w * left > (a * num) * free
  PROVE  /\ (free - w) * left < (left - a * num) * free
         /\ left - a * num > 0
<1>1. (free - w) * left = free * left - w * left
  OBVIOUS
<1> DEFINE c == a * num
<1>2. (left - c) * free = left * free - c * free
  <2>1. c \in Int
    OBVIOUS
  <2> HIDE DEF c
  <2> QED
    BY <2>1
<1>3. (free - w) * left < (left - c) * free
  <2>1. c \in Int /\ w * left > c * free
    OBVIOUS
  <2> HIDE DEF c
  <2> QED
    BY <1>1, <1>2, <2>1
<1>4. (free - w) * left >= 0
  BY TimesOrder
<1>5. left - c > 0
  <2> SUFFICES ASSUME left - c <= 0 PROVE FALSE
    OBVIOUS
  <2>1. c \in Int
    OBVIOUS
  <2> HIDE DEF c
  <2>2. (left - c) * free <= 0 * free
    BY <2>1, TimesOrder
  <2> QED
    BY <1>3, <1>4, <2>1, <2>2
<1> QED
  BY <1>3, <1>5

\* Who was over the cap stays over it when the others are capped too.
LEMMA Carry ==
  ASSUME NEW left \in Int, NEW free \in Int, NEW num \in Int, NEW r \in Int,
         NEW less \in Int, NEW fewer \in Int,
         left > 0, less > 0, num >= 0, r * left >= num * free, fewer * left < less * free
  PROVE  r * less >= num * fewer
<1>1. (num * free) * less <= (r * left) * less
  BY TimesOrder
<1>2. num * (fewer * left) <= num * (less * free)
  BY TimesOrder
<1>3. /\ (num * free) * less = num * (less * free)
      /\ num * (fewer * left) = (num * fewer) * left
      /\ (r * left) * less = (r * less) * left
  OBVIOUS
<1>4. (num * fewer) * left <= (r * less) * left
  BY <1>1, <1>2, <1>3
<1> QED
  BY <1>4, Divide

\* A pass keeps the level, and caps more or is the last.
LEMMA LevelRises ==
  ASSUME NEW raw, Weighted(raw), NEW cap, Keepable(cap, Cardinality(DOMAIN raw)),
         NEW C, Level(raw, cap, C)
  PROVE  /\ Level(raw, cap, C \cup Over(raw, cap, C))
         /\ \/ Over(raw, cap, C) = {}
            \/ Cardinality(C \cup Over(raw, cap, C)) >= Cardinality(C) + 1
<1> DEFINE I == DOMAIN raw
           O == Over(raw, cap, C)
           left == Left(cap, C)
           free == Free(raw, C)
           a == Cardinality(O)
           w == SumFunctionOnSet(raw, O)
<1>1. /\ IsFiniteSet(C) /\ Cardinality(C) \in Nat /\ left \in Int /\ left > 0
      /\ Summable(raw, I) /\ free \in Int /\ free > 0
  BY LevelParts
<1>2. C \in SUBSET I /\ \A j \in C : raw[j] * left >= cap.num * free
  BY DEF Level
<1>3. cap.num \in Nat /\ cap.num > 0 /\ cap.den \in Nat
  BY DEF Keepable
<1>4. O \in SUBSET (I \ C) /\ \A i \in O : raw[i] * left > cap.num * free
  BY DEF Over, Left, Free
<1>5. \A i \in I : raw[i] \in Int /\ raw[i] > 0
  BY DEF Weighted
<1>6. CASE O = {}
  <2>1. C \cup O = C
    BY <1>6
  <2> QED
    BY <1>6, <2>1
<1>7. CASE O # {}
  <2>1. /\ IsFiniteSet(O) /\ a \in Nat
        /\ IsFiniteSet(C \cup O) /\ Cardinality(C \cup O) = Cardinality(C) + a
    <3>1. IsFiniteSet(O)
      BY <1>1, <1>4, FS_Subset DEF Summable
    <3>2. a \in Nat
      BY <3>1, FS_CardinalityType
    <3>3. C \cap O = {}
      BY <1>4
    <3>4. IsFiniteSet(C \cup O)
      BY <1>1, <3>1, FS_Union
    <3>5. Cardinality(C \cup O) = Cardinality(C) + a
      <4> HIDE DEF O
      <4>1. Cardinality(C \cup O) = Cardinality(C) + Cardinality(O) - Cardinality(C \cap O)
        BY <1>1, <3>1, FS_Union
      <4>2. Cardinality(C \cap O) = 0
        BY <3>3, FS_EmptySet
      <4> QED
        BY <1>1, <3>2, <4>1, <4>2
    <3> QED
      BY <3>1, <3>2, <3>4, <3>5
  <2>2. a # 0
    BY <1>7, <2>1, FS_EmptySet
  <2>3. /\ Summable(raw, O) /\ w \in Int
        /\ Free(raw, C \cup O) \in Int
        /\ Free(raw, C \cup O) = free - w /\ w <= free
    <3> DEFINE R == I \ C
               Q == R \ O
    <3>1. Summable(raw, R)
      <4>1. IsFiniteSet(R)
        BY <1>1, FS_Subset DEF Summable
      <4> QED
        BY <1>5, <4>1 DEF Summable
    <3>2. O \in SUBSET R
      BY <1>4
    <3> HIDE DEF O
    <3>3. Q = I \ (C \cup O)
      OBVIOUS
    <3>4. \A j \in Q : raw[j] >= 0
      BY <1>5
    <3> HIDE DEF R
    <3>5. /\ Summable(raw, O) /\ Summable(raw, Q)
          /\ SumFunctionOnSet(raw, R) = SumFunctionOnSet(raw, O) + SumFunctionOnSet(raw, Q)
      BY <3>1, <3>2, SumSplit
    <3>6. SumFunctionOnSet(raw, O) \in Int
      BY <3>5, SumOne
    <3> HIDE DEF Q
    <3>7. SumFunctionOnSet(raw, Q) \in Int /\ SumFunctionOnSet(raw, Q) >= 0
      BY <3>4, <3>5, SumOne, SumPositive
    <3>8. free = SumFunctionOnSet(raw, R)
      BY DEF Free, R
    <3>9. Free(raw, C \cup O) = SumFunctionOnSet(raw, Q)
      BY <3>3 DEF Free
    <3> HIDE DEF free
    <3> QED
      BY <3>5, <3>6, <3>7, <3>8, <3>9
  <2>4. w * left > (a * cap.num) * free
    <3> DEFINE f == [i \in O |-> cap.num * free]
               g == [i \in O |-> left * raw[i]]
               v == cap.num * free
    <3>1. v \in Int
      BY <1>1, <1>3
    <3> HIDE DEF v, O, free, left
    <3>2. \A i \in O : /\ f[i] = v /\ g[i] = left * raw[i] /\ raw[i] \in Int
                       /\ g[i] \in Int /\ f[i] < g[i]
      BY <1>1, <1>4, <1>5 DEF v
    <3> HIDE DEF f, g
    <3>3. Summable(f, O) /\ SumFunctionOnSet(f, O) = a * v
      BY <2>1, <3>1, <3>2, SumConstant
    <3>4. Summable(g, O) /\ SumFunctionOnSet(g, O) = left * w
      <4>1. left \in Int /\ Summable(raw, O) /\ \A i \in O : g[i] = left * raw[i]
        BY <1>1, <2>3, <3>2
      <4> QED
        BY <4>1, SumScaled
    <3>5. PICK i \in O : TRUE
      BY <1>7
    <3>6. SumFunctionOnSet(f, O) < SumFunctionOnSet(g, O)
      <4>1. \A j \in O : f[j] <= g[j]
        BY <3>1, <3>2
      <4>2. f[i] < g[i]
        BY <3>2, <3>5
      <4> QED
        BY <3>3, <3>4, <3>5, <4>1, <4>2, SumStrict
    <3> HIDE DEF a, w
    <3>7. a * v = (a * cap.num) * free
      BY <1>1, <1>3, <2>1 DEF v
    <3> QED
      BY <1>1, <2>3, <3>3, <3>4, <3>6, <3>7
  <2>5. Left(cap, C \cup O) = left - a * cap.num
    <3>1. \A c, d, m \in Nat, b \in Nat : b - (c + d) * m = (b - c * m) - d * m
      OBVIOUS
    <3>2. Left(cap, C \cup O) = cap.den - (Cardinality(C) + a) * cap.num
      BY <2>1 DEF Left
    <3>3. left = cap.den - Cardinality(C) * cap.num
      BY DEF Left
    <3> HIDE DEF a, left, O
    <3> QED
      BY <1>1, <1>3, <2>1, <3>1, <3>2, <3>3
  <2> DEFINE less == Left(cap, C \cup O)
             fewer == Free(raw, C \cup O)
  <2>6. fewer * left < less * free /\ less > 0 /\ less \in Int
    <3> HIDE DEF a, left, free, w, O
    <3>1. /\ (free - w) * left < (left - a * cap.num) * free
          /\ left - a * cap.num > 0
      BY <1>1, <1>3, <2>1, <2>3, <2>4, Rise
    <3> QED
      BY <1>1, <1>3, <2>1, <2>3, <2>5, <3>1
  <2>7. ASSUME NEW j \in C \cup O
        PROVE  raw[j] * less >= cap.num * fewer
    <3>1. raw[j] \in Int
      BY <1>2, <1>4, <1>5
    <3> DEFINE p == cap.num * free
    <3>2. raw[j] * left >= cap.num * free
      <4>1. p \in Int /\ raw[j] * left \in Int
        BY <1>1, <1>3, <3>1
      <4>2. j \in C => raw[j] * left >= p
        BY <1>2
      <4>3. j \in O => raw[j] * left > p
        BY <1>4
      <4> HIDE DEF p, left, O
      <4>4. raw[j] * left >= p
        BY <4>1, <4>2, <4>3
      <4> QED
        BY <4>4 DEF p
    <3>3. fewer \in Int
      BY <2>3
    <3> HIDE DEF less, fewer, left, free
    <3> QED
      BY <1>1, <1>3, <2>6, <3>1, <3>2, <3>3, Carry
  <2>8. C \cup O \in SUBSET I
    BY <1>2, <1>4
  <2>9. Level(raw, cap, C \cup O)
    <3> HIDE DEF O
    <3> QED
      BY <2>6, <2>7, <2>8 DEF Level
  <2>10. Cardinality(C \cup O) >= Cardinality(C) + 1
    BY <1>1, <2>1, <2>2
  <2> QED
    BY <2>9, <2>10
<1> QED
  BY <1>6, <1>7

\* What the passes end with: the level, above which nobody is.
LEMMA PassesEnd ==
  ASSUME NEW raw, Weighted(raw), NEW cap, Keepable(cap, Cardinality(DOMAIN raw))
  PROVE  Level(raw, cap, Capped(raw, cap)) /\ Over(raw, cap, Capped(raw, cap)) = {}
<1> DEFINE n == Cardinality(DOMAIN raw)
           V == SUBSET (DOMAIN raw)
           More(C) == C \cup Over(raw, cap, C)
           step == [k \in 1..(n + 1) |-> [C \in V |-> More(C)]]
           Passed(g) == g = [k \in 0..(n + 1) |-> IF k = 0 THEN {} ELSE g[k - 1] \cup Over(raw, cap, g[k - 1])]
           pass == CHOOSE g : Passed(g)
           m == n + 1
           b == {}
<1>1. n \in Nat /\ IsFiniteSet(DOMAIN raw) /\ m \in Nat
  BY FS_CardinalityType DEF Weighted
<1>2. \A C \in V : More(C) \in V
  BY DEF Over
<1>3. PICK h : Runs(h, step, b, m, V)
  <2>1. Steps(step, m, V)
    <3> HIDE DEF More, V
    <3> QED
      BY <1>1, <1>2 DEF Steps
  <2>2. b \in V
    OBVIOUS
  <2> HIDE DEF step, V, m, b
  <2> QED
    BY <1>1, <2>1, <2>2, StepsRun
<1>4. Passed(h)
  <2>1. h \in [0..m -> V] /\ h[0] = {} /\ \A k \in 1..m : h[k] = step[k][h[k - 1]]
    BY <1>3 DEF Runs
  <2>2. ASSUME NEW k \in 1..m
        PROVE  h[k] = More(h[k - 1])
    <3>1. k - 1 \in 0..m
      BY <1>1
    <3>2. h[k - 1] \in V
      <4> HIDE DEF V, m
      <4> QED
        BY <2>1, <3>1
    <3>3. \A C \in V : step[k][C] = More(C)
      <4> HIDE DEF More, V
      <4> QED
        OBVIOUS
    <3>4. h[k] = step[k][h[k - 1]]
      BY <2>1
    <3> HIDE DEF More, V, step, m
    <3> QED
      BY <3>2, <3>3, <3>4
  <2> DEFINE At(k) == IF k = 0 THEN {} ELSE h[k - 1] \cup Over(raw, cap, h[k - 1])
  <2>3. \A k \in 0..m : h[k] = At(k)
    <3>1. \A k \in 0..m : k = 0 \/ k \in 1..m
      BY <1>1
    <3> HIDE DEF m
    <3> QED
      BY <2>1, <2>2, <3>1
  <2>4. h = [k \in 0..m |-> At(k)]
    <3> HIDE DEF At, m, V
    <3> QED
      BY <2>1, <2>3
  <2> QED
    BY <2>4
<1>5. Passed(pass)
  <2> HIDE DEF Passed
  <2> QED
    BY <1>4
<1>6. Capped(raw, cap) = pass[m]
  BY DEF Capped
<1>7. /\ pass[0] = {}
      /\ \A k \in 0..m : k # 0 => pass[k] = More(pass[k - 1])
  <2> HIDE DEF pass
  <2>1. \A k \in 0..(n + 1) :
          pass[k] = IF k = 0 THEN {} ELSE pass[k - 1] \cup Over(raw, cap, pass[k - 1])
    BY <1>5
  <2>2. 0 \in 0..(n + 1)
    BY <1>1
  <2> HIDE DEF n
  <2> QED
    BY <2>1, <2>2
<1> DEFINE Ends(C) == Over(raw, cap, C) = {}
           Good(C, k) == Level(raw, cap, C) /\ (Ends(C) \/ Cardinality(C) >= k)
           G == {k \in Nat : k <= m => Good(pass[k], k)}
<1>8. \A C : Level(raw, cap, C) =>
        /\ Cardinality(C) \in Nat /\ Cardinality(C) < n
        /\ Level(raw, cap, More(C))
        /\ Ends(C) \/ Cardinality(More(C)) >= Cardinality(C) + 1
  BY LevelParts, LevelRises
<1>9. Good({}, 0)
  <2>1. Cardinality({}) = 0
    BY FS_EmptySet
  <2>2. cap.num \in Nat /\ cap.den \in Nat /\ cap.den > 0
    BY DEF Keepable
  <2>3. Left(cap, {}) > 0
    BY <2>1, <2>2 DEF Left
  <2>4. Level(raw, cap, {})
    BY <2>3 DEF Level
  <2> QED
    BY <2>1, <2>4
<1>10. \A C : Ends(C) => More(C) = C
  OBVIOUS
<1> HIDE DEF More, Ends, pass
<1>11. 0 \in G
  BY <1>7, <1>9
<1>12. ASSUME NEW k \in Nat, k \in G
       PROVE  k + 1 \in G
  <2> SUFFICES ASSUME k + 1 <= m PROVE Good(pass[k + 1], k + 1)
    OBVIOUS
  <2>1. k + 1 \in 0..m /\ k + 1 # 0 /\ (k + 1) - 1 = k /\ k <= m
    BY <1>1
  <2>2. pass[k + 1] = More(pass[k])
    <3> HIDE DEF m
    <3> QED
      BY <1>7, <2>1
  <2>3. Good(pass[k], k)
    BY <1>12, <2>1
  <2> DEFINE C == pass[k]
  <2>4. Level(raw, cap, C) /\ (Ends(C) \/ Cardinality(C) >= k)
    BY <2>3
  <2> HIDE DEF C, m, G, n
  <2>5. Level(raw, cap, More(C)) /\ (Ends(C) \/ Cardinality(More(C)) >= Cardinality(C) + 1)
        /\ Cardinality(C) \in Nat
    BY <1>8, <2>4
  <2>6. Cardinality(More(C)) \in Nat
    BY <1>8, <2>5
  <2>7. CASE Ends(C)
    BY <1>10, <2>4, <2>7, <2>2 DEF C
  <2>8. CASE ~Ends(C)
    <3>1. Cardinality(More(C)) >= k + 1
      BY <2>4, <2>5, <2>6, <2>8
    <3> QED
      BY <2>2, <2>5, <3>1 DEF C
  <2> QED
    BY <2>7, <2>8
<1> HIDE DEF G
<1>13. Nat \subseteq G
  BY <1>11, <1>12, NumberInduction
<1>14. m \in G /\ m <= m
  BY <1>1, <1>13
<1>15. Good(pass[m], m)
  BY <1>14 DEF G
<1> DEFINE C == pass[m]
<1>16. Level(raw, cap, C) /\ (Ends(C) \/ Cardinality(C) >= m)
  BY <1>15
<1>17. Ends(C)
  <2> HIDE DEF C
  <2>1. Cardinality(C) \in Nat /\ Cardinality(C) < n
    BY <1>8, <1>16
  <2> QED
    BY <1>1, <1>16, <2>1
<1> QED
  BY <1>6, <1>16, <1>17 DEF Ends

-----------------------------------------------------------------------------
(* The shares of issuers, as more evidence comes in. *)

\* y is how the issuers in S, who weigh u, share the whole: none gets more than the cap's
\* part, and none less than its weight is worth unless it gets that.
Fair(S, u, y, whole, cap) ==
  /\ IsFiniteSet(S) /\ whole \in Int /\ whole > 0
  /\ \A i \in S : /\ u[i] \in Int /\ u[i] > 0
                  /\ y[i] \in Int /\ y[i] >= 0
                  /\ cap.den * y[i] <= cap.num * whole
  /\ SumFunctionOnSet(y, S) = whole
  /\ \A i, j \in S : y[i] * u[j] < y[j] * u[i] => cap.den * y[i] = cap.num * whole

\* The water-fill ends in shares that are fair.
LEMMA WeightsFair ==
  ASSUME NEW raw, Weighted(raw)
  PROVE  /\ Fair(DOMAIN raw, raw, Weights(raw).share, Weights(raw).whole,
                 effectiveCap(Cardinality(DOMAIN raw)))
         /\ DOMAIN Weights(raw).share = DOMAIN raw
<1> DEFINE I == DOMAIN raw
           n == Cardinality(I)
           cap == effectiveCap(n)
           num == cap.num
           den == cap.den
           C == Capped(raw, cap)
           left == Left(cap, C)
           free == Free(raw, C)
           share == Weights(raw).share
           whole == Weights(raw).whole
<1>1. IsFiniteSet(I) /\ n \in Nat /\ n > 0 /\ \A i \in I : raw[i] \in Int /\ raw[i] > 0
  <2>1. IsFiniteSet(I) /\ I # {} /\ \A i \in I : raw[i] \in Int /\ raw[i] > 0
    BY DEF Weighted
  <2>2. n \in Nat /\ n # 0
    BY <2>1, FS_CardinalityType, FS_EmptySet
  <2> QED
    BY <2>1, <2>2
<1>2. Keepable(cap, n)
  <2> HIDE DEF n
  <2> QED
    BY <1>1, CapKept
<1>3. num \in Nat /\ num > 0 /\ den \in Nat /\ den > 0
  BY <1>2 DEF Keepable
<1>4. Level(raw, cap, C) /\ Over(raw, cap, C) = {}
  <2> HIDE DEF cap
  <2> QED
    BY <1>2, PassesEnd
<1>5. /\ IsFiniteSet(C) /\ Cardinality(C) \in Nat /\ left \in Int /\ left > 0
      /\ Summable(raw, I) /\ free \in Int /\ free > 0
  <2> HIDE DEF cap, C
  <2> QED
    BY <1>2, <1>4, LevelParts
<1>6. C \in SUBSET I /\ \A j \in C : raw[j] * left >= num * free
  <2> HIDE DEF cap, C
  <2> QED
    BY <1>4 DEF Level
<1>7. whole = den * free /\ DOMAIN share = I
      /\ \A i \in I : share[i] = IF i \in C THEN num * free ELSE raw[i] * left
  BY DEF Weights, Left, Free
<1>8. \A i \in I \ C : raw[i] * left <= num * free
  <2> SUFFICES ASSUME NEW i \in I \ C PROVE raw[i] * left <= num * free
    OBVIOUS
  <2>1. ~(raw[i] * left > num * free)
    <3> HIDE DEF C, cap
    <3> QED
      BY <1>4 DEF Over, Left, Free
  <2> DEFINE x == raw[i] * left
             z == num * free
  <2>2. x \in Int /\ z \in Int
    BY <1>1, <1>3, <1>5
  <2> HIDE DEF x, z
  <2>3. ~(x > z)
    BY <2>1 DEF x, z
  <2>4. x <= z
    BY <2>2, <2>3
  <2> QED
    BY <2>4 DEF x, z
<1>9. Left(cap, C) = den - Cardinality(C) * num /\ free = SumFunctionOnSet(raw, I \ C)
  BY DEF Left, Free
<1> HIDE DEF num, den, C, left, free, share, whole, n
<1>10. whole \in Int /\ whole > 0
  BY <1>3, <1>5, <1>7
<1>11. ASSUME NEW i \in I
       PROVE  /\ raw[i] \in Int /\ raw[i] > 0
              /\ share[i] \in Int /\ share[i] >= 0
              /\ den * share[i] <= num * whole
              /\ i \in C => den * share[i] = num * whole
  <2>1. raw[i] \in Int /\ raw[i] > 0
    BY <1>1
  <2>2. num * whole = den * (num * free)
    BY <1>3, <1>5, <1>7
  <2>3. CASE i \in C
    <3>1. share[i] = num * free
      BY <1>7, <2>3
    <3>2. share[i] \in Int /\ share[i] >= 0
      BY <1>3, <1>5, <3>1
    <3>3. den * share[i] = num * whole
      BY <2>2, <3>1
    <3>4. num * whole \in Int
      BY <1>3, <1>10
    <3> QED
      BY <2>1, <3>2, <3>3, <3>4
  <2>4. CASE i \notin C
    <3>1. share[i] = raw[i] * left
      BY <1>7, <2>4
    <3>2. share[i] \in Int /\ share[i] >= 0
      BY <1>5, <2>1, <3>1
    <3>3. share[i] <= num * free /\ num * free \in Int
      BY <1>3, <1>5, <1>8, <2>4, <3>1
    <3>4. den * share[i] <= den * (num * free)
      BY <1>3, <3>2, <3>3, TimesOrder
    <3> QED
      BY <2>1, <2>2, <2>4, <3>2, <3>4
  <2> QED
    BY <2>3, <2>4
<1>12. SumFunctionOnSet(share, I) = whole
  <2> DEFINE R == I \ C
             v == num * free
  <2>1. IsFiniteSet(R)
    BY <1>1, FS_Subset
  <2>2. Summable(share, I) /\ Summable(raw, R)
    BY <1>1, <1>11, <2>1 DEF Summable
  <2>3. SumFunctionOnSet(share, I) = SumFunctionOnSet(share, C) + SumFunctionOnSet(share, R)
    BY <1>6, <2>2, SumSplit
  <2>4. SumFunctionOnSet(share, C) = Cardinality(C) * v
    <3>1. v \in Int
      BY <1>3, <1>5
    <3>2. \A i \in C : share[i] = v
      BY <1>6, <1>7
    <3> HIDE DEF v
    <3> QED
      BY <1>5, <3>1, <3>2, SumConstant
  <2>5. SumFunctionOnSet(share, R) = left * free
    <3>1. \A i \in R : share[i] = left * raw[i]
      <4>1. \A i \in R : raw[i] * left = left * raw[i]
        BY <1>1, <1>5
      <4> QED
        BY <1>7, <4>1
    <3>2. free = SumFunctionOnSet(raw, R)
      BY <1>9
    <3> HIDE DEF R
    <3>3. SumFunctionOnSet(share, R) = left * SumFunctionOnSet(raw, R)
      BY <1>5, <2>2, <3>1, SumScaled
    <3> QED
      BY <3>2, <3>3
  <2>6. left = den - Cardinality(C) * num
    BY <1>9 DEF left
  <2> DEFINE c == Cardinality(C)
  <2>7. c * v + left * free = den * free
    <3>1. \A a, b, d \in Int, f \in Int : a * (b * f) + (d - a * b) * f = d * f
      OBVIOUS
    <3>2. c \in Int /\ num \in Int /\ den \in Int /\ free \in Int /\ left = den - c * num
      BY <1>3, <1>5, <2>6
    <3> HIDE DEF c
    <3> QED
      BY <3>1, <3>2
  <2> QED
    BY <1>7, <2>3, <2>4, <2>5, <2>7
<1>13. ASSUME NEW i \in I, NEW j \in I, share[i] * raw[j] < share[j] * raw[i]
       PROVE  den * share[i] = num * whole
  <2> SUFFICES ASSUME i \notin C PROVE FALSE
    BY <1>11
  <2> DEFINE p == raw[i]
             q == raw[j]
             x == share[j]
  <2>1. p \in Int /\ q \in Int /\ p > 0 /\ q > 0 /\ x \in Int
    BY <1>11
  <2>2. share[i] = p * left
    BY <1>7
  <2>3. x <= q * left
    <3>1. q * left \in Int
      BY <1>5, <2>1
    <3>2. CASE j \in C
      <4>1. x = num * free /\ q * left >= num * free
        BY <1>6, <1>7, <3>2
      <4> HIDE DEF x, q
      <4> QED
        BY <4>1, <3>1, <2>1
    <3>3. CASE j \notin C
      <4>1. x = q * left
        BY <1>7, <3>3
      <4> HIDE DEF x, q
      <4> QED
        BY <3>1, <4>1
    <3> QED
      BY <3>2, <3>3
  <2>4. (p * left) * q < x * p
    BY <1>13, <2>2
  <2> HIDE DEF p, q, x
  <2>5. x * p <= (q * left) * p
    <3>1. q * left \in Int
      BY <1>5, <2>1
    <3> QED
      BY <2>1, <2>3, <3>1, TimesOrder
  <2>6. (q * left) * p = (p * left) * q
    BY <1>5, <2>1
  <2>7. (p * left) * q \in Int /\ x * p \in Int
    BY <1>5, <2>1
  <2> QED
    BY <2>4, <2>5, <2>6, <2>7
<1> QED
  BY <1>1, <1>7, <1>10, <1>11, <1>12, <1>13 DEF Fair, num, den, share, whole, n

\* Scaled weights, and a scaled whole, change nothing.
LEMMA FairScaled ==
  ASSUME NEW S, NEW u, NEW y, NEW whole, NEW cap, Fair(S, u, y, whole, cap),
         cap.num \in Nat, cap.den \in Nat,
         NEW c \in Nat, c > 0, NEW b \in Nat, b > 0,
         NEW v, \A i \in S : v[i] = c * u[i],
         NEW z, \A i \in S : z[i] = b * y[i]
  PROVE  Fair(S, v, z, b * whole, cap)
<1> DEFINE num == cap.num
           den == cap.den
<1>1. /\ IsFiniteSet(S) /\ whole \in Int /\ whole > 0
      /\ \A i \in S : /\ u[i] \in Int /\ u[i] > 0
                      /\ y[i] \in Int /\ y[i] >= 0
                      /\ den * y[i] <= num * whole
      /\ SumFunctionOnSet(y, S) = whole
      /\ \A i, j \in S : y[i] * u[j] < y[j] * u[i] => den * y[i] = num * whole
  BY DEF Fair
<1>2. num \in Int /\ den \in Int
  OBVIOUS
<1> HIDE DEF num, den
<1>3. SumFunctionOnSet(z, S) = b * whole
  <2>1. Summable(y, S)
    BY <1>1 DEF Summable
  <2>2. b \in Int /\ \A i \in S : z[i] = b * y[i]
    OBVIOUS
  <2>3. SumFunctionOnSet(z, S) = b * SumFunctionOnSet(y, S)
    BY <2>1, <2>2, SumScaled
  <2> QED
    BY <1>1, <2>3
<1>4. ASSUME NEW i \in S
      PROVE  /\ v[i] \in Int /\ v[i] > 0
             /\ z[i] \in Int /\ z[i] >= 0
             /\ den * z[i] <= num * (b * whole)
  <2> DEFINE p == u[i]
             x == y[i]
  <2>1. p \in Int /\ p > 0 /\ x \in Int /\ x >= 0 /\ den * x <= num * whole
    BY <1>1
  <2>2. v[i] = c * p /\ z[i] = b * x
    OBVIOUS
  <2> HIDE DEF p, x
  <2>3. (den * x) * b <= (num * whole) * b
    BY <1>1, <1>2, <2>1, TimesOrder
  <2>4. den * (b * x) = (den * x) * b /\ num * (b * whole) = (num * whole) * b
    BY <1>1, <1>2, <2>1
  <2>5. c * p \in Int /\ c * p > 0 /\ b * x \in Int /\ b * x >= 0
    BY <2>1
  <2> QED
    BY <2>2, <2>3, <2>4, <2>5
<1>5. ASSUME NEW i \in S, NEW j \in S, z[i] * v[j] < z[j] * v[i]
      PROVE  den * z[i] = num * (b * whole)
  <2> DEFINE p == u[i]
             q == u[j]
             x == y[i]
             w == y[j]
  <2>1. p \in Int /\ q \in Int /\ x \in Int /\ w \in Int
        /\ (x * q < w * p => den * x = num * whole)
    BY <1>1
  <2>2. (b * x) * (c * q) < (b * w) * (c * p) /\ z[i] = b * x
    BY <1>5
  <2> HIDE DEF p, q, x, w
  <2>3. x * q < w * p
    <3> SUFFICES ASSUME w * p <= x * q PROVE FALSE
      BY <2>1
    <3>1. (w * p) * (b * c) <= (x * q) * (b * c)
      <4>1. w * p \in Int /\ x * q \in Int /\ b * c \in Int /\ b * c >= 0
        BY <2>1
      <4> QED
        BY <4>1, TimesOrder
    <3>2. /\ (w * p) * (b * c) = (b * w) * (c * p)
          /\ (x * q) * (b * c) = (b * x) * (c * q)
          /\ (b * w) * (c * p) \in Int /\ (b * x) * (c * q) \in Int
      BY <2>1
    <3> QED
      BY <2>2, <3>1, <3>2
  <2>4. den * x = num * whole
    BY <2>1, <2>3
  <2>5. den * (b * x) = b * (den * x) /\ num * (b * whole) = b * (num * whole)
    BY <1>1, <1>2, <2>1
  <2> QED
    BY <2>2, <2>4, <2>5
<1>6. b * whole \in Int /\ b * whole > 0
  BY <1>1
<1> QED
  BY <1>1, <1>3, <1>4, <1>5, <1>6 DEF Fair, num, den

\* If the weight of everyone who was there has not fallen, nobody who was there gets more
\* than its weight was worth.  Only the cap of two would be smaller than that of one, and
\* that of three than that of two: but of one or two, each has the cap's part.
LEMMA FairFalls ==
  ASSUME NEW S, NEW T, S \in SUBSET T, S # {}, NEW u, NEW v, NEW y, NEW z, NEW whole,
         Fair(S, u, y, whole, effectiveCap(Cardinality(S))),
         Fair(T, v, z, whole, effectiveCap(Cardinality(T))),
         \A i \in S : u[i] <= v[i],
         NEW m \in S
  PROVE  z[m] * u[m] <= y[m] * v[m]
<1> DEFINE n == Cardinality(S)
           num == effectiveCap(n).num
           den == effectiveCap(n).den
           num2 == effectiveCap(Cardinality(T)).num
           den2 == effectiveCap(Cardinality(T)).den
<1>1. IsFiniteSet(T) /\ IsFiniteSet(S) /\ whole \in Int /\ whole > 0
  BY DEF Fair
<1>2. n \in Nat /\ n > 0 /\ Cardinality(T) \in Nat /\ n <= Cardinality(T)
  <2>1. n \in Nat /\ Cardinality(T) \in Nat /\ n # 0
    BY <1>1, FS_CardinalityType, FS_EmptySet
  <2>2. n <= Cardinality(T)
    BY <1>1, FS_Subset
  <2> QED
    BY <2>1, <2>2
<1>3. /\ n <= 2 => num = 1 /\ den = n
      /\ n > 2 => num = 2 /\ den = 5 /\ num2 = 2 /\ den2 = 5
      /\ Cardinality(T) <= 2 => num2 = 1 /\ den2 = Cardinality(T)
      /\ Cardinality(T) > 2 => num2 = 2 /\ den2 = 5
  <2> DEFINE k == Cardinality(T)
  <2> HIDE DEF n, k
  <2> QED
    BY <1>2, CapKept DEF k
<1>4. num \in Int /\ num > 0 /\ den \in Int /\ den > 0 /\ num2 \in Int /\ num2 > 0
      /\ den2 \in Int /\ den2 > 0 /\ num2 * den <= num * den2
  <2> HIDE DEF n, num, den, num2, den2
  <2>1. CASE n > 2
    BY <1>2, <1>3, <2>1
  <2>2. CASE n <= 2 /\ Cardinality(T) <= 2
    BY <1>2, <1>3, <2>2
  <2>3. CASE n <= 2 /\ Cardinality(T) > 2
    <3>1. n = 1 \/ n = 2
      BY <1>2, <2>3
    <3> QED
      BY <1>2, <1>3, <2>3, <3>1
  <2> QED
    BY <1>2, <2>1, <2>2, <2>3
<1>5. \A i \in S : /\ u[i] \in Int /\ u[i] > 0 /\ y[i] \in Int /\ y[i] >= 0
                   /\ den * y[i] <= num * whole
                   /\ \A j \in S : y[i] * u[j] < y[j] * u[i] => den * y[i] = num * whole
  BY DEF Fair
<1>6. \A i \in T : /\ v[i] \in Int /\ v[i] > 0 /\ z[i] \in Int /\ z[i] >= 0
                   /\ den2 * z[i] <= num2 * whole
                   /\ \A j \in T : z[i] * v[j] < z[j] * v[i] => den2 * z[i] = num2 * whole
  BY DEF Fair
<1>7. SumFunctionOnSet(y, S) = whole /\ SumFunctionOnSet(z, T) = whole
  BY DEF Fair
<1>8. Summable(y, S) /\ Summable(z, T) /\ Summable(z, S)
  BY <1>1, <1>5, <1>6 DEF Summable
<1> SUFFICES ASSUME ~(z[m] * u[m] <= y[m] * v[m]) PROVE FALSE
  OBVIOUS
<1> DEFINE um == u[m]
           vm == v[m]
           ym == y[m]
           zm == z[m]
<1>9. /\ um \in Int /\ um > 0 /\ vm \in Int /\ vm > 0 /\ um <= vm
      /\ ym \in Int /\ ym >= 0 /\ zm \in Int /\ zm >= 0
  BY <1>5, <1>6
<1>10. zm * um > ym * vm
  <2>1. ~(zm * um <= ym * vm)
    OBVIOUS
  <2> HIDE DEF um, vm, ym, zm
  <2> QED
    BY <1>9, <2>1
<1>11. den2 * zm <= num2 * whole
  BY <1>6
<1>12. \A j \in S : ym * u[j] < y[j] * um => den * ym = num * whole
  BY <1>5
<1>13. \A j \in S : z[j] * vm < zm * v[j] => den2 * z[j] = num2 * whole
  BY <1>6
<1> HIDE DEF n, num, den, num2, den2, um, vm, ym, zm
<1>14. ym < zm
  <2> SUFFICES ASSUME zm <= ym PROVE FALSE
    BY <1>9
  <2>1. zm * um <= ym * um /\ ym * um <= ym * vm
    BY <1>9, TimesOrder
  <2> QED
    BY <1>9, <1>10, <2>1
<1>15. den * ym < num * whole
  <2> SUFFICES ASSUME num * whole <= den * ym PROVE FALSE
    BY <1>1, <1>4, <1>9
  <2>1. (num * whole) * den2 <= (den * ym) * den2
    BY <1>1, <1>4, <1>9, TimesOrder
  <2>2. (den2 * zm) * den <= (num2 * whole) * den
    BY <1>1, <1>4, <1>9, <1>11, TimesOrder
  <2>3. (num2 * den) * whole <= (num * den2) * whole
    BY <1>1, <1>4, TimesOrder
  <2>4. ym * (den * den2) < zm * (den * den2)
    <3>1. den * den2 > 0 /\ den * den2 \in Int
      BY <1>4
    <3> DEFINE d == den * den2
    <3> HIDE DEF d
    <3>2. d > 0 /\ d \in Int
      BY <3>1 DEF d
    <3>3. (ym + 1) * d <= zm * d
      BY <1>9, <1>14, <3>2, TimesOrder
    <3>4. (ym + 1) * d = ym * d + d
      BY <1>9, <3>2
    <3>5. ym * d < zm * d
      <4>1. ym * d \in Int /\ zm * d \in Int
        BY <1>9, <3>2
      <4> QED
        BY <3>2, <3>3, <3>4, <4>1
    <3> QED
      BY <3>5 DEF d
  <2>5. /\ (num * whole) * den2 = (num * den2) * whole
        /\ (den * ym) * den2 = ym * (den * den2)
        /\ (den2 * zm) * den = zm * (den * den2)
        /\ (num2 * whole) * den = (num2 * den) * whole
        /\ (num * den2) * whole \in Int /\ ym * (den * den2) \in Int
        /\ zm * (den * den2) \in Int /\ (num2 * den) * whole \in Int
    BY <1>1, <1>4, <1>9
  <2> QED
    BY <2>1, <2>2, <2>3, <2>4, <2>5
<1>16. CASE n <= 2
  <2> DEFINE f == [i \in S |-> n * y[i]]
             g == [i \in S |-> whole]
  <2>1. \A i \in S : /\ f[i] = n * y[i] /\ g[i] = whole
                     /\ f[i] \in Int /\ f[i] <= g[i]
    BY <1>2, <1>3, <1>5, <1>16, <1>1
  <2>2. f[m] < g[m]
    <3>1. n * ym < 1 * whole
      BY <1>3, <1>15, <1>16
    <3>2. n * y[m] < whole
      BY <1>1, <3>1 DEF ym
    <3>3. f[m] = n * y[m] /\ g[m] = whole
      OBVIOUS
    <3> QED
      BY <3>2, <3>3
  <2> HIDE DEF f, g
  <2>3. Summable(f, S) /\ SumFunctionOnSet(f, S) = n * whole
    <3>1. n \in Int /\ \A i \in S : f[i] = n * y[i]
      BY <1>2, <2>1
    <3>2. Summable(f, S) /\ SumFunctionOnSet(f, S) = n * SumFunctionOnSet(y, S)
      BY <1>8, <3>1, SumScaled, ZenonT(60)
    <3> QED
      BY <1>7, <3>2
  <2>4. Summable(g, S) /\ SumFunctionOnSet(g, S) = n * whole
    <3>1. \A i \in S : g[i] = whole
      BY <2>1
    <3>2. Summable(g, S) /\ SumFunctionOnSet(g, S) = Cardinality(S) * whole
      BY <1>1, <3>1, SumConstant
    <3> QED
      BY <3>2 DEF n
  <2>5. SumFunctionOnSet(f, S) < SumFunctionOnSet(g, S)
    BY <2>1, <2>2, <2>3, <2>4, SumStrict
  <2>6. n * whole \in Int
    BY <1>1, <1>2
  <2> QED
    BY <2>3, <2>4, <2>5, <2>6
<1>17. CASE n > 2
  <2>1. num = 2 /\ den = 5 /\ num2 = 2 /\ den2 = 5
    BY <1>3, <1>17
  <2>2. ASSUME NEW j \in S
        PROVE  y[j] <= z[j]
    <3> DEFINE uj == u[j]
               vj == v[j]
               yj == y[j]
               zj == z[j]
    <3>1. /\ uj \in Int /\ uj > 0 /\ vj \in Int /\ vj > 0 /\ uj <= vj
          /\ yj \in Int /\ yj >= 0 /\ zj \in Int /\ zj >= 0
          /\ den * yj <= num * whole
      BY <1>5, <1>6
    <3>2. ym * uj < yj * um => den * ym = num * whole
      BY <1>12
    <3>3. zj * vm < zm * vj => den2 * zj = num2 * whole
      BY <1>13
    <3> HIDE DEF uj, vj, yj, zj
    <3>4. yj * um <= ym * uj
      <4>1. ~(ym * uj < yj * um)
        BY <1>15, <3>2, <1>1, <1>4, <1>9
      <4>2. ym * uj \in Int /\ yj * um \in Int
        BY <1>9, <3>1
      <4> QED
        BY <4>1, <4>2
    <3>5. CASE zj * vm < zm * vj
      <4>1. 5 * zj = 2 * whole /\ 5 * yj <= 2 * whole
        BY <2>1, <3>1, <3>3, <3>5
      <4> QED
        BY <1>1, <3>1, <4>1 DEF yj, zj
    <3>6. CASE ~(zj * vm < zm * vj)
      <4>0. zm * vj <= zj * vm
        <5>1. zm * vj \in Int /\ zj * vm \in Int
          BY <1>9, <3>1
        <5> QED
          BY <3>6, <5>1
      <4>1. (yj * um) * vm <= (ym * uj) * vm
        BY <1>9, <3>1, <3>4, TimesOrder
      <4>2. (ym * vm) * uj <= (zm * um) * uj
        BY <1>9, <1>10, <3>1, TimesOrder
      <4>3. (zm * um) * uj <= (zm * um) * vj
        <5>1. zm * um \in Int /\ zm * um >= 0
          BY <1>9
        <5> QED
          BY <3>1, <5>1, TimesOrder
      <4>4. (zm * vj) * um <= (zj * vm) * um
        BY <1>9, <3>1, <4>0, TimesOrder
      <4>5. /\ (ym * uj) * vm = (ym * vm) * uj
            /\ (zm * um) * vj = (zm * vj) * um
            /\ (yj * um) * vm = yj * (um * vm)
            /\ (zj * vm) * um = zj * (um * vm)
            /\ (ym * vm) * uj \in Int /\ (zm * vj) * um \in Int
            /\ yj * (um * vm) \in Int /\ zj * (um * vm) \in Int
            /\ (zm * um) * uj \in Int
            /\ um * vm \in Int /\ um * vm > 0
        BY <1>9, <3>1
      <4>6. yj * (um * vm) <= zj * (um * vm)
        BY <4>1, <4>2, <4>3, <4>4, <4>5
      <4>7. yj <= zj
        BY <3>1, <4>5, <4>6, Divide
      <4> QED
        BY <4>7 DEF yj, zj
    <3> QED
      BY <3>5, <3>6
  <2>3. y[m] < z[m]
    BY <1>14 DEF ym, zm
  <2>4. SumFunctionOnSet(y, S) < SumFunctionOnSet(z, S)
    BY <1>8, <2>2, <2>3, SumStrict
  <2>5. SumFunctionOnSet(z, S) <= SumFunctionOnSet(z, T)
    <3> DEFINE R == T \ S
    <3>1. Summable(z, R) /\ SumFunctionOnSet(z, T) = SumFunctionOnSet(z, S) + SumFunctionOnSet(z, R)
      BY <1>8, SumSplit
    <3>2. \A i \in R : z[i] >= 0
      BY <1>6
    <3> HIDE DEF R
    <3>3. SumFunctionOnSet(z, R) >= 0 /\ SumFunctionOnSet(z, R) \in Int
      BY <3>1, <3>2, SumPositive, SumOne
    <3>4. SumFunctionOnSet(z, S) \in Int
      BY <1>8, SumOne
    <3> QED
      BY <3>1, <3>3, <3>4
  <2>6. SumFunctionOnSet(y, S) \in Int /\ SumFunctionOnSet(z, S) \in Int
    BY <1>8, SumOne
  <2> QED
    BY <1>1, <1>7, <2>4, <2>5, <2>6
<1> QED
  BY <1>2, <1>16, <1>17

-----------------------------------------------------------------------------
(* Thousandths. *)

\* Thousandths before they are cut off at 0 and 1000.
Part(score, unit) == 50 * (score \div unit) + (50 * (score % unit)) \div unit

\* Division with a remainder.
LEMMA Quotient ==
  ASSUME NEW x \in Int, NEW y \in Int, y > 0
  PROVE  /\ x \div y \in Int /\ x % y \in Int
         /\ x = (x \div y) * y + (x % y)
         /\ 0 <= (x % y) /\ (x % y) < y
  OBVIOUS

\* What is rounded down to thousandths is less than one of them too small.
LEMMA PartRounds ==
  ASSUME NEW score \in Int, NEW unit \in Int, unit > 0
  PROVE  /\ Part(score, unit) \in Int
         /\ Part(score, unit) * unit <= 50 * score
         /\ 50 * score < (Part(score, unit) + 1) * unit
<1> DEFINE q == score \div unit
           r == score % unit
           w == (50 * r) \div unit
           s == (50 * r) % unit
<1>1. q \in Int /\ r \in Int /\ score = q * unit + r /\ 0 <= r /\ r < unit
  BY Quotient
<1>2. 50 * r \in Int
  BY <1>1
<1>3. w \in Int /\ s \in Int /\ 50 * r = w * unit + s /\ 0 <= s /\ s < unit
  <2> HIDE DEF r
  <2> QED
    BY <1>2, Quotient
<1>4. Part(score, unit) = 50 * q + w
  BY DEF Part
<1> HIDE DEF q, r, w, s
<1>5. /\ (50 * q + w) * unit = 50 * (q * unit) + w * unit
      /\ ((50 * q + w) + 1) * unit = (50 * (q * unit) + w * unit) + unit
      /\ q * unit \in Int /\ w * unit \in Int
  BY <1>1, <1>3
<1>6. 50 * score = 50 * (q * unit) + (w * unit + s)
  BY <1>1, <1>3, <1>5
<1> QED
  BY <1>1, <1>3, <1>4, <1>5, <1>6

\* Thousandths are cut off at 0 and 1000.
LEMMA InThousandths ==
  ASSUME NEW score \in Int, NEW unit \in Int, unit > 0
  PROVE  /\ Thousandths(score, unit) \in Int
         /\ Thousandths(score, unit)
              = IF Part(score, unit) < 0 THEN 0
                ELSE IF Part(score, unit) > 1000 THEN 1000 ELSE Part(score, unit)
<1> DEFINE t == Part(score, unit)
<1>1. t \in Int
  BY PartRounds
<1>2. Thousandths(score, unit) = IF t < 0 THEN 0 ELSE IF t > 1000 THEN 1000 ELSE t
  BY DEF Thousandths, Part
<1> HIDE DEF t
<1>3. Thousandths(score, unit) \in Int
  BY <1>1, <1>2
<1> QED
  BY <1>2, <1>3 DEF t

\* A fraction that is not larger is not larger in thousandths either.
LEMMA ThousandthsOrder ==
  ASSUME NEW a \in Int, NEW u \in Int, u > 0, NEW b \in Int, NEW v \in Int, v > 0,
         a * v <= b * u
  PROVE  Thousandths(a, u) <= Thousandths(b, v)
<1> DEFINE s == Part(a, u)
           t == Part(b, v)
<1>1. s \in Int /\ s * u <= 50 * a
  BY PartRounds
<1>2. t \in Int /\ 50 * b < (t + 1) * v
  BY PartRounds
<1>3. /\ Thousandths(a, u) = IF s < 0 THEN 0 ELSE IF s > 1000 THEN 1000 ELSE s
      /\ Thousandths(b, v) = IF t < 0 THEN 0 ELSE IF t > 1000 THEN 1000 ELSE t
  BY InThousandths
<1> HIDE DEF s, t
<1>4. s <= t
  <2> SUFFICES ASSUME t + 1 <= s PROVE FALSE
    BY <1>1, <1>2
  <2>1. ((t + 1) * u) * v <= (s * u) * v
    <3>1. (t + 1) * u <= s * u
      BY <1>1, <1>2, TimesOrder
    <3>2. (t + 1) * u \in Int /\ s * u \in Int
      BY <1>1, <1>2
    <3> QED
      BY <3>1, <3>2, TimesOrder
  <2>2. (s * u) * v <= (50 * a) * v
    BY <1>1, TimesOrder
  <2>3. 50 * (a * v) <= 50 * (b * u)
    BY TimesOrder
  <2>4. (50 * b) * u < ((t + 1) * v) * u
    <3>1. (50 * b + 1) * u <= ((t + 1) * v) * u
      <4>1. 50 * b + 1 <= (t + 1) * v /\ (t + 1) * v \in Int
        BY <1>2
      <4> QED
        BY <4>1, TimesOrder
    <3>2. (50 * b + 1) * u = (50 * b) * u + u /\ (50 * b) * u \in Int
      OBVIOUS
    <3>3. ((t + 1) * v) * u \in Int
      BY <1>2
    <3> QED
      BY <3>1, <3>2, <3>3
  <2>5. /\ (50 * a) * v = 50 * (a * v) /\ (50 * b) * u = 50 * (b * u)
        /\ ((t + 1) * v) * u = ((t + 1) * u) * v
        /\ ((t + 1) * u) * v \in Int /\ (s * u) * v \in Int
        /\ a * v \in Int /\ b * u \in Int
    BY <1>1, <1>2
  <2> QED
    BY <2>1, <2>2, <2>3, <2>4, <2>5
<1> QED
  BY <1>1, <1>2, <1>3, <1>4

\* A fraction of at most b twentieths is at most 50 b thousandths.
LEMMA ThousandthsBound ==
  ASSUME NEW a \in Int, NEW u \in Int, u > 0, NEW b \in Nat, a <= b * u
  PROVE  Thousandths(a, u) <= 50 * b
<1> DEFINE s == Part(a, u)
<1>1. s \in Int /\ s * u <= 50 * a
  BY PartRounds
<1>2. Thousandths(a, u) = IF s < 0 THEN 0 ELSE IF s > 1000 THEN 1000 ELSE s
  BY InThousandths
<1> HIDE DEF s
<1>3. s * u <= (50 * b) * u
  <2>1. b * u \in Int /\ s * u \in Int /\ (50 * b) * u = 50 * (b * u)
    BY <1>1
  <2> QED
    BY <1>1, <2>1
<1>4. s <= 50 * b
  BY <1>1, <1>3, Divide
<1> QED
  BY <1>1, <1>2, <1>4

\* What is combined: the parts of the issuers, and the whole of the weights.
PartOf(sum, raw, share, i) == sum[i] * share[i] * Product(raw, DOMAIN raw \ {i})

\* The parts of all issuers.
Parts(sum, raw, share) == [i \in DOMAIN raw |-> PartOf(sum, raw, share, i)]

\* The whole that the parts are parts of.
Whole(raw, whole) == whole * Product(raw, DOMAIN raw)

\* The product of the weights without that of one issuer.
LEMMA Others ==
  ASSUME NEW raw, Weighted(raw)
  PROVE  /\ Summable(raw, DOMAIN raw)
         /\ Product(raw, DOMAIN raw) \in Int /\ Product(raw, DOMAIN raw) > 0
         /\ \A i \in DOMAIN raw :
              /\ Product(raw, DOMAIN raw \ {i}) \in Int /\ Product(raw, DOMAIN raw \ {i}) > 0
              /\ Product(raw, DOMAIN raw) = raw[i] * Product(raw, DOMAIN raw \ {i})
<1>1. Summable(raw, DOMAIN raw) /\ \A i \in DOMAIN raw : raw[i] > 0 /\ raw[i] \in Int
  BY DEF Weighted, Summable
<1>2. Product(raw, DOMAIN raw) \in Int
      /\ \A i \in DOMAIN raw : Product(raw, DOMAIN raw) = raw[i] * Product(raw, DOMAIN raw \ {i})
  BY <1>1, ProductOne
<1>3. Product(raw, DOMAIN raw) > 0
  BY <1>1, ProductPositive
<1>4. ASSUME NEW i \in DOMAIN raw
      PROVE  Product(raw, DOMAIN raw \ {i}) \in Int /\ Product(raw, DOMAIN raw \ {i}) > 0
  <2> DEFINE S == DOMAIN raw \ {i}
  <2>1. Summable(raw, S)
    <3>1. IsFiniteSet(S)
      BY <1>1, FS_Subset DEF Summable
    <3> QED
      BY <1>1, <3>1 DEF Summable
  <2>2. \A x \in S : raw[x] > 0
    BY <1>1
  <2> HIDE DEF S
  <2>3. Product(raw, S) \in Int /\ Product(raw, S) > 0
    BY <2>1, <2>2, ProductOne, ProductPositive
  <2> QED
    BY <2>3 DEF S
<1> QED
  BY <1>1, <1>2, <1>3, <1>4

\* The combination is the sum of the parts over the whole.
LEMMA CombinedParts ==
  ASSUME NEW sum, NEW raw, NEW weight
  PROVE  Combined(sum, raw, weight)
           = Thousandths(SumFunctionOnSet(Parts(sum, raw, weight.share), DOMAIN raw),
                         Whole(raw, weight.whole))
  BY DEF Combined, Parts, PartOf, Whole

\* What the combination is made of.
LEMMA Combining ==
  ASSUME NEW raw, Weighted(raw), NEW sum, \A i \in DOMAIN raw : sum[i] \in Int
  PROVE  /\ Summable(Parts(sum, raw, Weights(raw).share), DOMAIN raw)
         /\ SumFunctionOnSet(Parts(sum, raw, Weights(raw).share), DOMAIN raw) \in Int
         /\ Whole(raw, Weights(raw).whole) \in Int /\ Whole(raw, Weights(raw).whole) > 0
         /\ Combined(sum, raw, Weights(raw)) \in Int
<1> DEFINE share == Weights(raw).share
           whole == Weights(raw).whole
           parts == Parts(sum, raw, share)
           cap == effectiveCap(Cardinality(DOMAIN raw))
<1>1. Fair(DOMAIN raw, raw, share, whole, cap)
  BY WeightsFair
<1>2. /\ whole \in Int /\ whole > 0 /\ IsFiniteSet(DOMAIN raw)
      /\ \A i \in DOMAIN raw : share[i] \in Int
  <2> HIDE DEF share, whole, cap
  <2> QED
    BY <1>1 DEF Fair
<1> HIDE DEF share, whole
<1>3. ASSUME NEW i \in DOMAIN raw PROVE parts[i] \in Int
  <2> DEFINE p == Product(raw, DOMAIN raw \ {i})
             x == sum[i]
             y == share[i]
  <2>1. p \in Int /\ x \in Int /\ y \in Int
    BY <1>2, Others
  <2>2. parts[i] = x * y * p
    BY DEF Parts, PartOf
  <2> HIDE DEF p, x, y, parts
  <2>3. x * y * p \in Int
    BY <2>1
  <2> QED
    BY <2>2, <2>3
<1>4. Summable(parts, DOMAIN raw)
  BY <1>2, <1>3 DEF Summable
<1>5. SumFunctionOnSet(parts, DOMAIN raw) \in Int
  <2> HIDE DEF parts
  <2> QED
    BY <1>4, SumOne
<1>6. Whole(raw, whole) \in Int /\ Whole(raw, whole) > 0
  <2> DEFINE p == Product(raw, DOMAIN raw)
  <2>1. p \in Int /\ p > 0
    BY Others
  <2>2. Whole(raw, whole) = whole * p
    BY DEF Whole
  <2> HIDE DEF p
  <2>3. whole * p \in Int /\ whole * p > 0
    BY <1>2, <2>1
  <2> QED
    BY <2>2, <2>3
<1>7. Combined(sum, raw, Weights(raw)) \in Int
  <2>1. Combined(sum, raw, Weights(raw))
          = Thousandths(SumFunctionOnSet(parts, DOMAIN raw), Whole(raw, whole))
    BY CombinedParts DEF share, whole
  <2> HIDE DEF parts
  <2> QED
    BY <1>5, <1>6, <2>1, InThousandths
<1> QED
  BY <1>4, <1>5, <1>6, <1>7 DEF share, whole

-----------------------------------------------------------------------------
(* More or better evidence (Aggregation). *)

\* The scores of the receipts, each with its weight.
SignalScores(e) == [k \in DOMAIN e |-> e[k].score * signal_weight(e)[k]]

\* The weights and sums of scores of the issuers are numbers, the weights positive.
LEMMA ScoreSums ==
  ASSUME NEW e \in Seq(Scored), e # <<>>
  PROVE  /\ Weighted(issuer_raw_weight(e))
         /\ \A k \in DOMAIN e : SignalScores(e)[k] = e[k].score * signal_weight(e)[k]
                                /\ SignalScores(e)[k] \in Int
         /\ \A i : Summable(SignalScores(e), Of(e, i))
         /\ \A i \in Issuers(e) :
              /\ weightedSum(e)[i] = SumFunctionOnSet(SignalScores(e), Of(e, i))
              /\ weightedSum(e)[i] \in Int
<1>1. Weighted(issuer_raw_weight(e))
  <2>1. IsFiniteSet(Issuers(e)) /\ Issuers(e) # {}
    BY IssuersOf
  <2> QED
    BY <2>1, RawWeights DEF Weighted
<1>2. ASSUME NEW k \in DOMAIN e
      PROVE  SignalScores(e)[k] = e[k].score * signal_weight(e)[k] /\ SignalScores(e)[k] \in Int
  <2> DEFINE x == e[k].score
             y == signal_weight(e)[k]
  <2>1. x \in Int
    BY ScoredPlace
  <2>2. y \in Int
    BY SignalWeights
  <2>3. SignalScores(e)[k] = x * y
    BY DEF SignalScores
  <2> HIDE DEF x, y
  <2>4. x * y \in Int
    BY <2>1, <2>2
  <2> QED
    BY <2>3, <2>4 DEF x, y
<1>3. ASSUME NEW i PROVE Summable(SignalScores(e), Of(e, i))
  BY <1>2, IssuersOf DEF Summable
<1>4. ASSUME NEW i \in Issuers(e)
      PROVE  /\ weightedSum(e)[i] = SumFunctionOnSet(SignalScores(e), Of(e, i))
             /\ weightedSum(e)[i] \in Int
  <2>1. weightedSum(e)[i] = SumFunctionOnSet(SignalScores(e), Of(e, i))
    BY DEF weightedSum, SignalScores
  <2>2. SumFunctionOnSet(SignalScores(e), Of(e, i)) \in Int
    BY <1>3, SumOne
  <2> QED
    BY <2>1, <2>2
<1> QED
  BY <1>1, <1>2, <1>3, <1>4

\* Without a limit on age, the trust is the combination over all receipts.
LEMMA AllAggregated ==
  ASSUME NEW e \in Seq(Scored), e # <<>>
  PROVE  /\ aggregateTrust(e, Unlimited)
              = Combined(weightedSum(e), issuer_raw_weight(e), Weights(issuer_raw_weight(e)))
         /\ aggregateTrust(e, Unlimited) \in Int
<1>1. windowReceipts(e, Unlimited) = e
  BY WholeWindow
<1>2. aggregateTrust(e, Unlimited)
        = Combined(weightedSum(e), issuer_raw_weight(e), Weights(issuer_raw_weight(e)))
  BY <1>1 DEF aggregateTrust
<1>3. \A i \in DOMAIN issuer_raw_weight(e) : weightedSum(e)[i] \in Int
  BY ScoreSums, RawWeights
<1>4. Weighted(issuer_raw_weight(e))
  BY ScoreSums
<1>5. Combined(weightedSum(e), issuer_raw_weight(e), Weights(issuer_raw_weight(e))) \in Int
  BY <1>3, <1>4, Combining
<1> QED
  BY <1>2, <1>5

\* The shares that are given are fair, whatever the receipts.
LEMMA AllSharesFair ==
  ASSUME NEW e \in Seq(Scored), e # <<>>
  PROVE  SharesAreFair(e)
<1> DEFINE raw == issuer_raw_weight(e)
           share == Weights(raw).share
           whole == Weights(raw).whole
           cap == effectiveCap(Cardinality(DOMAIN raw))
<1>1. Weighted(raw)
  BY ScoreSums
<1>2. Fair(DOMAIN raw, raw, share, whole, cap) /\ DOMAIN share = DOMAIN raw
  <2> HIDE DEF raw
  <2> QED
    BY <1>1, WeightsFair
<1>3. cap.num \in Nat /\ cap.den \in Nat
  <2> DEFINE n == Cardinality(DOMAIN raw)
  <2>1. n \in Nat /\ n # 0
    <3> HIDE DEF raw
    <3> QED
      BY <1>1, FS_CardinalityType, FS_EmptySet DEF Weighted
  <2> HIDE DEF n
  <2>2. Keepable(effectiveCap(n), n)
    BY <2>1, CapKept
  <2> QED
    BY <2>2 DEF Keepable, n
<1> SUFFICES /\ SumFunction(share) = whole
             /\ \A i \in DOMAIN raw : (cap.num * whole) - (cap.den * share[i]) >= 0
             /\ \A i, j \in DOMAIN raw :
                  share[i] * raw[j] < share[j] * raw[i]
                    => (cap.num * whole) - (cap.den * share[i]) = 0
  BY DEF SharesAreFair
<1> HIDE DEF raw, share, whole, cap
<1>4. SumFunction(share) = whole
  BY <1>2 DEF Fair, SumFunction, SumFunctionOnSet, FoldFunction
<1>5. \A i \in DOMAIN raw : (cap.num * whole) - (cap.den * share[i]) >= 0
  <2> TAKE i \in DOMAIN raw
  <2> DEFINE a == cap.num * whole
             b == cap.den * share[i]
  <2>1. b <= a /\ share[i] \in Int /\ whole \in Int
    BY <1>2 DEF Fair
  <2>2. a \in Int /\ b \in Int
    BY <1>3, <2>1
  <2> HIDE DEF a, b
  <2>3. a - b >= 0
    BY <2>1, <2>2
  <2> QED
    BY <2>3 DEF a, b
<1>6. \A i, j \in DOMAIN raw :
         share[i] * raw[j] < share[j] * raw[i]
           => (cap.num * whole) - (cap.den * share[i]) = 0
  <2> TAKE i, j \in DOMAIN raw
  <2> HAVE share[i] * raw[j] < share[j] * raw[i]
  <2> DEFINE a == cap.num * whole
             b == cap.den * share[i]
  <2>1. b = a /\ whole \in Int
    BY <1>2 DEF Fair
  <2>2. a \in Int
    BY <1>3, <2>1
  <2> HIDE DEF a, b
  <2>3. a - b = 0
    BY <2>1, <2>2
  <2> QED
    BY <2>3 DEF a, b
<1> QED
  BY <1>4, <1>5, <1>6

\* With the same weights, better sums do not combine to less.
LEMMA CombinedRises ==
  ASSUME NEW raw, Weighted(raw), NEW sum, NEW sum2,
         \A i \in DOMAIN raw : sum[i] \in Int /\ sum2[i] \in Int /\ sum[i] <= sum2[i]
  PROVE  Combined(sum, raw, Weights(raw)) <= Combined(sum2, raw, Weights(raw))
<1> DEFINE share == Weights(raw).share
           whole == Weights(raw).whole
           parts == Parts(sum, raw, share)
           parts2 == Parts(sum2, raw, share)
           unit == Whole(raw, whole)
           a == SumFunctionOnSet(parts, DOMAIN raw)
           b == SumFunctionOnSet(parts2, DOMAIN raw)
<1>1. /\ Summable(parts, DOMAIN raw) /\ a \in Int
      /\ unit \in Int /\ unit > 0
  BY Combining
<1>2. Summable(parts2, DOMAIN raw) /\ b \in Int
  BY Combining
<1>3. /\ Combined(sum, raw, Weights(raw)) = Thousandths(a, unit)
      /\ Combined(sum2, raw, Weights(raw)) = Thousandths(b, unit)
  BY CombinedParts
<1>4. ASSUME NEW i \in DOMAIN raw PROVE parts[i] <= parts2[i]
  <2> DEFINE p == Product(raw, DOMAIN raw \ {i})
             x == sum[i]
             x2 == sum2[i]
             y == share[i]
             cap == effectiveCap(Cardinality(DOMAIN raw))
  <2>1. p \in Int /\ p > 0
    BY Others
  <2>2. x \in Int /\ x2 \in Int /\ x <= x2
    OBVIOUS
  <2>3. y \in Int /\ y >= 0
    <3>1. Fair(DOMAIN raw, raw, share, whole, cap)
      BY WeightsFair
    <3> HIDE DEF share, whole, cap
    <3>2. share[i] \in Int /\ share[i] >= 0
      BY <3>1 DEF Fair
    <3> QED
      BY <3>2
  <2>4. parts[i] = x * y * p /\ parts2[i] = x2 * y * p
    BY DEF Parts, PartOf
  <2> HIDE DEF p, x, x2, y, parts, parts2
  <2>5. x * y <= x2 * y /\ x * y \in Int /\ x2 * y \in Int
    BY <2>2, <2>3, TimesOrder
  <2>6. x * y * p <= x2 * y * p
    BY <2>1, <2>5, TimesOrder
  <2> QED
    BY <2>4, <2>6
<1> HIDE DEF parts, parts2, unit, share, whole
<1>5. a <= b
  BY <1>1, <1>2, <1>4, SumCompare
<1> HIDE DEF a, b
<1>6. a * unit <= b * unit
  BY <1>1, <1>2, <1>5, TimesOrder
<1> QED
  BY <1>1, <1>2, <1>3, <1>6, ThousandthsOrder

\* The weights of a list, but for the scores, are those of its issuers and ages.
LEMMA SameWeights ==
  ASSUME NEW e \in Seq(Scored), NEW d \in Seq(Scored), DOMAIN d = DOMAIN e,
         \A k \in DOMAIN e : /\ d[k].issuer = e[k].issuer /\ d[k].age = e[k].age
                             /\ d[k].score < 10 <=> e[k].score < 10
  PROVE  /\ Issuers(d) = Issuers(e) /\ \A i : Of(d, i) = Of(e, i)
         /\ signal_weight(d) = signal_weight(e)
         /\ issuer_raw_weight(d) = issuer_raw_weight(e)
<1>1. Issuers(d) = Issuers(e) /\ \A i : Of(d, i) = Of(e, i)
  BY DEF Issuers, Of
<1>2. {d[k].age : k \in DOMAIN d} = {e[k].age : k \in DOMAIN e}
  OBVIOUS
<1>3. decay_weight(d) = decay_weight(e)
  BY <1>2 DEF decay_weight
<1>4. signal_weight(d) = signal_weight(e)
  BY <1>3 DEF signal_weight
<1>5. issuer_raw_weight(d) = issuer_raw_weight(e)
  BY <1>1, <1>4 DEF issuer_raw_weight
<1> QED
  BY <1>1, <1>4, <1>5

\* Better scores on the same side of 0.5 do not lower the trust.
LEMMA Better ==
  ASSUME NEW e \in Seq(Scored), e # <<>>, NEW d \in Seq(Scored), DOMAIN d = DOMAIN e,
         \A k \in DOMAIN e : /\ d[k].issuer = e[k].issuer /\ d[k].age = e[k].age
                             /\ d[k].score < 10 <=> e[k].score < 10
                             /\ e[k].score <= d[k].score
  PROVE  aggregateTrust(e, Unlimited) <= aggregateTrust(d, Unlimited)
<1> DEFINE raw == issuer_raw_weight(e)
<1>1. d # <<>>
  OBVIOUS
<1>2. /\ Issuers(d) = Issuers(e) /\ \A i : Of(d, i) = Of(e, i)
      /\ signal_weight(d) = signal_weight(e)
      /\ issuer_raw_weight(d) = raw
  BY SameWeights
<1>3. Weighted(raw) /\ DOMAIN raw = Issuers(e)
  BY ScoreSums, RawWeights
<1>4. ASSUME NEW i \in Issuers(e)
      PROVE  weightedSum(e)[i] \in Int /\ weightedSum(d)[i] \in Int
             /\ weightedSum(e)[i] <= weightedSum(d)[i]
  <2> DEFINE S == Of(e, i)
  <2>1. /\ weightedSum(e)[i] = SumFunctionOnSet(SignalScores(e), S)
        /\ weightedSum(e)[i] \in Int
        /\ Summable(SignalScores(e), S)
    BY ScoreSums
  <2>2. /\ weightedSum(d)[i] = SumFunctionOnSet(SignalScores(d), S)
        /\ weightedSum(d)[i] \in Int
        /\ Summable(SignalScores(d), S)
    BY <1>1, <1>2, ScoreSums
  <2>3. ASSUME NEW k \in S PROVE SignalScores(e)[k] <= SignalScores(d)[k]
    <3> DEFINE x == e[k].score
               y == d[k].score
               w == signal_weight(e)[k]
    <3>1. k \in DOMAIN e /\ k \in DOMAIN d
      BY DEF Of
    <3>2. x \in Int /\ y \in Int
      BY <3>1, ScoredPlace
    <3>3. x <= y
      BY <3>1
    <3>4. w \in Int /\ w > 0
      BY <3>1, SignalWeights
    <3>5. SignalScores(e)[k] = x * w
      BY <3>1, ScoreSums
    <3>6. SignalScores(d)[k] = y * w
      BY <1>1, <1>2, <3>1, ScoreSums
    <3> HIDE DEF x, y, w
    <3> QED
      BY <3>2, <3>3, <3>4, <3>5, <3>6, TimesOrder
  <2> HIDE DEF S
  <2>4. SumFunctionOnSet(SignalScores(e), S) <= SumFunctionOnSet(SignalScores(d), S)
    BY <2>1, <2>2, <2>3, SumCompare
  <2> QED
    BY <2>1, <2>2, <2>4
<1>5. Combined(weightedSum(e), raw, Weights(raw)) <= Combined(weightedSum(d), raw, Weights(raw))
  <2> HIDE DEF raw
  <2> QED
    BY <1>3, <1>4, CombinedRises
<1>6. aggregateTrust(e, Unlimited) = Combined(weightedSum(e), raw, Weights(raw))
  BY AllAggregated
<1>7. aggregateTrust(d, Unlimited) = Combined(weightedSum(d), raw, Weights(raw))
  BY <1>1, <1>2, AllAggregated
<1> QED
  BY <1>5, <1>6, <1>7

\* What an issuer gives is what is aggregated.
LEMMA ScoredSignals ==
  /\ \A x \in Signal : /\ x \in Scored /\ x.score \in 0..20
                       /\ \A y \in Int : [x EXCEPT !.score = y] \in Scored
  /\ \A e \in Seq(Signal) : e \in Seq(Scored)
<1>1. ASSUME NEW x \in Signal
      PROVE  /\ x \in Scored /\ x.score \in 0..20
             /\ \A y \in Int : [x EXCEPT !.score = y] \in Scored
  <2>1. /\ x = [issuer |-> x.issuer, score |-> x.score, age |-> x.age]
        /\ x.issuer \in Sources /\ x.score \in 0..20 /\ x.age \in Int
    BY DEF Signal
  <2>2. x \in Scored
    BY <2>1 DEF Scored
  <2>3. ASSUME NEW y \in Int PROVE [x EXCEPT !.score = y] \in Scored
    <3>1. [x EXCEPT !.score = y] = [issuer |-> x.issuer, score |-> y, age |-> x.age]
      BY <2>1
    <3> QED
      BY <2>1, <3>1 DEF Scored
  <2> QED
    BY <2>1, <2>2, <2>3
<1>2. ASSUME NEW e \in Seq(Signal) PROVE e \in Seq(Scored)
  <2>1. Len(e) \in Nat /\ e \in [1..Len(e) -> Signal]
    OBVIOUS
  <2>2. e \in [1..Len(e) -> Scored]
    BY <1>1, <2>1
  <2> QED
    BY <2>1, <2>2
<1> QED
  BY <1>1, <1>2

\* BetterNeverHurts of every sequence of signals.
LEMMA AllBetter ==
  ASSUME NEW e \in Seq(Signal), e # <<>>
  PROVE  BetterNeverHurts(e)
<1> SUFFICES ASSUME NEW k \in DOMAIN e
             PROVE  aggregateTrust(e, Unlimited)
                      <= aggregateTrust([e EXCEPT ![k].score = IF @ < 10 THEN 9 ELSE 20], Unlimited)
  BY DEF BetterNeverHurts
<1> DEFINE d == [e EXCEPT ![k].score = IF @ < 10 THEN 9 ELSE 20]
<1>1. e \in Seq(Scored)
  BY ScoredSignals
<1>2. e \in [1..Len(e) -> Signal] /\ Len(e) \in Nat
  OBVIOUS
<1>3. /\ DOMAIN d = DOMAIN e
      /\ \A j \in DOMAIN e : j # k => d[j] = e[j]
      /\ d[k] = [e[k] EXCEPT !.score = IF e[k].score < 10 THEN 9 ELSE 20]
  OBVIOUS
<1>4. ASSUME NEW j \in DOMAIN e
      PROVE  /\ d[j] \in Scored
             /\ d[j].issuer = e[j].issuer /\ d[j].age = e[j].age
             /\ d[j].score < 10 <=> e[j].score < 10
             /\ e[j].score <= d[j].score
  <2>1. e[j] \in Signal
    BY <1>2
  <2> DEFINE x == e[j]
  <2>2. x \in Scored /\ x.score \in 0..20
    BY <2>1, ScoredSignals
  <2>3. CASE j = k
    <3> DEFINE s == IF x.score < 10 THEN 9 ELSE 20
    <3>1. d[j] = [x EXCEPT !.score = s]
      BY <1>3, <2>3
    <3>2. s \in Int /\ (s < 10 <=> x.score < 10) /\ x.score <= s
      <4> DEFINE o == x.score
      <4>1. o \in 0..20
        BY <2>2
      <4> HIDE DEF o
      <4>2. o < 10 => 9 \in Int /\ 9 < 10 /\ o <= 9
        BY <4>1
      <4>3. ~(o < 10) => 20 \in Int /\ ~(20 < 10) /\ o <= 20
        BY <4>1
      <4>4. s = IF o < 10 THEN 9 ELSE 20
        BY DEF o
      <4> HIDE DEF s
      <4>5. s \in Int /\ (s < 10 <=> o < 10) /\ o <= s
        BY <4>2, <4>3, <4>4
      <4> QED
        BY <4>5 DEF o
    <3>3. [x EXCEPT !.score = s] \in Scored
      BY <2>1, <3>2, ScoredSignals
    <3> HIDE DEF s
    <3>4. /\ [x EXCEPT !.score = s].issuer = x.issuer
          /\ [x EXCEPT !.score = s].age = x.age
          /\ [x EXCEPT !.score = s].score = s
      BY <2>1 DEF Signal
    <3> HIDE DEF d
    <3> QED
      BY <3>1, <3>2, <3>3, <3>4
  <2>4. CASE j # k
    <3>1. d[j] = x
      BY <1>3, <2>4
    <3> HIDE DEF d
    <3>2. d[j].score <= d[j].score
      BY <2>2, <3>1, SMTT(30)
    <3> QED
      BY <2>2, <3>1, <3>2
  <2> QED
    BY <2>3, <2>4
<1>5. d \in Seq(Scored)
  <2>0. DOMAIN e = 1..Len(e) /\ \A j \in DOMAIN e : d[j] \in Scored
    BY <1>2, <1>4
  <2>1. d = [j \in 1..Len(e) |-> d[j]]
    BY <1>2
  <2> HIDE DEF d
  <2>2. d \in [1..Len(e) -> Scored]
    BY <2>0, <2>1
  <2> QED
    BY <1>2, <2>2
<1> HIDE DEF d
<1>6. aggregateTrust(e, Unlimited) <= aggregateTrust(d, Unlimited)
  BY <1>1, <1>3, <1>4, <1>5, Better
<1> QED
  BY <1>6 DEF d

\* a / b <= c / d, as products, times what is not negative.
LEMMA TermFalls ==
  ASSUME NEW s \in Int, s >= 0, NEW c \in Int,
         NEW w \in Int, NEW x \in Int, NEW r \in Int, NEW p \in Int, p > 0,
         NEW ww \in Int, NEW xx \in Int, NEW rr \in Int, NEW pp \in Int, pp > 0,
         (xx * w) * (c * r) <= (x * ww) * rr
  PROVE  (w * (r * p)) * ((c * s) * xx * pp) <= (ww * (rr * pp)) * (s * x * p)
<1> DEFINE a == (xx * w) * (c * r)
           b == (x * ww) * rr
           f == s * (p * pp)
<1>1. a \in Int /\ b \in Int
  OBVIOUS
<1>2. f \in Int /\ f >= 0
  <2>1. p * pp \in Int /\ p * pp >= 0
    OBVIOUS
  <2> DEFINE t == p * pp
  <2> HIDE DEF t
  <2>2. s * t \in Int /\ s * t >= 0
    BY <2>1 DEF t
  <2> QED
    BY <2>2 DEF t
<1>3. (w * (r * p)) * ((c * s) * xx * pp) = a * f
  OBVIOUS
<1>4. (ww * (rr * pp)) * (s * x * p) = b * f
  OBVIOUS
<1>5. a <= b
  OBVIOUS
<1> HIDE DEF a, b, f
<1>6. a * f <= b * f
  BY <1>1, <1>2, <1>5, TimesOrder
<1> QED
  BY <1>3, <1>4, <1>6

\* If no weight falls but by the scale, and nobody who comes adds to the score, the
\* combined score does not rise.
LEMMA CombinedFalls ==
  ASSUME NEW raw, Weighted(raw), NEW raw2, Weighted(raw2),
         DOMAIN raw \in SUBSET (DOMAIN raw2),
         NEW c \in Nat, c > 0,
         NEW sum, NEW sum2,
         \A i \in DOMAIN raw : /\ c * raw[i] <= raw2[i]
                               /\ sum[i] \in Int /\ sum[i] >= 0
                               /\ sum2[i] = c * sum[i],
         \A i \in DOMAIN raw2 \ DOMAIN raw : sum2[i] = 0
  PROVE  Combined(sum2, raw2, Weights(raw2)) <= Combined(sum, raw, Weights(raw))
<1> DEFINE S == DOMAIN raw
           T == DOMAIN raw2
           share == Weights(raw).share
           whole == Weights(raw).whole
           share2 == Weights(raw2).share
           whole2 == Weights(raw2).whole
           parts == Parts(sum, raw, share)
           parts2 == Parts(sum2, raw2, share2)
           unit == Whole(raw, whole)
           unit2 == Whole(raw2, whole2)
           a == SumFunctionOnSet(parts, S)
           b == SumFunctionOnSet(parts2, T)
<1>1. ASSUME NEW i \in S
      PROVE  /\ raw[i] \in Int /\ raw[i] > 0 /\ raw2[i] \in Int /\ raw2[i] > 0
             /\ c * raw[i] <= raw2[i] /\ sum[i] \in Int /\ sum[i] >= 0
             /\ sum2[i] = c * sum[i]
  BY DEF Weighted
<1>2. \A i \in T : sum2[i] \in Int
  <2> TAKE i \in T
  <2>1. CASE i \in S
    <3>1. sum[i] \in Int /\ sum2[i] = c * sum[i]
      BY <1>1, <2>1
    <3> DEFINE x == sum[i]
    <3> HIDE DEF x
    <3>2. x \in Int => c * x \in Int
      OBVIOUS
    <3> QED
      BY <3>1, <3>2 DEF x
  <2>2. CASE i \notin S
    BY <2>2
  <2> QED
    BY <2>1, <2>2
<1>3. Summable(parts, S) /\ a \in Int /\ unit \in Int /\ unit > 0
  <2>1. \A i \in DOMAIN raw : sum[i] \in Int
    BY <1>1
  <2> QED
    BY <2>1, Combining
<1>4. Summable(parts2, T) /\ b \in Int /\ unit2 \in Int /\ unit2 > 0
  BY <1>2, Combining
<1>5. /\ Combined(sum, raw, Weights(raw)) = Thousandths(a, unit)
      /\ Combined(sum2, raw2, Weights(raw2)) = Thousandths(b, unit2)
  BY CombinedParts
<1>6. /\ Fair(S, raw, share, whole, effectiveCap(Cardinality(S)))
      /\ Fair(T, raw2, share2, whole2, effectiveCap(Cardinality(T)))
  BY WeightsFair
<1>7. /\ IsFiniteSet(S) /\ S # {} /\ IsFiniteSet(T) /\ T # {}
      /\ whole \in Nat /\ whole > 0 /\ whole2 \in Nat /\ whole2 > 0
      /\ \A i \in S : share[i] \in Int
      /\ \A i \in T : share2[i] \in Int
  <2>1. S # {} /\ T # {}
    BY DEF Weighted
  <2> HIDE DEF S, T, share, whole, share2, whole2
  <2> QED
    BY <1>6, <2>1 DEF Fair
<1>8. /\ effectiveCap(Cardinality(S)).num \in Nat /\ effectiveCap(Cardinality(S)).den \in Nat
      /\ effectiveCap(Cardinality(T)).num \in Nat /\ effectiveCap(Cardinality(T)).den \in Nat
  <2> DEFINE m == Cardinality(S)
             n == Cardinality(T)
  <2>1. m \in Nat /\ m # 0
    <3> HIDE DEF S
    <3> QED
      BY <1>7, FS_CardinalityType, FS_EmptySet
  <2>2. n \in Nat /\ n # 0
    <3> HIDE DEF T
    <3> QED
      BY <1>7, FS_CardinalityType, FS_EmptySet
  <2> HIDE DEF m, n
  <2>3. Keepable(effectiveCap(m), m) /\ Keepable(effectiveCap(n), n)
    BY <2>1, <2>2, CapKept
  <2> QED
    BY <2>3 DEF Keepable, m, n
<1> DEFINE u == [i \in S |-> c * raw[i]]
           y == [i \in S |-> whole2 * share[i]]
           z == [i \in T |-> whole * share2[i]]
<1>9. ASSUME NEW i \in S
      PROVE  (share2[i] * whole) * (c * raw[i]) <= (share[i] * whole2) * raw2[i]
  <2>1. Fair(S, u, y, whole2 * whole, effectiveCap(Cardinality(S)))
    <3>1. (\A j \in S : u[j] = c * raw[j]) /\ \A j \in S : y[j] = whole2 * share[j]
      OBVIOUS
    <3> HIDE DEF S, u, y, share, whole, whole2
    <3> QED
      BY <1>6, <1>7, <1>8, <3>1, FairScaled
  <2>2. Fair(T, raw2, z, whole2 * whole, effectiveCap(Cardinality(T)))
    <3>1. \A j \in T : z[j] = whole * share2[j]
      OBVIOUS
    <3>2. \A j \in T : raw2[j] = 1 * raw2[j]
      BY DEF Weighted
    <3> HIDE DEF T, z, share2, whole, whole2
    <3>3. 1 \in Nat /\ 1 > 0
      OBVIOUS
    <3>4. Fair(T, raw2, z, whole * whole2, effectiveCap(Cardinality(T)))
      BY <1>6, <1>7, <1>8, <3>1, <3>2, <3>3, FairScaled, SMTT(30)
    <3>5. whole * whole2 = whole2 * whole
      BY <1>7
    <3> QED
      BY <3>4, <3>5
  <2>3. \A j \in S : u[j] <= raw2[j]
    BY <1>1
  <2>4. z[i] * u[i] <= y[i] * raw2[i]
    <3> HIDE DEF S, T, u, y, z, share, whole, share2, whole2
    <3>1. S \in SUBSET T
      BY DEF S, T
    <3> DEFINE common == whole2 * whole
    <3> HIDE DEF common
    <3>2. /\ Fair(S, u, y, common, effectiveCap(Cardinality(S)))
          /\ Fair(T, raw2, z, common, effectiveCap(Cardinality(T)))
      BY <2>1, <2>2 DEF common
    <3> QED
      BY <1>7, <2>3, <3>1, <3>2, FairFalls
  <2>5. z[i] = share2[i] * whole /\ y[i] = share[i] * whole2
    <3>1. i \in T /\ share[i] \in Int /\ share2[i] \in Int
      BY <1>7
    <3>2. z[i] = whole * share2[i] /\ y[i] = whole2 * share[i]
      BY <3>1
    <3> HIDE DEF share, whole, share2, whole2, y, z
    <3> QED
      BY <1>7, <3>1, <3>2
  <2>6. u[i] = c * raw[i]
    OBVIOUS
  <2> HIDE DEF u, y, z, share, whole, share2, whole2
  <2> QED
    BY <2>4, <2>5, <2>6
<1>10. ASSUME NEW i \in S PROVE unit * parts2[i] <= unit2 * parts[i]
  <2> DEFINE s == sum[i]
             w == whole
             x == share[i]
             r == raw[i]
             p == Product(raw, DOMAIN raw \ {i})
             ww == whole2
             xx == share2[i]
             rr == raw2[i]
             pp == Product(raw2, DOMAIN raw2 \ {i})
  <2>1. /\ s \in Int /\ s >= 0 /\ w \in Int /\ x \in Int /\ r \in Int
        /\ ww \in Int /\ xx \in Int /\ rr \in Int /\ c \in Int
    BY <1>1, <1>7
  <2>2. p \in Int /\ p > 0 /\ Product(raw, DOMAIN raw) = r * p
    BY Others
  <2>3. pp \in Int /\ pp > 0 /\ Product(raw2, DOMAIN raw2) = rr * pp
    BY Others
  <2>4. unit = w * (r * p) /\ unit2 = ww * (rr * pp)
    BY <2>2, <2>3 DEF Whole
  <2>5. parts[i] = s * x * p
    BY DEF Parts, PartOf
  <2>6. parts2[i] = (c * s) * xx * pp
    BY <1>1 DEF Parts, PartOf
  <2>7. (xx * w) * (c * r) <= (x * ww) * rr
    BY <1>9
  <2> HIDE DEF s, w, x, r, p, ww, xx, rr, pp, unit, unit2, parts, parts2
  <2>8. (w * (r * p)) * ((c * s) * xx * pp) <= (ww * (rr * pp)) * (s * x * p)
    BY <2>1, <2>2, <2>3, <2>7, TermFalls
  <2> QED
    BY <2>4, <2>5, <2>6, <2>8
<1>11. ASSUME NEW i \in T \ S PROVE parts2[i] = 0
  <2> DEFINE xx == share2[i]
             pp == Product(raw2, DOMAIN raw2 \ {i})
  <2>1. xx \in Int
    BY <1>7
  <2>2. pp \in Int
    BY Others
  <2>3. sum2[i] = 0
    OBVIOUS
  <2>4. parts2[i] = 0 * xx * pp
    BY <2>3 DEF Parts, PartOf
  <2> HIDE DEF xx, pp, parts2
  <2> QED
    BY <2>1, <2>2, <2>4
<1>12. S \in SUBSET T
  OBVIOUS
<1> HIDE DEF S, T, parts, parts2, unit, unit2, share, share2, whole, whole2, u, y, z
<1>13. b * unit <= a * unit2
  <2> DEFINE f == [i \in S |-> unit * parts2[i]]
             g == [i \in S |-> unit2 * parts[i]]
             d == SumFunctionOnSet(parts2, S)
             R == T \ S
  <2>1. /\ Summable(parts2, S) /\ Summable(parts2, R)
        /\ SumFunctionOnSet(parts2, T) = d + SumFunctionOnSet(parts2, R)
    <3>1. Summable(parts2, T)
      BY <1>4
    <3> HIDE DEF f, g
    <3> QED
      BY <3>1, <1>12, SumSplit
  <2>2. SumFunctionOnSet(parts2, R) = 0
    <3>1. IsFiniteSet(R) /\ \A i \in R : parts2[i] = 0
      BY <1>7, <1>11, FS_Difference
    <3> HIDE DEF R
    <3>2. SumFunctionOnSet(parts2, R) = Cardinality(R) * 0
      BY <3>1, SumConstant
    <3>3. Cardinality(R) \in Nat
      BY <3>1, FS_CardinalityType
    <3> QED
      BY <3>2, <3>3
  <2>3. d \in Int
    BY <2>1, SumOne
  <2>4. b = d
    BY <2>1, <2>2, <2>3
  <2>5. Summable(f, S) /\ SumFunctionOnSet(f, S) = unit * d
    <3>1. \A i \in S : f[i] = unit * parts2[i]
      OBVIOUS
    <3>2. unit \in Int /\ Summable(parts2, S)
      BY <1>3, <2>1
    <3> HIDE DEF f, g
    <3>3. Summable(f, S) /\ SumFunctionOnSet(f, S) = unit * SumFunctionOnSet(parts2, S)
      BY <3>1, <3>2, SumScaled
    <3> QED
      BY <3>3
  <2>6. Summable(g, S) /\ SumFunctionOnSet(g, S) = unit2 * a
    <3>1. \A i \in S : g[i] = unit2 * parts[i]
      OBVIOUS
    <3>2. unit2 \in Int /\ Summable(parts, S)
      BY <1>3, <1>4
    <3> HIDE DEF f, g
    <3>3. Summable(g, S) /\ SumFunctionOnSet(g, S) = unit2 * SumFunctionOnSet(parts, S)
      BY <3>1, <3>2, SumScaled
    <3> QED
      BY <3>3
  <2>7. \A i \in S : f[i] <= g[i]
    BY <1>10
  <2> HIDE DEF f, g, d
  <2>8. SumFunctionOnSet(f, S) <= SumFunctionOnSet(g, S)
    BY <2>5, <2>6, <2>7, SumCompare
  <2> HIDE DEF a, b
  <2>9. unit * b <= unit2 * a
    BY <2>4, <2>5, <2>6, <2>8
  <2>10. unit * b = b * unit /\ unit2 * a = a * unit2
    BY <1>3, <1>4
  <2> QED
    BY <2>9, <2>10
<1> HIDE DEF a, b
<1> QED
  BY <1>3, <1>4, <1>5, <1>13, ThousandthsOrder

\* "d" is "e" with one more receipt, of the worst score.
Worse(e, d) ==
  /\ e \in Seq(Scored) /\ e # <<>> /\ d \in Seq(Scored) /\ d # <<>>
  /\ Len(d) = Len(e) + 1
  /\ \A k \in 1..Len(e) : d[k] = e[k]
  /\ d[Len(d)].score = 0

\* What one more receipt leaves alone, but for the unit of the weights.
LEMMA WorseScale ==
  ASSUME NEW e, NEW d, Worse(e, d)
  PROVE  /\ DOMAIN e \in SUBSET (DOMAIN d)
         /\ Issuers(e) \in SUBSET Issuers(d)
         /\ \A i : Of(e, i) \in SUBSET Of(d, i)
         /\ \A i : \A k \in Of(d, i) \ Of(e, i) : d[k].score = 0 /\ k \in DOMAIN d
         /\ \A i \in Issuers(d) \ Issuers(e) : Of(e, i) = {}
         /\ \E c \in Nat : c > 0 /\ \A k \in DOMAIN e : signal_weight(d)[k] = c * signal_weight(e)[k]
<1>1. /\ e \in Seq(Scored) /\ e # <<>> /\ d \in Seq(Scored) /\ d # <<>>
      /\ Len(e) \in Nat /\ Len(d) = Len(e) + 1
      /\ DOMAIN e = 1..Len(e) /\ DOMAIN d = 1..Len(d)
      /\ \A k \in 1..Len(e) : d[k] = e[k]
      /\ d[Len(d)].score = 0
  BY DEF Worse
<1>2. DOMAIN e \in SUBSET (DOMAIN d)
  BY <1>1
<1>3. ASSUME NEW i
      PROVE  /\ Of(e, i) \in SUBSET Of(d, i)
             /\ \A k \in Of(d, i) \ Of(e, i) : d[k].score = 0 /\ k \in DOMAIN d
  <2>1. Of(e, i) \in SUBSET Of(d, i)
    BY <1>1, <1>2 DEF Of
  <2>2. ASSUME NEW k \in Of(d, i) \ Of(e, i) PROVE d[k].score = 0 /\ k \in DOMAIN d
    <3>1. k \in DOMAIN d /\ d[k].issuer = i
      BY DEF Of
    <3>2. k \notin DOMAIN e
      BY <1>1, <3>1 DEF Of
    <3>3. k = Len(d)
      BY <1>1, <3>1, <3>2
    <3> QED
      BY <1>1, <3>1, <3>3
  <2> QED
    BY <2>1, <2>2
<1>4. Issuers(e) \in SUBSET Issuers(d)
  BY <1>1, <1>2 DEF Issuers
<1>5. \A i \in Issuers(d) \ Issuers(e) : Of(e, i) = {}
  BY DEF Of, Issuers
<1>6. \E c \in Nat : c > 0 /\ \A k \in DOMAIN e : signal_weight(d)[k] = c * signal_weight(e)[k]
  <2> DEFINE m == Oldest(e)
             n == Oldest(d)
  <2>1. m \in Int /\ \A k \in DOMAIN e : e[k].age <= m
    BY <1>1, OldestAge
  <2>2. n \in Int /\ \A k \in DOMAIN d : d[k].age <= n
    BY <1>1, OldestAge
  <2>3. m <= n
    <3>1. PICK k \in DOMAIN e : m = e[k].age
      BY <1>1, OldestAge
    <3>2. e[k].age = d[k].age /\ k \in DOMAIN d
      BY <1>1, <1>2
    <3>3. d[k].age <= n
      BY <2>2, <3>2
    <3> QED
      BY <3>1, <3>2, <3>3
  <2> HIDE DEF m, n
  <2> DEFINE c == Power(2, n - m)
  <2>4. n - m \in Nat
    BY <2>1, <2>2, <2>3
  <2>5. c \in Int /\ c > 0
    <3>1. 2 \in Int /\ 2 > 0
      OBVIOUS
    <3> QED
      BY <2>4, <3>1, PowerPositive
  <2>6. ASSUME NEW k \in DOMAIN e PROVE signal_weight(d)[k] = c * signal_weight(e)[k]
    <3> DEFINE age == e[k].age
               f == IF e[k].score < 10 THEN 3 ELSE 2
               x == decay_weight(e)[k]
               y == decay_weight(d)[k]
    <3>1. /\ k \in DOMAIN d /\ d[k] = e[k]
      BY <1>1, <1>2
    <3>2. age \in Int /\ m - age \in Nat
      <4>1. age \in Int
        BY <1>1, ScoredPlace
      <4>2. age <= m
        BY <2>1
      <4> HIDE DEF age
      <4> QED
        BY <2>1, <4>1, <4>2
    <3>3. x = Power(2, m - age) /\ x \in Int /\ signal_weight(e)[k] = x * f
      BY <1>1, SignalWeights DEF m
    <3>4. y = Power(2, n - age) /\ signal_weight(d)[k] = y * f
      <4>1. /\ decay_weight(d)[k] = Power(2, Oldest(d) - d[k].age)
            /\ signal_weight(d)[k] = decay_weight(d)[k] * (IF d[k].score < 10 THEN 3 ELSE 2)
        <5>1. d \in Seq(Scored) /\ d # <<>> /\ k \in DOMAIN d
          BY <1>1, <3>1
        <5> HIDE DEF age, f, x, y, c
        <5> QED
          BY <5>1, SignalWeights
      <4> QED
        BY <3>1, <4>1 DEF n
    <3>5. f \in Int
      OBVIOUS
    <3> HIDE DEF age, f, x, y, c
    <3>6. n - age = (n - m) + (m - age)
      BY <2>1, <2>2, <3>2
    <3>7. y = c * x
      <4>1. 2 \in Int
        OBVIOUS
      <4>2. Power(2, (n - m) + (m - age)) = Power(2, n - m) * Power(2, m - age)
        BY <2>4, <3>2, <4>1, PowerSum
      <4> QED
        BY <3>3, <3>4, <3>6, <4>2 DEF c
    <3>8. (c * x) * f = c * (x * f)
      BY <2>5, <3>3, <3>5
    <3> QED
      BY <3>3, <3>4, <3>7, <3>8
  <2>7. c \in Nat
    BY <2>5
  <2> HIDE DEF c
  <2> QED
    BY <2>5, <2>6, <2>7
<1> QED
  BY <1>2, <1>3, <1>4, <1>5, <1>6

\* A sum over more places, where the further ones add nothing, or nothing negative.
LEMMA SumFurther ==
  ASSUME NEW f, NEW S, Summable(f, S), NEW g, NEW T, Summable(g, T), S \in SUBSET T,
         NEW c \in Int, \A k \in S : g[k] = c * f[k]
  PROVE  /\ (\A k \in T \ S : g[k] >= 0)
              => c * SumFunctionOnSet(f, S) <= SumFunctionOnSet(g, T)
         /\ (\A k \in T \ S : g[k] = 0)
              => SumFunctionOnSet(g, T) = c * SumFunctionOnSet(f, S)
<1> DEFINE R == T \ S
<1>1. /\ Summable(g, S) /\ Summable(g, R)
      /\ SumFunctionOnSet(g, T) = SumFunctionOnSet(g, S) + SumFunctionOnSet(g, R)
  BY SumSplit
<1>2. SumFunctionOnSet(g, S) = c * SumFunctionOnSet(f, S)
  BY SumScaled
<1>3. SumFunctionOnSet(g, S) \in Int
  BY <1>1, SumOne
<1> HIDE DEF R
<1>4. SumFunctionOnSet(g, R) \in Int
  BY <1>1, SumOne
<1>5. ASSUME \A k \in R : g[k] >= 0 PROVE SumFunctionOnSet(g, R) >= 0
  BY <1>1, <1>5, SumPositive
<1>6. ASSUME \A k \in R : g[k] = 0 PROVE SumFunctionOnSet(g, R) = 0
  <2>1. IsFiniteSet(R)
    BY <1>1 DEF Summable
  <2>2. SumFunctionOnSet(g, R) = Cardinality(R) * 0
    BY <1>6, <2>1, SumConstant
  <2>3. Cardinality(R) \in Nat
    BY <2>1, FS_CardinalityType
  <2> QED
    BY <2>2, <2>3
<1> QED
  BY <1>1, <1>2, <1>3, <1>4, <1>5, <1>6 DEF R

\* One more receipt of the worst score does not raise the trust.
LEMMA Worst ==
  ASSUME NEW e, NEW d, Worse(e, d), \A k \in DOMAIN e : e[k].score >= 0
  PROVE  aggregateTrust(d, Unlimited) <= aggregateTrust(e, Unlimited)
<1> DEFINE raw == issuer_raw_weight(e)
           raw2 == issuer_raw_weight(d)
           sum == weightedSum(e)
           sum2 == weightedSum(d)
<1>1. e \in Seq(Scored) /\ e # <<>> /\ d \in Seq(Scored) /\ d # <<>>
  BY DEF Worse
<1>2. /\ DOMAIN e \in SUBSET (DOMAIN d)
      /\ Issuers(e) \in SUBSET Issuers(d)
      /\ \A i : Of(e, i) \in SUBSET Of(d, i)
      /\ \A i : \A k \in Of(d, i) \ Of(e, i) : d[k].score = 0 /\ k \in DOMAIN d
      /\ \A i \in Issuers(d) \ Issuers(e) : Of(e, i) = {}
  BY WorseScale
<1>3. PICK c \in Nat : c > 0 /\ \A k \in DOMAIN e : signal_weight(d)[k] = c * signal_weight(e)[k]
  BY WorseScale
<1>4. /\ Weighted(raw) /\ DOMAIN raw = Issuers(e)
      /\ Weighted(raw2) /\ DOMAIN raw2 = Issuers(d)
  BY <1>1, ScoreSums, RawWeights
<1>5. \A i : \A k \in Of(d, i) \ Of(e, i) : SignalScores(d)[k] = 0 /\ signal_weight(d)[k] >= 0
  <2> TAKE i
  <2> TAKE k \in Of(d, i) \ Of(e, i)
  <2>1. d[k].score = 0 /\ k \in DOMAIN d
    BY <1>2
  <2>2. signal_weight(d)[k] \in Int /\ signal_weight(d)[k] > 0
    BY <1>1, <2>1, SignalWeights
  <2>3. SignalScores(d)[k] = 0 * signal_weight(d)[k]
    BY <1>1, <2>1, ScoreSums
  <2> QED
    BY <2>2, <2>3
<1>6. \A i : \A k \in Of(e, i) : /\ signal_weight(d)[k] = c * signal_weight(e)[k]
                                 /\ SignalScores(d)[k] = c * SignalScores(e)[k]
                                 /\ SignalScores(e)[k] >= 0
  <2> TAKE i
  <2> TAKE k \in Of(e, i)
  <2> DEFINE x == e[k].score
             w == signal_weight(e)[k]
             v == signal_weight(d)[k]
  <2>1. k \in DOMAIN e /\ k \in DOMAIN d /\ d[k] = e[k]
    <3>1. k \in DOMAIN e
      BY DEF Of
    <3>2. d[k] = e[k]
      BY <1>1, <3>1 DEF Worse
    <3> QED
      BY <1>2, <3>1, <3>2
  <2>2. x \in Int
    BY <1>1, <2>1, ScoredPlace
  <2>3. x >= 0
    BY <2>1
  <2>4. w \in Int /\ w > 0
    BY <1>1, <2>1, SignalWeights
  <2>5. v = c * w
    BY <1>3, <2>1
  <2>6. SignalScores(e)[k] = x * w
    BY <1>1, <2>1, ScoreSums
  <2>7. SignalScores(d)[k] = x * v
    BY <1>1, <2>1, ScoreSums
  <2> HIDE DEF x, w, v
  <2>8. x * (c * w) = c * (x * w) /\ x * w >= 0
    <3>1. x * w >= 0
      BY <2>2, <2>3, <2>4
    <3>2. x * (c * w) = c * (x * w)
      BY <2>2, <2>4
    <3> QED
      BY <3>1, <3>2
  <2> QED
    BY <2>5, <2>6, <2>7, <2>8 DEF v, w
<1>7. ASSUME NEW i \in Issuers(e)
      PROVE  /\ c * raw[i] <= raw2[i]
             /\ sum[i] \in Int /\ sum[i] >= 0
             /\ sum2[i] = c * sum[i]
  <2> DEFINE S == Of(e, i)
             T == Of(d, i)
             f == signal_weight(e)
             g == signal_weight(d)
             h == SignalScores(e)
             l == SignalScores(d)
  <2>1. raw[i] = SumFunctionOnSet(f, S) /\ Summable(f, S)
    BY <1>1, RawWeights
  <2>2. i \in Issuers(d)
    BY <1>2
  <2>3. raw2[i] = SumFunctionOnSet(g, T) /\ Summable(g, T)
    BY <1>1, <2>2, RawWeights
  <2>4. sum[i] = SumFunctionOnSet(h, S) /\ sum[i] \in Int /\ Summable(h, S)
    BY <1>1, ScoreSums
  <2>5. sum2[i] = SumFunctionOnSet(l, T) /\ Summable(l, T)
    BY <1>1, <2>2, ScoreSums
  <2>6. S \in SUBSET T /\ c \in Int
    BY <1>2
  <2>7. \A k \in S : g[k] = c * f[k] /\ l[k] = c * h[k] /\ h[k] >= 0
    BY <1>6
  <2>8. \A k \in T \ S : g[k] >= 0 /\ l[k] = 0
    BY <1>5
  <2> HIDE DEF S, T, f, g, h, l, raw, raw2, sum, sum2
  <2>9. c * SumFunctionOnSet(f, S) <= SumFunctionOnSet(g, T)
    BY <2>1, <2>3, <2>6, <2>7, <2>8, SumFurther
  <2>10. SumFunctionOnSet(l, T) = c * SumFunctionOnSet(h, S)
    BY <2>4, <2>5, <2>6, <2>7, <2>8, SumFurther, SMTT(30)
  <2>11. SumFunctionOnSet(h, S) >= 0
    BY <2>4, <2>7, SumPositive
  <2> QED
    BY <2>1, <2>3, <2>4, <2>5, <2>9, <2>10, <2>11
<1>8. ASSUME NEW i \in Issuers(d) \ Issuers(e) PROVE sum2[i] = 0
  <2> DEFINE T == Of(d, i)
             l == SignalScores(d)
  <2>1. sum2[i] = SumFunctionOnSet(l, T) /\ IsFiniteSet(T)
    BY <1>1, ScoreSums, IssuersOf
  <2>2. \A k \in T : l[k] = 0
    BY <1>2, <1>5
  <2> HIDE DEF T, l, sum2
  <2>3. SumFunctionOnSet(l, T) = Cardinality(T) * 0
    BY <2>1, <2>2, SumConstant
  <2>4. Cardinality(T) \in Nat
    BY <2>1, FS_CardinalityType
  <2> QED
    BY <2>1, <2>3, <2>4
<1>9. Combined(sum2, raw2, Weights(raw2)) <= Combined(sum, raw, Weights(raw))
  <2> HIDE DEF raw, raw2, sum, sum2
  <2>1. DOMAIN raw \in SUBSET (DOMAIN raw2)
    BY <1>2, <1>4
  <2>2. \A i \in DOMAIN raw : /\ c * raw[i] <= raw2[i]
                              /\ sum[i] \in Int /\ sum[i] >= 0
                              /\ sum2[i] = c * sum[i]
    BY <1>4, <1>7
  <2>3. \A i \in DOMAIN raw2 \ DOMAIN raw : sum2[i] = 0
    BY <1>4, <1>8
  <2> QED
    BY <1>3, <1>4, <2>1, <2>2, <2>3, CombinedFalls
<1>10. aggregateTrust(e, Unlimited) = Combined(sum, raw, Weights(raw))
  BY <1>1, AllAggregated
<1>11. aggregateTrust(d, Unlimited) = Combined(sum2, raw2, Weights(raw2))
  BY <1>1, AllAggregated
<1> QED
  BY <1>9, <1>10, <1>11

\* BadNeverHelps of every sequence of signals.
LEMMA AllWorst ==
  ASSUME NEW e \in Seq(Signal), e # <<>>
  PROVE  BadNeverHelps(e, Sources, FurtherAges)
<1> SUFFICES ASSUME NEW i \in Sources, NEW a \in FurtherAges
             PROVE  aggregateTrust(Append(e, [issuer |-> i, score |-> 0, age |-> a]), Unlimited)
                      <= aggregateTrust(e, Unlimited)
  BY DEF BadNeverHelps
<1> DEFINE x == [issuer |-> i, score |-> 0, age |-> a]
           d == Append(e, x)
<1>1. e \in Seq(Scored)
  BY ScoredSignals
<1>2. x \in Scored /\ x.score = 0
  <2>1. a \in Int
    BY MeasuringAssumption
  <2> QED
    BY <2>1 DEF Scored
<1>3. \A k \in DOMAIN e : e[k].score >= 0
  <2> TAKE k \in DOMAIN e
  <2>1. e[k] \in Signal
    OBVIOUS
  <2>2. e[k].score \in 0..20
    BY <2>1, ScoredSignals
  <2> QED
    BY <2>2, SMTT(30)
<1> HIDE DEF x
<1>4. Worse(e, d)
  <2>1. /\ d \in Seq(Scored) /\ Len(d) = Len(e) + 1 /\ Len(e) \in Nat
        /\ \A k \in 1..Len(e) : d[k] = e[k]
        /\ d[Len(d)] = x
    BY <1>1, <1>2
  <2>2. d # <<>>
    BY <2>1
  <2> HIDE DEF d
  <2> QED
    BY <1>1, <1>2, <2>1, <2>2 DEF Worse
<1> HIDE DEF d
<1>5. aggregateTrust(d, Unlimited) <= aggregateTrust(e, Unlimited)
  BY <1>3, <1>4, Worst
<1> QED
  BY <1>5 DEF d, x

-----------------------------------------------------------------------------
(* The measurements (Measuring). *)

\* What has been measured so far is evidence.
Evidence ==
  measured \in [signals: Seq(Signal), receipts: Seq(ExecutionReceipt), attestors: Seq(Attestor)]

\* Every measurement is of evidence, however much has come in (Measuring).
THEOREM EvidenceKept == MeasuringSpec => []Evidence
<1>1. MeasuringInit => Evidence
  BY DEF MeasuringInit, Evidence
<1>2. Evidence /\ [MeasuringNext]_measured => Evidence'
  <2> SUFFICES ASSUME Evidence, [MeasuringNext]_measured PROVE Evidence'
    OBVIOUS
  <2> DEFINE s == measured.signals
             r == measured.receipts
             t == measured.attestors
  <2>1. /\ measured = [signals |-> s, receipts |-> r, attestors |-> t]
        /\ s \in Seq(Signal) /\ r \in Seq(ExecutionReceipt) /\ t \in Seq(Attestor)
    BY DEF Evidence
  <2>2. ASSUME NEW x \in Signals, Give(x) PROVE Evidence'
    <3>1. measured' = [signals |-> s \o x, receipts |-> r, attestors |-> t]
      BY <2>1, <2>2 DEF Give
    <3>2. x \in Seq(Signal)
      BY MeasuringAssumption
    <3> HIDE DEF s, r, t
    <3>3. s \o x \in Seq(Signal)
      BY <2>1, <3>2
    <3> QED
      BY <2>1, <3>1, <3>3 DEF Evidence
  <2>3. ASSUME NEW x \in Receipts, Act(x) PROVE Evidence'
    <3>1. measured' = [signals |-> s, receipts |-> Append(r, x), attestors |-> t]
      BY <2>1, <2>3 DEF Act
    <3>2. x \in ExecutionReceipt
      BY MeasuringAssumption
    <3> HIDE DEF s, r, t
    <3>3. Append(r, x) \in Seq(ExecutionReceipt)
      BY <2>1, <3>2
    <3> QED
      BY <2>1, <3>1, <3>3 DEF Evidence
  <2>4. ASSUME NEW x \in Attestors, Vouch(x) PROVE Evidence'
    <3>1. measured' = [signals |-> s, receipts |-> r, attestors |-> Append(t, x)]
      BY <2>1, <2>4 DEF Vouch
    <3>2. x \in Attestor
      BY MeasuringAssumption
    <3> HIDE DEF s, r, t
    <3>3. Append(t, x) \in Seq(Attestor)
      BY <2>1, <3>2
    <3> QED
      BY <2>1, <3>1, <3>3 DEF Evidence
  <2>5. CASE UNCHANGED measured
    BY <2>5 DEF Evidence
  <2> QED
    BY <2>2, <2>3, <2>4, <2>5 DEF MeasuringNext
<1> QED
  BY <1>1, <1>2, PTL DEF MeasuringSpec

\* Of any number of receipts, of any scores and ages and of any issuers, each issuer
\* weighs what its receipts weigh, up to the cap and no further; one more of the worst
\* score does not raise the trust, and a better one in its place does not lower it.
THEOREM SignalsWeighed == MeasuringSpec => []SignalsCount
<1>1. Evidence => SignalsCount
  <2> SUFFICES ASSUME Evidence, measured.signals # <<>>
               PROVE  /\ SharesAreFair(measured.signals)
                      /\ BadNeverHelps(measured.signals, Sources, FurtherAges)
                      /\ BetterNeverHurts(measured.signals)
    BY DEF SignalsCount
  <2> DEFINE e == measured.signals
  <2>1. e \in Seq(Signal) /\ e # <<>>
    BY DEF Evidence
  <2> HIDE DEF e
  <2>2. e \in Seq(Scored)
    BY <2>1, ScoredSignals
  <2>3. SharesAreFair(e)
    BY <2>1, <2>2, AllSharesFair
  <2>4. BadNeverHelps(e, Sources, FurtherAges)
    BY <2>1, AllWorst
  <2>5. BetterNeverHurts(e)
    BY <2>1, AllBetter
  <2> QED
    BY <2>3, <2>4, <2>5 DEF e
<1> QED
  BY <1>1, EvidenceKept, PTL

\* No combination of scores is above the highest of them.
LEMMA TrustBounded ==
  ASSUME NEW e \in Seq(Scored), e # <<>>, NEW b \in Nat, \A k \in DOMAIN e : e[k].score <= b
  PROVE  Combined(weightedSum(e), issuer_raw_weight(e), Weights(issuer_raw_weight(e))) <= 50 * b
<1> DEFINE raw == issuer_raw_weight(e)
           sum == weightedSum(e)
           S == DOMAIN raw
           share == Weights(raw).share
           whole == Weights(raw).whole
           parts == Parts(sum, raw, share)
           unit == Whole(raw, whole)
           a == SumFunctionOnSet(parts, S)
           p == Product(raw, S)
<1>1. Weighted(raw) /\ S = Issuers(e)
  BY ScoreSums, RawWeights
<1>2. ASSUME NEW i \in S
      PROVE  sum[i] \in Int /\ raw[i] \in Int /\ raw[i] > 0 /\ sum[i] <= b * raw[i]
  <2> DEFINE T == Of(e, i)
             f == signal_weight(e)
             g == [k \in T |-> b * f[k]]
             h == SignalScores(e)
  <2>1. /\ raw[i] = SumFunctionOnSet(f, T) /\ Summable(f, T)
        /\ raw[i] \in Int /\ raw[i] > 0
    BY <1>1, RawWeights
  <2>2. sum[i] = SumFunctionOnSet(h, T) /\ sum[i] \in Int /\ Summable(h, T)
    BY <1>1, ScoreSums
  <2>3. ASSUME NEW k \in T PROVE h[k] <= g[k]
    <3> DEFINE x == e[k].score
               w == f[k]
    <3>1. k \in DOMAIN e
      BY DEF Of
    <3>2. x \in Int /\ x <= b
      BY <3>1, ScoredPlace
    <3>3. w \in Int /\ w > 0
      BY <3>1, SignalWeights
    <3>4. h[k] = x * w
      BY <3>1, ScoreSums
    <3>5. g[k] = b * w
      OBVIOUS
    <3> HIDE DEF f, g, h, x, w
    <3>6. x * w <= b * w
      BY <3>2, <3>3, TimesOrder
    <3> QED
      BY <3>4, <3>5, <3>6
  <2>4. \A k \in T : g[k] = b * f[k]
    OBVIOUS
  <2> HIDE DEF T, f, g, h, raw, sum
  <2>5. b \in Int
    OBVIOUS
  <2>6. Summable(g, T) /\ SumFunctionOnSet(g, T) = b * SumFunctionOnSet(f, T)
    BY <2>1, <2>4, <2>5, SumScaled, ZenonT(90)
  <2>7. SumFunctionOnSet(h, T) <= SumFunctionOnSet(g, T)
    BY <2>2, <2>3, <2>6, SumCompare
  <2> QED
    BY <2>1, <2>2, <2>6, <2>7
<1> HIDE DEF raw, sum
<1>3. Summable(parts, S) /\ a \in Int /\ unit \in Int /\ unit > 0
  BY <1>1, <1>2, Combining
<1>4. Combined(sum, raw, Weights(raw)) = Thousandths(a, unit)
  BY CombinedParts
<1>5. /\ whole \in Int /\ IsFiniteSet(S) /\ SumFunctionOnSet(share, S) = whole
      /\ \A i \in S : share[i] \in Int /\ share[i] >= 0
  <2> DEFINE cap == effectiveCap(Cardinality(S))
  <2>1. Fair(S, raw, share, whole, cap)
    BY <1>1, WeightsFair
  <2> HIDE DEF S, share, whole, cap
  <2> QED
    BY <2>1 DEF Fair
<1>6. p \in Int /\ p > 0 /\ unit = whole * p
  BY <1>1, Others DEF Whole
<1> DEFINE f == [i \in S |-> (b * p) * share[i]]
<1>7. ASSUME NEW i \in S PROVE parts[i] <= f[i]
  <2> DEFINE x == sum[i]
             r == raw[i]
             y == share[i]
             o == Product(raw, DOMAIN raw \ {i})
  <2>1. x \in Int /\ r \in Int /\ r > 0 /\ x <= b * r
    BY <1>2
  <2>2. y \in Int /\ y >= 0
    BY <1>5
  <2>3. o \in Int /\ o > 0 /\ p = r * o
    BY <1>1, Others
  <2>4. parts[i] = x * y * o
    BY DEF Parts, PartOf
  <2>5. f[i] = (b * p) * y
    OBVIOUS
  <2> HIDE DEF x, r, y, o, p, f, parts
  <2>6. y * o \in Int /\ y * o >= 0
    BY <2>2, <2>3
  <2>7. x * (y * o) <= (b * r) * (y * o)
    <3>1. b * r \in Int
      BY <2>1
    <3> QED
      BY <2>1, <2>6, <3>1, TimesOrder
  <2>8. x * (y * o) = x * y * o /\ (b * r) * (y * o) = (b * (r * o)) * y
    BY <2>1, <2>2, <2>3
  <2> QED
    BY <2>3, <2>4, <2>5, <2>7, <2>8
<1>8. Summable(share, S) /\ b * p \in Int
  <2>1. b * p \in Int
    <3> HIDE DEF p
    <3> QED
      BY <1>6
  <2> QED
    BY <1>5, <2>1 DEF Summable
<1>9. \A i \in S : f[i] = (b * p) * share[i]
  OBVIOUS
<1> HIDE DEF S, share, whole, parts, unit, p, f
<1>10. Summable(f, S) /\ SumFunctionOnSet(f, S) = (b * p) * whole
  <2> DEFINE c == b * p
  <2>1. c \in Int /\ \A i \in S : f[i] = c * share[i]
    BY <1>8, <1>9
  <2> HIDE DEF c
  <2>2. Summable(f, S) /\ SumFunctionOnSet(f, S) = c * SumFunctionOnSet(share, S)
    BY <1>8, <2>1, SumScaled, ZenonT(60)
  <2> QED
    BY <1>5, <2>2 DEF c
<1>11. a <= (b * p) * whole
  BY <1>3, <1>7, <1>10, SumCompare
<1> HIDE DEF a
<1>12. a <= b * unit
  BY <1>5, <1>6, <1>11
<1>13. Thousandths(a, unit) <= 50 * b
  BY <1>3, <1>12, ThousandthsBound
<1> QED
  BY <1>4, <1>13 DEF raw, sum

-----------------------------------------------------------------------------
(* The evidence that a measurement rests on. *)

\* A list of what is kept, place by place.
LEMMA KeptList ==
  ASSUME NEW n \in Nat, NEW kept, NEW given, NEW X, \A k \in 1..n : given[k] \in X,
         NEW s, s = [k \in 1..n |-> OnlyIf(kept[k], given[k])]
  PROVE  Keeps(s, n, kept, given, X)
<1>1. \A k \in 1..n : s[k] = OnlyIf(kept[k], given[k])
  OBVIOUS
<1>2. \A k \in 1..n : OnlyIf(kept[k], given[k]) \in Seq(X)
  BY DEF OnlyIf
<1>3. s \in [1..n -> Seq(X)]
  BY <1>1, <1>2
<1>4. s \in Seq(Seq(X)) /\ Len(s) = n
  BY <1>3, IsASeq, LenProperties
<1> QED
  BY <1>1, <1>4 DEF Keeps

\* What a receipt about the agent counts as.
Behaviour(r) ==
  [issuer |-> "pctr.effect-boundary", age |-> r.executed, score |-> scoreExecutionReceipt(r)]

\* What evidence counts as has a score and an age.
LEMMA EvidenceScored ==
  /\ \A r \in ExecutionReceipt : Behaviour(r) \in Scored
  /\ \A a \in Attestation : Attested(a) \in Scored
<1>1. ASSUME NEW r \in ExecutionReceipt PROVE Behaviour(r) \in Scored
  <2>1. r.executed \in Int /\ r.verdict \in Verdict
    BY DEF ExecutionReceipt
  <2>2. scoreExecutionReceipt(r) \in Int
    <3> DEFINE v == r.verdict
    <3>1. /\ v \in {"succeeded", "failed", "overreach", "violation", "bounds", "approval",
                    "unavailable", "stale", "other"}
          /\ scoreExecutionReceipt(r) =
               [succeeded |-> 19, failed |-> 14, overreach |-> 3, violation |-> 4, bounds |-> 7,
                approval |-> 15, unavailable |-> 13, stale |-> 12, other |-> 10][v]
      BY <2>1 DEF Verdict, scoreExecutionReceipt
    <3> HIDE DEF v
    <3> QED
      BY <3>1
  <2> QED
    BY <2>1, <2>2 DEF Behaviour, Scored
<1>2. ASSUME NEW a \in Attestation PROVE Attested(a) \in Scored
  <2>1. /\ a.issuer \in Sources /\ a.age \in Int /\ a.delta \in Int
        /\ a.score \in Int \/ a.score = Unset
    BY DEF Attestation
  <2>2. (IF a.score = Unset THEN 10 + a.delta ELSE a.score) \in Int
    BY <2>1
  <2> QED
    BY <2>1, <2>2 DEF Attested, Scored
<1> QED
  BY <1>1, <1>2

\* The behavioural evidence is that of the receipts about the agent.
LEMMA BehaviourHolds ==
  ASSUME NEW s \in Seq(ExecutionReceipt)
  PROVE  /\ behaviouralReceipts(s) \in Seq(Scored)
         /\ \A x : Holds(behaviouralReceipts(s), x)
                     <=> \E r \in ExecutionReceipt : Holds(s, r) /\ r.about /\ x = Behaviour(r)
<1> DEFINE n == Len(s)
           kept == [k \in 1..n |-> s[k].about]
           given == [k \in 1..n |-> Behaviour(s[k])]
           l == [k \in 1..n |-> OnlyIf(kept[k], given[k])]
<1>1. n \in Nat /\ DOMAIN s = 1..n /\ \A k \in 1..n : s[k] \in ExecutionReceipt
  OBVIOUS
<1>2. \A k \in 1..n : kept[k] = s[k].about /\ given[k] = Behaviour(s[k]) /\ given[k] \in Scored
  BY <1>1, EvidenceScored
<1>3. behaviouralReceipts(s) = FlattenSeq(l)
  BY <1>1 DEF behaviouralReceipts, Behaviour
<1> HIDE DEF n, kept, given
<1>4. Keeps(l, n, kept, given, Scored)
  BY <1>1, <1>2, KeptList
<1> HIDE DEF l
<1>5. /\ FlattenSeq(l) \in Seq(Scored)
      /\ \A x : Holds(FlattenSeq(l), x) <=> \E k \in 1..n : kept[k] /\ x = given[k]
  BY <1>4, HoldsKept
<1>6. \A x : (\E k \in 1..n : kept[k] /\ x = given[k])
               <=> \E r \in ExecutionReceipt : Holds(s, r) /\ r.about /\ x = Behaviour(r)
  <2> TAKE x
  <2>1. ASSUME NEW k \in 1..n, kept[k], x = given[k]
        PROVE  \E r \in ExecutionReceipt : Holds(s, r) /\ r.about /\ x = Behaviour(r)
    <3>1. Holds(s, s[k])
      BY DEF Holds, n
    <3>2. s[k] \in ExecutionReceipt /\ s[k].about /\ x = Behaviour(s[k])
      BY <1>1, <1>2, <2>1
    <3> QED
      BY <3>1, <3>2
  <2>2. ASSUME NEW r \in ExecutionReceipt, Holds(s, r), r.about, x = Behaviour(r)
        PROVE  \E k \in 1..n : kept[k] /\ x = given[k]
    <3>1. PICK k \in 1..n : s[k] = r
      BY <2>2 DEF Holds, n
    <3> QED
      BY <1>2, <2>2, <3>1
  <2> QED
    BY <2>1, <2>2
<1> QED
  BY <1>3, <1>5, <1>6, ZenonT(60)

\* The receipts of a list that are kept are those that hold.
LEMMA ReceiptsKept ==
  ASSUME NEW s \in Seq(ExecutionReceipt), NEW kept, NEW l,
         l = [k \in DOMAIN s |-> OnlyIf(kept[s[k]], s[k])]
  PROVE  /\ FlattenSeq(l) \in Seq(ExecutionReceipt)
         /\ \A x : Holds(FlattenSeq(l), x) <=> Holds(s, x) /\ kept[x]
<1> DEFINE n == Len(s)
           keeps == [k \in 1..n |-> kept[s[k]]]
<1>1. n \in Nat /\ DOMAIN s = 1..n /\ \A k \in 1..n : s[k] \in ExecutionReceipt
  OBVIOUS
<1>2. \A k \in 1..n : keeps[k] = kept[s[k]]
  OBVIOUS
<1>3. l = [k \in 1..n |-> OnlyIf(keeps[k], s[k])]
  BY <1>1
<1> HIDE DEF n, keeps
<1>4. Keeps(l, n, keeps, s, ExecutionReceipt)
  BY <1>1, <1>3, KeptList
<1>5. /\ FlattenSeq(l) \in Seq(ExecutionReceipt)
      /\ \A x : Holds(FlattenSeq(l), x) <=> \E k \in 1..n : keeps[k] /\ x = s[k]
  BY <1>4, HoldsKept
<1>6. \A x : (\E k \in 1..n : keeps[k] /\ x = s[k]) <=> Holds(s, x) /\ kept[x]
  BY <1>2 DEF Holds, n
<1> QED
  BY <1>5, <1>6

\* The attestations that verify, and the receipts that are pinned, of an attestor.
AttestedBy(t, limit, x) ==
  \E a \in Attestation : Holds(t.attestations, a) /\ verify_attestation(a, limit) /\ x = Attested(a)

\* The receipts of the attestor that verify and are about the agent.
ReceivedFrom(t, x) ==
  \E r \in ExecutionReceipt : Holds(t.receipts, r) /\ r.pinned /\ r.about /\ x = Behaviour(r)

\* What the attestations of an attestor count as.
LEMMA AttestedHolds ==
  ASSUME NEW t \in Attestor, NEW limit, NEW l,
         l = [k \in DOMAIN t.attestations |->
                OnlyIf(verify_attestation(t.attestations[k], limit), Attested(t.attestations[k]))]
  PROVE  /\ FlattenSeq(l) \in Seq(Scored)
         /\ \A x : Holds(FlattenSeq(l), x) <=> AttestedBy(t, limit, x)
<1> DEFINE s == t.attestations
           n == Len(s)
           kept == [k \in 1..n |-> verify_attestation(s[k], limit)]
           given == [k \in 1..n |-> Attested(s[k])]
<1>0. s \in Seq(Attestation)
  BY DEF Attestor
<1> HIDE DEF s
<1>1. n \in Nat /\ DOMAIN s = 1..n /\ \A k \in 1..n : s[k] \in Attestation
  BY <1>0
<1>2. \A k \in 1..n : given[k] = Attested(s[k]) /\ given[k] \in Scored
  BY <1>1, EvidenceScored
<1>3. \A k \in 1..n : kept[k] = verify_attestation(s[k], limit)
  OBVIOUS
<1>4. l = [k \in 1..n |-> OnlyIf(kept[k], given[k])]
  BY <1>1 DEF s
<1> HIDE DEF n, kept, given
<1>5. Keeps(l, n, kept, given, Scored)
  BY <1>1, <1>2, <1>4, KeptList
<1>6. /\ FlattenSeq(l) \in Seq(Scored)
      /\ \A x : Holds(FlattenSeq(l), x) <=> \E k \in 1..n : kept[k] /\ x = given[k]
  BY <1>5, HoldsKept
<1>7. \A x : (\E k \in 1..n : kept[k] /\ x = given[k]) <=> AttestedBy(t, limit, x)
  <2> TAKE x
  <2>1. ASSUME NEW k \in 1..n, kept[k], x = given[k] PROVE AttestedBy(t, limit, x)
    <3>1. Holds(t.attestations, s[k])
      BY DEF Holds, n, s
    <3>2. s[k] \in Attestation /\ verify_attestation(s[k], limit) /\ x = Attested(s[k])
      BY <1>1, <1>2, <1>3, <2>1
    <3> QED
      BY <3>1, <3>2 DEF AttestedBy
  <2>2. ASSUME AttestedBy(t, limit, x) PROVE \E k \in 1..n : kept[k] /\ x = given[k]
    <3>1. PICK a \in Attestation :
            Holds(t.attestations, a) /\ verify_attestation(a, limit) /\ x = Attested(a)
      BY <2>2 DEF AttestedBy
    <3>2. PICK k \in 1..n : s[k] = a
      BY <3>1 DEF Holds, n, s
    <3> QED
      BY <1>2, <1>3, <3>1, <3>2
  <2> QED
    BY <2>1, <2>2
<1> QED
  BY <1>6, <1>7

\* What an attestor hands over is attested or received, and nothing if it failed.
LEMMA HandedHolds ==
  ASSUME NEW t \in Attestor, NEW limit
  PROVE  /\ Handed(t, limit) \in Seq(Scored)
         /\ \A x : Holds(Handed(t, limit), x)
                     <=> t.ok /\ (AttestedBy(t, limit, x) \/ ReceivedFrom(t, x))
<1> DEFINE r == t.receipts
           kept == [y \in ExecutionReceipt |-> y.pinned]
           l == [k \in DOMAIN t.attestations |->
                  OnlyIf(verify_attestation(t.attestations[k], limit), Attested(t.attestations[k]))]
           m == [k \in DOMAIN r |-> OnlyIf(r[k].pinned, r[k])]
           f == FlattenSeq(l)
           g == behaviouralReceipts(FlattenSeq(m))
<1>1. Handed(t, limit) = IF t.ok THEN f \o g ELSE <<>>
  BY DEF Handed
<1>2. f \in Seq(Scored) /\ \A x : Holds(f, x) <=> AttestedBy(t, limit, x)
  <2> HIDE DEF r, m
  <2> QED
    BY AttestedHolds
<1>3. r \in Seq(ExecutionReceipt)
  BY DEF Attestor
<1> HIDE DEF r
<1>4. \A y \in ExecutionReceipt : kept[y] = y.pinned
  OBVIOUS
<1>5. /\ FlattenSeq(m) \in Seq(ExecutionReceipt)
      /\ \A x : Holds(FlattenSeq(m), x) <=> Holds(r, x) /\ kept[x]
  <2>1. \A k \in DOMAIN r : r[k] \in ExecutionReceipt
    BY <1>3
  <2>2. m = [k \in DOMAIN r |-> OnlyIf(kept[r[k]], r[k])]
    BY <1>4, <2>1
  <2> HIDE DEF m, kept
  <2> QED
    BY <1>3, <2>2, ReceiptsKept
<1> HIDE DEF m, kept, l
<1>6. g \in Seq(Scored) /\ \A x : Holds(g, x) <=> ReceivedFrom(t, x)
  <2>1. /\ g \in Seq(Scored)
        /\ \A x : Holds(g, x) <=> \E y \in ExecutionReceipt :
                                    Holds(FlattenSeq(m), y) /\ y.about /\ x = Behaviour(y)
    BY <1>5, BehaviourHolds
  <2>2. \A y \in ExecutionReceipt : Holds(FlattenSeq(m), y) <=> Holds(t.receipts, y) /\ y.pinned
    BY <1>4, <1>5 DEF r
  <2>3. \A x : (\E y \in ExecutionReceipt :
                  Holds(FlattenSeq(m), y) /\ y.about /\ x = Behaviour(y)) <=> ReceivedFrom(t, x)
    BY <2>2 DEF ReceivedFrom
  <2> QED
    BY <2>1, <2>3
<1> HIDE DEF f, g
<1>7. f \o g \in Seq(Scored) /\ \A x : Holds(f \o g, x) <=> Holds(f, x) \/ Holds(g, x)
  BY <1>2, <1>6, HoldsJoined
<1>8. <<>> \in Seq(Scored) /\ \A x : ~Holds(<<>>, x)
  BY DEF Holds
<1> QED
  BY <1>1, <1>2, <1>6, <1>7, <1>8

\* What a measurement rests on: a piece of evidence of one of the three kinds.
Own(limit, s, x) ==
  \E r \in ExecutionReceipt : Holds(s, r) /\ Admitted(r, limit) /\ r.about /\ x = Behaviour(r)

\* The same of the attestors.
Grounds(limit, s, attestors, x) ==
  \/ Own(limit, s, x)
  \/ \E t \in Attestor : /\ Holds(attestors, t) /\ t.ok
                         /\ AttestedBy(t, limit, x) \/ ReceivedFrom(t, x)

\* What is collected is exactly the grounds of the measurement.
LEMMA CollectedHolds ==
  ASSUME NEW v \in Severity, NEW s \in Seq(ExecutionReceipt), NEW attestors \in Seq(Attestor)
  PROVE  /\ collected(v, s, attestors) \in Seq(Scored)
         /\ \A x : Holds(collected(v, s, attestors), x)
                     <=> Grounds(MAX_EVIDENCE_AGE[v], s, attestors, x)
<1> DEFINE limit == MAX_EVIDENCE_AGE[v]
           kept == [y \in ExecutionReceipt |-> Admitted(y, limit)]
           l == [k \in DOMAIN s |-> OnlyIf(Admitted(s[k], limit), s[k])]
           m == [k \in DOMAIN attestors |-> Handed(attestors[k], limit)]
           f == behaviouralReceipts(admittedReceipts(s, limit))
           g == FlattenSeq(m)
           n == Len(attestors)
<1>1. collected(v, s, attestors) = f \o g
  BY DEF collected
<1> HIDE DEF limit
<1>2. \A y \in ExecutionReceipt : kept[y] = Admitted(y, limit)
  OBVIOUS
<1>3. /\ admittedReceipts(s, limit) \in Seq(ExecutionReceipt)
      /\ \A x : Holds(admittedReceipts(s, limit), x) <=> Holds(s, x) /\ kept[x]
  <2>1. \A k \in DOMAIN s : s[k] \in ExecutionReceipt
    OBVIOUS
  <2>2. l = [k \in DOMAIN s |-> OnlyIf(kept[s[k]], s[k])]
    BY <1>2, <2>1
  <2>3. admittedReceipts(s, limit) = FlattenSeq(l)
    BY DEF admittedReceipts
  <2> HIDE DEF l, kept
  <2> QED
    BY <2>2, <2>3, ReceiptsKept, ZenonT(60)
<1> HIDE DEF kept
<1>4. f \in Seq(Scored) /\ \A x : Holds(f, x) <=> Own(limit, s, x)
  <2>1. /\ f \in Seq(Scored)
        /\ \A x : Holds(f, x) <=> \E y \in ExecutionReceipt :
                     Holds(admittedReceipts(s, limit), y) /\ y.about /\ x = Behaviour(y)
    BY <1>3, BehaviourHolds
  <2>2. \A y \in ExecutionReceipt :
          Holds(admittedReceipts(s, limit), y) <=> Holds(s, y) /\ Admitted(y, limit)
    BY <1>2, <1>3
  <2>3. \A x : (\E y \in ExecutionReceipt :
                  Holds(admittedReceipts(s, limit), y) /\ y.about /\ x = Behaviour(y))
                 <=> Own(limit, s, x)
    BY <2>2 DEF Own
  <2> QED
    BY <2>1, <2>3
<1>5. n \in Nat /\ DOMAIN attestors = 1..n /\ \A k \in 1..n : attestors[k] \in Attestor
  OBVIOUS
<1>6. \A k \in 1..n : m[k] = Handed(attestors[k], limit)
  BY <1>5
<1>7. m \in Seq(Seq(Scored)) /\ Len(m) = n
  <2>1. m \in [1..n -> Seq(Scored)]
    BY <1>5, <1>6, HandedHolds
  <2> HIDE DEF m, n
  <2> QED
    BY <1>5, <2>1, IsASeq, LenProperties
<1> HIDE DEF m, n
<1>8. g \in Seq(Scored) /\ \A x : Holds(g, x) <=> \E k \in 1..n : Holds(m[k], x)
  BY <1>7, HoldsFlattened
<1>9. \A x : (\E k \in 1..n : Holds(m[k], x))
               <=> \E t \in Attestor : /\ Holds(attestors, t) /\ t.ok
                                       /\ AttestedBy(t, limit, x) \/ ReceivedFrom(t, x)
  <2> TAKE x
  <2> DEFINE Hands(t) == t.ok /\ (AttestedBy(t, limit, x) \/ ReceivedFrom(t, x))
  <2>1. \A k \in 1..n : Holds(m[k], x) <=> Hands(attestors[k])
    BY <1>5, <1>6, HandedHolds
  <2>2. \A t : Holds(attestors, t) <=> \E k \in 1..n : attestors[k] = t
    BY DEF Holds, n
  <2>3. (\E k \in 1..n : Holds(m[k], x)) <=> \E t \in Attestor : Holds(attestors, t) /\ Hands(t)
    <3> HIDE DEF Hands
    <3>1. ASSUME NEW k \in 1..n, Holds(m[k], x)
          PROVE  \E t \in Attestor : Holds(attestors, t) /\ Hands(t)
      <4>1. Holds(attestors, attestors[k]) /\ Hands(attestors[k]) /\ attestors[k] \in Attestor
        BY <1>5, <2>1, <2>2, <3>1
      <4> QED
        BY <4>1
    <3>2. ASSUME NEW t \in Attestor, Holds(attestors, t), Hands(t)
          PROVE  \E k \in 1..n : Holds(m[k], x)
      <4>1. PICK k \in 1..n : attestors[k] = t
        BY <2>2, <3>2
      <4> QED
        BY <2>1, <3>2, <4>1
    <3> QED
      BY <3>1, <3>2
  <2> QED
    BY <2>3
<1> HIDE DEF f, g
<1>10. f \o g \in Seq(Scored) /\ \A x : Holds(f \o g, x) <=> Holds(f, x) \/ Holds(g, x)
  BY <1>4, <1>8, HoldsJoined
<1>11. \A x : Holds(f \o g, x) <=> Grounds(limit, s, attestors, x)
  BY <1>4, <1>8, <1>9, <1>10 DEF Grounds
<1> QED
  BY <1>1, <1>10, <1>11 DEF limit

\* An agent is proven if and only if there is evidence within the window.
LEMMA ProvenOnGrounds ==
  ASSUME NEW v \in Severity, NEW s \in Seq(ExecutionReceipt), NEW attestors \in Seq(Attestor)
  PROVE  /\ proven(v, s, attestors)
              <=> \E x \in Scored : /\ Grounds(MAX_EVIDENCE_AGE[v], s, attestors, x)
                                    /\ Within(x.age, MAX_EVIDENCE_AGE[v])
         /\ \A b \in Nat :
              (\A x \in Scored : Grounds(MAX_EVIDENCE_AGE[v], s, attestors, x)
                                   /\ Within(x.age, MAX_EVIDENCE_AGE[v]) => x.score <= b)
              /\ proven(v, s, attestors)
              => attestAgent(v, s, attestors) \in Int /\ attestAgent(v, s, attestors) <= 50 * b
<1> DEFINE limit == MAX_EVIDENCE_AGE[v]
           c == collected(v, s, attestors)
           e == windowReceipts(c, limit)
           raw == issuer_raw_weight(e)
           sum == weightedSum(e)
           Inside(x) == Grounds(limit, s, attestors, x) /\ Within(x.age, limit)
<1>1. c \in Seq(Scored) /\ \A x : Holds(c, x) <=> Grounds(limit, s, attestors, x)
  BY CollectedHolds
<1>2. attestAgent(v, s, attestors) = aggregateTrust(c, limit)
  BY DEF attestAgent
<1> HIDE DEF limit, c
<1>3. e \in Seq(Scored) /\ \A x : Holds(e, x) <=> Inside(x)
  BY <1>1, WindowHolds
<1>4. aggregateTrust(c, limit) = IF e = <<>> THEN INSUFFICIENT_TRUST_DATA
                                 ELSE Combined(sum, raw, Weights(raw))
  BY DEF aggregateTrust
<1> HIDE DEF e, Inside
<1>5. e # <<>> => Combined(sum, raw, Weights(raw)) \in Int
  <2> SUFFICES ASSUME e # <<>> PROVE Combined(sum, raw, Weights(raw)) \in Int
    OBVIOUS
  <2>1. Weighted(raw) /\ \A i \in DOMAIN raw : sum[i] \in Int
    BY <1>3, ScoreSums, RawWeights
  <2> HIDE DEF raw, sum
  <2> QED
    BY <2>1, Combining
<1> HIDE DEF raw, sum
<1>6. proven(v, s, attestors) <=> e # <<>>
  <2>1. proven(v, s, attestors) <=> aggregateTrust(c, limit) # INSUFFICIENT_TRUST_DATA
    BY <1>2 DEF proven
  <2> QED
    BY <1>4, <1>5, <2>1, AggregationAssumption
<1>7. e # <<>> <=> \E x \in Scored : Inside(x)
  <2>1. ASSUME e # <<>> PROVE \E x \in Scored : Inside(x)
    <3>1. e[1] \in Scored /\ Len(e) \in Nat /\ Len(e) >= 1
      BY <1>3, <2>1
    <3>2. Holds(e, e[1])
      BY <3>1 DEF Holds
    <3> QED
      BY <1>3, <3>1, <3>2
  <2>2. ASSUME e = <<>>, NEW x \in Scored, Inside(x) PROVE FALSE
    <3>1. Holds(e, x)
      BY <1>3, <2>2
    <3> QED
      BY <2>2, <3>1 DEF Holds
  <2> QED
    BY <2>1, <2>2
<1>8. ASSUME NEW b \in Nat, \A x \in Scored : Inside(x) => x.score <= b, proven(v, s, attestors)
      PROVE  attestAgent(v, s, attestors) \in Int /\ attestAgent(v, s, attestors) <= 50 * b
  <2>1. e # <<>>
    BY <1>6, <1>8
  <2>2. \A k \in DOMAIN e : e[k].score <= b
    <3> TAKE k \in DOMAIN e
    <3>1. e[k] \in Scored /\ k \in 1..Len(e)
      BY <1>3
    <3>2. Inside(e[k])
      BY <1>3, <3>1 DEF Holds
    <3> QED
      BY <1>8, <3>1, <3>2
  <2>3. Combined(sum, raw, Weights(raw)) <= 50 * b
    BY <1>3, <2>1, <2>2, TrustBounded DEF sum, raw
  <2> QED
    BY <1>2, <1>4, <1>5, <2>1, <2>3
<1> QED
  BY <1>6, <1>7, <1>8 DEF Inside, limit

\* What is offered and vouched, in terms of what lists hold.
LEMMA Handing ==
  ASSUME NEW s \in Seq(ExecutionReceipt), NEW attestors \in Seq(Attestor)
  PROVE  /\ \A r : Holds(s, r) => r \in Offered(s, attestors)
         /\ \A r : r \in Offered(s, attestors)
                     => r \in ExecutionReceipt
                        /\ \/ Holds(s, r)
                           \/ \E t \in Attestor : Holds(attestors, t) /\ t.ok /\ Holds(t.receipts, r)
         /\ \A t \in Attestor : Holds(attestors, t) /\ t.ok =>
              /\ \A r : Holds(t.receipts, r) => r \in Offered(s, attestors)
              /\ \A a : Holds(t.attestations, a) => a \in Vouched(attestors)
<1>1. \A X : \A l \in Seq(X) : \A x : x \in ToSet(l) <=> Holds(l, x)
  BY DEF ToSet, Holds
<1>2. \A t \in Attestor : t.receipts \in Seq(ExecutionReceipt) /\ t.attestations \in Seq(Attestation)
  BY DEF Attestor
<1>3. \A x : x \in ToSet(s) <=> Holds(s, x)
  BY <1>1
<1>4. \A t : t \in ToSet(attestors) <=> Holds(attestors, t)
  BY <1>1
<1>5. \A t \in Attestor : \A r : r \in ToSet(t.receipts) <=> Holds(t.receipts, r)
  BY <1>1, <1>2
<1>6. \A t \in Attestor : \A a : a \in ToSet(t.attestations) <=> Holds(t.attestations, a)
  BY <1>1, <1>2
<1>7. \A t : Holds(attestors, t) => t \in Attestor
  BY DEF Holds
<1>8. \A l \in Seq(ExecutionReceipt) : \A r : Holds(l, r) => r \in ExecutionReceipt
  BY DEF Holds
<1>9. \A r : r \in Offered(s, attestors) <=>
               \/ Holds(s, r)
               \/ \E t \in Attestor : Holds(attestors, t) /\ t.ok /\ Holds(t.receipts, r)
  BY <1>3, <1>4, <1>5, <1>7 DEF Offered
<1>10. \A a : a \in Vouched(attestors) <=>
                \E t \in Attestor : Holds(attestors, t) /\ t.ok /\ Holds(t.attestations, a)
  BY <1>4, <1>6, <1>7 DEF Vouched
<1> QED
  BY <1>2, <1>8, <1>9, <1>10

\* ProofEarned of every measurement.
LEMMA AllEarned ==
  ASSUME NEW v \in Severity, NEW s \in Seq(ExecutionReceipt), NEW attestors \in Seq(Attestor)
  PROVE  ProofEarned(v, s, attestors)
<1> DEFINE required == TRUST_REQUIRED[v]
           limit == MAX_EVIDENCE_AGE[v]
           trust == attestAgent(v, s, attestors)
           ByReceipt == \E r \in Offered(s, attestors) :
             r.pinned /\ r.about /\ r.executed <= limit /\ scoreExecutionReceipt(r) >= required
           ByAttestation == \E a \in Vouched(attestors) :
             /\ a.trusted /\ a.fits /\ ~a.revoked /\ a.age \in 0..limit /\ a.left >= 0
             /\ Attested(a).score >= required
<1> SUFFICES ASSUME required > 0, proveThreshold(v, s, attestors), ~ByReceipt, ~ByAttestation
             PROVE  FALSE
  BY DEF ProofEarned
<1>1. required \in Nat /\ required > 0
  <2>1. required \in Int
    BY DEF TRUST_REQUIRED, Severity
  <2> QED
    BY <2>1
<1>2. limit \in Nat
  BY EvidenceAssumption
<1>3. limit # Unlimited
  BY EvidenceAssumption
<1>4. (IF trust = INSUFFICIENT_TRUST_DATA THEN 0 ELSE trust) >= 50 * required
  BY DEF proveThreshold
<1>5. proven(v, s, attestors) <=> trust # INSUFFICIENT_TRUST_DATA
  BY DEF proven
<1>6. ~ByReceipt /\ ~ByAttestation
  OBVIOUS
<1> DEFINE b == required - 1
           Inside(x) == Grounds(limit, s, attestors, x) /\ Within(x.age, limit)
<1>7. \A x \in Scored : Inside(x) => x.score <= b
  <2> SUFFICES ASSUME NEW x \in Scored, Inside(x), ~(x.score <= b) PROVE FALSE
    OBVIOUS
  <2> HIDE DEF required, limit
  <2>1. x.score \in Int /\ x.score >= required
    <3>1. x.score \in Int
      BY DEF Scored
    <3> QED
      BY <1>1, <3>1
  <2>2. x.age <= limit
    BY <1>3 DEF Within
  <2>3. ASSUME NEW r \in Offered(s, attestors), r.pinned, r.about, x = Behaviour(r) PROVE FALSE
    <3>1. x.age = r.executed /\ x.score = scoreExecutionReceipt(r)
      BY <2>3 DEF Behaviour
    <3> QED
      BY <1>6, <2>1, <2>2, <2>3, <3>1
  <2>4. CASE Own(limit, s, x)
    <3>1. PICK r \in ExecutionReceipt :
            Holds(s, r) /\ Admitted(r, limit) /\ r.about /\ x = Behaviour(r)
      BY <2>4 DEF Own
    <3>2. r \in Offered(s, attestors)
      BY <3>1, Handing
    <3>3. r.pinned
      BY <3>1 DEF Admitted
    <3> QED
      BY <2>3, <3>1, <3>2, <3>3
  <2>5. CASE \E t \in Attestor : /\ Holds(attestors, t) /\ t.ok
                                 /\ AttestedBy(t, limit, x) \/ ReceivedFrom(t, x)
    <3>1. PICK t \in Attestor : /\ Holds(attestors, t) /\ t.ok
                                /\ AttestedBy(t, limit, x) \/ ReceivedFrom(t, x)
      BY <2>5
    <3>2. CASE ReceivedFrom(t, x)
      <4>1. PICK r \in ExecutionReceipt :
              Holds(t.receipts, r) /\ r.pinned /\ r.about /\ x = Behaviour(r)
        BY <3>2 DEF ReceivedFrom
      <4>2. r \in Offered(s, attestors)
        BY <3>1, <4>1, Handing
      <4> QED
        BY <2>3, <4>1, <4>2
    <3>3. CASE AttestedBy(t, limit, x)
      <4>1. PICK a \in Attestation :
              Holds(t.attestations, a) /\ verify_attestation(a, limit) /\ x = Attested(a)
        BY <3>3 DEF AttestedBy
      <4>2. a \in Vouched(attestors)
        BY <3>1, <4>1, Handing
      <4>3. a.trusted /\ a.fits /\ ~a.revoked /\ a.left >= 0 /\ a.age >= 0
        BY <4>1 DEF verify_attestation
      <4>4. x.age = a.age /\ a.age \in Int
        BY <4>1 DEF Attested, Attestation
      <4>5. a.age \in 0..limit
        BY <1>2, <2>2, <4>3, <4>4
      <4>6. Attested(a).score >= required
        BY <2>1, <4>1
      <4> QED
        BY <1>6, <4>2, <4>3, <4>5, <4>6
    <3> QED
      BY <3>1, <3>2, <3>3
  <2> QED
    BY <2>4, <2>5 DEF Grounds
<1>8. proven(v, s, attestors)
  <2> SUFFICES ASSUME trust = INSUFFICIENT_TRUST_DATA PROVE FALSE
    BY <1>5
  <2>1. 0 >= 50 * required
    BY <1>4
  <2> HIDE DEF required
  <2> QED
    BY <1>1, <2>1
<1>9. trust \in Int /\ trust <= 50 * b
  <2>1. b \in Nat
    <3> HIDE DEF required
    <3> QED
      BY <1>1
  <2>2. \A x \in Scored : Grounds(MAX_EVIDENCE_AGE[v], s, attestors, x)
                            /\ Within(x.age, MAX_EVIDENCE_AGE[v]) => x.score <= b
    BY <1>7
  <2> HIDE DEF b
  <2> QED
    BY <1>8, <2>1, <2>2, ProvenOnGrounds
<1>10. trust >= 50 * required
  BY <1>4, <1>5, <1>8
<1> HIDE DEF required, trust
<1> QED
  BY <1>1, <1>9, <1>10

\* LooserProvesMore of every measurement.
LEMMA AllLooser ==
  ASSUME NEW s \in Seq(ExecutionReceipt), NEW attestors \in Seq(Attestor)
  PROVE  LooserProvesMore(s, attestors)
<1> SUFFICES ASSUME NEW u \in Severity, NEW v \in Severity,
                    proven(u, s, attestors), ~proven(v, s, attestors),
                    MAX_EVIDENCE_AGE[u] # Unlimited,
                    Within(MAX_EVIDENCE_AGE[u], MAX_EVIDENCE_AGE[v])
             PROVE  /\ MAX_EVIDENCE_AGE[v] = Unlimited
                    /\ \A r \in Offered(s, attestors) : ~(r.pinned /\ r.about) \/ r.issued < 0
                    /\ \E a \in Vouched(attestors) : a.maxAge = Unset
  BY DEF LooserProvesMore
<1> DEFINE strict == MAX_EVIDENCE_AGE[u]
           loose == MAX_EVIDENCE_AGE[v]
<1>1. strict \in Nat /\ strict # Unlimited /\ (loose = Unlimited \/ (loose \in Nat /\ strict <= loose))
  <2>1. strict \in Nat \cup {Unlimited} /\ loose \in Nat \cup {Unlimited}
    BY EvidenceAssumption
  <2>2. strict # Unlimited /\ Within(strict, loose)
    OBVIOUS
  <2> HIDE DEF strict, loose
  <2>3. strict \in Nat /\ (loose = Unlimited \/ loose \in Nat)
    BY <2>1, <2>2
  <2>4. loose = Unlimited \/ strict <= loose
    BY <2>2 DEF Within
  <2> QED
    BY <2>2, <2>3, <2>4
<1>2. ASSUME NEW age \in Int, Within(age, strict) PROVE Within(age, loose)
  <2> HIDE DEF strict, loose
  <2> QED
    BY <1>1, <1>2 DEF Within
<1>3. PICK x \in Scored : Grounds(strict, s, attestors, x) /\ Within(x.age, strict)
  BY ProvenOnGrounds
<1>4. \A y \in Scored : ~(Grounds(loose, s, attestors, y) /\ Within(y.age, loose))
  BY ProvenOnGrounds
<1> HIDE DEF strict, loose
<1>5. Within(x.age, loose) /\ ~Grounds(loose, s, attestors, x)
  <2>1. x.age \in Int
    BY DEF Scored
  <2> QED
    BY <1>2, <1>3, <1>4, <2>1
<1>6. ~Own(strict, s, x)
  <2> SUFFICES ASSUME Own(strict, s, x) PROVE FALSE
    OBVIOUS
  <2>1. PICK r \in ExecutionReceipt :
          Holds(s, r) /\ Admitted(r, strict) /\ r.about /\ x = Behaviour(r)
    BY DEF Own
  <2>2. r.issued \in Int
    BY DEF ExecutionReceipt
  <2>3. Admitted(r, loose)
    BY <1>2, <2>1, <2>2 DEF Admitted
  <2> QED
    BY <1>5, <2>1, <2>3 DEF Grounds, Own
<1>7. PICK t \in Attestor : /\ Holds(attestors, t) /\ t.ok
                            /\ AttestedBy(t, strict, x) \/ ReceivedFrom(t, x)
  BY <1>3, <1>6 DEF Grounds
<1>8. ~ReceivedFrom(t, x) /\ ~AttestedBy(t, loose, x)
  BY <1>5, <1>7 DEF Grounds
<1>9. PICK a \in Attestation :
        Holds(t.attestations, a) /\ verify_attestation(a, strict) /\ x = Attested(a)
  BY <1>7, <1>8 DEF AttestedBy
<1>10. ~verify_attestation(a, loose)
  BY <1>8, <1>9 DEF AttestedBy
<1>11. a \in Vouched(attestors)
  BY <1>7, <1>9, Handing
<1>12. a.maxAge = Unset
  BY <1>9, <1>10 DEF verify_attestation
<1>13. loose = Unlimited
  <2> SUFFICES ASSUME loose \in Nat, strict <= loose PROVE FALSE
    BY <1>1
  <2>1. a.age \in Int /\ a.age <= strict
    BY <1>9, <1>12 DEF verify_attestation, Attestation
  <2>2. a.age <= loose
    BY <1>1, <2>1
  <2>3. loose # Unlimited
    BY AggregationAssumption
  <2> QED
    BY <1>9, <1>10, <1>12, <2>2, <2>3 DEF verify_attestation
<1>14. \A r \in Offered(s, attestors) : ~(r.pinned /\ r.about) \/ r.issued < 0
  <2> SUFFICES ASSUME NEW r \in Offered(s, attestors), r.pinned, r.about, ~(r.issued < 0)
               PROVE  FALSE
    OBVIOUS
  <2>1. /\ r \in ExecutionReceipt
        /\ \/ Holds(s, r)
           \/ \E w \in Attestor : Holds(attestors, w) /\ w.ok /\ Holds(w.receipts, r)
    BY Handing
  <2>2. Behaviour(r) \in Scored /\ Within(Behaviour(r).age, loose)
    BY <1>13, <2>1, EvidenceScored DEF Within
  <2>3. Admitted(r, loose)
    <3>1. r.issued \in Int
      BY <2>1 DEF ExecutionReceipt
    <3>2. r.issued >= 0
      BY <3>1
    <3> QED
      BY <1>13, <3>2 DEF Admitted, Within
  <2>4. CASE Holds(s, r)
    <3>1. Own(loose, s, Behaviour(r))
      BY <2>1, <2>3, <2>4 DEF Own
    <3> QED
      BY <1>4, <2>2, <3>1 DEF Grounds
  <2>5. CASE \E w \in Attestor : Holds(attestors, w) /\ w.ok /\ Holds(w.receipts, r)
    <3>1. PICK w \in Attestor : Holds(attestors, w) /\ w.ok /\ Holds(w.receipts, r)
      BY <2>5
    <3>2. ReceivedFrom(w, Behaviour(r))
      BY <2>1, <3>1 DEF ReceivedFrom
    <3> QED
      BY <1>4, <2>2, <3>1, <3>2 DEF Grounds
  <2> QED
    BY <2>1, <2>4, <2>5
<1> QED
  BY <1>11, <1>12, <1>13, <1>14 DEF loose

\* Whatever receipts and attestations come in, in whatever order and number: a threshold
\* is proved only by evidence that is signed, about the agent and fresh, one piece of
\* which reaches it alone; and a severity that allows older evidence proves at least as
\* much, but for the attestations that one without a limit cannot date.
THEOREM MeasurementsEarned == MeasuringSpec => []MeasuredOnEvidence
<1>1. Evidence => MeasuredOnEvidence
  <2> SUFFICES ASSUME Evidence PROVE MeasuredOnEvidence
    OBVIOUS
  <2> DEFINE r == measured.receipts
             t == measured.attestors
  <2>1. r \in Seq(ExecutionReceipt) /\ t \in Seq(Attestor)
    BY DEF Evidence
  <2> HIDE DEF r, t
  <2>2. \A v \in Severity : ProofEarned(v, r, t)
    BY <2>1, AllEarned
  <2>3. LooserProvesMore(r, t)
    BY <2>1, AllLooser
  <2> QED
    BY <2>2, <2>3 DEF MeasuredOnEvidence, r, t
<1> QED
  BY <1>1, EvidenceKept, PTL
=============================================================================
