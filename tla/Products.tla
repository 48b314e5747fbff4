------------------------------ MODULE Products ------------------------------
(* Products and powers, and what is kept of a list. *)
EXTENDS Integers, Functions

\* The product of f[x] over the x in S.
Product(f, S) == FoldFunctionOnSet(LAMBDA a, b : a * b, 1, f, S)

\* x to the power of n.
Power(x, n) == Product([k \in 1..n |-> x], 1..n)

\* What an element adds to a list that it may be kept in.
OnlyIf(kept, x) == IF kept THEN <<x>> ELSE <<>>
=============================================================================
