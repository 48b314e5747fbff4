----------------------------- MODULE IsnadChain -----------------------------
(***************************************************************************)
(* verify_isnad_chain (src/isnad.mjs): whether trust that is handed on from *)
(* an authority, link by link, reaches its last subject, and how much of    *)
(* it.                                                                      *)
(*                                                                          *)
(* Amounts are whole numbers of which Unit is the full trust.  A link knows *)
(* whether it has expired and whether the action is in its scope.           *)
(***************************************************************************)
EXTENDS Integers, SequencesExt, Products

CONSTANTS
  Unit,      \* full trust
  Parties,   \* the issuers and subjects
  AnyRoot    \* the root of a request that names none

ASSUME ChainAssumption == Unit \in Nat \ {0} /\ AnyRoot \notin Parties

Link == [issuer: Parties, subject: Parties, amount: Int,
         transferable: BOOLEAN, expired: BOOLEAN, inScope: BOOLEAN]

\* What verify_isnad_chain is asked besides the chain.
Demand == [root: Parties \cup {AnyRoot}, trusted: SUBSET Parties, maxLength: Int,
           minLinkTrust: Int, enforceMonotonic: BOOLEAN, attenuation: {"product", "min", "none"}]

\* Mutant: the last two links need not be transferable.
HandedOnBut(s) == \A k \in 1..(Len(s) - 2) : s[k].transferable

HandedOn(s) == \A k \in 1..(Len(s) - 1) : s[k].transferable

Continuous(s) ==
  /\ s # <<>>
  /\ \A k \in 1..Len(s) : s[k].issuer # s[k].subject
  /\ \A k \in 2..Len(s) : s[k].issuer = s[k - 1].subject

LinkHolds(q, l) ==
  /\ ~l.expired /\ l.inScope
  /\ l.issuer \in q.trusted
  /\ l.amount \in 0..Unit /\ l.amount >= q.minLinkTrust

\* verify_isnad_chain finds no failure.
Sound(q, s) ==
  /\ Continuous(s)
  /\ Len(s) <= q.maxLength
  /\ q.root \in {AnyRoot, s[1].issuer}
  /\ HandedOn(s)
  /\ \A k \in 1..Len(s) : LinkHolds(q, s[k])
  /\ q.enforceMonotonic => \A k \in 2..Len(s) : s[k].amount <= s[k - 1].amount

\* What reaches the subject, of Power(Unit, Len(s)).
effectiveTrust(q, s) ==
  CASE q.attenuation = "product" -> Product([k \in DOMAIN s |-> s[k].amount], DOMAIN s)
    [] q.attenuation = "min"     -> Min({s[k].amount : k \in DOMAIN s}) * Power(Unit, Len(s) - 1)
    [] q.attenuation = "none"    -> Last(s).amount * Power(Unit, Len(s) - 1)

-----------------------------------------------------------------------------
(* Properties, of a request q and a chain s. *)

\* A chain is valid exactly if, wherever it is cut, both parts are, the second from
\* where the first ends, and the first may be handed on.
CutsAnywhere(q, s) ==
  \A n \in 1..(Len(s) - 1) :
    LET first  == SubSeq(s, 1, n)
        second == SubSeq(s, n + 1, Len(s))
    IN  Sound(q, s) <=>
          /\ Sound(q, first)
          /\ Sound([q EXCEPT !.root = s[n].subject], second)
          /\ Len(s) <= q.maxLength
          /\ s[n].transferable
          /\ q.enforceMonotonic => s[n + 1].amount <= s[n].amount

\* Of a valid chain, no subject gets more than an earlier one got or any link gave,
\* unless nothing attenuates and links may give more than they got.
Attenuates(q, s) ==
  Sound(q, s) /\ (q.attenuation # "none" \/ q.enforceMonotonic) =>
    /\ \A n \in 1..(Len(s) - 1) :
         effectiveTrust(q, s) <= effectiveTrust(q, SubSeq(s, 1, n)) * Power(Unit, Len(s) - n)
    /\ \A k \in 1..Len(s) : effectiveTrust(q, s) <= s[k].amount * Power(Unit, Len(s) - 1)
=============================================================================
