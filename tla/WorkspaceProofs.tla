---------------------------- MODULE WorkspaceProofs ----------------------------
(***************************************************************************)
(* Proofs about what the commands of a workspace share: its manifest, for   *)
(* any learns, agents, actions, manifests and numbers of receipts and edits *)
(* (Learning); its receipts and its key, for any number of runs (LocalRuns).*)
(* And about what "pctr decide" and whatIf answer, for any policies         *)
(* (RouteResponse).                                                         *)
(***************************************************************************)
EXTENDS LocalRuns, Learning, RouteResponse,
        FiniteSetTheorems, SequenceTheorems, WellFoundedInduction, TLAPS

-----------------------------------------------------------------------------
(* Greatest elements. *)

LEMMA Least == ASSUME NEW S \in SUBSET Nat, S # {} PROVE \E x \in S : \A y \in S : x <= y
<1>1. IsWellFoundedOn(OpToRel(<, Nat), Nat)
  BY NatLessThanWellFounded
<1>2. PICK x \in S : \A y \in S : ~(<<y, x>> \in OpToRel(<, Nat))
  BY <1>1, WFMin
<1>3. \A y \in S : ~ (y < x)
  BY <1>2 DEF OpToRel
<1> QED
  BY <1>3

\* A set of numbers with a bound has a greatest.
LEMMA Greatest ==
  ASSUME NEW S \in SUBSET Nat, S # {}, NEW b \in Nat, \A y \in S : y <= b
  PROVE  /\ Max(S) \in S
         /\ \A y \in S : Max(S) >= y
<1> DEFINE U == {u \in Nat : \A y \in S : y <= u}
<1>1. PICK u \in U : \A v \in U : u <= v
  <2>1. b \in U /\ U \in SUBSET Nat
    OBVIOUS
  <2> HIDE DEF U
  <2> QED
    BY <2>1, Least
<1>2. u \in Nat /\ \A y \in S : y <= u
  BY <1>1
<1>3. u \in S
  <2> SUFFICES ASSUME u \notin S PROVE FALSE
    OBVIOUS
  <2>1. \A y \in S : y \in Nat /\ y < u
    BY <1>2
  <2>2. u - 1 \in Nat /\ \A y \in S : y <= u - 1
    <3>1. PICK z \in S : z \in Nat /\ z < u
      BY <2>1
    <3>2. u - 1 \in Nat
      BY <1>2, <3>1
    <3>3. ASSUME NEW y \in S PROVE y <= u - 1
      <4>1. y \in Nat /\ y < u
        BY <2>1
      <4> QED
        BY <1>2, <4>1
    <3> QED
      BY <3>2, <3>3
  <2>3. u - 1 \in U
    BY <2>2
  <2> QED
    BY <1>1, <1>2, <2>3
<1>4. \E x \in S : \A y \in S : x >= y
  BY <1>2, <1>3
<1> QED
  BY <1>4 DEF Max

-----------------------------------------------------------------------------
(* What is learnt from receipts. *)

LearnReceipt == [deed: Deeds, level: Nat, agents: SUBSET Acting]

LEMMA ReceiptParts ==
  ASSUME NEW t \in Seq(LearnReceipt)
  PROVE  /\ Len(t) \in Nat /\ DOMAIN t = 1..Len(t)
         /\ \A k \in 1..Len(t) :
              t[k].deed \in Deeds /\ t[k].level \in Nat /\ t[k].agents \subseteq Acting
<1>1. Len(t) \in Nat /\ DOMAIN t = 1..Len(t) /\ \A k \in 1..Len(t) : t[k] \in LearnReceipt
  OBVIOUS
<1>2. \A x \in LearnReceipt : x.deed \in Deeds /\ x.level \in Nat /\ x.agents \subseteq Acting
  BY DEF LearnReceipt
<1> QED
  BY <1>1, <1>2

\* The levels of a sequence of receipts have a bound.
LEMMA LevelsBounded ==
  ASSUME NEW t \in Seq(LearnReceipt)
  PROVE  \E b \in Nat : \A k \in 1..Len(t) : t[k].level <= b
<1> DEFINE Bounded(n) == \E b \in Nat : \A k \in 1..n : t[k].level <= b
           U == {n \in 0..Len(t) : ~Bounded(n)}
<1>1. Len(t) \in Nat /\ \A k \in 1..Len(t) : t[k].level \in Nat
  BY ReceiptParts
<1>2. Bounded(0)
  <2>1. \A k \in 1..0 : t[k].level <= 0
    OBVIOUS
  <2> QED
    BY <2>1
<1>3. ASSUME NEW n \in 1..Len(t), Bounded(n - 1)
      PROVE  Bounded(n)
  <2>1. PICK b \in Nat : \A k \in 1..(n - 1) : t[k].level <= b
    BY <1>3
  <2> HIDE DEF Bounded
  <2>2. t[n].level \in Nat /\ b \in Nat
    BY <1>1
  <2>3. \E c \in Nat : b <= c /\ t[n].level <= c
    <3>1. CASE b <= t[n].level
      BY <2>2, <3>1
    <3>2. CASE t[n].level <= b
      BY <2>2, <3>2
    <3> QED
      BY <2>2, <3>1, <3>2
  <2>4. PICK c \in Nat : b <= c /\ t[n].level <= c
    BY <2>3
  <2>5. \A k \in 1..n : t[k].level <= c
    <3> TAKE k \in 1..n
    <3>1. CASE k \in 1..(n - 1)
      <4>1. t[k].level <= b /\ t[k].level \in Nat
        BY <1>1, <2>1, <3>1
      <4> QED
        BY <2>2, <2>4, <4>1
    <3>2. CASE k = n
      BY <2>4, <3>2
    <3> QED
      BY <3>1, <3>2
  <2> QED
    BY <2>5 DEF Bounded
<1>4. U \in SUBSET Nat /\ \A n \in U : n \in 0..Len(t) /\ ~Bounded(n)
  BY <1>1
<1>5. \A n \in 0..Len(t) : ~Bounded(n) => n \in U
  OBVIOUS
<1> HIDE DEF U, Bounded
<1>6. U = {}
  <2> SUFFICES ASSUME U # {} PROVE FALSE
    OBVIOUS
  <2>1. PICK n \in U : \A m \in U : n <= m
    BY <1>4, Least
  <2>2. n \in 0..Len(t) /\ ~Bounded(n) /\ n # 0
    BY <1>2, <1>4
  <2>3. n \in 1..Len(t) /\ n - 1 \in 0..Len(t) /\ ~(n <= n - 1)
    BY <1>1, <2>2
  <2>4. n - 1 \in U
    BY <1>3, <1>5, <2>2, <2>3
  <2> QED
    BY <2>1, <2>3, <2>4
<1>7. Bounded(Len(t))
  BY <1>1, <1>5, <1>6
<1> QED
  BY <1>7 DEF Bounded

\* misdeclaredConsequences: the most records of a run of an action, 0 if it was not run.
LEMMA MaxRecords ==
  ASSUME NEW t \in Seq(LearnReceipt), NEW d \in Deeds
  PROVE  /\ maxRecords(t, d) \in Nat
         /\ \A k \in DOMAIN t : t[k].deed = d => t[k].level <= maxRecords(t, d)
         /\ maxRecords(t, d) # 0 => d \in Done(t)
<1> DEFINE S == {0} \cup {t[k].level : k \in {k \in DOMAIN t : t[k].deed = d}}
<1>1. DOMAIN t = 1..Len(t) /\ \A k \in DOMAIN t : t[k].level \in Nat
  BY ReceiptParts
<1>2. PICK b \in Nat : \A k \in 1..Len(t) : t[k].level <= b
  BY LevelsBounded
<1>3. S \in SUBSET Nat /\ S # {} /\ \A y \in S : y <= b
  BY <1>1, <1>2
<1>4. maxRecords(t, d) = Max(S)
  BY DEF maxRecords
<1>5. \A k \in DOMAIN t : t[k].deed = d => t[k].level \in S
  OBVIOUS
<1>6. \A y \in S : y # 0 => d \in Done(t)
  BY DEF Done
<1> HIDE DEF S
<1>7. Max(S) \in S /\ \A y \in S : Max(S) >= y
  BY <1>3, Greatest
<1>8. maxRecords(t, d) \in Nat
  BY <1>3, <1>4, <1>7
<1>9. \A k \in DOMAIN t : t[k].deed = d => t[k].level <= maxRecords(t, d)
  BY <1>1, <1>4, <1>5, <1>7, <1>8
<1> QED
  BY <1>4, <1>6, <1>7, <1>8, <1>9

\* A manifest m takes nothing from e but authority that names no action.
Tightens(e, m) ==
  /\ \A g \in Acting, d \in Deeds : holdsAuthority(m, g, d) => holdsAuthority(e, g, d)
  /\ \A g \in Acting : Wildcard \notin e.authority[g] => m.authority[g] = e.authority[g]
  /\ \A d \in Deeds : declaredRecords(e, d) <= declaredRecords(m, d)
  /\ e.attached \subseteq m.attached

LEMMA ManifestParts ==
  ASSUME NEW m \in Manifest
  PROVE  /\ m = [level |-> m.level, attached |-> m.attached, authority |-> m.authority]
         /\ m.attached \subseteq Deeds
         /\ \A d \in Deeds : m.level[d] \in Nat \cup {Undeclared}
         /\ \A d \in Deeds : declaredRecords(m, d) \in Nat
         /\ \A g \in Acting : m.authority[g] \subseteq Deeds \cup {Wildcard}
<1>1. /\ m.level \in [Deeds -> Nat \cup {Undeclared}]
      /\ m.authority \in [Acting -> SUBSET (Deeds \cup {Wildcard})]
      /\ m.attached \subseteq Deeds
      /\ m = [level |-> m.level, attached |-> m.attached, authority |-> m.authority]
  BY DEF Manifest
<1>2. \A d \in Deeds : m.level[d] \in Nat \cup {Undeclared}
  BY <1>1
<1>3. \A d \in Deeds : declaredRecords(m, d) \in Nat
  BY <1>2 DEF declaredRecords
<1> QED
  BY <1>1, <1>2, <1>3

LEMMA ProposalParts ==
  ASSUME NEW m \in Manifest, NEW t \in Seq(LearnReceipt)
  PROVE  LET p == applyProposal(m, t)
         IN  /\ p \in Manifest
             /\ \A d \in Deeds :
                  p.level[d] = IF d \in misdeclaredConsequences(m, t) THEN maxRecords(t, d)
                               ELSE IF d \in undeclaredActions(m, t) THEN declaredRecords(m, d)
                               ELSE m.level[d]
             /\ p.attached = m.attached \cup (undeclaredActions(m, t) \cap toolFor(t))
             /\ \A g \in Acting :
                  p.authority[g] = IF g \in unusedAuthority(m, t) THEN actionsUsed(t, g)
                                   ELSE m.authority[g]
<1> DEFINE level == [d \in Deeds |->
                       IF d \in misdeclaredConsequences(m, t) THEN maxRecords(t, d)
                       ELSE IF d \in undeclaredActions(m, t) THEN declaredRecords(m, d)
                       ELSE m.level[d]]
           attached == m.attached \cup (undeclaredActions(m, t) \cap toolFor(t))
           authority == [g \in Acting |-> IF g \in unusedAuthority(m, t) THEN actionsUsed(t, g)
                                          ELSE m.authority[g]]
<1>1. applyProposal(m, t) = [level |-> level, attached |-> attached, authority |-> authority]
  BY DEF applyProposal
<1>2. level \in [Deeds -> Nat \cup {Undeclared}]
  BY ManifestParts, MaxRecords
<1>3. attached \subseteq Deeds
  <2>1. \A k \in DOMAIN t : t[k].deed \in Deeds
    BY ReceiptParts
  <2>2. Done(t) \subseteq Deeds
    BY <2>1 DEF Done
  <2> QED
    BY <2>2, ManifestParts DEF undeclaredActions
<1>4. authority \in [Acting -> SUBSET (Deeds \cup {Wildcard})]
  <2>1. \A k \in DOMAIN t : t[k].deed \in Deeds
    BY ReceiptParts
  <2>2. \A g \in Acting : actionsUsed(t, g) \subseteq Deeds
    BY <2>1 DEF actionsUsed
  <2> QED
    BY <2>2, ManifestParts
<1>5. \A d \in Deeds :
        level[d] = IF d \in misdeclaredConsequences(m, t) THEN maxRecords(t, d)
                   ELSE IF d \in undeclaredActions(m, t) THEN declaredRecords(m, d)
                   ELSE m.level[d]
  OBVIOUS
<1>6. \A g \in Acting :
        authority[g] = IF g \in unusedAuthority(m, t) THEN actionsUsed(t, g) ELSE m.authority[g]
  OBVIOUS
<1>7. attached = m.attached \cup (undeclaredActions(m, t) \cap toolFor(t))
  OBVIOUS
<1> HIDE DEF level, attached, authority
<1>8. applyProposal(m, t) \in Manifest
  BY <1>1, <1>2, <1>3, <1>4 DEF Manifest
<1> QED
  BY <1>1, <1>5, <1>6, <1>7, <1>8

\* applyProposal: what is learnt for a manifest takes nothing more.
LEMMA ProposalTightens ==
  ASSUME NEW e \in Manifest, NEW m \in Manifest, NEW t \in Seq(LearnReceipt), Tightens(e, m)
  PROVE  Tightens(e, applyProposal(m, t))
<1> USE LearningAssumption
<1> DEFINE p == applyProposal(m, t)
<1>1. /\ p \in Manifest
      /\ \A d \in Deeds :
           p.level[d] = IF d \in misdeclaredConsequences(m, t) THEN maxRecords(t, d)
                        ELSE IF d \in undeclaredActions(m, t) THEN declaredRecords(m, d)
                        ELSE m.level[d]
      /\ p.attached = m.attached \cup (undeclaredActions(m, t) \cap toolFor(t))
      /\ \A g \in Acting :
           p.authority[g] = IF g \in unusedAuthority(m, t) THEN actionsUsed(t, g)
                            ELSE m.authority[g]
  BY ProposalParts
<1> HIDE DEF p
<1>2. /\ \A g \in Acting, d \in Deeds : holdsAuthority(m, g, d) => holdsAuthority(e, g, d)
      /\ \A g \in Acting : Wildcard \notin e.authority[g] => m.authority[g] = e.authority[g]
      /\ \A d \in Deeds : declaredRecords(e, d) <= declaredRecords(m, d)
      /\ e.attached \subseteq m.attached
  BY DEF Tightens
<1>3. ASSUME NEW g \in Acting
      PROVE  /\ \A d \in Deeds : holdsAuthority(p, g, d) => holdsAuthority(e, g, d)
             /\ Wildcard \notin e.authority[g] => p.authority[g] = e.authority[g]
  <2>1. CASE g \in unusedAuthority(m, t)
    <3>1. Wildcard \in m.authority[g]
      BY <2>1 DEF unusedAuthority
    <3>2. Wildcard \in e.authority[g]
      BY <1>2, <3>1
    <3> QED
      BY <3>2 DEF holdsAuthority
  <2>2. CASE g \notin unusedAuthority(m, t)
    <3>1. p.authority[g] = m.authority[g]
      BY <1>1, <2>2
    <3> QED
      BY <1>2, <3>1 DEF holdsAuthority
  <2> QED
    BY <2>1, <2>2
<1>4. ASSUME NEW d \in Deeds
      PROVE  declaredRecords(e, d) <= declaredRecords(p, d)
  <2>1. /\ declaredRecords(e, d) <= declaredRecords(m, d)
        /\ declaredRecords(e, d) \in Nat /\ declaredRecords(m, d) \in Nat
    BY <1>2, ManifestParts
  <2>2. maxRecords(t, d) \in Nat
    BY MaxRecords
  <2>3. CASE d \in misdeclaredConsequences(m, t)
    <3>1. maxRecords(t, d) > 2 * declaredRecords(m, d)
      BY <2>3 DEF misdeclaredConsequences
    <3>2. p.level[d] = maxRecords(t, d)
      BY <1>1, <2>3
    <3>3. declaredRecords(p, d) = maxRecords(t, d)
      BY <2>2, <3>2 DEF declaredRecords
    <3> QED
      BY <2>1, <2>2, <3>1, <3>3
  <2>4. CASE d \notin misdeclaredConsequences(m, t) /\ d \in undeclaredActions(m, t)
    <3>1. p.level[d] = declaredRecords(m, d)
      BY <1>1, <2>4
    <3>2. declaredRecords(p, d) = declaredRecords(m, d)
      BY <2>1, <3>1 DEF declaredRecords
    <3> QED
      BY <2>1, <3>2
  <2>5. CASE d \notin misdeclaredConsequences(m, t) /\ d \notin undeclaredActions(m, t)
    <3>1. p.level[d] = m.level[d]
      BY <1>1, <2>5
    <3> QED
      BY <2>1, <3>1 DEF declaredRecords
  <2> QED
    BY <2>3, <2>4, <2>5
<1>5. e.attached \subseteq p.attached
  BY <1>1, <1>2
<1> QED
  BY <1>3, <1>4, <1>5 DEF Tightens, p

\* applyProposal: nobody loses the authority for what the receipts show it did.
LEMMA ProposalKeeps ==
  ASSUME NEW m \in Manifest, NEW t \in Seq(LearnReceipt), NEW k \in DOMAIN t,
         NEW g \in Acting, g \in t[k].agents, holdsAuthority(m, g, t[k].deed)
  PROVE  holdsAuthority(applyProposal(m, t), g, t[k].deed)
<1> DEFINE p == applyProposal(m, t)
<1>1. p.authority[g] = IF g \in unusedAuthority(m, t) THEN actionsUsed(t, g) ELSE m.authority[g]
  BY ProposalParts
<1> HIDE DEF p
<1>2. t[k].deed \in actionsUsed(t, g)
  BY DEF actionsUsed
<1> QED
  BY <1>1, <1>2 DEF holdsAuthority, p

-----------------------------------------------------------------------------
(* The invariant of learning: what LearningInv says of the manifest is said *)
(* of every copy that a learn in progress may still write.  A receipt that  *)
(* such a learn will not look at is one of those left while it was pending. *)

LearnState ==
  [phase: {"idle", "loaded", "read", "writing", "ended"}, manifest: Manifest,
   receipts: Nat, edits: Nat]

LearningTypeOK ==
  /\ manifest \in Manifest \cup {Broken}
  /\ trail \in Seq(LearnReceipt)
  /\ learns \in [Learns -> LearnState]
  /\ edited \in Manifest
  /\ edits \in Nat
  /\ lost \in BOOLEAN
  /\ during \subseteq 1..Len(trail)

\* A manifest m leaves every agent that authority under e which it used in a receipt of
\* t outside u.
Keeps(e, t, u, m) ==
  \A k \in DOMAIN t \ u : \A g \in t[k].agents :
    holdsAuthority(e, g, t[k].deed) => holdsAuthority(m, g, t[k].deed)

Sound(e, t, u, m) == Tightens(e, m) /\ Keeps(e, t, u, m)

\* What a learn has read, c, after n edits of which e is the last.
CopySound(c, e, n, t, u, gone) ==
  /\ c.edits <= n
  /\ c.receipts <= Len(t)
  /\ ~gone /\ c.phase \in {"loaded", "read", "writing"} /\ c.edits = n => Sound(e, t, u, c.manifest)
  /\ c.phase \in {"read", "writing"} => \A k \in DOMAIN t \ u : k <= c.receipts

LearningIInv ==
  /\ LearningTypeOK
  /\ ~lost /\ manifest # Broken => Sound(edited, trail, during, manifest)
  /\ \A l \in Learns : CopySound(learns[l], edited, edits, trail, during, lost)

LEMMA InvGives == LearningIInv => LearningInv
<1> SUFFICES ASSUME LearningIInv, manifest # Broken, ~lost
             PROVE  LearningInv
  BY DEF LearningInv, OnlyTightens, KeepsUsed
<1>1. Tightens(edited, manifest) /\ Keeps(edited, trail, during, manifest)
  BY DEF LearningIInv, Sound
<1> QED
  BY <1>1 DEF LearningInv, OnlyTightens, KeepsUsed, Tightens, Keeps

LEMMA TightensSelf == \A m \in Manifest : Tightens(m, m)
<1> TAKE m \in Manifest
<1>1. \A d \in Deeds : declaredRecords(m, d) <= declaredRecords(m, d)
  BY ManifestParts
<1> QED
  BY <1>1 DEF Tightens

LEMMA KeepsSelf == \A m, t, u : Keeps(m, t, u, m)
BY DEF Keeps

LEMMA LearningStarts == LearningInit => LearningIInv
<1> SUFFICES ASSUME LearningInit PROVE LearningIInv
  OBVIOUS
<1>1. /\ edited \in Manifest /\ manifest = edited /\ trail = <<>> /\ edits = 0
      /\ lost = FALSE /\ during = {}
      /\ learns = [l \in Learns |-> [phase |-> "idle", manifest |-> manifest, receipts |-> 0, edits |-> 0]]
  BY LearningAssumption DEF LearningInit
<1>2. \A l \in Learns : learns[l].phase = "idle" /\ learns[l].edits = 0 /\ learns[l].receipts = 0
  BY <1>1
<1>3. LearningTypeOK
  <2>1. learns \in [Learns -> LearnState]
    BY <1>1 DEF LearnState
  <2>2. trail \in Seq(LearnReceipt) /\ during \subseteq 1..Len(trail)
    BY <1>1
  <2> QED
    BY <1>1, <2>1, <2>2 DEF LearningTypeOK
<1>4. Sound(edited, trail, during, manifest)
  BY <1>1, TightensSelf, KeepsSelf DEF Sound
<1>5. \A l \in Learns : CopySound(learns[l], edited, edits, trail, during, lost)
  <2>1. Len(trail) = 0
    BY <1>1
  <2> QED
    BY <1>1, <1>2, <2>1 DEF CopySound
<1> QED
  BY <1>3, <1>4, <1>5 DEF LearningIInv

\* A step of one learn, which reads, opens, writes or ends.
LEMMA LearnMoves ==
  ASSUME LearningIInv, NEW l \in Learns, NEW c \in LearnState,
         learns' = [learns EXCEPT ![l] = c],
         UNCHANGED <<trail, edited, edits, during>>,
         lost' \in BOOLEAN, lost => lost',
         CopySound(c, edited, edits, trail, during, lost'),
         manifest' \in Manifest \cup {Broken},
         ~lost' /\ manifest' # Broken => Sound(edited, trail, during, manifest')
  PROVE  LearningIInv'
<1>1. LearningTypeOK'
  <2>1. learns' \in [Learns -> LearnState]
    BY DEF LearningIInv, LearningTypeOK
  <2> QED
    BY <2>1 DEF LearningIInv, LearningTypeOK
<1>2. ASSUME NEW x \in Learns
      PROVE  CopySound(learns'[x], edited, edits, trail, during, lost')
  <2>1. CASE x = l
    <3>1. learns'[x] = c
      BY <2>1 DEF LearningIInv, LearningTypeOK
    <3> QED
      BY <3>1
  <2>2. CASE x # l
    <3>1. learns'[x] = learns[x]
      BY <2>2 DEF LearningIInv, LearningTypeOK
    <3>2. CopySound(learns[x], edited, edits, trail, during, lost)
      BY DEF LearningIInv
    <3>3. CopySound(learns[x], edited, edits, trail, during, lost')
      BY <3>2 DEF CopySound
    <3> QED
      BY <3>1, <3>3
  <2> QED
    BY <2>1, <2>2
<1> QED
  BY <1>1, <1>2 DEF LearningIInv

LEMMA CopyParts ==
  ASSUME LearningIInv, NEW l \in Learns
  PROVE  /\ learns[l] \in LearnState
         /\ learns[l].manifest \in Manifest /\ learns[l].receipts \in Nat /\ learns[l].edits \in Nat
         /\ CopySound(learns[l], edited, edits, trail, during, lost)
         /\ Len(trail) \in Nat /\ DOMAIN trail = 1..Len(trail)
<1>1. learns[l] \in LearnState /\ trail \in Seq(LearnReceipt)
  BY DEF LearningIInv, LearningTypeOK
<1>2. \A c \in LearnState : c.manifest \in Manifest /\ c.receipts \in Nat /\ c.edits \in Nat
  BY DEF LearnState
<1>3. CopySound(learns[l], edited, edits, trail, during, lost)
  BY DEF LearningIInv
<1> QED
  BY <1>1, <1>2, <1>3

\* A learn goes on to another step with what it has read, and leaves the manifest or
\* breaks it.
LEMMA GoesOn ==
  ASSUME LearningIInv, NEW l \in Learns, NEW phase \in {"idle", "loaded", "read", "writing", "ended"},
         learns' = [learns EXCEPT ![l].phase = phase],
         phase = "ended" \/ (phase = "writing" /\ learns[l].phase = "read"),
         manifest' \in {manifest, Broken},
         UNCHANGED <<trail, edited, edits, lost, during>>
  PROVE  LearningIInv'
<1> DEFINE c == [learns[l] EXCEPT !.phase = phase]
<1>1. learns' = [learns EXCEPT ![l] = c]
  OBVIOUS
<1>2. c \in LearnState /\ c.phase = phase
      /\ c.receipts = learns[l].receipts /\ c.edits = learns[l].edits /\ c.manifest = learns[l].manifest
  BY CopyParts DEF LearnState
<1> HIDE DEF c
<1>3. CopySound(c, edited, edits, trail, during, lost)
  BY <1>2, CopyParts DEF CopySound
<1>4. manifest' \in Manifest \cup {Broken}
  BY DEF LearningIInv, LearningTypeOK
<1>5. ~lost /\ manifest' # Broken => Sound(edited, trail, during, manifest')
  BY DEF LearningIInv
<1>6. /\ lost' \in BOOLEAN /\ (lost => lost') /\ lost' = lost
      /\ UNCHANGED <<trail, edited, edits, during>>
  BY DEF LearningIInv, LearningTypeOK
<1>7. /\ CopySound(c, edited, edits, trail, during, lost')
      /\ ~lost' /\ manifest' # Broken => Sound(edited, trail, during, manifest')
  BY <1>3, <1>5, <1>6
<1> QED
  BY <1>1, <1>2, <1>4, <1>6, <1>7, LearnMoves

LEMMA ReadManifestKeeps ==
  ASSUME LearningIInv, NEW l \in Learns, ReadManifest(l)
  PROVE  LearningIInv'
<1>1. UNCHANGED <<manifest, trail, edited, edits, lost, during>>
  BY DEF ReadManifest
<1>2. CASE manifest = Broken
  <2>1. learns' = [learns EXCEPT ![l].phase = "ended"]
    BY <1>2 DEF ReadManifest
  <2> QED
    BY <1>1, <2>1, GoesOn
<1>3. CASE manifest # Broken
  <2> DEFINE c == [phase |-> "loaded", manifest |-> manifest, receipts |-> 0, edits |-> edits]
  <2>1. learns' = [learns EXCEPT ![l] = c]
    BY <1>3 DEF ReadManifest
  <2>2. manifest \in Manifest /\ edits \in Nat /\ lost \in BOOLEAN
    BY <1>3 DEF LearningIInv, LearningTypeOK
  <2>3. /\ c \in LearnState /\ c.phase = "loaded" /\ c.manifest = manifest /\ c.receipts = 0
        /\ c.edits = edits
    BY <2>2 DEF LearnState
  <2> HIDE DEF c
  <2>4. ~lost => Sound(edited, trail, during, manifest)
    BY <1>3 DEF LearningIInv
  <2>5. CopySound(c, edited, edits, trail, during, lost)
    BY <2>2, <2>3, <2>4, CopyParts DEF CopySound
  <2> QED
    BY <1>1, <2>1, <2>2, <2>3, <2>4, <2>5, LearnMoves
<1> QED
  BY <1>2, <1>3

LEMMA ReadReceiptsKeeps ==
  ASSUME LearningIInv, NEW l \in Learns, ReadReceipts(l)
  PROVE  LearningIInv'
<1> DEFINE c == [learns[l] EXCEPT !.phase = "read", !.receipts = Len(trail)]
<1>1. /\ UNCHANGED <<manifest, trail, edited, edits, lost, during>>
      /\ learns[l].phase = "loaded"
      /\ learns' = [learns EXCEPT ![l].phase = "read", ![l].receipts = Len(trail)]
  BY DEF ReadReceipts
<1>2. learns' = [learns EXCEPT ![l] = c]
  BY <1>1 DEF LearningIInv, LearningTypeOK
<1>3. /\ c \in LearnState /\ c.phase = "read" /\ c.receipts = Len(trail)
      /\ c.edits = learns[l].edits /\ c.manifest = learns[l].manifest
  BY CopyParts DEF LearnState
<1> HIDE DEF c
<1>4. CopySound(c, edited, edits, trail, during, lost)
  <2>1. \A k \in DOMAIN trail \ during : k <= c.receipts
    BY <1>3, CopyParts
  <2> QED
    BY <1>1, <1>3, <2>1, CopyParts DEF CopySound
<1>5. /\ manifest' \in Manifest \cup {Broken} /\ lost \in BOOLEAN
      /\ ~lost /\ manifest' # Broken => Sound(edited, trail, during, manifest')
  BY <1>1 DEF LearningIInv, LearningTypeOK
<1> QED
  BY <1>1, <1>2, <1>3, <1>4, <1>5, LearnMoves

LEMMA OpenKeeps ==
  ASSUME LearningIInv, NEW l \in Learns, Open(l)
  PROVE  LearningIInv'
<1>1. learns[l].phase = "read" /\ UNCHANGED <<trail, edited, edits, lost, during>>
  BY DEF Open
<1>2. \/ learns' = [learns EXCEPT ![l].phase = "ended"] /\ manifest' = manifest
      \/ learns' = [learns EXCEPT ![l].phase = "writing"] /\ manifest' = Broken
  BY DEF Open
<1> QED
  BY <1>1, <1>2, GoesOn

LEMMA DieKeeps ==
  ASSUME LearningIInv, NEW l \in Learns, Die(l)
  PROVE  LearningIInv'
BY GoesOn DEF Die

LEMMA WriteKeeps ==
  ASSUME LearningIInv, NEW l \in Learns, Write(l)
  PROVE  LearningIInv'
<1> DEFINE c == [learns[l] EXCEPT !.phase = "ended"]
           m == learns[l].manifest
           t == Trail(l)
<1>1. /\ learns[l].phase = "writing" /\ manifest' = applyProposal(m, t)
      /\ learns' = [learns EXCEPT ![l].phase = "ended"]
      /\ lost' = (lost \/ learns[l].edits < edits)
      /\ UNCHANGED <<trail, edited, edits, during>>
  BY DEF Write
<1>2. learns' = [learns EXCEPT ![l] = c]
  BY <1>1
<1>3. /\ c \in LearnState /\ c.phase = "ended"
      /\ c.edits = learns[l].edits /\ c.receipts = learns[l].receipts
  BY CopyParts DEF LearnState
<1>4. /\ m \in Manifest /\ learns[l].receipts \in 0..Len(trail) /\ learns[l].edits <= edits
      /\ learns[l].edits \in Nat /\ edits \in Nat /\ edited \in Manifest
      /\ trail \in Seq(LearnReceipt) /\ Len(trail) \in Nat /\ DOMAIN trail = 1..Len(trail)
  BY CopyParts DEF LearningIInv, LearningTypeOK, CopySound
<1>5. /\ t \in Seq(LearnReceipt)
      /\ DOMAIN t = 1..learns[l].receipts
      /\ \A k \in DOMAIN t : t[k] = trail[k]
  <2>1. \A k \in 1..learns[l].receipts : trail[k] \in LearnReceipt
    BY <1>4
  <2>2. /\ SubSeq(trail, 1, learns[l].receipts) \in Seq(LearnReceipt)
        /\ Len(SubSeq(trail, 1, learns[l].receipts))
             = IF 1 <= learns[l].receipts THEN learns[l].receipts - 1 + 1 ELSE 0
        /\ \A k \in 1..(learns[l].receipts - 1 + 1) :
             SubSeq(trail, 1, learns[l].receipts)[k] = trail[1 + k - 1]
    <3>1. learns[l].receipts \in Int
      BY <1>4
    <3> QED
      BY <2>1, <3>1, SubSeqProperties
  <2>3. Len(SubSeq(trail, 1, learns[l].receipts)) = learns[l].receipts
    BY <1>4, <2>2
  <2> QED
    BY <1>4, <2>2, <2>3 DEF Trail
<1> HIDE DEF c, m, t
<1>6. CopySound(c, edited, edits, trail, during, lost')
  BY <1>3, CopyParts DEF CopySound
<1>7. manifest' \in Manifest
  <2>1. applyProposal(m, t) \in Manifest
    BY <1>4, <1>5, ProposalParts
  <2> QED
    BY <1>1, <2>1
<1>8. ASSUME ~lost'
      PROVE  Sound(edited, trail, during, manifest')
  <2>1. ~lost /\ learns[l].edits = edits
    <3>1. ~lost /\ ~(learns[l].edits < edits)
      BY Zenon, <1>1, <1>8
    <3> QED
      BY <1>4, <3>1
  <2>2. CopySound(learns[l], edited, edits, trail, during, lost)
    BY CopyParts
  <2>3. Tightens(edited, m) /\ Keeps(edited, trail, during, m)
    BY <1>1, <2>1, <2>2 DEF CopySound, Sound, m
  <2>4. Tightens(edited, applyProposal(m, t))
    BY <1>4, <1>5, <2>3, ProposalTightens
  <2>5. ASSUME NEW k \in DOMAIN trail \ during, NEW g \in trail[k].agents,
               holdsAuthority(edited, g, trail[k].deed)
        PROVE  holdsAuthority(applyProposal(m, t), g, trail[k].deed)
    <3>1. holdsAuthority(m, g, trail[k].deed)
      BY <2>3, <2>5 DEF Keeps
    <3>2. k \in DOMAIN t /\ t[k] = trail[k]
      BY <1>1, <1>4, <1>5, <2>2 DEF CopySound
    <3>3. g \in Acting
      BY <1>4, ReceiptParts
    <3> QED
      BY <1>4, <1>5, <3>1, <3>2, <3>3, ProposalKeeps
  <2> QED
    BY <1>1, <2>4, <2>5 DEF Sound, Keeps
<1>9. lost' \in BOOLEAN /\ (lost => lost')
  BY <1>1
<1> QED
  BY <1>1, <1>2, <1>3, <1>6, <1>7, <1>8, <1>9, LearnMoves

LEMMA EditKeeps ==
  ASSUME LearningIInv, NEW m \in ByHand, Edit(m)
  PROVE  LearningIInv'
<1>1. manifest' = m /\ edited' = m /\ edits' = edits + 1 /\ UNCHANGED <<trail, learns, lost, during>>
  BY DEF Edit
<1>2. m \in Manifest /\ edits \in Nat
  BY LearningAssumption DEF LearningIInv, LearningTypeOK
<1>3. LearningTypeOK'
  BY <1>1, <1>2 DEF LearningIInv, LearningTypeOK
<1>4. Sound(m, trail, during, m)
  BY <1>2, TightensSelf, KeepsSelf DEF Sound
<1>5. ASSUME NEW l \in Learns
      PROVE  CopySound(learns[l], m, edits + 1, trail, during, lost)
  <2>1. CopySound(learns[l], edited, edits, trail, during, lost) /\ learns[l].edits \in Nat
    BY CopyParts
  <2>2. learns[l].edits <= edits + 1 /\ learns[l].edits # edits + 1
    BY <1>2, <2>1 DEF CopySound
  <2> QED
    BY <2>1, <2>2 DEF CopySound
<1> QED
  BY <1>1, <1>3, <1>4, <1>5 DEF LearningIInv

\* A receipt is added: one of those that are not looked at, or one of an authority that
\* m leaves.
LEMMA AddedKeeps ==
  ASSUME NEW e, NEW m, NEW t \in Seq(LearnReceipt), NEW u, NEW x \in LearnReceipt,
         Keeps(e, t, u, m)
  PROVE  /\ Keeps(e, Append(t, x), u \cup {Len(t) + 1}, m)
         /\ (\A g \in x.agents : holdsAuthority(m, g, x.deed)) => Keeps(e, Append(t, x), u, m)
<1>1. /\ Len(t) \in Nat /\ DOMAIN t = 1..Len(t)
      /\ DOMAIN Append(t, x) = 1..(Len(t) + 1)
      /\ \A k \in 1..Len(t) : Append(t, x)[k] = t[k]
      /\ Append(t, x)[Len(t) + 1] = x
  OBVIOUS
<1>2. \A k \in 1..(Len(t) + 1) : k \in 1..Len(t) \/ k = Len(t) + 1
  BY <1>1
<1>3. ASSUME NEW k \in 1..Len(t), k \notin u, NEW g \in t[k].agents,
             holdsAuthority(e, g, t[k].deed)
      PROVE  holdsAuthority(m, g, t[k].deed)
  BY <1>1, <1>3 DEF Keeps
<1> HIDE DEF Keeps
<1>4. Keeps(e, Append(t, x), u \cup {Len(t) + 1}, m)
  <2> SUFFICES ASSUME NEW k \in 1..(Len(t) + 1), k \notin u, k # Len(t) + 1,
                      NEW g \in Append(t, x)[k].agents, holdsAuthority(e, g, Append(t, x)[k].deed)
               PROVE  holdsAuthority(m, g, Append(t, x)[k].deed)
    BY <1>1 DEF Keeps
  <2>1. k \in 1..Len(t) /\ Append(t, x)[k] = t[k]
    BY <1>1, <1>2
  <2> QED
    BY <1>3, <2>1
<1>5. ASSUME \A g \in x.agents : holdsAuthority(m, g, x.deed)
      PROVE  Keeps(e, Append(t, x), u, m)
  <2> SUFFICES ASSUME NEW k \in 1..(Len(t) + 1), k \notin u,
                      NEW g \in Append(t, x)[k].agents, holdsAuthority(e, g, Append(t, x)[k].deed)
               PROVE  holdsAuthority(m, g, Append(t, x)[k].deed)
    BY <1>1 DEF Keeps
  <2>1. CASE k \in 1..Len(t)
    <3>1. Append(t, x)[k] = t[k]
      BY <1>1, <2>1
    <3> QED
      BY <1>3, <2>1, <3>1
  <2>2. CASE k = Len(t) + 1
    BY <1>1, <1>5, <2>2
  <2> QED
    BY <1>2, <2>1, <2>2
<1> QED
  BY <1>4, <1>5

LEMMA ProtectKeeps ==
  ASSUME LearningIInv, NEW g \in Acting, NEW d \in Deeds, NEW level \in Levels[d],
         Protect(g, d, level)
  PROVE  LearningIInv'
<1> DEFINE x == [deed |-> d, level |-> level,
                 agents |-> IF d \in manifest.attached /\ holdsAuthority(manifest, g, d)
                            THEN {g} ELSE {}]
<1>1. /\ manifest # Broken /\ trail' = Append(trail, x)
      /\ UNCHANGED <<manifest, learns, edited, edits, lost>>
      /\ \/ during' = during \cup {Len(trail) + 1}
         \/ during' = during /\ \A l \in Learns : ~Pending(l)
  BY DEF Protect
<1>2. x \in LearnReceipt
  <2>1. level \in Nat
    BY LearningAssumption
  <2> QED
    BY <2>1 DEF LearnReceipt
<1>3. x.deed = d /\ \A h \in x.agents : holdsAuthority(manifest, h, d)
  OBVIOUS
<1>4. /\ trail \in Seq(LearnReceipt) /\ Len(trail) \in Nat /\ DOMAIN trail = 1..Len(trail)
      /\ during \subseteq 1..Len(trail) /\ manifest \in Manifest
  BY <1>1 DEF LearningIInv, LearningTypeOK
<1> HIDE DEF x
<1>5. /\ Len(trail) + 1 \notin during
       /\ during \cup {Len(trail) + 1} \subseteq 1..(Len(trail) + 1)
  <2>1. Len(trail) + 1 \notin 1..Len(trail) /\ 1..Len(trail) \subseteq 1..(Len(trail) + 1)
        /\ Len(trail) + 1 \in 1..(Len(trail) + 1)
    BY <1>4
  <2> QED
    BY <1>4, <2>1
<1>6. /\ trail' \in Seq(LearnReceipt) /\ Len(trail') = Len(trail) + 1
      /\ DOMAIN trail' = 1..(Len(trail) + 1)
  BY <1>1, <1>2, <1>4
<1>7. LearningTypeOK'
  <2>1. during' \subseteq 1..Len(trail')
    <3>1. during' \subseteq 1..(Len(trail) + 1)
      BY <1>1, <1>5
    <3> QED
      BY <1>6, <3>1
  <2> QED
    BY <1>1, <1>6, <2>1 DEF LearningIInv, LearningTypeOK
<1>8. ASSUME NEW m, Keeps(edited, trail, during, m), during' = during => m = manifest
      PROVE  Keeps(edited, trail', during', m)
  BY <1>1, <1>2, <1>3, <1>4, <1>8, AddedKeeps
<1>9. ~lost => Sound(edited, trail', during', manifest)
  BY <1>1, <1>8 DEF LearningIInv, Sound
<1>10. ASSUME NEW l \in Learns
      PROVE  CopySound(learns[l], edited, edits, trail', during', lost)
  <2>1. /\ CopySound(learns[l], edited, edits, trail, during, lost)
        /\ learns[l].receipts \in Nat
    BY CopyParts
  <2>2. learns[l].receipts <= Len(trail')
    BY <1>4, <1>6, <2>1 DEF CopySound
  <2>3. CASE during' = during \cup {Len(trail) + 1}
    <3>1. \A k \in DOMAIN trail' \ during' : k \in DOMAIN trail \ during
      BY <1>4, <1>6, <2>3
    <3>2. during' # during
      BY <1>5, <2>3
    <3>3. \A m : Keeps(edited, trail, during, m) => Keeps(edited, trail', during', m)
      BY <1>8, <3>2
    <3> QED
      BY <2>1, <2>2, <3>1, <3>3 DEF CopySound, Sound
  <2>4. CASE during' = during /\ ~Pending(l)
    <3>1. /\ learns[l].phase \notin {"read", "writing"}
          /\ learns[l].phase = "loaded" => learns[l].manifest = manifest
      BY <2>4 DEF Pending
    <3>2. learns[l].phase = "loaded" /\ Sound(edited, trail, during, learns[l].manifest)
            => Sound(edited, trail', during', learns[l].manifest)
      BY <1>8, <3>1 DEF Sound
    <3> QED
      BY <2>1, <2>2, <3>1, <3>2 DEF CopySound
  <2> QED
    BY <1>1, <2>3, <2>4
<1> QED
  BY <1>1, <1>7, <1>9, <1>10 DEF LearningIInv

LEMMA LearningStep == LearningIInv /\ [LearningNext]_learning => LearningIInv'
<1> SUFFICES ASSUME LearningIInv, [LearningNext]_learning PROVE LearningIInv'
  OBVIOUS
<1>1. CASE UNCHANGED learning
  BY <1>1 DEF learning, LearningIInv, LearningTypeOK
<1>2. ASSUME NEW l \in Learns,
             ReadManifest(l) \/ ReadReceipts(l) \/ Open(l) \/ Write(l) \/ Die(l)
      PROVE  LearningIInv'
  BY <1>2, ReadManifestKeeps, ReadReceiptsKeeps, OpenKeeps, WriteKeeps, DieKeeps
<1> QED
  BY <1>1, <1>2, ProtectKeeps, EditKeeps DEF LearningNext

\* However many learns read one manifest and write it back, in whatever order and with
\* whatever edits and runs in between: none takes anything but authority that names no
\* action, and none takes what an agent used, other than as said there (learn.mjs
\* 141-163, 272-297, bin/pctr.mjs 323-331).
THEOREM LearningHolds == LearningSpec => []LearningInv
<1> QED
  BY LearningStarts, LearningStep, InvGives, PTL DEF LearningSpec

-----------------------------------------------------------------------------
(* Learning twice. *)

\* What one learn makes of the attached actions, and whom it leaves with everything.
LEMMA OnceAttached ==
  ASSUME NEW m \in Manifest, NEW t \in Seq(LearnReceipt)
  PROVE  /\ applyProposal(m, t).attached = m.attached \cup toolFor(t)
         /\ unusedAuthority(applyProposal(m, t), t) = {}
<1> DEFINE p == applyProposal(m, t)
<1>1. /\ p.attached = m.attached \cup (undeclaredActions(m, t) \cap toolFor(t))
      /\ \A g \in Acting :
           p.authority[g] = IF g \in unusedAuthority(m, t) THEN actionsUsed(t, g)
                            ELSE m.authority[g]
  BY ProposalParts
<1> HIDE DEF p
<1>2. toolFor(t) \subseteq Done(t)
  BY DEF toolFor, Done
<1>3. p.attached = m.attached \cup toolFor(t)
  BY <1>1, <1>2 DEF undeclaredActions
<1>4. ASSUME NEW g \in unusedAuthority(p, t)
      PROVE  FALSE
  <2>1. g \in Acting /\ Len(t) >= Enough /\ Wildcard \in p.authority[g] /\ actionsUsed(t, g) # {}
    BY DEF unusedAuthority
  <2>2. CASE g \in unusedAuthority(m, t)
    <3>1. \A k \in DOMAIN t : t[k].deed \in Deeds
      BY ReceiptParts
    <3>2. Wildcard \notin actionsUsed(t, g)
      BY <3>1, LearningAssumption DEF actionsUsed
    <3> QED
      BY <1>1, <2>1, <2>2, <3>2
  <2>3. CASE g \notin unusedAuthority(m, t)
    <3>1. Wildcard \in m.authority[g]
      BY <1>1, <2>1, <2>3
    <3> QED
      BY <2>1, <2>3, <3>1 DEF unusedAuthority
  <2> QED
    BY <2>2, <2>3
<1> QED
  BY <1>3, <1>4 DEF p

\* Where the attached actions stay, no action is misdeclared any more, and those left
\* out of the graph keep the level they have.
LEMMA TwiceLevelled ==
  ASSUME NEW m \in Manifest, NEW t \in Seq(LearnReceipt), toolFor(t) \subseteq m.attached
  PROVE  LET p == applyProposal(m, t)
         IN  /\ misdeclaredConsequences(p, t) = {}
             /\ \A d \in undeclaredActions(p, t) : declaredRecords(p, d) = p.level[d]
<1> USE LearningAssumption
<1> DEFINE p == applyProposal(m, t)
<1>1. /\ p \in Manifest
      /\ \A d \in Deeds :
           p.level[d] = IF d \in misdeclaredConsequences(m, t) THEN maxRecords(t, d)
                        ELSE IF d \in undeclaredActions(m, t) THEN declaredRecords(m, d)
                        ELSE m.level[d]
  BY ProposalParts
<1>2. p.attached = m.attached
  BY OnceAttached
<1> HIDE DEF p
<1>3. m.attached \subseteq Deeds /\ p.attached \subseteq Deeds
  BY <1>1, ManifestParts
<1>4. ASSUME NEW d \in misdeclaredConsequences(p, t)
      PROVE  FALSE
  <2>1. /\ d \in m.attached /\ d \in Deeds
        /\ maxRecords(t, d) > 2 * declaredRecords(p, d) /\ maxRecords(t, d) > 50
    BY <1>2, <1>3 DEF misdeclaredConsequences
  <2>2. maxRecords(t, d) \in Nat /\ declaredRecords(m, d) \in Nat
    BY <2>1, MaxRecords, ManifestParts
  <2>3. CASE d \in misdeclaredConsequences(m, t)
    <3>1. p.level[d] = maxRecords(t, d)
      BY <1>1, <2>1, <2>3
    <3>2. declaredRecords(p, d) = maxRecords(t, d)
      BY <2>2, <3>1 DEF declaredRecords
    <3> QED
      BY <2>1, <2>2, <3>2
  <2>4. CASE d \notin misdeclaredConsequences(m, t)
    <3>1. d \notin undeclaredActions(m, t)
      BY <2>1 DEF undeclaredActions
    <3>2. p.level[d] = m.level[d]
      BY <1>1, <2>1, <2>4, <3>1
    <3>3. declaredRecords(p, d) = declaredRecords(m, d)
      BY <3>2 DEF declaredRecords
    <3> QED
      BY <2>1, <2>4, <3>3 DEF misdeclaredConsequences
  <2> QED
    BY <2>3, <2>4
<1>5. ASSUME NEW d \in undeclaredActions(p, t)
      PROVE  declaredRecords(p, d) = p.level[d]
  <2>1. d \in Deeds
    <3>1. \A k \in DOMAIN t : t[k].deed \in Deeds
      BY ReceiptParts
    <3> QED
      BY <3>1 DEF undeclaredActions, Done
  <2>2. d \in undeclaredActions(m, t) /\ d \notin misdeclaredConsequences(m, t)
    BY <1>2 DEF undeclaredActions, misdeclaredConsequences
  <2>3. p.level[d] = declaredRecords(m, d)
    BY <1>1, <2>1, <2>2
  <2>4. declaredRecords(m, d) \in Nat
    BY <2>1, ManifestParts
  <2> QED
    BY <2>3, <2>4 DEF declaredRecords
<1> QED
  BY <1>4, <1>5 DEF p

\* Where nothing is misdeclared, attached or narrowed, learning rests.
LEMMA Rests ==
  ASSUME NEW m \in Manifest, NEW t \in Seq(LearnReceipt), toolFor(t) \subseteq m.attached,
         misdeclaredConsequences(m, t) = {}, unusedAuthority(m, t) = {},
         \A d \in undeclaredActions(m, t) : declaredRecords(m, d) = m.level[d]
  PROVE  applyProposal(m, t) = m
<1> DEFINE p == applyProposal(m, t)
<1>1. /\ p \in Manifest
      /\ \A d \in Deeds :
           p.level[d] = IF d \in misdeclaredConsequences(m, t) THEN maxRecords(t, d)
                        ELSE IF d \in undeclaredActions(m, t) THEN declaredRecords(m, d)
                        ELSE m.level[d]
      /\ \A g \in Acting :
           p.authority[g] = IF g \in unusedAuthority(m, t) THEN actionsUsed(t, g)
                            ELSE m.authority[g]
  BY ProposalParts
<1>2. p.attached = m.attached
  BY OnceAttached
<1> HIDE DEF p
<1>3. \A d \in Deeds : p.level[d] = m.level[d]
  BY <1>1
<1>4. \A g \in Acting : p.authority[g] = m.authority[g]
  BY <1>1
<1>5. /\ p.level \in [Deeds -> Nat \cup {Undeclared}] /\ m.level \in [Deeds -> Nat \cup {Undeclared}]
      /\ p.authority \in [Acting -> SUBSET (Deeds \cup {Wildcard})]
      /\ m.authority \in [Acting -> SUBSET (Deeds \cup {Wildcard})]
  BY <1>1 DEF Manifest
<1>6. p.level = m.level
  BY <1>3, <1>5
<1>7. p.authority = m.authority
  BY <1>4, <1>5
<1>8. /\ p = [level |-> p.level, attached |-> p.attached, authority |-> p.authority]
      /\ m = [level |-> m.level, attached |-> m.attached, authority |-> m.authority]
  BY <1>1, ManifestParts
<1> QED
  BY <1>2, <1>6, <1>7, <1>8 DEF p

\* learn, from whatever manifest and receipts: what two learns leave, a third does not
\* change, and it is what the receipts show (learn.mjs 38-163, 272-297).
THEOREM TwoSuffice ==
  ASSUME LearningTypeOK
  PROVE  LearnsInTwo
<1> SUFFICES ASSUME manifest # Broken PROVE LearnsInTwo
  BY DEF LearnsInTwo
<1> DEFINE m1 == applyProposal(manifest, trail)
           m  == applyProposal(m1, trail)
<1>1. manifest \in Manifest /\ trail \in Seq(LearnReceipt)
  BY DEF LearningTypeOK
<1>2. m1 \in Manifest /\ m1.attached = manifest.attached \cup toolFor(trail)
  BY <1>1, ProposalParts, OnceAttached
<1> HIDE DEF m1
<1>3. /\ m \in Manifest /\ m.attached = m1.attached \cup toolFor(trail)
      /\ unusedAuthority(m, trail) = {}
  BY <1>1, <1>2, ProposalParts, OnceAttached
<1>4. /\ misdeclaredConsequences(m, trail) = {}
      /\ \A d \in undeclaredActions(m, trail) : declaredRecords(m, d) = m.level[d]
  BY <1>1, <1>2, TwiceLevelled
<1> HIDE DEF m
<1>5. toolFor(trail) \subseteq m.attached
  BY <1>3
<1>6. applyProposal(m, trail) = m
  BY <1>1, <1>3, <1>4, <1>5, Rests
<1>7. ASSUME NEW d \in m.attached
      PROVE  maxRecords(trail, d) <= 50 \/ maxRecords(trail, d) <= 2 * declaredRecords(m, d)
  <2>1. d \in Deeds
    BY <1>3, ManifestParts
  <2>2. maxRecords(trail, d) \in Nat /\ declaredRecords(m, d) \in Nat
    BY <1>1, <1>3, <2>1, MaxRecords, ManifestParts
  <2>3. ~(maxRecords(trail, d) > 2 * declaredRecords(m, d) /\ maxRecords(trail, d) > 50)
    BY <1>4 DEF misdeclaredConsequences
  <2> QED
    BY <2>2, <2>3
<1>8. ASSUME NEW g \in Acting, Len(trail) >= Enough, actionsUsed(trail, g) # {}
      PROVE  Wildcard \notin m.authority[g]
  BY <1>3, <1>8 DEF unusedAuthority
<1> QED
  BY <1>5, <1>6, <1>7, <1>8 DEF LearnsInTwo, m, m1

\* So learning twice suffices whatever learns, edits and runs came before.
THEOREM LearningSettles == LearningSpec => []LearnsInTwo
<1>1. LearningIInv => LearnsInTwo
  BY TwoSuffice DEF LearningIInv
<1> QED
  BY <1>1, LearningStarts, LearningStep, PTL DEF LearningSpec

-----------------------------------------------------------------------------
(* The invariant of runs.  Of two runs that were not in progress together,  *)
(* the later one continues a receipt no older than that of the earlier one, *)
(* and only runs in progress together with the one that makes the key hold  *)
(* another.                                                                 *)

USE RunsAssumption

\* What r continues is older than r.
PriorInv(r) ==
  LET p == runs[r].prior
  IN  /\ runs[r].at <= now
      /\ runs[r].phase = "idle" => p = None
      /\ p # None =>
           /\ runs[p].phase = "saved"
           /\ InProgress(r) /\ runs[r].phase \notin {"issued", "saving"} => runs[p].at < now
           /\ runs[r].phase \in {"issued", "saving", "saved"} => runs[p].at < runs[r].at
      /\ files[r] = "whole" => runs[r].phase = "saved"

\* s read a receipt no older than that of r.
Follows(s, r) == runs[s].prior # None /\ runs[runs[s].prior].at >= runs[r].at

OrderInv(r, s) ==
  {r, s} \notin overlaps /\ r # s =>
    /\ ~(InProgress(r) /\ InProgress(s))
    /\ r \in Whole /\ InProgress(s) => Follows(s, r)
    /\ r \in Whole /\ s \in Whole => Follows(s, r) \/ Follows(r, s)

Making(r) == runs[r].phase \in {"making", "writing"}

HoldsOne(r) == runs[r].phase \in {"keyed", "issued", "saving", "saved"}

\* r made a key, or was in progress together with a run that did.
Excused(r) == \E m \in makers : m = r \/ {m, r} \in overlaps

KeyInv(r) ==
  /\ Making(r) => r \in makers
  /\ HoldsOne(r) => runs[r].key \in Runs
  /\ HoldsOne(r) /\ ~Excused(r) => key \in {runs[r].key, "torn"} /\ \A x \in Runs : ~Making(x)

RunsIInv ==
  /\ TypeOK
  /\ \A r \in Runs : PriorInv(r) /\ KeyInv(r)
  /\ \A r, s \in Runs : OrderInv(r, s)

LEMMA RunsInvGives ==
  ASSUME RunsIInv
  PROVE  ForksAreOverlaps /\ SignedByStore
<1>1. ForksAreOverlaps
  <2> SUFFICES ASSUME NEW r \in Whole, NEW s \in Whole, r # s,
                      runs[r].prior = runs[s].prior, {r, s} \notin overlaps
               PROVE  FALSE
    BY DEF ForksAreOverlaps
  <2>1. r \in Runs /\ s \in Runs /\ files[r] = "whole" /\ files[s] = "whole"
    BY DEF Whole
  <2>2. /\ runs[r].phase = "saved" /\ runs[s].phase = "saved"
        /\ runs[r].prior # None =>
             runs[runs[r].prior].at < runs[r].at /\ runs[runs[s].prior].at < runs[s].at
    BY <2>1 DEF RunsIInv, PriorInv
  <2>3. Follows(s, r) \/ Follows(r, s)
    BY <2>1 DEF RunsIInv, OrderInv
  <2>4. runs[r].prior # None => runs[runs[r].prior].at \in Nat /\ runs[r].at \in Nat /\ runs[s].at \in Nat
    BY <2>1 DEF RunsIInv, TypeOK, Run
  <2> QED
    BY <2>2, <2>3, <2>4 DEF Follows
<1>2. SignedByStore
  <2> SUFFICES ASSUME key \in Runs, NEW r \in Whole
               PROVE  runs[r].key = key \/ Excused(r)
    BY DEF SignedByStore, Excused
  <2>1. r \in Runs /\ HoldsOne(r)
    BY DEF Whole, RunsIInv, PriorInv, HoldsOne
  <2>2. key # "torn"
    OBVIOUS
  <2> QED
    BY <2>1, <2>2 DEF RunsIInv, KeyInv
<1> QED
  BY <1>1, <1>2

LEMMA RunsStart == Init => RunsIInv
<1> SUFFICES ASSUME Init PROVE RunsIInv
  OBVIOUS
<1>1. \A r \in Runs : /\ runs[r].phase = "idle" /\ runs[r].prior = None /\ runs[r].key = None
                      /\ runs[r].at = 0 /\ files[r] = "none"
  BY DEF Init
<1>2. TypeOK
  BY DEF Init, TypeOK, Run, Phases
<1>3. \A r \in Runs : PriorInv(r)
  BY <1>1 DEF PriorInv, Init
<1>4. \A r \in Runs : KeyInv(r)
  BY <1>1 DEF KeyInv, Making, HoldsOne
<1>5. \A r, s \in Runs : OrderInv(r, s)
  BY <1>1 DEF OrderInv, InProgress, Whole
<1> QED
  BY <1>2, <1>3, <1>4, <1>5 DEF RunsIInv

LEMMA RunParts ==
  ASSUME RunsIInv, NEW r \in Runs
  PROVE  /\ runs \in [Runs -> Run] /\ files \in [Runs -> {"none", "torn", "whole"}]
         /\ runs[r] \in Run /\ runs[r].prior \in Runs \cup {None} /\ runs[r].at \in Nat
         /\ runs[r].key \in Runs \cup {None} /\ now \in Nat
         /\ PriorInv(r) /\ KeyInv(r)
<1>1. runs \in [Runs -> Run] /\ files \in [Runs -> {"none", "torn", "whole"}] /\ now \in Nat
  BY DEF RunsIInv, TypeOK
<1>2. runs[r] \in Run
  BY <1>1
<1> QED
  BY <1>1, <1>2 DEF RunsIInv, Run

\* The priors of the others are not touched by a run that has not saved its receipt.
LEMMA PriorOthers ==
  ASSUME RunsIInv, NEW r \in Runs, runs[r].phase # "saved",
         \A x \in Runs \ {r} : runs'[x] = runs[x] /\ (files'[x] = "whole" => files[x] = "whole"),
         now' \in Nat, now <= now'
  PROVE  \A x \in Runs \ {r} : PriorInv(x)'
<1> TAKE x \in Runs \ {r}
<1> DEFINE p == runs[x].prior
<1>1. /\ runs'[x] = runs[x] /\ (files'[x] = "whole" => files[x] = "whole")
      /\ PriorInv(x) /\ now \in Nat /\ runs[x].at \in Nat /\ p \in Runs \cup {None}
  BY RunParts
<1>2. p # None => runs[p].phase = "saved" /\ runs[p].at \in Nat
  BY <1>1, RunParts DEF PriorInv
<1>3. p # None => runs'[p] = runs[p]
  BY <1>1, <1>2
<1> QED
  BY <1>1, <1>2, <1>3 DEF PriorInv, InProgress

\* What the others hold keeps fitting the key on disk.
LEMMA KeyOthers ==
  ASSUME RunsIInv, NEW r \in Runs,
         \A x \in Runs \ {r} : runs'[x] = runs[x],
         makers \subseteq makers', overlaps \subseteq overlaps',
         \/ Making(r) \/ key = None
         \/ key' = key /\ runs'[r].phase \notin {"making", "writing"}
  PROVE  \A x \in Runs \ {r} : KeyInv(x)'
<1> TAKE x \in Runs \ {r}
<1>1. runs'[x] = runs[x] /\ KeyInv(x) /\ runs[x].key \in Runs \cup {None}
  BY RunParts
<1>2. Excused(x) => \E m \in makers' : m = x \/ {m, x} \in overlaps'
  BY DEF Excused
<1>3. CASE Making(r) \/ key = None
  <2>1. HoldsOne(x) => Excused(x)
    BY <1>1, <1>3 DEF KeyInv
  <2> QED
    BY <1>1, <1>2, <2>1 DEF KeyInv, Making, HoldsOne, Excused
<1>4. CASE key' = key /\ runs'[r].phase \notin {"making", "writing"}
  <2>1. ASSUME NEW y \in Runs, ~Making(y)
        PROVE  runs'[y].phase \notin {"making", "writing"}
    BY <1>4, <2>1 DEF Making
  <2> QED
    BY <1>1, <1>2, <1>4, <2>1 DEF KeyInv, Making, HoldsOne, Excused
<1> QED
  BY <1>3, <1>4

\* The order stays where no run begins and no receipt comes to be whole.
LEMMA OrderKept ==
  ASSUME RunsIInv, overlaps' = overlaps,
         \A x \in Runs :
           /\ runs[x].phase \in {"idle", "saved", "failed"} => runs'[x].phase \in {"idle", "saved", "failed"}
           /\ files'[x] = "whole" => files[x] = "whole"
           /\ runs'[x].prior = runs[x].prior
           /\ runs[x].phase = "saved" => runs'[x].at = runs[x].at
  PROVE  \A x, y \in Runs : OrderInv(x, y)'
<1>1. \A x \in Runs : /\ InProgress(x)' => InProgress(x)
                      /\ x \in Whole' => x \in Whole
  BY DEF InProgress, Whole
<1>2. \A x \in Runs : x \in Whole => runs[x].phase = "saved"
  BY RunParts DEF Whole, PriorInv
<1>3. ASSUME NEW x \in Runs, NEW y \in Runs, x \in Whole, Follows(y, x), runs[y].phase # "idle"
      PROVE  Follows(y, x)'
  <2>1. /\ runs[y].prior # None /\ runs[y].prior \in Runs
        /\ runs[runs[y].prior].at >= runs[x].at /\ runs[runs[y].prior].phase = "saved"
    BY <1>3, RunParts DEF Follows, PriorInv
  <2>2. runs'[runs[y].prior].at = runs[runs[y].prior].at /\ runs'[x].at = runs[x].at
    BY <1>2, <1>3, <2>1
  <2> QED
    BY <2>1, <2>2 DEF Follows
<1>4. ASSUME NEW x \in Runs, NEW y \in Runs
      PROVE  OrderInv(x, y)'
  <2>1. OrderInv(x, y)
    BY DEF RunsIInv
  <2>2. (InProgress(y) => runs[y].phase # "idle") /\ (x \in Whole => runs[x].phase # "idle")
        /\ (y \in Whole => runs[y].phase # "idle")
    BY <1>2 DEF InProgress
  <2> QED
    BY <1>1, <1>3, <2>1, <2>2 DEF OrderInv
<1> QED
  BY <1>4

Early == {"started", "making", "writing", "keyed"}

\* A run in progress goes on without saving its receipt.
LEMMA RunGoesOn ==
  ASSUME RunsIInv, NEW r \in Runs, NEW c \in Run, runs' = [runs EXCEPT ![r] = c],
         UNCHANGED <<now, overlaps>>,
         \A x \in Runs : files'[x] = "whole" => files[x] = "whole",
         makers \subseteq makers', makers' \subseteq Runs,
         key' \in Runs \cup {None, "torn"},
         files' \in [Runs -> {"none", "torn", "whole"}],
         \/ Making(r) \/ key = None
         \/ key' = key /\ c.phase \notin {"making", "writing"},
         InProgress(r), c.phase \notin {"idle", "saved"}, c.prior = runs[r].prior,
         c.phase \in Early => runs[r].phase \in Early,
         \/ c.at = runs[r].at /\ (c.phase \in {"issued", "saving"} => runs[r].phase \in {"issued", "saving"})
         \/ c.at = now /\ runs[r].phase \in Early,
         KeyInv(r)'
  PROVE  RunsIInv'
<1>1. /\ runs \in [Runs -> Run] /\ PriorInv(r) /\ runs[r].at \in Nat /\ now \in Nat
      /\ c.prior \in Runs \cup {None} /\ runs[r].phase \notin {"idle", "saved", "failed"}
  BY RunParts DEF InProgress
<1>2. runs'[r] = c /\ \A x \in Runs \ {r} : runs'[x] = runs[x]
  BY <1>1
<1>3. TypeOK'
  <2>1. runs' \in [Runs -> Run]
    BY <1>1
  <2>2. now' \in Nat /\ overlaps' \subseteq SUBSET Runs
    BY DEF RunsIInv, TypeOK
  <2> QED
    BY <2>1, <2>2 DEF TypeOK
<1>4. \A x \in Runs \ {r} : PriorInv(x)'
  <2>1. runs[r].phase # "saved" /\ now' \in Nat /\ now <= now'
    BY <1>1
  <2> QED
    BY <1>2, <2>1, PriorOthers
<1>5. PriorInv(r)'
  <2> DEFINE p == c.prior
  <2>1. c.at <= now
    BY <1>1 DEF PriorInv
  <2>2. files'[r] # "whole"
    BY <1>1 DEF PriorInv
  <2>3. ASSUME p # None
        PROVE  /\ runs[p].phase = "saved" /\ p # r /\ runs'[p] = runs[p] /\ runs[p].at \in Nat
               /\ runs[r].phase \in Early => runs[p].at < now
               /\ runs[r].phase \in {"issued", "saving"} => runs[p].at < runs[r].at
    <3>1. p \in Runs /\ p = runs[r].prior
      BY <1>1, <2>3
    <3>2. /\ runs[p].phase = "saved"
          /\ runs[r].phase \in Early => runs[p].at < now
          /\ runs[r].phase \in {"issued", "saving"} => runs[p].at < runs[r].at
      BY <1>1, <2>3, <3>1 DEF PriorInv, InProgress, Early
    <3>3. p # r
      BY <1>1, <3>2
    <3>4. runs'[p] = runs[p]
      BY <1>2, <3>1, <3>3
    <3> QED
      BY <3>1, <3>2, <3>3, <3>4, RunParts
  <2>4. ASSUME p # None, c.phase \notin {"failed"}
        PROVE  /\ c.phase \notin {"issued", "saving"} => runs[p].at < now
               /\ c.phase \in {"issued", "saving"} => runs[p].at < c.at
    <3>1. c.phase \in Phases
      BY DEF Run
    <3>2. c.phase \in Early \/ c.phase \in {"issued", "saving"}
      BY <2>4, <3>1 DEF Phases, Early
    <3>3. c.phase \in Early => c.phase \notin {"issued", "saving"}
      BY DEF Early
    <3> QED
      BY <2>3, <2>4, <3>2, <3>3
  <2> QED
    BY <1>2, <2>1, <2>2, <2>3, <2>4 DEF PriorInv, InProgress
<1>6. \A x \in Runs \ {r} : KeyInv(x)'
  BY <1>2, KeyOthers
<1>7. \A x, y \in Runs : OrderInv(x, y)'
  <2>1. ASSUME NEW x \in Runs
        PROVE  /\ runs[x].phase \in {"idle", "saved", "failed"} => runs'[x].phase \in {"idle", "saved", "failed"}
               /\ runs'[x].prior = runs[x].prior
               /\ runs[x].phase = "saved" => runs'[x].at = runs[x].at
    BY <1>1, <1>2
  <2> QED
    BY <2>1, OrderKept
<1> QED
  BY <1>3, <1>4, <1>5, <1>6, <1>7 DEF RunsIInv

\* A run that takes a key while another makes one is in progress together with that.
LEMMA MakersOverlap ==
  ASSUME RunsIInv, NEW r \in Runs, InProgress(r), ~Making(r), NEW x \in Runs, Making(x)
  PROVE  Excused(r)
<1>1. InProgress(x) /\ x # r /\ x \in makers
  BY RunParts DEF Making, InProgress, KeyInv
<1>2. {x, r} \in overlaps
  BY <1>1 DEF RunsIInv, OrderInv
<1> QED
  BY <1>1, <1>2 DEF Excused

\* A run goes to another phase with the key and the time it has, and neither key nor
\* receipts come to be.
LEMMA PhaseChanges ==
  ASSUME RunsIInv, NEW r \in Runs, NEW phase \in Phases \ {"idle", "saved"}, Goes(r, phase),
         InProgress(r), UNCHANGED <<now, overlaps>>,
         \A x \in Runs : files'[x] = "whole" => files[x] = "whole",
         files' \in [Runs -> {"none", "torn", "whole"}],
         makers \subseteq makers', makers' \subseteq Runs, key' \in Runs \cup {None, "torn"},
         \/ Making(r) \/ key = None
         \/ key' = key /\ phase \notin {"making", "writing"},
         phase \in {"making", "writing"} => r \in makers',
         phase \in Early => runs[r].phase \in Early /\ phase # "keyed",
         phase \in {"issued", "saving"} => runs[r].phase \in {"issued", "saving"} /\ key' = key
  PROVE  RunsIInv'
<1> DEFINE c == [runs[r] EXCEPT !.phase = phase]
<1>1. /\ c \in Run /\ c.phase = phase /\ c.key = runs[r].key /\ c.at = runs[r].at
      /\ c.prior = runs[r].prior /\ runs' = [runs EXCEPT ![r] = c]
  <2>1. runs' = [runs EXCEPT ![r] = c]
    BY RunParts DEF Goes
  <2>2. /\ c \in Run /\ c.phase = phase /\ c.key = runs[r].key /\ c.at = runs[r].at
        /\ c.prior = runs[r].prior
    BY RunParts DEF Run
  <2> QED
    BY <2>1, <2>2
<1> HIDE DEF c
<1>2. runs'[r] = c /\ \A x \in Runs \ {r} : runs'[x] = runs[x]
  BY <1>1, RunParts
<1>3. KeyInv(r)'
  <2>1. CASE phase \in {"making", "writing"}
    BY <1>1, <1>2, <2>1 DEF KeyInv, Making, HoldsOne
  <2>2. CASE phase \in {"issued", "saving"}
    <3>1. HoldsOne(r) /\ key' = key /\ KeyInv(r)
      BY <2>2, RunParts DEF HoldsOne
    <3>2. ~Excused(r)' => ~Excused(r)
      BY DEF Excused
    <3>3. \A x \in Runs : Making(x)' => Making(x)
      BY <1>1, <1>2, <2>2 DEF Making
    <3> QED
      BY <1>1, <1>2, <2>2, <3>1, <3>2, <3>3 DEF KeyInv, HoldsOne, Making
  <2>3. CASE phase \notin {"making", "writing", "issued", "saving"}
    <3>1. phase \notin {"making", "writing", "keyed", "issued", "saving", "saved"}
      BY <2>3 DEF Early
    <3> QED
      BY <1>1, <1>2, <3>1 DEF KeyInv, HoldsOne, Making
  <2> QED
    BY <2>1, <2>2, <2>3
<1>4. /\ c.phase \notin {"idle", "saved"}
      /\ c.phase \in Early => runs[r].phase \in Early
      /\ c.phase \in {"issued", "saving"} => runs[r].phase \in {"issued", "saving"}
      /\ \/ Making(r) \/ key = None
         \/ key' = key /\ c.phase \notin {"making", "writing"}
  BY <1>1
<1> QED
  BY <1>1, <1>3, <1>4, RunGoesOn

\* A run takes a key: the one on disk, or one that it makes itself.
LEMMA KeyHeld ==
  ASSUME RunsIInv, NEW r \in Runs, NEW k \in Runs, HoldsKey(r, k),
         runs[r].phase \in {"started", "making", "writing"},
         UNCHANGED <<now, files, overlaps, makers>>, key' \in Runs \cup {None, "torn"},
         Making(r) \/ (key' = key /\ key \in {k, "torn"})
  PROVE  RunsIInv'
<1> DEFINE c == [runs[r] EXCEPT !.phase = "keyed", !.key = k]
<1>1. /\ c \in Run /\ c.phase = "keyed" /\ c.key = k /\ c.at = runs[r].at
      /\ c.prior = runs[r].prior /\ runs' = [runs EXCEPT ![r] = c]
  <2>1. runs' = [runs EXCEPT ![r] = c]
    BY RunParts DEF HoldsKey
  <2>2. /\ c \in Run /\ c.phase = "keyed" /\ c.key = k /\ c.at = runs[r].at
        /\ c.prior = runs[r].prior
    BY RunParts DEF Run, Phases
  <2> QED
    BY <2>1, <2>2
<1> HIDE DEF c
<1>2. runs'[r] = c /\ \A x \in Runs \ {r} : runs'[x] = runs[x]
  BY <1>1, RunParts
<1>3. InProgress(r)
  BY DEF InProgress
<1>4. KeyInv(r)'
  <2>1. runs'[r].key \in Runs /\ runs'[r].phase = "keyed"
    BY <1>1, <1>2
  <2>2. CASE Making(r)
    <3>1. r \in makers /\ makers' = makers
      BY <2>2, RunParts DEF KeyInv
    <3>2. Excused(r)'
      BY <3>1 DEF Excused
    <3> QED
      BY <2>1, <3>2 DEF KeyInv, Making
  <2>3. CASE ~Making(r) /\ key' = key /\ key \in {k, "torn"}
    <3>1. ASSUME ~Excused(r)', NEW x \in Runs
          PROVE  ~Making(x)'
      <4>1. ~Excused(r)
        BY <3>1 DEF Excused
      <4>2. ~Making(x)
        BY <1>3, <2>3, <4>1, MakersOverlap
      <4> QED
        BY <1>1, <1>2, <4>2 DEF Making
    <3>2. key' \in {runs'[r].key, "torn"}
      BY <1>1, <1>2, <2>3
    <3> QED
      BY <2>1, <3>1, <3>2 DEF KeyInv, Making
  <2> QED
    BY <2>2, <2>3
<1>5. /\ c.phase \notin {"idle", "saved"}
      /\ runs[r].phase \in Early
      /\ c.phase \notin {"issued", "saving"}
      /\ \/ Making(r) \/ key = None
         \/ key' = key /\ c.phase \notin {"making", "writing"}
  BY <1>1 DEF Early
<1>6. /\ files' \in [Runs -> {"none", "torn", "whole"}]
      /\ \A x \in Runs : files'[x] = "whole" => files[x] = "whole"
      /\ makers \subseteq makers' /\ makers' \subseteq Runs
  BY DEF RunsIInv, TypeOK
<1> QED
  BY <1>1, <1>3, <1>4, <1>5, <1>6, RunGoesOn

LEMMA LoadKeyKeeps ==
  ASSUME RunsIInv, NEW r \in Runs, LoadKey(r)
  PROVE  RunsIInv'
<1>1. runs[r].phase = "started" /\ UNCHANGED <<now, key, files, overlaps>>
  BY DEF LoadKey, At
<1>2. /\ key \in Runs \cup {None, "torn"} /\ makers \subseteq Runs
      /\ files \in [Runs -> {"none", "torn", "whole"}]
  BY DEF RunsIInv, TypeOK
<1>3. CASE key = None /\ Goes(r, "making") /\ makers' = makers \cup {r}
  <2>1. "making" \in Phases \ {"idle", "saved"} /\ InProgress(r) /\ runs[r].phase \in Early
    BY <1>1 DEF Phases, InProgress, Early
  <2> QED
    BY <1>1, <1>2, <1>3, <2>1, PhaseChanges
<1>4. CASE key = "torn" /\ HoldsKey(r, r) /\ UNCHANGED makers
  BY <1>1, <1>2, <1>4, KeyHeld
<1>5. CASE key \in Runs /\ HoldsKey(r, key) /\ UNCHANGED makers
  BY <1>1, <1>2, <1>5, KeyHeld
<1> QED
  BY <1>3, <1>4, <1>5 DEF LoadKey

LEMMA CreateKeyKeeps ==
  ASSUME RunsIInv, NEW r \in Runs, CreateKey(r)
  PROVE  RunsIInv'
<1>1. /\ runs[r].phase = "making" /\ Making(r) /\ key' = "torn" /\ Goes(r, "writing")
      /\ UNCHANGED <<now, files, overlaps, makers>>
  BY DEF CreateKey, At, Making
<1>2. /\ makers \subseteq Runs /\ files \in [Runs -> {"none", "torn", "whole"}] /\ r \in makers
  BY <1>1, RunParts DEF RunsIInv, TypeOK, KeyInv
<1>3. "writing" \in Phases \ {"idle", "saved"} /\ InProgress(r) /\ runs[r].phase \in Early
  BY <1>1 DEF Phases, InProgress, Early
<1> QED
  BY <1>1, <1>2, <1>3, PhaseChanges

LEMMA FillKeyKeeps ==
  ASSUME RunsIInv, NEW r \in Runs, FillKey(r)
  PROVE  RunsIInv'
<1>1. /\ runs[r].phase = "writing" /\ Making(r) /\ key' = r /\ HoldsKey(r, r)
      /\ UNCHANGED <<now, files, overlaps, makers>>
  BY DEF FillKey, At, Making
<1> QED
  BY <1>1, KeyHeld

LEMMA KeyFailsKeeps ==
  ASSUME RunsIInv, NEW r \in Runs, KeyFails(r)
  PROVE  RunsIInv'
<1>1. /\ runs[r].phase \in {"making", "writing"} /\ Making(r) /\ HoldsKey(r, r)
      /\ UNCHANGED <<now, key, files, overlaps, makers>>
  BY DEF KeyFails, At, Making
<1>2. key' \in Runs \cup {None, "torn"}
  BY <1>1 DEF RunsIInv, TypeOK
<1> QED
  BY <1>1, <1>2, KeyHeld

LEMMA CreateReceiptKeeps ==
  ASSUME RunsIInv, NEW r \in Runs, CreateReceipt(r)
  PROVE  RunsIInv'
<1>1. /\ runs[r].phase = "issued" /\ files' = [files EXCEPT ![r] = "torn"] /\ Goes(r, "saving")
      /\ UNCHANGED <<now, key, overlaps, makers>>
  BY DEF CreateReceipt, At
<1>2. /\ makers' \subseteq Runs /\ key' \in Runs \cup {None, "torn"}
      /\ files' \in [Runs -> {"none", "torn", "whole"}]
      /\ \A x \in Runs : files'[x] = "whole" => files[x] = "whole"
  BY <1>1 DEF RunsIInv, TypeOK
<1>3. "saving" \in Phases \ {"idle", "saved"} /\ InProgress(r) /\ "saving" \notin Early
  BY <1>1 DEF Phases, InProgress, Early
<1> QED
  BY <1>1, <1>2, <1>3, PhaseChanges

LEMMA CrashKeeps ==
  ASSUME RunsIInv, NEW r \in Runs, Crash(r)
  PROVE  RunsIInv'
<1>1. InProgress(r) /\ Goes(r, "failed") /\ UNCHANGED <<now, key, files, overlaps, makers>>
  BY DEF Crash
<1>2. /\ makers' \subseteq Runs /\ key' \in Runs \cup {None, "torn"}
      /\ files' \in [Runs -> {"none", "torn", "whole"}]
  BY <1>1 DEF RunsIInv, TypeOK
<1>3. "failed" \in Phases \ {"idle", "saved"} /\ "failed" \notin Early
  BY DEF Phases, Early
<1> QED
  BY <1>1, <1>2, <1>3, PhaseChanges

LEMMA IssueReceiptKeeps ==
  ASSUME RunsIInv, NEW r \in Runs, issueReceipt(r)
  PROVE  RunsIInv'
<1> DEFINE c == [runs[r] EXCEPT !.phase = "issued", !.at = now]
<1>1. runs[r].phase = "keyed" /\ UNCHANGED <<now, key, files, overlaps, makers>>
  BY DEF issueReceipt, At
<1>2. /\ c \in Run /\ c.phase = "issued" /\ c.key = runs[r].key /\ c.at = now
      /\ c.prior = runs[r].prior /\ runs' = [runs EXCEPT ![r] = c]
  <2>1. runs' = [runs EXCEPT ![r] = c]
    BY RunParts DEF issueReceipt
  <2>2. /\ c \in Run /\ c.phase = "issued" /\ c.key = runs[r].key /\ c.at = now
        /\ c.prior = runs[r].prior
    BY RunParts DEF Run, Phases
  <2> QED
    BY <2>1, <2>2
<1> HIDE DEF c
<1>3. runs'[r] = c /\ \A x \in Runs \ {r} : runs'[x] = runs[x]
  BY <1>2, RunParts
<1>4. KeyInv(r)'
  <2>1. HoldsOne(r) /\ KeyInv(r)
    BY <1>1, RunParts DEF HoldsOne
  <2>2. Excused(r)' <=> Excused(r)
    BY <1>1 DEF Excused
  <2>3. \A x \in Runs : Making(x)' => Making(x)
    BY <1>2, <1>3 DEF Making
  <2> QED
    BY <1>1, <1>2, <1>3, <2>1, <2>2, <2>3 DEF KeyInv, HoldsOne, Making
<1>5. /\ InProgress(r) /\ runs[r].phase \in Early
      /\ c.phase \notin {"idle", "saved"} /\ c.phase \notin {"making", "writing"}
  BY <1>1, <1>2 DEF InProgress, Early
<1>6. /\ makers' \subseteq Runs /\ key' \in Runs \cup {None, "torn"}
      /\ files' \in [Runs -> {"none", "torn", "whole"}]
      /\ makers \subseteq makers' /\ key' = key
      /\ \A x \in Runs : files'[x] = "whole" => files[x] = "whole"
  BY <1>1 DEF RunsIInv, TypeOK
<1> QED
  BY <1>1, <1>2, <1>4, <1>5, <1>6, RunGoesOn

\* Who follows whom does not change with the phases.
LEMMA FollowsKept ==
  ASSUME RunsIInv, NEW x \in Runs, NEW y \in Runs, Follows(y, x),
         \A z \in Runs : runs'[z].at = runs[z].at, runs'[y].prior = runs[y].prior
  PROVE  Follows(y, x)'
<1>1. runs[y].prior \in Runs
  BY RunParts DEF Follows
<1> QED
  BY <1>1 DEF Follows

LEMMA StartKeeps ==
  ASSUME RunsIInv, NEW r \in Runs, Start(r)
  PROVE  RunsIInv'
<1>1. /\ runs[r].phase = "idle" /\ now' = now + 1 /\ UNCHANGED <<key, files, makers>>
      /\ overlaps' = overlaps \cup {{r, s} : s \in {s \in Runs : InProgress(s)}}
  BY DEF Start, Begins, At
<1>2. /\ runs \in [Runs -> Run] /\ now \in Nat /\ runs[r] \in Run
      /\ files[r] # "whole" /\ r \notin Whole
  BY <1>1, RunParts DEF PriorInv, Whole
<1>3. PICK c \in Run :
        /\ runs' = [runs EXCEPT ![r] = c] /\ c.at = runs[r].at
        /\ \/ c.phase = "failed" /\ c.prior = None
           \/ /\ c.phase = "started"
              /\ c.prior \in IF Whole = {} THEN {None} ELSE Newest
  <2>1. CASE Goes(r, "failed")
    <3> DEFINE c == [runs[r] EXCEPT !.phase = "failed"]
    <3>1. runs' = [runs EXCEPT ![r] = c]
      BY <1>2, <2>1 DEF Goes
    <3>2. runs[r].prior = None
      BY <1>1, RunParts DEF PriorInv
    <3>3. c \in Run /\ c.at = runs[r].at /\ c.phase = "failed" /\ c.prior = None
      BY <1>2, <3>2 DEF Run, Phases
    <3> QED
      BY <3>1, <3>3
  <2>2. CASE \E p \in IF Whole = {} THEN {None} ELSE Newest :
               runs' = [runs EXCEPT ![r].phase = "started", ![r].prior = p]
    <3>1. PICK p \in IF Whole = {} THEN {None} ELSE Newest :
            runs' = [runs EXCEPT ![r].phase = "started", ![r].prior = p]
      BY <2>2
    <3> DEFINE c == [runs[r] EXCEPT !.phase = "started", !.prior = p]
    <3>2. runs' = [runs EXCEPT ![r] = c]
      BY <1>2, <3>1
    <3>3. p \in Runs \cup {None}
      BY DEF Newest, Whole
    <3>4. c \in Run /\ c.at = runs[r].at /\ c.phase = "started" /\ c.prior = p
      BY <1>2, <3>3 DEF Run, Phases
    <3> QED
      BY <3>1, <3>2, <3>4
  <2> QED
    BY <2>1, <2>2 DEF Start, Begins
<1>4. runs'[r] = c /\ \A x \in Runs \ {r} : runs'[x] = runs[x]
  BY <1>2, <1>3
<1>5. TypeOK'
  <2>1. runs' \in [Runs -> Run] /\ now' \in Nat
    BY <1>1, <1>2, <1>3
  <2>2. overlaps' \subseteq SUBSET Runs
    BY <1>1 DEF RunsIInv, TypeOK
  <2> QED
    BY <1>1, <2>1, <2>2 DEF RunsIInv, TypeOK
<1>6. \A x \in Runs \ {r} : PriorInv(x)'
  <2>1. runs[r].phase # "saved" /\ now' \in Nat /\ now <= now'
    BY <1>1, <1>2
  <2> QED
    BY <1>1, <1>4, <2>1, PriorOthers
<1>7. PriorInv(r)'
  <2> DEFINE p == c.prior
  <2>1. c.at <= now' /\ files'[r] # "whole"
    BY <1>1, <1>2, <1>3, RunParts DEF PriorInv
  <2>2. ASSUME c.phase = "started", p # None
        PROVE  runs'[p].phase = "saved" /\ runs'[p].at < now'
    <3>1. p \in Runs /\ files[p] = "whole" /\ p # r
      BY <1>2, <1>3, <2>2 DEF Newest, Whole
    <3>2. runs'[p] = runs[p] /\ runs[p].phase = "saved" /\ runs[p].at <= now /\ runs[p].at \in Nat
      BY <1>4, <3>1, RunParts DEF PriorInv
    <3> QED
      BY <1>1, <1>2, <3>2
  <2> QED
    BY <1>3, <1>4, <2>1, <2>2 DEF PriorInv, InProgress
<1>8. \A x \in Runs : KeyInv(x)'
  <2>1. c.phase \notin {"making", "writing", "keyed", "issued", "saving", "saved"}
    BY <1>3
  <2>2. \A x \in Runs \ {r} : KeyInv(x)'
    BY <1>1, <1>4, <2>1, KeyOthers
  <2>3. KeyInv(r)'
    BY <1>4, <2>1 DEF KeyInv, Making, HoldsOne
  <2> QED
    BY <2>2, <2>3
<1>9. ASSUME NEW x \in Runs, NEW y \in Runs
      PROVE  OrderInv(x, y)'
  <2> SUFFICES ASSUME {x, y} \notin overlaps', x # y
               PROVE  /\ ~(InProgress(x)' /\ InProgress(y)')
                      /\ x \in Whole' /\ InProgress(y)' => Follows(y, x)'
                      /\ x \in Whole' /\ y \in Whole' => Follows(y, x)' \/ Follows(x, y)'
    BY DEF OrderInv
  <2>1. /\ OrderInv(x, y) /\ {x, y} \notin overlaps /\ Whole' = Whole
        /\ \A z \in Runs : runs'[z].at = runs[z].at
        /\ \A z \in Runs \ {r} : InProgress(z)' <=> InProgress(z)
    BY <1>1, <1>3, <1>4 DEF RunsIInv, Whole, InProgress
  <2>2. \A z \in Runs : InProgress(z) => {r, z} \in overlaps'
    BY <1>1
  <2>3. CASE x # r /\ y # r
    BY <1>4, <2>1, <2>3, FollowsKept DEF OrderInv
  <2>4. CASE x = r
    BY <1>2, <2>1, <2>2, <2>4
  <2>5. CASE y = r
    <3>1. {x, y} = {r, x}
      BY <2>5
    <3>2. ~InProgress(x)'
      BY <2>1, <2>2, <2>5, <3>1
    <3>3. ASSUME x \in Whole, InProgress(r)'
          PROVE  Follows(r, x)'
      <4>1. c.phase = "started" /\ c.prior \in Newest
        BY <1>3, <1>4, <3>3 DEF InProgress
      <4>2. c.prior \in Runs /\ runs[c.prior].at >= runs[x].at
        BY <3>3, <4>1, RunParts DEF Newest, Whole
      <4>3. c.prior # None
        BY <4>2
      <4> QED
        BY <1>4, <2>1, <4>2, <4>3 DEF Follows
    <3> QED
      BY <1>2, <2>1, <2>5, <3>2, <3>3
  <2> QED
    BY <2>3, <2>4, <2>5
<1> QED
  BY <1>5, <1>6, <1>7, <1>8, <1>9 DEF RunsIInv

LEMMA FillReceiptKeeps ==
  ASSUME RunsIInv, NEW r \in Runs, FillReceipt(r)
  PROVE  RunsIInv'
<1> DEFINE c == [runs[r] EXCEPT !.phase = "saved"]
<1>1. /\ runs[r].phase = "saving" /\ files' = [files EXCEPT ![r] = "whole"]
      /\ UNCHANGED <<now, key, overlaps, makers>>
  BY DEF FillReceipt, At
<1>2. /\ c \in Run /\ c.phase = "saved" /\ c.key = runs[r].key /\ c.at = runs[r].at
      /\ c.prior = runs[r].prior /\ runs' = [runs EXCEPT ![r] = c]
  <2>1. runs' = [runs EXCEPT ![r] = c]
    BY RunParts DEF FillReceipt, Goes
  <2>2. /\ c \in Run /\ c.phase = "saved" /\ c.key = runs[r].key /\ c.at = runs[r].at
        /\ c.prior = runs[r].prior
    BY RunParts DEF Run, Phases
  <2> QED
    BY <2>1, <2>2
<1> HIDE DEF c
<1>3. /\ runs'[r] = c /\ \A x \in Runs \ {r} : runs'[x] = runs[x] /\ files'[x] = files[x]
      /\ files'[r] = "whole" /\ now \in Nat
  BY <1>1, <1>2, RunParts
<1>4. TypeOK'
  <2>1. runs' \in [Runs -> Run] /\ files' \in [Runs -> {"none", "torn", "whole"}]
    BY <1>1, <1>2, RunParts
  <2> QED
    BY <1>1, <2>1 DEF RunsIInv, TypeOK
<1>5. \A x \in Runs \ {r} : PriorInv(x)'
  <2>1. runs[r].phase # "saved" /\ now' \in Nat /\ now <= now'
    BY <1>1, <1>3
  <2> QED
    BY <1>3, <2>1, PriorOthers
<1>6. PriorInv(r)'
  <2> DEFINE p == c.prior
  <2>1. c.at <= now'
    BY <1>1, <1>2, RunParts DEF PriorInv
  <2>2. ASSUME p # None
        PROVE  runs'[p].phase = "saved" /\ runs'[p].at < c.at
    <3>1. p \in Runs /\ runs[p].phase = "saved" /\ runs[p].at < runs[r].at
      BY <1>1, <1>2, <2>2, RunParts DEF PriorInv
    <3> QED
      BY <1>1, <1>2, <1>3, <3>1
  <2> QED
    BY <1>2, <1>3, <2>1, <2>2 DEF PriorInv, InProgress
<1>7. \A x \in Runs : KeyInv(x)'
  <2>1. c.phase \notin {"making", "writing"}
    BY <1>2
  <2>2. \A x \in Runs \ {r} : KeyInv(x)'
    BY <1>1, <1>3, <2>1, KeyOthers
  <2>3. KeyInv(r)'
    <3>1. HoldsOne(r) /\ KeyInv(r)
      BY <1>1, RunParts DEF HoldsOne
    <3>2. Excused(r)' <=> Excused(r)
      BY <1>1 DEF Excused
    <3>3. \A x \in Runs : Making(x)' => Making(x)
      BY <1>2, <1>3 DEF Making
    <3> QED
      BY <1>1, <1>2, <1>3, <3>1, <3>2, <3>3 DEF KeyInv, HoldsOne, Making
  <2> QED
    BY <2>2, <2>3
<1>8. ASSUME NEW x \in Runs, NEW y \in Runs
      PROVE  OrderInv(x, y)'
  <2> SUFFICES ASSUME {x, y} \notin overlaps, x # y
               PROVE  /\ ~(InProgress(x)' /\ InProgress(y)')
                      /\ x \in Whole' /\ InProgress(y)' => Follows(y, x)'
                      /\ x \in Whole' /\ y \in Whole' => Follows(y, x)' \/ Follows(x, y)'
    BY <1>1 DEF OrderInv
  <2>1. /\ OrderInv(x, y) /\ OrderInv(y, x) /\ {y, x} = {x, y}
        /\ \A z \in Runs : runs'[z].at = runs[z].at /\ runs'[z].prior = runs[z].prior
        /\ \A z \in Runs \ {r} : /\ InProgress(z)' <=> InProgress(z)
                                 /\ z \in Whole' <=> z \in Whole
        /\ InProgress(r) /\ ~InProgress(r)'
    BY <1>1, <1>2, <1>3 DEF RunsIInv, Whole, InProgress
  <2>2. /\ Follows(x, y) => Follows(x, y)'
        /\ Follows(y, x) => Follows(y, x)'
    BY <2>1, FollowsKept
  <2>3. CASE x # r /\ y # r
    BY <2>1, <2>2, <2>3 DEF OrderInv
  <2>4. CASE x = r
    BY <2>1, <2>2, <2>4 DEF OrderInv
  <2>5. CASE y = r
    BY <2>1, <2>2, <2>5 DEF OrderInv
  <2> QED
    BY <2>3, <2>4, <2>5
<1> QED
  BY <1>4, <1>5, <1>6, <1>7, <1>8 DEF RunsIInv

LEMMA DeleteKeeps ==
  ASSUME RunsIInv, NEW r \in Runs, Delete(r)
  PROVE  RunsIInv'
<1>1. files' = [files EXCEPT ![r] = "none"] /\ UNCHANGED <<now, key, runs, overlaps, makers>>
  BY DEF Delete
<1>2. /\ files' \in [Runs -> {"none", "torn", "whole"}]
      /\ \A x \in Runs : files'[x] = "whole" => files[x] = "whole"
  BY <1>1 DEF RunsIInv, TypeOK
<1>3. TypeOK'
  BY <1>1, <1>2 DEF RunsIInv, TypeOK
<1>4. \A x \in Runs : PriorInv(x)' /\ KeyInv(x)'
  BY <1>1, <1>2 DEF RunsIInv, PriorInv, KeyInv, InProgress, Making, HoldsOne, Excused
<1>5. \A x, y \in Runs : OrderInv(x, y)'
  BY <1>1, <1>2, OrderKept
<1> QED
  BY <1>3, <1>4, <1>5 DEF RunsIInv

LEMMA RunsStep ==
  ASSUME RunsIInv, [Next]_vars
  PROVE  RunsIInv'
<1>1. CASE UNCHANGED vars
  <2>1. UNCHANGED <<now, key, files, runs, overlaps, makers>>
    BY <1>1 DEF vars
  <2>2. TypeOK'
    BY <2>1 DEF RunsIInv, TypeOK
  <2>3. \A x \in Runs : PriorInv(x)' /\ KeyInv(x)'
    BY <2>1 DEF RunsIInv, PriorInv, KeyInv, InProgress, Making, HoldsOne, Excused
  <2>4. \A x, y \in Runs : OrderInv(x, y)'
    BY <2>1, OrderKept
  <2> QED
    BY <2>2, <2>3, <2>4 DEF RunsIInv
<1>2. CASE Next
  BY <1>2, StartKeeps, LoadKeyKeeps, CreateKeyKeeps, FillKeyKeeps, KeyFailsKeeps,
     IssueReceiptKeeps, CreateReceiptKeeps, FillReceiptKeeps, CrashKeeps, DeleteKeeps DEF Next
<1> QED
  BY <1>1, <1>2

-----------------------------------------------------------------------------
(* What the chain tells: without overlaps the receipts are in the order of  *)
(* their times, and each continues the one before or one that is gone.      *)

\* A finite set of numbered things is ranked by its numbers.
LEMMA Ranked ==
  ASSUME NEW S, IsFiniteSet(S), NEW at \in [S -> Nat],
         \A x, y \in S : x # y => at[x] # at[y]
  PROVE  \E rank \in [S -> 1..Cardinality(S)] :
           /\ \A x, y \in S : at[x] < at[y] <=> rank[x] < rank[y]
           /\ \A x, y \in S : rank[x] = rank[y] => x = y
           /\ \A i \in 1..Cardinality(S) : \E x \in S : rank[x] = i
<1> DEFINE n == Cardinality(S)
           upto == [x \in S |-> {y \in S : at[y] <= at[x]}]
           rank == [x \in S |-> Cardinality(upto[x])]
<1>1. n \in Nat
  BY FS_CardinalityType
<1>2. ASSUME NEW x \in S
      PROVE  x \in upto[x] /\ upto[x] \in SUBSET S /\ IsFiniteSet(upto[x])
  <2>1. x \in upto[x] /\ upto[x] \in SUBSET S
    OBVIOUS
  <2> QED
    BY <2>1, FS_Subset
<1>3. ASSUME NEW x \in S
      PROVE  rank[x] \in 1..n
  <2>1. Cardinality(upto[x]) \in Nat /\ Cardinality(upto[x]) <= n
    BY <1>2, FS_Subset, FS_CardinalityType
  <2>2. Cardinality(upto[x]) # 0
    BY <1>2, FS_EmptySet
  <2>3. rank[x] = Cardinality(upto[x])
    OBVIOUS
  <2> HIDE DEF rank, upto, n
  <2> QED
    BY <1>1, <2>1, <2>2, <2>3
<1>4. ASSUME NEW x \in S, NEW y \in S, at[x] < at[y]
      PROVE  rank[x] < rank[y]
  <2>1. upto[x] \in SUBSET upto[y] /\ y \in upto[y] /\ y \notin upto[x]
    BY <1>4
  <2>2. IsFiniteSet(upto[y]) /\ IsFiniteSet(upto[x])
    BY <1>2
  <2>3. Cardinality(upto[x]) <= Cardinality(upto[y]) /\ Cardinality(upto[x]) # Cardinality(upto[y])
    <3> HIDE DEF upto
    <3> QED
      BY <2>1, <2>2, FS_Subset
  <2>4. Cardinality(upto[x]) \in Nat /\ Cardinality(upto[y]) \in Nat
    <3> HIDE DEF upto
    <3> QED
      BY <2>2, FS_CardinalityType
  <2>5. rank[x] = Cardinality(upto[x]) /\ rank[y] = Cardinality(upto[y])
    OBVIOUS
  <2> HIDE DEF rank, upto
  <2> QED
    BY <2>3, <2>4, <2>5
<1>5. rank \in [S -> 1..n]
  <2>1. rank = [x \in S |-> rank[x]]
    OBVIOUS
  <2> HIDE DEF rank, n
  <2> QED
    BY <1>3, <2>1
<1> HIDE DEF rank, upto, n
<1>6. \A x, y \in S : rank[x] \in Nat /\ at[x] \in Nat
  BY <1>5
<1>7. \A x, y \in S : rank[x] = rank[y] => x = y
  <2> SUFFICES ASSUME NEW x \in S, NEW y \in S, rank[x] = rank[y], x # y PROVE FALSE
    OBVIOUS
  <2>1. at[x] < at[y] \/ at[y] < at[x]
    BY <1>6
  <2>2. rank[x] < rank[y] \/ rank[y] < rank[x]
    BY <1>4, <2>1
  <2> QED
    BY <1>6, <2>2
<1>8. \A x, y \in S : at[x] < at[y] <=> rank[x] < rank[y]
  <2> SUFFICES ASSUME NEW x \in S, NEW y \in S, rank[x] < rank[y] PROVE at[x] < at[y]
    BY <1>4
  <2>1. x # y
    BY <1>6
  <2>2. ~(at[y] < at[x])
    BY <1>4, <1>6
  <2> QED
    BY <1>6, <2>1, <2>2
<1>9. \A i \in 1..n : \E x \in S : rank[x] = i
  <2>1. IsFiniteSet(1..n) /\ Cardinality(1..n) = n
    BY <1>1, FS_Interval
  <2>2. rank \in Injection(S, 1..n)
    BY <1>5, <1>7 DEF Injection, IsInjective
  <2>3. rank \in Surjection(S, 1..n)
    BY <2>1, <2>2, FS_Injection DEF n
  <2> QED
    BY <2>3 DEF Surjection
<1> QED
  BY <1>5, <1>7, <1>8, <1>9 DEF n

\* Receipts of different times are listed in the order of those.
LEMMA Listed ==
  ASSUME RunsIInv, IsFiniteSet(Whole),
         \A r, s \in Whole : r # s => runs[r].at # runs[s].at
  PROVE  /\ listReceipts \in [1..Cardinality(Whole) -> Whole]
         /\ Len(listReceipts) = Cardinality(Whole) /\ Cardinality(Whole) \in Nat
         /\ \A r \in Whole : \E i \in 1..Cardinality(Whole) : listReceipts[i] = r
         /\ \A i, j \in 1..Cardinality(Whole) :
              i < j => runs[listReceipts[i]].at < runs[listReceipts[j]].at
<1> DEFINE n == Cardinality(Whole)
           at == [r \in Whole |-> runs[r].at]
           Sorted(q) == \A i, j \in DOMAIN q : i < j => runs[q[i]].at <= runs[q[j]].at
<1>1. n \in Nat
  BY FS_CardinalityType
<1>2. at \in [Whole -> Nat] /\ \A r, s \in Whole : r # s => at[r] # at[s]
  BY RunParts DEF Whole
<1>3. PICK rank \in [Whole -> 1..n] :
        /\ \A x, y \in Whole : at[x] < at[y] <=> rank[x] < rank[y]
        /\ \A x, y \in Whole : rank[x] = rank[y] => x = y
        /\ \A i \in 1..n : \E x \in Whole : rank[x] = i
  <2> HIDE DEF at
  <2> QED
    BY <1>2, Ranked
<1>4. \E q \in SetToSeqs(Whole) : Sorted(q)
  <2> DEFINE q == [i \in 1..n |-> CHOOSE x \in Whole : rank[x] = i]
  <2>1. \A i \in 1..n : q[i] \in Whole /\ rank[q[i]] = i
    BY <1>3
  <2>2. q \in [1..n -> Whole] /\ DOMAIN q = 1..n
    BY <2>1
  <2> HIDE DEF q
  <2>3. q \in SetToSeqs(Whole)
    BY <2>1, <2>2 DEF SetToSeqs
  <2>4. ASSUME NEW i \in 1..n, NEW j \in 1..n, i < j
        PROVE  runs[q[i]].at <= runs[q[j]].at
    <3>1. at[q[i]] < at[q[j]]
      BY <1>3, <2>1, <2>4
    <3>2. at[q[i]] = runs[q[i]].at /\ at[q[j]] = runs[q[j]].at /\ at[q[i]] \in Nat /\ at[q[j]] \in Nat
      BY <1>2, <2>1
    <3> QED
      BY <3>1, <3>2
  <2> QED
    BY <2>2, <2>3, <2>4
<1>5. listReceipts \in SetToSeqs(Whole) /\ Sorted(listReceipts)
  BY <1>4 DEF listReceipts
<1> DEFINE l == listReceipts
<1>6. l \in [1..n -> Whole] /\ \A i, j \in 1..n : i # j => l[i] # l[j]
  BY <1>5 DEF SetToSeqs
<1>7. \A i, j \in 1..n : i < j => runs[l[i]].at <= runs[l[j]].at
  BY <1>5, <1>6
<1>8. Len(l) = n
  BY <1>1, <1>6
<1>9. \A r \in Whole : \E i \in 1..n : l[i] = r
  <2>1. IsFiniteSet(1..n) /\ Cardinality(1..n) = n
    BY <1>1, FS_Interval
  <2>2. l \in Injection(1..n, Whole)
    BY <1>6 DEF Injection, IsInjective
  <2>3. l \in Surjection(1..n, Whole)
    BY <2>1, <2>2, FS_Injection
  <2> QED
    BY <2>3 DEF Surjection
<1>10. ASSUME NEW i \in 1..n, NEW j \in 1..n, i < j
       PROVE  runs[l[i]].at < runs[l[j]].at
  <2>1. l[i] \in Whole /\ l[j] \in Whole /\ l[i] # l[j] /\ runs[l[i]].at <= runs[l[j]].at
    BY <1>6, <1>7, <1>10
  <2>2. runs[l[i]].at \in Nat /\ runs[l[j]].at \in Nat /\ runs[l[i]].at # runs[l[j]].at
    BY <2>1, RunParts DEF Whole
  <2> QED
    BY <2>1, <2>2
<1> QED
  BY <1>1, <1>6, <1>8, <1>9, <1>10

\* Of two receipts of runs that were not in progress together, the later one continues a
\* receipt that is no older than the other.
LEMMA WholeOrdered ==
  ASSUME RunsIInv, NEW r \in Whole, NEW s \in Whole, {r, s} \notin overlaps, r # s
  PROVE  /\ runs[r].at \in Nat /\ runs[s].at \in Nat
         /\ runs[r].at # runs[s].at
         /\ runs[r].at < runs[s].at =>
              runs[s].prior # None /\ runs[runs[s].prior].at >= runs[r].at
<1>1. /\ r \in Runs /\ s \in Runs /\ runs[r].phase = "saved" /\ runs[s].phase = "saved"
      /\ runs[r].at \in Nat /\ runs[s].at \in Nat
  BY RunParts DEF Whole, PriorInv
<1>2. Follows(s, r) \/ Follows(r, s)
  BY <1>1 DEF RunsIInv, OrderInv
<1>3. Follows(r, s) => runs[s].at < runs[r].at
  <2>1. Follows(r, s) => runs[runs[r].prior].at < runs[r].at /\ runs[runs[r].prior].at \in Nat
    BY <1>1, RunParts DEF Follows, PriorInv
  <2> QED
    BY <1>1, <2>1 DEF Follows
<1>4. Follows(s, r) => runs[r].at < runs[s].at
  <2>1. Follows(s, r) => runs[runs[s].prior].at < runs[s].at /\ runs[runs[s].prior].at \in Nat
    BY <1>1, RunParts DEF Follows, PriorInv
  <2> QED
    BY <1>1, <2>1 DEF Follows
<1>5. runs[r].at < runs[s].at => Follows(s, r)
  BY <1>1, <1>2, <1>3
<1> QED
  BY <1>1, <1>2, <1>3, <1>4, <1>5 DEF Follows

LEMMA ChainInv ==
  ASSUME RunsIInv, IsFiniteSet(Whole)
  PROVE  ChainTells
<1> SUFFICES ASSUME overlaps = {}
             PROVE  verifyReceiptChain <=> \A r \in Whole : runs[r].prior \in Whole \cup {None}
  BY DEF ChainTells
<1> DEFINE n == Cardinality(Whole)
           l == listReceipts
<1>1. /\ l \in [1..n -> Whole] /\ Len(l) = n /\ n \in Nat
      /\ \A r \in Whole : \E i \in 1..n : l[i] = r
      /\ \A i, j \in 1..n : i < j => runs[l[i]].at < runs[l[j]].at
  <2>1. \A r, s \in Whole : r # s => runs[r].at # runs[s].at
    BY WholeOrdered
  <2> QED
    BY <2>1, Listed
<1> HIDE DEF n, l
<1>2. verifyReceiptChain <=> \A k \in 1..n : runs[l[k]].prior = IF k = 1 THEN None ELSE l[k - 1]
  BY <1>1 DEF verifyReceiptChain, l
<1>3. ASSUME verifyReceiptChain, NEW r \in Whole
      PROVE  runs[r].prior \in Whole \cup {None}
  <2>1. PICK k \in 1..n : l[k] = r
    BY <1>1
  <2>2. k # 1 => k - 1 \in 1..n
    BY <1>1
  <2> QED
    BY <1>1, <1>2, <1>3, <2>1, <2>2
<1>4. ASSUME \A r \in Whole : runs[r].prior \in Whole \cup {None}, NEW k \in 1..n
      PROVE  runs[l[k]].prior = IF k = 1 THEN None ELSE l[k - 1]
  <2> DEFINE p == runs[l[k]].prior
  <2>1. l[k] \in Whole /\ l[k] \in Runs /\ p \in Whole \cup {None} /\ runs[l[k]].at \in Nat
    BY <1>1, <1>4, RunParts DEF Whole
  <2>2. p # None => p \in Whole /\ runs[p].at < runs[l[k]].at /\ runs[p].at \in Nat
    BY <2>1, RunParts DEF PriorInv, Whole
  <2>3. ASSUME p # None
        PROVE  \E i \in 1..n : i < k /\ l[i] = p
    <3>1. PICK i \in 1..n : l[i] = p
      BY <1>1, <2>2, <2>3
    <3>2. ~(k < i)
      BY <1>1, <2>1, <2>2, <2>3, <3>1, SMTT(30)
    <3>3. i # k
      BY <2>1, <2>2, <2>3, <3>1
    <3> QED
      BY <1>1, <3>1, <3>2, <3>3
  <2>4. CASE k = 1
    BY <1>1, <2>3, <2>4
  <2>5. CASE k # 1
    <3> DEFINE h == k - 1
    <3>1. h \in 1..n /\ h < k
      BY <1>1, <2>5
    <3> HIDE DEF h
    <3>2. l[h] \in Whole /\ runs[l[h]].at < runs[l[k]].at
      BY <1>1, <3>1
    <3>3. l[h] # l[k]
      BY <2>1, <3>2
    <3>4. p # None /\ runs[p].at >= runs[l[h]].at /\ runs[l[h]].at \in Nat
      BY <2>1, <3>2, <3>3, WholeOrdered
    <3>5. PICK i \in 1..n : i < k /\ l[i] = p
      BY <2>3, <3>4
    <3>6. ~(i < h)
      <4>1. i < h => runs[l[i]].at < runs[l[h]].at
        BY <1>1, <3>1
      <4>2. runs[l[i]].at >= runs[l[h]].at /\ runs[l[i]].at \in Nat /\ runs[l[h]].at \in Nat
        BY <2>2, <3>4, <3>5
      <4> QED
        BY <4>1, <4>2
    <3>7. i = h
      <4>1. i \in Nat /\ k \in Nat
        BY <1>1
      <4> QED
        BY <3>5, <3>6, <4>1 DEF h
    <3> QED
      BY <2>5, <3>5, <3>7 DEF h
  <2> QED
    BY <2>4, <2>5
<1> QED
  BY <1>2, <1>3, <1>4

LEMMA FiniteStart == Init => IsFiniteSet(Whole)
<1>1. Init => Whole = {}
  BY DEF Init, Whole
<1> QED
  BY <1>1, FS_EmptySet

\* A step adds at most one receipt.
LEMMA FiniteStep ==
  ASSUME RunsIInv, IsFiniteSet(Whole), [Next]_vars
  PROVE  IsFiniteSet(Whole')
<1>1. files \in [Runs -> {"none", "torn", "whole"}]
  BY DEF RunsIInv, TypeOK
<1>2. ASSUME NEW r \in Runs, NEW v, files' = [files EXCEPT ![r] = v]
      PROVE  IsFiniteSet(Whole')
  <2>1. Whole' \in SUBSET (Whole \cup {r})
    BY <1>1, <1>2 DEF Whole
  <2>2. IsFiniteSet(Whole \cup {r})
    BY FS_AddElement
  <2> QED
    BY <2>1, <2>2, FS_Subset
<1>3. ASSUME files' = files
      PROVE  IsFiniteSet(Whole')
  <2>1. Whole' = Whole
    BY <1>3 DEF Whole
  <2> QED
    BY <2>1
<1>4. CASE UNCHANGED vars
  BY <1>3, <1>4 DEF vars
<1>5. CASE Next
  <2>1. PICK r \in Runs : \/ Start(r) \/ LoadKey(r) \/ CreateKey(r) \/ FillKey(r) \/ KeyFails(r)
                         \/ issueReceipt(r) \/ CreateReceipt(r) \/ FillReceipt(r)
                         \/ Crash(r) \/ Delete(r)
    BY <1>5 DEF Next
  <2>2. CASE CreateReceipt(r) \/ FillReceipt(r) \/ Delete(r)
    BY <1>2, <2>2 DEF CreateReceipt, FillReceipt, Delete
  <2>3. CASE ~(CreateReceipt(r) \/ FillReceipt(r) \/ Delete(r))
    BY <1>3, <2>1, <2>3 DEF Start, Begins, LoadKey, CreateKey, FillKey, KeyFails, issueReceipt, Crash
  <2> QED
    BY <2>2, <2>3
<1> QED
  BY <1>4, <1>5

\* However many commands share a workspace, and in whatever order they start, crash and
\* lose receipts: two receipts that continue one receipt, and a receipt that another key
\* than that on disk signed, are left only by commands that were in progress together;
\* and where none were, the chain verifies exactly if nothing that it continues is gone.
THEOREM WorkspaceHolds == Spec => []WorkspaceInv
<1>1. RunsIInv /\ IsFiniteSet(Whole) => WorkspaceInv
  BY RunsInvGives, ChainInv DEF RunsIInv, WorkspaceInv
<1>2. Init => RunsIInv /\ IsFiniteSet(Whole)
  BY RunsStart, FiniteStart
<1>3. RunsIInv /\ IsFiniteSet(Whole) /\ [Next]_vars => RunsIInv' /\ IsFiniteSet(Whole)'
  BY RunsStep, FiniteStep
<1> QED
  BY <1>1, <1>2, <1>3, PTL DEF Spec
-----------------------------------------------------------------------------
(* The responses. *)

USE ResponseAssumption

Responses == {"KEEP", "REROUTE", "CONSTRAIN", "STEP_UP", "ESCALATE", "THROTTLE", "SUSPEND",
              "DENY", "REVOKE"}

\* The restrictiveness of each response.
LEMMA Ranks ==
  /\ Rank("KEEP") = 1 /\ Rank("REROUTE") = 2 /\ Rank("CONSTRAIN") = 3
  /\ Rank("STEP_UP") = 4 /\ Rank("ESCALATE") = 5 /\ Rank("THROTTLE") = 6
  /\ Rank("SUSPEND") = 7 /\ Rank("DENY") = 8 /\ Rank("REVOKE") = 9
<1>1. /\ Len(RESPONSES) = 9 /\ RESPONSES[1] = "KEEP" /\ RESPONSES[2] = "REROUTE"
      /\ RESPONSES[3] = "CONSTRAIN" /\ RESPONSES[4] = "STEP_UP" /\ RESPONSES[5] = "ESCALATE"
      /\ RESPONSES[6] = "THROTTLE" /\ RESPONSES[7] = "SUSPEND" /\ RESPONSES[8] = "DENY"
      /\ RESPONSES[9] = "REVOKE"
  BY DEF RESPONSES
<1>2. ASSUME NEW j \in 1..9, NEW k \in 1..9, RESPONSES[j] = RESPONSES[k]
      PROVE  j = k
  BY <1>1, <1>2
<1>3. ASSUME NEW k \in 1..9
      PROVE  Rank(RESPONSES[k]) = k
  <2>1. Rank(RESPONSES[k]) \in 1..9 /\ RESPONSES[Rank(RESPONSES[k])] = RESPONSES[k]
    BY <1>1 DEF Rank
  <2> QED
    BY <1>2, <2>1
<1> QED
  BY <1>1, <1>3

LEMMA ResponsesAre == Range(RESPONSES) = Responses
<1>1. DOMAIN RESPONSES = 1..9
  BY DEF RESPONSES
<1>2. Range(RESPONSES) = {RESPONSES[k] : k \in 1..9}
  BY <1>1 DEF Range
<1>3. {RESPONSES[k] : k \in 1..9} = Responses
  BY DEF RESPONSES, Responses
<1> QED
  BY <1>2, <1>3

LEMMA RankType == \A w \in Responses : Rank(w) \in 1..9
  BY Ranks DEF Responses

\* The order of the checks: no part of the situation calls for more than the answer.
LEMMA NoneOverlooked ==
  ASSUME route # Nothing, NEW p, NEW w \in Warranted(p)
  PROVE  Rank(w) <= Rank(Decide(p))
<1> DEFINE x == Decide(p)
<1>1. /\ w \in {"REVOKE", "SUSPEND", "THROTTLE", "ESCALATE", "STEP_UP", "CONSTRAIN"}
      /\ w = "REVOKE" => Some("revoked")
      /\ w = "SUSPEND" => Suspends(p, History)
      /\ w = "THROTTLE" => Throttles(p, preview, History)
      /\ w = "ESCALATE" => Escalates(p, preview)
      /\ w = "STEP_UP" => StepsUp(p, preview)
      /\ w = "CONSTRAIN" => proposeConstraint(p, preview)
  BY DEF Warranted
<1>2. /\ Some("revoked") => x \in {"REVOKE"}
      /\ Suspends(p, History) => x \in {"REVOKE", "SUSPEND"}
      /\ Throttles(p, preview, History) => x \in {"REVOKE", "SUSPEND", "THROTTLE"}
      /\ Escalates(p, preview) => x \in {"REVOKE", "SUSPEND", "THROTTLE", "ESCALATE"}
      /\ StepsUp(p, preview) => x \in {"REVOKE", "SUSPEND", "THROTTLE", "ESCALATE", "STEP_UP"}
      /\ proposeConstraint(p, preview) =>
           x \in {"REVOKE", "SUSPEND", "THROTTLE", "ESCALATE", "STEP_UP", "CONSTRAIN"}
  BY DEF Decide, respondToChange
<1> HIDE DEF x
<1>3. Rank(w) <= Rank(x)
  <2>1. CASE w = "REVOKE"
    BY <1>1, <1>2, <2>1, Ranks
  <2>2. CASE w = "SUSPEND"
    BY <1>1, <1>2, <2>2, Ranks
  <2>3. CASE w = "THROTTLE"
    BY <1>1, <1>2, <2>3, Ranks
  <2>4. CASE w = "ESCALATE"
    BY <1>1, <1>2, <2>4, Ranks
  <2>5. CASE w = "STEP_UP"
    BY <1>1, <1>2, <2>5, Ranks
  <2>6. CASE w = "CONSTRAIN"
    BY <1>1, <1>2, <2>6, Ranks
  <2> QED
    BY <1>1, <2>1, <2>2, <2>3, <2>4, <2>5, <2>6
<1> QED
  BY <1>3 DEF x

\* Under any policy, severities, routes, consequences and receipts, and with a route to
\* take, the order of the checks overlooks nothing (decisions.mjs 84-146).
THEOREM AnswersAreWarranted == ResponseSpec => []AnswersWarranted
<1>1. ASSUME route # Nothing, NEW p \in Policies, NEW w \in Warranted(p)
      PROVE  ~isMoreRestrictive(w, Decide(p))
  <2>1. Rank(w) <= Rank(Decide(p))
    BY <1>1, NoneOverlooked
  <2>2. w \in Responses /\ Decide(p) \in Responses
    BY ResponsesAre DEF Warranted, Decide, respondToChange, Responses
  <2> QED
    BY <2>1, <2>2, RankType DEF isMoreRestrictive
<1>2. AnswersWarranted
  BY <1>1 DEF AnswersWarranted
<1> QED
  BY <1>2, PTL

LEMMA ResponseTypeStep == ResponseTypeOK /\ [ResponseNext]_responding => ResponseTypeOK'
<1> SUFFICES ASSUME ResponseTypeOK, [ResponseNext]_responding PROVE ResponseTypeOK'
  OBVIOUS
<1> USE DEF ResponseTypeOK
<1>1. ASSUME NEW a \in Agents, NEW state \in Standing, Observe(a, state)
      PROVE  ResponseTypeOK'
  BY <1>1 DEF Observe
<1>2. ASSUME NEW r \in Routes \cup {Nothing}, Offer(r) PROVE ResponseTypeOK'
  BY <1>2 DEF Offer
<1>3. ASSUME NEW c \in Consequences, Preview(c) PROVE ResponseTypeOK'
  BY <1>3 DEF Preview
<1>4. ASSUME NEW decision \in Decisions, RunOnce(decision) PROVE ResponseTypeOK'
  BY <1>4 DEF RunOnce
<1>5. CASE UNCHANGED responding
  BY <1>5 DEF responding
<1> QED
  BY <1>1, <1>2, <1>3, <1>4, <1>5 DEF ResponseNext

\* What a history gives is a number.
LEMMA HistoryType ==
  ASSUME ResponseTypeOK
  PROVE  History.consecutiveFailures \in Nat /\ History.inWindow \in Nat
<1>1. Len(receipts) \in Nat
  BY DEF ResponseTypeOK
<1>2. countTrailingFailures \in Nat
  <2>1. IsFiniteSet(1..Len(receipts))
    BY <1>1, FS_Interval
  <2> QED
    BY <2>1, FS_Subset, FS_CardinalityType DEF countTrailingFailures
<1> QED
  BY <1>1, <1>2 DEF History

\* What a stricter policy lets proceed the other lets proceed.
LEMMA ProceedsLess ==
  ASSUME NEW p \in Policies, NEW q \in Policies, StopsNoLess(q, p),
         NEW c \in Consequences, NEW h,
         h.consecutiveFailures \in Nat, h.inWindow \in Nat,
         respondToChange(q, c, h) \in PROCEEDS
  PROVE  respondToChange(p, c, h) \in PROCEEDS
<1>1. /\ p \in Policy /\ q \in Policy /\ c \in Consequence /\ Nothing \notin Nat
      /\ Severities \subseteq Nat
  OBVIOUS
<1>2. /\ c.severity \in Severities /\ c.severity \in Nat
      /\ c.recordsAffected \in Nat /\ c.financialExposure \in Nat
  BY <1>1 DEF Consequence
<1>3. \A r \in {p, q} :
        /\ r.suspendAfterFailures \in Nat /\ r.requireApprovalAtOrAbove \in Nat
        /\ r.batchLimit \in Nat /\ r.maxPerWindow[c.severity] \in Limit
        /\ r.escalateAtOrAbove \in Limit /\ r.approvalAmount \in Limit
        /\ r.constrainAmountAbove \in Limit
  BY <1>1, <1>2 DEF Policy
<1>4. Suspends(p, h) => Suspends(q, h)
  BY <1>3 DEF StopsNoLess, Suspends
<1>5. Throttles(q, c, h) => Throttles(p, c, h)
  <2>1. NoHigher(p.maxPerWindow[c.severity], q.maxPerWindow[c.severity])
    BY <1>2 DEF StopsNoLess
  <2>2. /\ p.maxPerWindow[c.severity] \in Nat \cup {Nothing}
        /\ q.maxPerWindow[c.severity] \in Nat \cup {Nothing}
    BY <1>3 DEF Limit
  <2> QED
    BY <2>1, <2>2 DEF NoHigher, Throttles
<1>6. Escalates(p, c) => Escalates(q, c)
  <2>1. NoHigher(q.escalateAtOrAbove, p.escalateAtOrAbove)
    BY DEF StopsNoLess
  <2> QED
    BY <1>2, <1>3, <2>1 DEF NoHigher, Escalates, Limit
<1>7. StepsUp(p, c) => StepsUp(q, c)
  <2>1. /\ NoHigher(q.approvalAmount, p.approvalAmount)
        /\ q.requireApprovalAtOrAbove <= p.requireApprovalAtOrAbove
    BY DEF StopsNoLess
  <2>2. requiresApproval(p, c) => requiresApproval(q, c)
    BY <1>2, <1>3, <2>1 DEF NoHigher, requiresApproval, Limit
  <2> QED
    BY <2>2 DEF StepsUp
<1>8. route = Nothing /\ proposeConstraint(q, c) => proposeConstraint(p, c)
  <2> SUFFICES ASSUME route = Nothing, proposeConstraint(q, c) PROVE proposeConstraint(p, c)
    OBVIOUS
  <2>1. /\ NoHigher(p.constrainAmountAbove, q.constrainAmountAbove)
        /\ p.batchLimit <= q.batchLimit
    BY DEF StopsNoLess
  <2> QED
    BY <1>2, <1>3, <2>1 DEF NoHigher, proposeConstraint, Limit
<1>9. /\ ~Some("revoked") /\ ~Suspends(q, h)
      /\ route = Nothing => proposeConstraint(q, c)
      /\ route # Nothing => Throttles(q, c, h) \/ (~Escalates(q, c) /\ ~StepsUp(q, c))
  BY DEF respondToChange, PROCEEDS
<1> QED
  BY <1>4, <1>5, <1>6, <1>7, <1>8, <1>9 DEF respondToChange, PROCEEDS

\* Under any policies, severities, routes, consequences and receipts: a policy that sets
\* its limits no later stops what the other stops, for "pctr decide" as for whatIf
\* (decisions.mjs 74-177, history.mjs 59-88, pctr.mjs 337-357).
THEOREM StricterPoliciesStop == ResponseSpec => []StricterStops
<1>1. ResponseInit => ResponseTypeOK
  BY DEF ResponseInit, ResponseTypeOK, Standing
<1>2. ResponseTypeOK => StricterStops
  <2> SUFFICES ASSUME ResponseTypeOK, NEW p \in Policies, NEW q \in Policies,
                      StopsNoLess(q, p)
               PROVE  /\ Decide(q) \in PROCEEDS => Decide(p) \in PROCEEDS
                      /\ whatIf(p).tightens \subseteq whatIf(q).tightens
                      /\ whatIf(q).loosens \subseteq whatIf(p).loosens
    BY DEF StricterStops
  <2>1. Decide(q) \in PROCEEDS => Decide(p) \in PROCEEDS
    BY HistoryType, ProceedsLess DEF Decide, ResponseTypeOK
  <2>2. ASSUME NEW k \in 1..Len(receipts), Proceeds(q, k) PROVE Proceeds(p, k)
    <3>1. receipts[k].preview \in Consequences
      <4>1. receipts[k] \in [decision: Decisions, preview: Consequences]
        <5> DEFINE R == [decision: Decisions, preview: Consequences]
        <5>1. receipts \in Seq(R)
          BY DEF ResponseTypeOK
        <5> HIDE DEF R
        <5>2. receipts[k] \in R
          BY <5>1, ElementOfSeq
        <5> QED
          BY <5>2 DEF R
      <4> QED
        BY <4>1
    <3>2. NoHistory.consecutiveFailures \in Nat /\ NoHistory.inWindow \in Nat
      BY DEF NoHistory
    <3> QED
      BY <2>2, <3>1, <3>2, ProceedsLess DEF Proceeds
  <2> QED
    BY <2>1, <2>2 DEF whatIf
<1> QED
  BY <1>1, <1>2, ResponseTypeStep, PTL DEF ResponseSpec
=============================================================================
