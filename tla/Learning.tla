------------------------------ MODULE Learning ------------------------------
(***************************************************************************)
(* What a workspace learns from its receipts (learn.mjs): "pctr learn       *)
(* --apply" reads pctr.json and the receipts, proposes changes and writes   *)
(* the whole of pctr.json, while actions are run, the file is edited by     *)
(* hand and other learns are in progress.  The file is written in place:    *)
(* between the two steps, or after a crash between them, it is torn.        *)
(*                                                                          *)
(* The manifest has one tool.  An action has a level, the records that it   *)
(* is declared to affect or that the parameters of a run name.              *)
(***************************************************************************)
EXTENDS Integers, SequencesExt

CONSTANTS
  Learns,       \* the commands, each once
  Acting,       \* the agents
  Deeds,        \* the actions
  Wildcard,          \* the authority for every action
  Undeclared,   \* the level of an action that the manifest does not list
  Levels,       \* the levels of the runs of an action, sets of numbers
  Enough,       \* how many receipts an unused authority is claimed from, 5
  ByHand,       \* the manifests as somebody writes them
  Broken,         \* a file that is not complete
  MaxReceipts, MaxEdits   \* bounds

Manifest ==
  [level: [Deeds -> Nat \cup {Undeclared}],   \* actions
   attached: SUBSET Deeds,                       \* the actions of the tool
   authority: [Acting -> SUBSET (Deeds \cup {Wildcard})]]

ASSUME LearningAssumption ==
  /\ Wildcard \notin Deeds
  /\ Undeclared \notin Nat
  /\ Levels \in [Deeds -> SUBSET Nat]
  /\ ByHand \subseteq Manifest
  /\ Broken \notin Manifest
  /\ {Enough, MaxReceipts, MaxEdits} \subseteq Nat

VARIABLES
  manifest,   \* pctr.json
  trail,      \* the receipts, in order
  learns,     \* how far each learn is, and what it has read
  edited,     \* the manifest as last edited by hand (history)
  edits,      \* how often it was (history)
  lost,       \* whether a learn wrote what it had read before an edit (history)
  during      \* the receipts left while a learn was pending (history)

learning == <<manifest, trail, learns, edited, edits, lost, during>>

LearningInit ==
  /\ edited \in ByHand
  /\ manifest = edited
  /\ trail = <<>>
  /\ learns = [l \in Learns |-> [phase |-> "idle", manifest |-> manifest, receipts |-> 0, edits |-> 0]]
  /\ edits = 0
  /\ lost = FALSE
  /\ during = {}

holdsAuthority(m, g, d) == {d, Wildcard} \cap m.authority[g] # {}

-----------------------------------------------------------------------------
(* What is proposed for a manifest m from the receipts t, and applied to it. *)

Done(t) == {t[k].deed : k \in DOMAIN t}

\* Those run that are not in the graph; its nodes are the actions of the tool.
undeclaredActions(m, t) == Done(t) \ m.attached

\* The tool is known from a receipt with a route.
toolFor(t) == {t[k].deed : k \in {k \in DOMAIN t : t[k].agents # {}}}

maxRecords(t, d) == Max({0} \cup {t[k].level : k \in {k \in DOMAIN t : t[k].deed = d}})

declaredRecords(m, d) == IF m.level[d] = Undeclared THEN 0 ELSE m.level[d]

\* Mutant: the level of the first receipt stands for all.
MisdeclaredFirst(m, t) ==
  {d \in m.attached \cap Done(t) :
     t[Min({k \in DOMAIN t : t[k].deed = d})].level > 2 * declaredRecords(m, d) /\ maxRecords(t, d) > 50}

misdeclaredConsequences(m, t) ==
  {d \in m.attached : maxRecords(t, d) > 2 * declaredRecords(m, d) /\ maxRecords(t, d) > 50}

\* What an agent was on the route for.
actionsUsed(t, g) == {t[k].deed : k \in {k \in DOMAIN t : g \in t[k].agents}}

\* Mutant: also an authority that names its actions is narrowed to those used.
NarrowEvery(m, t) == {g \in Acting : Len(t) >= Enough /\ actionsUsed(t, g) # {}}

unusedAuthority(m, t) ==
  {g \in Acting : Len(t) >= Enough /\ Wildcard \in m.authority[g] /\ actionsUsed(t, g) # {}}

\* applyProposal of what learn proposes: an added action is listed, without a level,
\* and attached if its tool is known; then the updates.
applyProposal(m, t) ==
  [level |-> [d \in Deeds |->
                IF d \in misdeclaredConsequences(m, t) THEN maxRecords(t, d)
                ELSE IF d \in undeclaredActions(m, t) THEN declaredRecords(m, d)
                ELSE m.level[d]],
   attached |-> m.attached \cup (undeclaredActions(m, t) \cap toolFor(t)),
   authority |-> [g \in Acting |-> IF g \in unusedAuthority(m, t) THEN actionsUsed(t, g)
                                   ELSE m.authority[g]]]

-----------------------------------------------------------------------------
(* The steps. *)

\* A learn is about to write what this run has no part in, or has read another manifest.
Pending(l) ==
  \/ learns[l].phase \in {"read", "writing"}
  \/ learns[l].phase = "loaded" /\ learns[l].manifest # manifest

\* A run of an action leaves a receipt; the agent is on it if it may take the route.
Protect(g, d, level) ==
  /\ manifest # Broken
  /\ Len(trail) < MaxReceipts
  /\ trail' = Append(trail, [deed |-> d, level |-> level,
                             agents |-> IF d \in manifest.attached /\ holdsAuthority(manifest, g, d)
                                        THEN {g} ELSE {}])
  /\ during' = IF \E l \in Learns : Pending(l) THEN during \cup {Len(trail) + 1} ELSE during
  /\ UNCHANGED <<manifest, learns, edited, edits, lost>>

\* loadGraph; a torn manifest does not parse.
ReadManifest(l) ==
  /\ learns[l].phase = "idle"
  /\ learns' = [learns EXCEPT ![l] =
       IF manifest = Broken THEN [@ EXCEPT !.phase = "ended"]
       ELSE [phase |-> "loaded", manifest |-> manifest, receipts |-> 0, edits |-> edits]]
  /\ UNCHANGED <<manifest, trail, edited, edits, lost, during>>

ReadReceipts(l) ==
  /\ learns[l].phase = "loaded"
  /\ learns' = [learns EXCEPT ![l].phase = "read", ![l].receipts = Len(trail)]
  /\ UNCHANGED <<manifest, trail, edited, edits, lost, during>>

Trail(l) == SubSeq(trail, 1, learns[l].receipts)

\* toManifestProposal is empty.
NothingLearnt(m, t) == undeclaredActions(m, t) \cup misdeclaredConsequences(m, t) \cup unusedAuthority(m, t) = {}

\* Nothing to apply, or writeManifest opens the file.
Open(l) ==
  /\ learns[l].phase = "read"
  /\ IF NothingLearnt(learns[l].manifest, Trail(l))
     THEN learns' = [learns EXCEPT ![l].phase = "ended"] /\ UNCHANGED manifest
     ELSE learns' = [learns EXCEPT ![l].phase = "writing"] /\ manifest' = Broken
  /\ UNCHANGED <<trail, edited, edits, lost, during>>

Write(l) ==
  /\ learns[l].phase = "writing"
  /\ manifest' = applyProposal(learns[l].manifest, Trail(l))
  /\ learns' = [learns EXCEPT ![l].phase = "ended"]
  /\ lost' = (lost \/ learns[l].edits < edits)
  /\ UNCHANGED <<trail, edited, edits, during>>

\* The process ends and leaves a torn file; before, it is as if it paused for good.
Die(l) ==
  /\ learns[l].phase = "writing"
  /\ learns' = [learns EXCEPT ![l].phase = "ended"]
  /\ UNCHANGED <<manifest, trail, edited, edits, lost, during>>

\* pctr.json is edited, or restored.
Edit(m) ==
  /\ edits < MaxEdits
  /\ manifest' = m /\ edited' = m /\ edits' = edits + 1
  /\ UNCHANGED <<trail, learns, lost, during>>

LearningNext ==
  \/ \E l \in Learns : ReadManifest(l) \/ ReadReceipts(l) \/ Open(l) \/ Write(l) \/ Die(l)
  \/ \E g \in Acting, d \in Deeds : \E level \in Levels[d] : Protect(g, d, level)
  \/ \E m \in ByHand : Edit(m)

LearningSpec == LearningInit /\ [][LearningNext]_learning

-----------------------------------------------------------------------------
(* Properties. *)

\* However many learns are in progress together, no agent holds an authority that the
\* last edit did not give it, one that names its actions is left alone, no action has a
\* lower level, and none has left the tool, unless a learn wrote back what it had read
\* before that edit.
OnlyTightens ==
  manifest # Broken /\ ~lost =>
    /\ \A g \in Acting, d \in Deeds : holdsAuthority(manifest, g, d) => holdsAuthority(edited, g, d)
    /\ \A g \in Acting : Wildcard \notin edited.authority[g] => manifest.authority[g] = edited.authority[g]
    /\ \A d \in Deeds : declaredRecords(edited, d) <= declaredRecords(manifest, d)
    /\ edited.attached \subseteq manifest.attached

\* An agent keeps the authority for what it did, unless it did it while a learn that
\* had read the receipts was about to write, or one in progress had read a manifest
\* that has been replaced since.
KeepsUsed ==
  manifest # Broken /\ ~lost =>
    \A k \in DOMAIN trail \ during : \A g \in trail[k].agents :
      holdsAuthority(edited, g, trail[k].deed) => holdsAuthority(manifest, g, trail[k].deed)

\* What concurrent learns may make of a manifest.
LearningInv == OnlyTightens /\ KeepsUsed

\* Learning twice learns everything and then rests: every action that took a route is
\* in the graph, none affects more than twice the records it declares, unless at most
\* 50, and an agent that was used holds no authority for every action.
LearnsInTwo ==
  manifest # Broken =>
    LET m == applyProposal(applyProposal(manifest, trail), trail)
    IN  /\ applyProposal(m, trail) = m
        /\ toolFor(trail) \subseteq m.attached
        /\ \A d \in m.attached :
             maxRecords(trail, d) <= 50 \/ maxRecords(trail, d) <= 2 * declaredRecords(m, d)
        /\ \A g \in Acting : Len(trail) >= Enough /\ actionsUsed(trail, g) # {} => Wildcard \notin m.authority[g]
=============================================================================
