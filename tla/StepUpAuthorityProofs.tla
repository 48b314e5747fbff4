------------------------ MODULE StepUpAuthorityProofs ------------------------
(***************************************************************************)
(* Proofs about StepUpAuthority, for every number of processes, requests,  *)
(* changes, grants and crashes: the inductive invariant IInv, from which   *)
(* type correctness and AtMostOnePermit follow; the implementation of the   *)
(* one-shot redemption OneShotRedemption; and the invariant LedgerIInv of    *)
(* the receipt file, from which follow what answers, permits and grants of   *)
(* permits rest on.                                                          *)
(***************************************************************************)
EXTENDS StepUpAuthority, TLAPS

USE DEF vars, serviceVars, ledgerVars, replayVars, handlerVars,
        Statuses, Running, Live, Stages, Actions, Decisions

LEMMA TypeInit == Init => IInv
<1> SUFFICES ASSUME Init PROVE IInv
  OBVIOUS
<1>1. TypeOK
  <2>1. << >> \in Seq(Receipt) /\ 0 \in 0..Len(<< >>)
    OBVIOUS
  <2>2. grants \in [Procs -> GrantTables \cup {None}]
    BY DEF Init
  <2> QED
    BY <2>1, <2>2 DEF Init, TypeOK
<1>2. \A r \in Requests : StageInv(r) /\ ~Claims(r)
  BY StepUpAssumption DEF Init, StageInv, Claims, Permitted
<1> QED
  BY <1>1, <1>2 DEF IInv

LEMMA ExitTypes ==
  ASSUME TypeOK, NEW ps, Exit(ps)
  PROVE  /\ status' \in [Procs -> Statuses]
         /\ grants' \in [Procs -> GrantTables \cup {None}]
         /\ memory' \in [Procs -> Seq(Receipt)]
<1>1. << >> \in Seq(Receipt)
  OBVIOUS
<1>2. status' \in [Procs -> Statuses]
  BY DEF Exit, TypeOK
<1>3. grants' \in [Procs -> GrantTables \cup {None}]
  BY DEF Exit, TypeOK
<1>4. memory' \in [Procs -> Seq(Receipt)]
  BY <1>1 DEF Exit, TypeOK
<1> QED
  BY <1>2, <1>3, <1>4

\* Steps that leave every handler and every ".spent" file alone.
LEMMA QuietStep ==
  ASSUME IInv, TypeOK', UNCHANGED <<handlerVars, replayVars>>,
         disk # << >> => disk' # << >>
  PROVE  IInv'
<1>1. \A r \in Requests : StageInv(r)'
  BY DEF IInv, StageInv, Permitted
<1>2. \A r \in Requests : Claims(r)' <=> Claims(r)
  BY DEF Claims, Permitted
<1> QED
  BY <1>1, <1>2 DEF IInv

LEMMA QuietTypes ==
  ASSUME IInv,
         \/ \E p \in Procs : OpenLock(p) \/ LoadLedger(p) \/ RefuseLedger(p)
                             \/ Shutdown(p) \/ CloseLedger(p)
         \/ RecoverLock \/ GitHubChanges \/ Tick
  PROVE  /\ TypeOK' /\ UNCHANGED <<handlerVars, replayVars>>
         /\ disk' = disk
<1> USE DEF IInv, TypeOK
<1>1. ASSUME NEW p \in Procs, OpenLock(p) PROVE TypeOK'
  BY <1>1 DEF OpenLock
<1>2. ASSUME NEW p \in Procs, LoadLedger(p) PROVE TypeOK'
  BY <1>2 DEF LoadLedger
<1>3. ASSUME NEW p \in Procs, RefuseLedger(p) PROVE TypeOK'
  BY <1>3, ExitTypes DEF RefuseLedger
<1>4. ASSUME NEW p \in Procs, Shutdown(p) PROVE TypeOK'
  BY <1>4 DEF Shutdown
<1>5. ASSUME NEW p \in Procs, CloseLedger(p) PROVE TypeOK'
  BY <1>5, ExitTypes DEF CloseLedger
<1>6. CASE RecoverLock BY <1>6 DEF RecoverLock
<1>7. CASE GitHubChanges BY <1>7 DEF GitHubChanges
<1>8. CASE Tick BY <1>8 DEF Tick
<1>9. UNCHANGED <<handlerVars, replayVars, disk>>
  BY DEF OpenLock, LoadLedger, RefuseLedger, Shutdown, CloseLedger,
         RecoverLock, GitHubChanges, Tick
<1> QED
  BY <1>1, <1>2, <1>3, <1>4, <1>5, <1>6, <1>7, <1>8, <1>9

\* A step of one handler: it must restore what its stage establishes, and claim
\* nothing another handler has claimed.
LEMMA HandlerStep ==
  ASSUME IInv, TypeOK', NEW r \in Requests, StageInv(r)',
         \A s \in Requests \ {r} :
           /\ pc'[s] = pc[s] /\ call'[s] = call[s]
           /\ verdict'[s] = verdict[s] /\ reply'[s] = reply[s],
         spent \subseteq spent', spentSynced \subseteq spentSynced',
         disk # << >> => disk' # << >>,
         Claims(r)' => \A s \in Requests \ {r} :
                         Claims(s) => call[s].prior # call'[r].prior
  PROVE  IInv'
<1>1. ASSUME NEW s \in Requests \ {r} PROVE StageInv(s)'
  BY <1>1 DEF IInv, StageInv, Permitted
<1>2. ASSUME NEW s \in Requests \ {r}
      PROVE  Claims(s)' = Claims(s) /\ call'[s] = call[s]
  BY <1>2 DEF Claims, Permitted
<1>3. ASSUME NEW s \in Requests, NEW t \in Requests,
             Claims(s)', Claims(t)', call'[s].prior = call'[t].prior
      PROVE  s = t
  BY <1>2, <1>3 DEF IInv
<1> QED
  BY <1>1, <1>3 DEF IInv

LEMMA ConcludeStep ==
  ASSUME IInv, NEW r \in Requests, pc[r] \in {"lookup", "spending"},
         NEW d \in {"DENY", "ESCALATE"}, Conclude(r, d)
  PROVE  IInv'
<1>1. TypeOK'
  BY DEF IInv, TypeOK, Conclude
<1>2. StageInv(r)' /\ ~Claims(r)'
  BY StepUpAssumption DEF IInv, TypeOK, StageInv, Claims, Permitted, Conclude
<1> QED
  BY <1>1, <1>2, HandlerStep DEF Conclude, IInv, TypeOK

LEMMA DecideStep ==
  ASSUME IInv, NEW p \in Procs, NEW r \in Requests, Decide(p, r)
  PROVE  IInv'
<1> USE DEF IInv, TypeOK
<1>1. PICK q \in Inputs :
        /\ call' = [call EXCEPT ![r] =
             [by |-> p, action |-> q.action, change |-> q.change,
              grant |-> q.grant, prior |-> q.prior, reviewer |-> q.reviewer,
              actor |-> q.actor, at |-> now,
              fresh |-> GrantValid(grants[p][q.grant], q)
                          /\ AttestationFresh(grants[p][q.grant])]]
        /\ \/ /\ pc' = [pc EXCEPT ![r] = "appending"]
              /\ verdict' = [verdict EXCEPT ![r] = "DENY"]
           \/ /\ q.action = Reauthorize /\ MayRedeem(p, q)
              /\ pc' = [pc EXCEPT ![r] = "lookup"]
              /\ verdict' = verdict
           \/ /\ q.action # Reauthorize
              /\ pc' = [pc EXCEPT ![r] = "appending"]
              /\ verdict' = [verdict EXCEPT ![r] =
                               PolicyVerdict(grants[p][q.grant], q)]
  BY DEF Decide
<1>2. q \in Input
  BY StepUpAssumption
<1>3. call'[r] \in Call
  BY <1>1, <1>2 DEF Input, Call
<1>4. PolicyVerdict(grants[p][q.grant], q) \in Decisions
  BY DEF PolicyVerdict
<1>5. TypeOK'
  <2>1. call' \in [Requests -> Call \cup {None}]
    BY <1>1, <1>3
  <2>2. pc' \in [Requests -> Stages]
    BY <1>1
  <2>3. verdict' \in [Requests -> Decisions \cup {None}]
    BY <1>1, <1>4
  <2> QED
    BY <2>1, <2>2, <2>3 DEF Decide
<1>6. MayRedeem(p, q) => q.prior \in Requests
  <2>1. ASSUME NEW i \in 1..Len(memory[p])
        PROVE  memory[p][i].id \in Requests
    <3>1. memory[p] \in Seq(Receipt)
      OBVIOUS
    <3>2. memory[p][i] \in Receipt
      BY ONLY <2>1, <3>1
    <3> QED
      BY ONLY <3>2 DEF Receipt
  <2> QED
    BY <2>1 DEF MayRedeem, Redeemable
<1>7. pc[r] = "idle" /\ verdict[r] = None /\ reply[r] = None
  BY DEF Decide, StageInv
<1>8. StageInv(r)' /\ ~Claims(r)'
  <2>1. /\ call'[r] \in Call /\ call'[r].action = q.action /\ call'[r].prior = q.prior
        /\ reply' = reply
    BY <1>1, <1>3 DEF Decide
  <2>2. \/ /\ pc'[r] = "appending" /\ verdict'[r] \in Decisions
           /\ verdict'[r] = "DENY" \/ q.action # Reauthorize
        \/ /\ pc'[r] = "lookup" /\ verdict'[r] = None
           /\ q.action = Reauthorize /\ q.prior \in Requests
    BY <1>1, <1>4, <1>6, <1>7
  <2>3. None \notin Decisions
    BY StepUpAssumption
  <2>4. "DENY" # "PERMIT" /\ None # "PERMIT" /\ reply'[r] = None
    BY <1>7, <2>1, <2>3
  <2> QED
    BY ONLY <2>1, <2>2, <2>4 DEF StageInv, Claims, Permitted
<1>9. /\ \A s \in Requests \ {r} :
             pc'[s] = pc[s] /\ call'[s] = call[s] /\ verdict'[s] = verdict[s]
      /\ UNCHANGED <<now, serviceVars, ledgerVars, replayVars, reply, approvals, crashes>>
  BY <1>1 DEF Decide
<1> QED
  BY <1>5, <1>8, <1>9, HandlerStep DEF serviceVars, ledgerVars, replayVars

LEMMA SpendStep ==
  ASSUME IInv, NEW r \in Requests, SpendCreate(r) \/ SpendSync(r)
  PROVE  IInv'
<1> USE DEF IInv, TypeOK
<1>1. CASE SpendCreate(r)
  <2>1. pc[r] = "lookup" /\ call[r].prior \in Requests
    BY <1>1 DEF SpendCreate, Resumes, StageInv
  <2>2. TypeOK'
    BY <1>1, <2>1 DEF SpendCreate
  <2>3. StageInv(r)'
    BY <1>1, <2>1, StepUpAssumption
       DEF SpendCreate, StageInv, Permitted
  <2>4. ASSUME NEW s \in Requests, Claims(s)
        PROVE  call[s].prior \in spent
    BY <2>4 DEF Claims, StageInv
  <2> QED
    BY <1>1, <2>2, <2>3, <2>4, HandlerStep DEF SpendCreate
<1>2. CASE SpendSync(r)
  <2>1. pc[r] = "spending" /\ call[r].prior \in spent /\ Claims(r)
    BY <1>2 DEF SpendSync, StageInv, Claims
  <2>2. TypeOK'
    BY <1>2, <2>1 DEF SpendSync
  <2>3. StageInv(r)'
    BY <1>2, <2>1, StepUpAssumption DEF SpendSync, StageInv, Permitted
  <2> QED
    BY <1>2, <2>1, <2>2, <2>3, HandlerStep DEF SpendSync
<1> QED
  BY <1>1, <1>2

LEMMA FinalizedType ==
  ASSUME IInv, NEW r \in Requests, pc[r] = "appending"
  PROVE  Finalized(r) \in Receipt
<1> USE DEF IInv, TypeOK
<1>1. call[r] \in Call /\ verdict[r] \in Decisions
  BY DEF StageInv
<1>2. LastId(memory[call[r].by]) \in Requests \cup {None}
  <2>1. memory[call[r].by] \in Seq(Receipt)
    BY <1>1 DEF Call
  <2> DEFINE log == memory[call[r].by]
  <2>2. CASE log = << >>
    BY <2>2 DEF LastId
  <2>3. CASE log # << >>
    <3>1. log[Len(log)] \in Receipt
      BY <2>1, <2>3
    <3> QED
      BY <2>3, <3>1 DEF LastId, Receipt
  <2> QED
    BY <2>2, <2>3
<1> QED
  BY <1>1, <1>2 DEF Finalized, Receipt, Call

LEMMA AppendStep ==
  ASSUME IInv, NEW r \in Requests,
         \/ AppendRefused(r) \/ AppendShort(r) \/ AppendWrite(r)
         \/ AppendSync(r) \/ AppendUnsynced(r)
  PROVE  IInv'
<1> USE DEF IInv, TypeOK, Answer
<1>1. pc[r] \in {"appending", "syncing"} /\ verdict[r] \in Decisions
      /\ call[r] \in Call /\ reply[r] = None
  BY DEF AppendRefused, AppendShort, AppendWrite, AppendSync, AppendUnsynced,
         StageInv
<1>2. CASE AppendRefused(r) \/ AppendUnsynced(r)
  <2>1. TypeOK'
    BY <1>2 DEF AppendRefused, AppendUnsynced
  <2>2. StageInv(r)' /\ (Claims(r)' => Claims(r))
    BY <1>1, <1>2, StepUpAssumption
       DEF AppendRefused, AppendUnsynced, StageInv, Claims, Permitted, Unavailable
  <2> QED
    BY <1>2, <2>1, <2>2, HandlerStep DEF AppendRefused, AppendUnsynced
<1>3. CASE AppendShort(r)
  <2>1. TypeOK'
    BY <1>3 DEF AppendShort
  <2>2. StageInv(r)' /\ (Claims(r)' => Claims(r))
    BY <1>1, <1>3, StepUpAssumption
       DEF AppendShort, StageInv, Claims, Permitted, Unavailable
  <2> QED
    BY <1>3, <2>1, <2>2, HandlerStep DEF AppendShort
<1>4. CASE AppendWrite(r)
  <2>1. disk' \in Seq(Receipt) /\ Len(disk') = Len(disk) + 1
    BY <1>4, FinalizedType DEF AppendWrite
  <2>2. disk' # << >> /\ synced \in 0..Len(disk')
    BY <2>1
  <2>3. pc' = [pc EXCEPT ![r] = "syncing"]
    BY <1>4 DEF AppendWrite
  <2>4. UNCHANGED <<now, serviceVars, lock, torn, synced, replayVars, call,
                    verdict, reply, approvals, crashes>>
    BY <1>4 DEF AppendWrite
  <2>5. TypeOK'
    BY <2>1, <2>2, <2>3, <2>4
  <2>6. StageInv(r)' /\ (Claims(r)' => Claims(r))
    BY <1>1, <2>2, <2>3, <2>4, StepUpAssumption DEF StageInv, Claims, Permitted
  <2> QED
    BY <2>2, <2>3, <2>4, <2>5, <2>6, HandlerStep
<1>5. CASE AppendSync(r)
  <2>1. disk # << >> /\ disk[Len(disk)] \in Receipt
    BY <1>5 DEF AppendSync, StageInv
  <2>2. memory' \in [Procs -> Seq(Receipt)]
    <3>1. call[r].by \in Procs
      BY <1>1 DEF Call
    <3>2. Append(memory[call[r].by], disk[Len(disk)]) \in Seq(Receipt)
      BY <2>1, <3>1
    <3> QED
      BY <1>5, <3>1, <3>2 DEF AppendSync
  <2>3. TypeOK'
    <3>1. pc' \in [Requests -> Stages]
      BY <1>5 DEF AppendSync
    <3>2. reply' \in [Requests -> Decisions \cup {None, Unavailable}]
      BY <1>1, <1>5 DEF AppendSync
    <3>3. Len(disk) \in 0..Len(disk)
      OBVIOUS
    <3> QED
      BY <1>5, <2>2, <3>1, <3>2, <3>3 DEF AppendSync
  <2>4. StageInv(r)' /\ (Claims(r)' => Claims(r))
    BY <1>1, <1>5, StepUpAssumption
       DEF AppendSync, StageInv, Claims, Permitted
  <2> QED
    BY <1>5, <2>3, <2>4, HandlerStep DEF AppendSync
<1> QED
  BY <1>2, <1>3, <1>4, <1>5

\* Crashes take handlers off the stack and records off the disk, never a synced
\* ".spent" file.
LEMMA CrashStep ==
  ASSUME IInv, NEW p \in Procs, Crash(p)
  PROVE  IInv'
<1> USE DEF IInv, TypeOK
<1>1. TypeOK'
  BY ExitTypes DEF Crash, Kill
<1>2. ASSUME NEW r \in Requests
      PROVE  StageInv(r)' /\ (Claims(r)' => Claims(r)) /\ call'[r] = call[r]
  BY StepUpAssumption DEF Crash, Kill, StageInv, Claims, Permitted
<1> QED
  BY <1>1, <1>2

LEMMA PowerLossStep ==
  ASSUME IInv, PowerLoss
  PROVE  IInv'
<1> USE DEF IInv, TypeOK
<1>1. PICK n \in synced..Len(disk) :
        disk' = SubSeq(disk, 1, n) /\ synced' = n /\ torn' \in BOOLEAN
  BY DEF PowerLoss
<1>2. disk' \in Seq(Receipt) /\ Len(disk') = n /\ n \in Nat
  <2>1. n \in 0..Len(disk)
    OBVIOUS
  <2>2. \A i \in 1..n : disk[i] \in Receipt
    BY <2>1
  <2> QED
    BY <1>1, <2>1, <2>2
<1>3. spentSynced \subseteq spent' /\ spent' \subseteq spent /\ spentSynced' = spent'
  BY DEF PowerLoss
<1>4. TypeOK'
  <2>1. Exit(Procs) /\ pc' \in [Requests -> Stages]
    BY DEF PowerLoss, Kill
  <2>2. UNCHANGED <<now, call, verdict, reply, approvals>> /\ crashes' \in Nat
    BY DEF PowerLoss, Kill
  <2>3. lock' \in BOOLEAN
    BY ZenonT(30) DEF PowerLoss
  <2>4. synced' \in 0..Len(disk')
    <3>1. synced' = n
      BY <1>1
    <3> QED
      BY ONLY <1>2, <3>1
  <2>5. /\ status' \in [Procs -> Statuses]
        /\ grants' \in [Procs -> GrantTables \cup {None}]
        /\ memory' \in [Procs -> Seq(Receipt)]
    BY ONLY TypeOK, <2>1, ExitTypes
  <2>6. spent' \subseteq Requests /\ spentSynced' \subseteq spent'
    BY <1>3
  <2> QED
    BY <1>1, <1>2, <2>1, <2>2, <2>3, <2>4, <2>5, <2>6
<1>5. ASSUME NEW r \in Requests
      PROVE  pc'[r] \notin Live
    BY DEF PowerLoss, Kill, StageInv, Call
<1>6. ASSUME NEW r \in Requests
      PROVE  StageInv(r)' /\ (Claims(r)' => Claims(r)) /\ call'[r] = call[r]
  BY <1>3, <1>5, StepUpAssumption
     DEF PowerLoss, Kill, StageInv, Claims, Permitted
<1> QED
  BY <1>4, <1>6

LEMMA InductiveStep ==
  ASSUME IInv, [Next]_vars
  PROVE  IInv'
<1>1. CASE UNCHANGED vars
  BY <1>1 DEF IInv, TypeOK, StageInv, Claims, Permitted
<1>2. ASSUME NEW p \in Procs, NEW r \in Requests, Decide(p, r) PROVE IInv'
  BY <1>2, DecideStep
<1>3. ASSUME NEW r \in Requests, Handle(r) PROVE IInv'
  <2>1. CASE LookupRefused(r) \/ LookupStale(r) \/ SpendRefused(r) \/ SpendFail(r)
    BY <2>1, ConcludeStep
       DEF LookupRefused, LookupStale, SpendRefused, SpendFail, Resumes
  <2> QED
    BY <1>3, <2>1, SpendStep, AppendStep DEF Handle
<1>4. ASSUME NEW p \in Procs, Crash(p) PROVE IInv'
  BY <1>4, CrashStep
<1>5. CASE PowerLoss
  BY <1>5, PowerLossStep
<1>6. CASE \/ \E p \in Procs : OpenLock(p) \/ LoadLedger(p) \/ RefuseLedger(p)
                              \/ Shutdown(p) \/ CloseLedger(p)
           \/ RecoverLock \/ GitHubChanges \/ Tick
  BY <1>6, QuietTypes, QuietStep
<1> QED
  BY <1>1, <1>2, <1>3, <1>4, <1>5, <1>6 DEF Next

\* The inductive invariant holds: every handler's stage has established what the
\* next one relies on, and no two handlers claim one receipt.
THEOREM Invariance == Spec => []IInv
  BY TypeInit, InductiveStep, PTL DEF Spec

\* The model is well typed.
THEOREM TypeCorrect == Spec => []TypeOK
<1>1. IInv => TypeOK
  BY DEF IInv
<1> QED
  BY <1>1, Invariance, PTL

\* One STEP_UP or ESCALATE receipt yields at most one PERMIT, whatever the
\* number of processes, concurrent requests, crashes and power losses
\* (index.ts 178-184, replayLedger.ts 13-53).
THEOREM RedeemedOnce == Spec => []AtMostOnePermit
<1>1. IInv => AtMostOnePermit
  BY DEF IInv, AtMostOnePermit, Claims
<1> QED
  BY <1>1, Invariance, PTL

------------------------------------------------------------------------------
(* The one-shot redemption is implemented.                                 *)

Redeemers == {r \in Requests : reply[r] = "PERMIT" /\ call[r].action = Reauthorize}

LEMMA SameAnswers ==
  ASSUME IInv,
         \A r \in Requests : (reply'[r] = "PERMIT" <=> reply[r] = "PERMIT")
                              /\ (call'[r] = call[r] \/ reply[r] = None)
  PROVE  Redeemers' = Redeemers
         /\ {call[r].prior : r \in Redeemers}' = {call[r].prior : r \in Redeemers}
<1>1. None # "PERMIT"
  BY StepUpAssumption
<1> QED
  BY <1>1 DEF Redeemers

\* Only AppendSync answers PERMIT, and only a power loss or SpendSync makes a
\* redemption durable; every other step is invisible to the caller's contract.
LEMMA RedemptionStep ==
  ASSUME IInv, [Next]_vars
  PROVE  [Redemption!Next]_(Redemption!vars)
<1> DEFINE permitted == {call[r].prior : r \in Redeemers}
<1> USE DEF Redemption!Next, Redemption!vars, Redemption!Spend, Redemption!Permit, Redeemers
<1>1. ASSUME NEW r \in Requests, AppendSync(r)
      PROVE  [Redemption!Next]_(Redemption!vars)
  <2>1. /\ pc[r] = "syncing" /\ call' = call /\ spentSynced' = spentSynced
        /\ reply' = [reply EXCEPT ![r] = verdict[r]]
    BY <1>1 DEF AppendSync, Answer
  <2>2. reply[r] = None /\ None # "PERMIT"
    BY <2>1, StepUpAssumption DEF IInv, StageInv
  <2>3. CASE Permitted(r)
    <3>1. Redeemers' = Redeemers \cup {r} /\ r \notin Redeemers
      BY <2>1, <2>2, <2>3 DEF Permitted, IInv, TypeOK
    <3>2. call[r].prior \in spentSynced /\ call[r].prior \in Requests
      BY <2>3 DEF IInv, StageInv, TypeOK
    <3>3. ASSUME NEW s \in Redeemers PROVE call[s].prior # call[r].prior
      BY <2>3, <3>1, <3>3 DEF IInv, StageInv, Claims, Permitted
    <3>4. permitted' = permitted \cup {call[r].prior}
          /\ call[r].prior \notin permitted
      BY ONLY <2>1, <3>1, <3>3
    <3> QED
      BY <2>1, <3>1, <3>2, <3>4
  <2>4. CASE ~Permitted(r)
    <3>1. Redeemers' = Redeemers
      BY <2>1, <2>2, <2>4 DEF Permitted, IInv, TypeOK
    <3> QED
      BY <2>1, <3>1
  <2> QED
    BY <2>3, <2>4
<1>2. ASSUME \A r \in Requests : (reply'[r] = "PERMIT" <=> reply[r] = "PERMIT")
                                 /\ (call'[r] = call[r] \/ reply[r] = None),
             spentSynced \subseteq spentSynced'
      PROVE  [Redemption!Next]_(Redemption!vars)
  <2>1. Redeemers' = Redeemers /\ permitted' = permitted
    BY <1>2, SameAnswers
  <2>2. spentSynced' \subseteq Requests
    BY InductiveStep DEF IInv, TypeOK
  <2>3. spentSynced' = spentSynced \cup (spentSynced' \ spentSynced)
    BY <1>2
  <2> QED
    BY <1>2, <2>1, <2>2, <2>3
<1>3. CASE UNCHANGED vars
  BY <1>2, <1>3
<1>4. ASSUME NEW p \in Procs, NEW r \in Requests, Decide(p, r)
      PROVE  [Redemption!Next]_(Redemption!vars)
  <2>1. reply[r] = None /\ reply' = reply /\ spentSynced' = spentSynced
        /\ \A s \in Requests \ {r} : call'[s] = call[s]
    BY <1>4 DEF Decide, IInv, TypeOK, StageInv
  <2> QED
    BY <1>2, <2>1
<1>5. ASSUME NEW r \in Requests, Handle(r), ~AppendSync(r)
      PROVE  [Redemption!Next]_(Redemption!vars)
  <2>1. call' = call /\ spentSynced \subseteq spentSynced'
    BY <1>5 DEF Handle, LookupRefused, LookupStale, SpendRefused, SpendCreate,
       SpendSync, SpendFail, AppendRefused, AppendShort, AppendWrite,
       AppendUnsynced, Conclude
  <2>2. reply' = reply \/ (reply' = [reply EXCEPT ![r] = Unavailable] /\ pc[r] # "done")
    BY <1>5 DEF Handle, LookupRefused, LookupStale, SpendRefused, SpendCreate,
       SpendSync, SpendFail, AppendRefused, AppendShort, AppendWrite,
       AppendUnsynced, Conclude, Answer
  <2>3. pc[r] # "done" => reply[r] # "PERMIT"
    BY StepUpAssumption DEF IInv, StageInv
  <2>4. \A s \in Requests : reply'[s] = "PERMIT" <=> reply[s] = "PERMIT"
    BY <2>2, <2>3 DEF IInv, TypeOK, Unavailable
  <2> QED
    BY <1>2, <2>1, <2>4
<1>6. CASE \/ \E p \in Procs : OpenLock(p) \/ LoadLedger(p) \/ RefuseLedger(p)
                              \/ Shutdown(p) \/ CloseLedger(p)
           \/ RecoverLock \/ GitHubChanges \/ Tick
  BY <1>2, <1>6, QuietTypes
<1>7. CASE PowerLoss \/ \E p \in Procs : Crash(p)
  <2>1. UNCHANGED <<call, reply>> /\ spentSynced \subseteq spentSynced'
    BY <1>7 DEF PowerLoss, Crash, Kill
  <2> QED
    BY <1>2, <2>1
<1> QED
  BY <1>1, <1>3, <1>4, <1>5, <1>6, <1>7 DEF Next

\* The two ledgers, the handlers and the crashes implement the one-shot
\* redemption: what is spent durably stays spent, and each redeemed receipt is
\* answered with PERMIT once (index.ts 178-184, 272-286).
THEOREM ImplementsRedemption == Spec => RedeemsOnce
<1>1. Init => Redemption!Init
  <2> SUFFICES ASSUME Init PROVE Redemption!Init
    OBVIOUS
  <2>1. \A r \in Requests : reply[r] # "PERMIT"
    BY StepUpAssumption DEF Init
  <2>2. spentSynced = {}
    BY DEF Init
  <2> QED
    BY <2>1, <2>2 DEF Redemption!Init
<1>2. IInv /\ [Next]_vars => [Redemption!Next]_(Redemption!vars)
  BY RedemptionStep
<1> QED
  BY <1>1, <1>2, Invariance, PTL DEF Spec, RedeemsOnce, Redemption!Spec
(* The receipt ledger: what is answered is kept, and what permits is backed.*)

Serves(p) == status[p] \in {"up", "closing"}

(* The lock file keeps a second process out; the one there is has a table.  *)
OneProcess ==
  \A p \in Procs : status[p] # "down" =>
    lock /\ grants[p] \in GrantTables /\ \A q \in Procs : status[q] # "down" => q = p

(* Synchronous code: one handler is on the stack.                           *)
OneRunning ==
  \A r, s \in Requests : pc[r] \in Running /\ pc[s] \in Running => r = s

(* A process remembers at least what is synced, as the file has it.         *)
MemoryIsPrefix ==
  \A p \in Procs : Serves(p) =>
    /\ synced <= Len(memory[p]) /\ Len(memory[p]) <= Len(disk)
    /\ \A i \in 1..Len(memory[p]) : memory[p][i] = disk[i]

(* ChainIntact, and the handlers of recorded receipts, record by record.    *)
Linked(log) ==
  \A i \in 1..Len(log) :
    /\ log[i].chain = IF i = 1 THEN None ELSE log[i - 1].id
    /\ \A j \in 1..(i - 1) : log[j].id # log[i].id

Recorded(log) == \A i \in 1..Len(log) : pc[log[i].id] \in {"syncing", "done", "lost"}

(* One record of the file fulfils PermitBacked.                             *)
Backed(log, i) ==
  log[i].action = Reauthorize /\ log[i].decision = "PERMIT" =>
    /\ log[i].reviewer \in Reviewers \ {Author[log[i].change]}
    /\ \E j \in 1..(i - 1) :
         /\ log[j].id = log[i].prior
         /\ log[j].action = Execute
         /\ log[j].decision \in {"STEP_UP", "ESCALATE"}
         /\ log[j].change = log[i].change
         /\ log[i].time <= log[j].time + PriorTtl + LookupTimeout

(* The receipt a handler may redeem, in the memory of its process.          *)
Prior(log, c) ==
  \E j \in 1..Len(log) :
    /\ log[j].id = c.prior
    /\ log[j].action = Execute
    /\ log[j].decision \in {"STEP_UP", "ESCALATE"}
    /\ log[j].change = c.change
    /\ c.at <= log[j].time + PriorTtl

(* The grant the handler found when it decided to look the review up.       *)
Held(g, c) ==
  /\ g # None /\ ~g.revoked /\ c.change \in g.covers
  /\ c.at < g.expiresAt
  /\ c.fresh => c.at <= g.verifiedAt + AttestTtl

(* What a handler that redeems a receipt has seen, up to its record.        *)
RedeemInv(r) ==
  LET c == call[r] IN
  /\ pc[r] \in {"lookup", "spending"} => Held(grants[c.by][c.grant], c)
  /\ pc[r] \in {"lookup", "spending"} \/ (pc[r] = "appending" /\ Permitted(r)) =>
       Prior(memory[c.by], c)
  /\ pc[r] = "spending" \/ (pc[r] = "appending" /\ Permitted(r)) =>
       c.fresh /\ c.reviewer \in Reviewers \ {Author[c.change]}

(* A handler lives in a process that serves, and its lookup ends in time.   *)
LiveInv(r) ==
  pc[r] \in Live =>
    Serves(call[r].by) /\ call[r].at <= now /\ now <= call[r].at + LookupTimeout

SyncingInv(r) ==
  pc[r] = "syncing" =>
    /\ Len(disk) = Len(memory[call[r].by]) + 1
    /\ disk[Len(disk)].id = r /\ disk[Len(disk)].decision = verdict[r]

LedgerIInv ==
  /\ OneProcess /\ OneRunning /\ MemoryIsPrefix
  /\ Linked(disk) /\ Recorded(disk) /\ AnsweredIsDurable
  /\ \A i \in 1..Len(disk) : Backed(disk, i)
  /\ \A r \in Requests : LiveInv(r) /\ SyncingInv(r) /\ RedeemInv(r)

LEMMA Linking ==
  ASSUME NEW log \in Seq(Receipt)
  PROVE  ChainIntact(log) <=> Linked(log)
<1>1. ASSUME NEW i \in 1..Len(log)
      PROVE  LastId(SubSeq(log, 1, i - 1)) = IF i = 1 THEN None ELSE log[i - 1].id
  <2> DEFINE head == SubSeq(log, 1, i - 1)
  <2>1. Len(head) = i - 1 /\ \A j \in 1..(i - 1) : head[j] = log[j]
    OBVIOUS
  <2>2. CASE i = 1
    <3>1. head = << >>
      BY <2>2
    <3> QED
      BY <2>2, <3>1 DEF LastId
  <2>3. CASE i # 1
    <3>1. i - 1 \in 1..(i - 1) /\ head # << >>
      BY <2>1, <2>3
    <3>2. head[Len(head)] = log[i - 1]
      BY <2>1, <3>1
    <3> QED
      BY <2>3, <3>1, <3>2 DEF LastId
  <2> QED
    BY <2>2, <2>3
<1> QED
  BY <1>1 DEF ChainIntact, Linked

\* A backed record needs only what is before it.
LEMMA BackedByPrefix ==
  ASSUME NEW log, NEW more, NEW i \in Nat, \A j \in 1..i : more[j] = log[j], i > 0,
         Backed(log, i)
  PROVE  Backed(more, i)
<1>1. more[i] = log[i] /\ \A j \in 1..(i - 1) : more[j] = log[j]
  OBVIOUS
<1> QED
  BY <1>1 DEF Backed

LEMMA LedgerTypes ==
  ASSUME IInv
  PROVE  /\ now \in Nat /\ {PriorTtl, AttestTtl, LookupTimeout} \subseteq Nat
         /\ disk \in Seq(Receipt) /\ Len(disk) \in Nat /\ synced \in 0..Len(disk)
         /\ \A i \in 1..Len(disk) : disk[i].id \in Requests
         /\ \A p \in Procs : memory[p] \in Seq(Receipt) /\ Len(memory[p]) \in Nat
         /\ \A r \in Requests : pc[r] # "idle" => call[r] \in Call /\ call[r].by \in Procs
<1>1. disk \in Seq(Receipt)
  BY DEF IInv, TypeOK
<1>2. \A i \in 1..Len(disk) : disk[i] \in Receipt
  BY <1>1
<1>3. \A i \in 1..Len(disk) : disk[i].id \in Requests
  BY <1>2 DEF Receipt
<1> QED
  BY <1>3, StepUpAssumption DEF IInv, TypeOK, StageInv, Call

LEMMA LedgerInit == Init => LedgerIInv
<1> SUFFICES ASSUME Init PROVE LedgerIInv
  OBVIOUS
<1>1. Len(disk) = 0
  BY DEF Init
<1>2. Linked(disk) /\ Recorded(disk) /\ \A i \in 1..Len(disk) : Backed(disk, i)
  BY <1>1 DEF Linked, Recorded
<1>3. \A r \in Requests : reply[r] \notin Decisions
  BY StepUpAssumption DEF Init
<1>4. \A r \in Requests : LiveInv(r) /\ SyncingInv(r) /\ RedeemInv(r)
  BY DEF Init, LiveInv, SyncingInv, RedeemInv
<1>5. OneProcess /\ OneRunning /\ MemoryIsPrefix
  BY DEF Init, OneProcess, OneRunning, MemoryIsPrefix, Serves
<1> QED
  BY <1>2, <1>3, <1>4, <1>5 DEF LedgerIInv, AnsweredIsDurable

\* Steps that leave the handlers and the file alone, and the processes that serve them.
LEMMA LedgerQuiet ==
  ASSUME IInv, IInv', LedgerIInv, UNCHANGED <<handlerVars, disk, synced>>,
         OneProcess', MemoryIsPrefix',
         \A r \in Requests : pc[r] \in Live =>
           LET p == call[r].by IN
           /\ Serves(p)' /\ memory'[p] = memory[p] /\ grants'[p] = grants[p]
           /\ now <= now' /\ now' <= call[r].at + LookupTimeout
  PROVE  LedgerIInv'
<1>1. OneRunning' /\ Linked(disk)' /\ Recorded(disk)' /\ AnsweredIsDurable'
      /\ \A i \in 1..Len(disk') : Backed(disk', i)
  BY DEF LedgerIInv, OneRunning, Linked, Recorded, AnsweredIsDurable, Backed
<1>2. ASSUME NEW r \in Requests PROVE LiveInv(r)'
  <2> SUFFICES ASSUME pc[r] \in Live
               PROVE  Serves(call[r].by)' /\ call[r].at <= now' /\ now' <= call[r].at + LookupTimeout
    BY DEF LiveInv, Serves
  <2>1. call[r].at \in Nat /\ call[r].at <= now /\ now \in Nat /\ now' \in Nat
    BY LedgerTypes DEF LedgerIInv, LiveInv, Call, IInv, TypeOK
  <2> QED
    BY <2>1
<1>3. ASSUME NEW r \in Requests PROVE SyncingInv(r)' /\ RedeemInv(r)'
  BY DEF LedgerIInv, SyncingInv, RedeemInv, Permitted
<1> QED
  BY <1>1, <1>2, <1>3 DEF LedgerIInv

\* Handlers on the stack or in a lookup are served by the one process there is.
LEMMA OneServer ==
  ASSUME IInv, LedgerIInv, NEW p \in Procs, status[p] # "down",
         NEW r \in Requests, pc[r] \in Live
  PROVE  call[r].by = p /\ OwnedBy(p, r) /\ Serves(p)
<1>1. call[r].by \in Procs /\ Serves(call[r].by)
  BY LedgerTypes DEF LedgerIInv, LiveInv
<1> QED
  BY <1>1 DEF LedgerIInv, OneProcess, Serves, OwnedBy

\* Starting, stopping and what happens outside.
LEMMA LedgerProcessStep ==
  ASSUME IInv, LedgerIInv,
         \/ \E p \in Procs : OpenLock(p) \/ LoadLedger(p) \/ RefuseLedger(p)
                             \/ Shutdown(p) \/ CloseLedger(p)
         \/ RecoverLock \/ GitHubChanges \/ Tick
  PROVE  LedgerIInv'
<1>1. IInv' /\ UNCHANGED <<handlerVars, disk>>
  BY QuietTypes, QuietStep
<1>2. synced' = synced
  BY DEF OpenLock, LoadLedger, RefuseLedger, Shutdown, CloseLedger, RecoverLock,
         GitHubChanges, Tick
<1>3. \A r \in Requests : pc[r] \in Live =>
        call[r].by \in Procs /\ Serves(call[r].by) /\ now <= call[r].at + LookupTimeout
  BY LedgerTypes DEF LedgerIInv, LiveInv
<1>4. now \in Nat /\ TypeOK
  BY DEF IInv, TypeOK
<1>5. ASSUME NEW p \in Procs, OpenLock(p) PROVE LedgerIInv'
  <2>1. ~lock /\ lock' /\ now' = now /\ memory' = memory /\ UNCHANGED <<disk, synced>>
        /\ \A q \in Procs \ {p} : status'[q] = status[q] /\ grants'[q] = grants[q]
    BY <1>4, <1>5 DEF OpenLock, TypeOK
  <2>2. status'[p] = "opening" /\ grants'[p] \in GrantTables
        /\ \A q \in Procs : status[q] = "down"
    BY <1>4, <1>5, <2>1 DEF OpenLock, TypeOK, LedgerIInv, OneProcess
  <2>3. OneProcess'
    BY <2>1, <2>2 DEF OneProcess
  <2>4. MemoryIsPrefix'
    BY <2>1, <2>2 DEF MemoryIsPrefix, Serves
  <2>5. \A r \in Requests : pc[r] \notin Live
    BY <1>3, <2>2 DEF Serves
  <2> QED
    BY <1>1, <1>2, <2>3, <2>4, <2>5, LedgerQuiet
<1>6. ASSUME NEW p \in Procs, LoadLedger(p) PROVE LedgerIInv'
  <2>1. /\ status[p] = "opening" /\ status'[p] = "up" /\ memory'[p] = disk /\ lock' = lock
        /\ UNCHANGED <<now, grants, disk, synced>>
        /\ \A q \in Procs \ {p} : status'[q] = status[q] /\ memory'[q] = memory[q]
    BY <1>4, <1>6 DEF LoadLedger, TypeOK
  <2>2. OneProcess'
    BY <2>1 DEF OneProcess, LedgerIInv
  <2>3. MemoryIsPrefix'
    <3>1. \A q \in Procs \ {p} : ~Serves(q)'
      BY <2>1 DEF LedgerIInv, OneProcess, Serves
    <3> QED
      BY <2>1, <3>1, LedgerTypes DEF MemoryIsPrefix
  <2>4. \A r \in Requests : pc[r] \notin Live
    BY <2>1, OneServer DEF Serves
  <2> QED
    BY <1>1, <1>2, <2>2, <2>3, <2>4, LedgerQuiet
<1>7. ASSUME NEW p \in Procs, RefuseLedger(p) \/ CloseLedger(p) PROVE LedgerIInv'
  <2>1. /\ status[p] # "down" /\ status'[p] = "down"
        /\ UNCHANGED <<now, disk, synced>>
        /\ \A q \in Procs \ {p} : status'[q] = status[q]
    BY <1>4, <1>7 DEF RefuseLedger, CloseLedger, Exit, TypeOK
  <2>2. \A q \in Procs : status'[q] = "down"
    BY <2>1 DEF LedgerIInv, OneProcess
  <2>3. \A r \in Requests : pc[r] \notin Live
    BY <1>7, <2>1, OneServer DEF RefuseLedger, CloseLedger, Serves
  <2>4. OneProcess' /\ MemoryIsPrefix'
    BY <2>2 DEF OneProcess, MemoryIsPrefix, Serves
  <2> QED
    BY <1>1, <1>2, <2>3, <2>4, LedgerQuiet
<1>8. ASSUME NEW p \in Procs, Shutdown(p) PROVE LedgerIInv'
  <2>1. /\ status[p] = "up" /\ status'[p] = "closing"
        /\ UNCHANGED <<now, grants, memory, lock, disk, synced>>
        /\ \A q \in Procs \ {p} : status'[q] = status[q]
    BY <1>4, <1>8 DEF Shutdown, TypeOK
  <2>2. \A q \in Procs : Serves(q)' <=> Serves(q)
    BY <2>1 DEF Serves
  <2>3. OneProcess' /\ MemoryIsPrefix'
    BY <2>1, <2>2 DEF LedgerIInv, OneProcess, MemoryIsPrefix
  <2> QED
    BY <1>1, <1>2, <1>3, <1>4, <2>1, <2>2, <2>3, LedgerQuiet
<1>9. CASE RecoverLock \/ GitHubChanges \/ Tick
  <2>1. UNCHANGED <<status, grants, memory, disk, synced>>
    BY <1>9 DEF RecoverLock, GitHubChanges, Tick
  <2>2. lock' = lock \/ \A p \in Procs : status[p] = "down"
    BY <1>9 DEF RecoverLock, GitHubChanges, Tick
  <2>3. OneProcess' /\ MemoryIsPrefix'
    BY <2>1, <2>2 DEF LedgerIInv, OneProcess, MemoryIsPrefix, Serves
  <2>4. ASSUME NEW r \in Requests, pc[r] \in Live
        PROVE  now <= now' /\ now' <= call[r].at + LookupTimeout
    <3>1. call[r].at \in Nat /\ LookupTimeout \in Nat
      BY <2>4, LedgerTypes DEF Call
    <3>2. CASE RecoverLock \/ GitHubChanges
      BY <1>3, <1>4, <2>4, <3>2 DEF RecoverLock, GitHubChanges
    <3>3. CASE Tick
      BY <1>4, <2>4, <3>1, <3>3 DEF Tick
    <3> QED
      BY <1>9, <3>2, <3>3
  <2> QED
    BY <1>1, <1>2, <1>3, <2>1, <2>3, <2>4, LedgerQuiet DEF Serves
<1> QED
  BY <1>5, <1>6, <1>7, <1>8, <1>9

\* A handler that runs alone, or resumes while none runs, and neither writes the file
\* nor is answered with a decision.
LEMMA LedgerHandlerStep ==
  ASSUME IInv, IInv', LedgerIInv, NEW r \in Requests, pc[r] \in Live,
         pc' = [pc EXCEPT ![r] = pc'[r]],
         pc'[r] \in {"spending", "appending", "done"},
         pc[r] = "lookup" => ~Busy(call[r].by),
         pc[r] = "syncing" => pc'[r] = "done",
         UNCHANGED <<now, serviceVars, lock, disk, synced, call>>,
         \A s \in Requests \ {r} : verdict'[s] = verdict[s] /\ reply'[s] = reply[s],
         reply'[r] \notin Decisions, RedeemInv(r)'
  PROVE  LedgerIInv'
<1>1. \A s \in Requests \ {r} : pc'[s] = pc[s]
  BY DEF IInv, TypeOK
<1>2. OneProcess' /\ MemoryIsPrefix' /\ Linked(disk)' /\ \A i \in 1..Len(disk') : Backed(disk', i)
  BY SMTT(30) DEF LedgerIInv, OneProcess, MemoryIsPrefix, Serves, Linked, Backed
<1>3. OneRunning'
  <2>1. ASSUME NEW s \in Requests \ {r}, pc[s] \in Running PROVE FALSE
    <3>1. call[r].by \in Procs /\ Serves(call[r].by)
      BY LedgerTypes DEF LedgerIInv, LiveInv
    <3>2. OwnedBy(call[r].by, s)
      BY <2>1, <3>1, OneServer DEF Serves
    <3>3. Busy(call[r].by)
      BY <2>1, <3>2 DEF Busy
    <3> QED
      BY <2>1, <3>3 DEF LedgerIInv, OneRunning
  <2> QED
    BY <1>1, <2>1 DEF OneRunning
<1>4. Recorded(disk)'
  BY <1>1, LedgerTypes DEF LedgerIInv, Recorded
<1>5. AnsweredIsDurable'
  BY DEF LedgerIInv, AnsweredIsDurable
<1>6. ASSUME NEW s \in Requests PROVE LiveInv(s)' /\ SyncingInv(s)' /\ RedeemInv(s)'
  <2>1. CASE s = r
    BY <2>1 DEF LedgerIInv, LiveInv, SyncingInv, Serves
  <2>2. CASE s # r
    BY <1>1, <2>2 DEF LedgerIInv, LiveInv, SyncingInv, RedeemInv, Permitted, Serves
  <2> QED
    BY <2>1, <2>2
<1> QED
  BY <1>2, <1>3, <1>4, <1>5, <1>6 DEF LedgerIInv

LEMMA LedgerMovesOn ==
  ASSUME IInv, LedgerIInv, NEW r \in Requests,
         \/ LookupRefused(r) \/ LookupStale(r) \/ SpendRefused(r) \/ SpendCreate(r)
         \/ SpendSync(r) \/ SpendFail(r)
         \/ AppendRefused(r) \/ AppendShort(r) \/ AppendUnsynced(r)
  PROVE  LedgerIInv'
<1>1. IInv'
  <2>1. Handle(r)
    BY DEF Handle
  <2> QED
    BY <2>1, InductiveStep DEF Next
<1>2. TypeOK /\ RedeemInv(r) /\ StageInv(r)
  BY DEF IInv, LedgerIInv
<1>3. reply[r] = None \/ pc[r] = "done"
  BY <1>2 DEF StageInv
<1>4. None \notin Decisions /\ Unavailable \notin Decisions
  BY StepUpAssumption DEF Unavailable
<1>5. CASE LookupRefused(r) \/ LookupStale(r) \/ SpendRefused(r) \/ SpendFail(r)
  <2>1. PICK d \in {"DENY", "ESCALATE"} : Conclude(r, d)
    BY <1>5 DEF LookupRefused, LookupStale, SpendRefused, SpendFail
  <2>2. pc[r] \in {"lookup", "spending"} /\ (pc[r] = "lookup" => ~Busy(call[r].by))
    BY <1>5 DEF LookupRefused, LookupStale, SpendRefused, SpendFail, Resumes
  <2>3. pc'[r] = "appending" /\ verdict'[r] = d /\ pc' = [pc EXCEPT ![r] = pc'[r]]
    BY <1>2, <2>1 DEF Conclude, TypeOK
  <2>4. RedeemInv(r)'
    BY <2>3 DEF RedeemInv, Permitted
  <2> QED
    BY <1>1, <1>2, <1>3, <1>4, <2>1, <2>2, <2>3, <2>4, LedgerHandlerStep DEF Conclude, TypeOK
<1>6. CASE SpendCreate(r)
  <2>1. pc[r] = "lookup" /\ ~Busy(call[r].by) /\ call[r].fresh /\ ReviewVerified(call[r])
    BY <1>6 DEF SpendCreate, Resumes
  <2>2. pc'[r] = "spending" /\ pc' = [pc EXCEPT ![r] = pc'[r]]
    BY <1>2, <1>6 DEF SpendCreate, TypeOK
  <2>3. call[r] \in Call /\ call[r].reviewer \in Reviewers \ {Author[call[r].change]}
    <3>1. call[r] \in Call /\ call[r].change \in Changes
      BY <1>2, <2>1 DEF StageInv, Call
    <3>2. approvals[call[r].change] \subseteq Reviewers
      BY <1>2, <3>1, StepUpAssumption DEF TypeOK
    <3> QED
      BY <2>1, <3>1, <3>2 DEF ReviewVerified
  <2>4. UNCHANGED <<grants, memory, call>>
    BY <1>6 DEF SpendCreate
  <2>5. RedeemInv(r)'
    BY <1>2, <2>1, <2>2, <2>3, <2>4 DEF RedeemInv
  <2> QED
    BY <1>1, <1>3, <1>4, <1>6, <2>1, <2>2, <2>5, LedgerHandlerStep DEF SpendCreate
<1>7. CASE SpendSync(r)
  <2>1. pc[r] = "spending" /\ UNCHANGED <<grants, memory, call>>
    BY <1>7 DEF SpendSync
  <2>2. pc'[r] = "appending" /\ pc' = [pc EXCEPT ![r] = pc'[r]]
    BY <1>2, <1>7 DEF SpendSync, TypeOK
  <2>3. RedeemInv(r)'
    BY <1>2, <2>1, <2>2 DEF RedeemInv
  <2> QED
    BY <1>1, <1>2, <1>3, <1>4, <1>7, <2>1, <2>2, <2>3, LedgerHandlerStep DEF SpendSync, TypeOK
<1>8. CASE AppendRefused(r) \/ AppendShort(r) \/ AppendUnsynced(r)
  <2>1. pc[r] \in {"appending", "syncing"} /\ reply'[r] = Unavailable
    BY <1>2, <1>8 DEF AppendRefused, AppendShort, AppendUnsynced, Answer, TypeOK
  <2>2. pc'[r] = "done" /\ pc' = [pc EXCEPT ![r] = pc'[r]]
    BY <1>2, <1>8 DEF AppendRefused, AppendShort, AppendUnsynced, Answer, TypeOK
  <2>3. RedeemInv(r)'
    BY <2>2 DEF RedeemInv
  <2>4. UNCHANGED <<now, serviceVars, lock, disk, synced, call, verdict>>
        /\ reply' = [reply EXCEPT ![r] = Unavailable]
    BY <1>8 DEF AppendRefused, AppendShort, AppendUnsynced, Answer
  <2> QED
    BY <1>1, <1>2, <1>4, <2>1, <2>2, <2>3, <2>4, LedgerHandlerStep DEF TypeOK
<1> QED
  BY <1>5, <1>6, <1>7, <1>8

LEMMA LedgerDecideStep ==
  ASSUME IInv, LedgerIInv, NEW p \in Procs, NEW r \in Requests, Decide(p, r)
  PROVE  LedgerIInv'
<1>0. IInv' /\ TypeOK /\ now \in Nat /\ {PriorTtl, AttestTtl, LookupTimeout} \subseteq Nat
  <2>1. IInv'
    BY InductiveStep DEF Next
  <2> QED
    BY <2>1, LedgerTypes DEF IInv
<1>1. PICK q \in Inputs :
        LET g == grants[p][q.grant]
            valid == GrantValid(g, q) IN
        /\ call' = [call EXCEPT ![r] =
             [by |-> p, action |-> q.action, change |-> q.change,
              grant |-> q.grant, prior |-> q.prior, reviewer |-> q.reviewer,
              actor |-> q.actor, at |-> now,
              fresh |-> valid /\ AttestationFresh(g)]]
        /\ \/ /\ pc' = [pc EXCEPT ![r] = "appending"]
              /\ verdict' = [verdict EXCEPT ![r] = "DENY"]
           \/ /\ valid /\ q.action = Reauthorize /\ MayRedeem(p, q)
              /\ pc' = [pc EXCEPT ![r] = "lookup"]
              /\ UNCHANGED verdict
           \/ /\ valid /\ q.action # Reauthorize
              /\ pc' = [pc EXCEPT ![r] = "appending"]
              /\ verdict' = [verdict EXCEPT ![r] = PolicyVerdict(g, q)]
  BY DEF Decide
<1> DEFINE g == grants[p][q.grant]
           valid == GrantValid(g, q)
           c == [by |-> p, action |-> q.action, change |-> q.change,
                 grant |-> q.grant, prior |-> q.prior, reviewer |-> q.reviewer,
                 actor |-> q.actor, at |-> now, fresh |-> valid /\ AttestationFresh(g)]
<1>2. /\ Serves(p) /\ ~Busy(p) /\ pc[r] = "idle"
      /\ UNCHANGED <<now, status, grants, memory, lock, disk, synced, reply>>
  BY DEF Decide, Serves
<1>3. /\ call'[r] = c
      /\ \A s \in Requests \ {r} :
           pc'[s] = pc[s] /\ call'[s] = call[s] /\ verdict'[s] = verdict[s]
  BY <1>0, <1>1 DEF TypeOK
<1>4. \/ pc'[r] = "appending" /\ (verdict'[r] # "PERMIT" \/ q.action # Reauthorize)
      \/ pc'[r] = "lookup" /\ valid /\ MayRedeem(p, q)
  BY <1>0, <1>1 DEF TypeOK
<1>5. OneProcess' /\ MemoryIsPrefix'
  BY <1>2 DEF LedgerIInv, OneProcess, MemoryIsPrefix, Serves
<1>12. Linked(disk)' /\ \A i \in 1..Len(disk') : Backed(disk', i)
  BY <1>2 DEF LedgerIInv, Linked, Backed
<1>6. OneRunning'
  <2>1. ASSUME NEW s \in Requests, pc[s] \in Running PROVE FALSE
    BY <1>2, <2>1, OneServer DEF Busy, Serves
  <2> QED
    BY <1>3, <2>1 DEF OneRunning
<1>7. Recorded(disk)'
  BY <1>2, <1>3, LedgerTypes DEF LedgerIInv, Recorded
<1>8. AnsweredIsDurable'
  BY <1>2 DEF LedgerIInv, AnsweredIsDurable
<1>9. ASSUME NEW s \in Requests \ {r} PROVE LiveInv(s)' /\ SyncingInv(s)' /\ RedeemInv(s)'
  BY <1>2, <1>3 DEF LedgerIInv, LiveInv, SyncingInv, RedeemInv, Permitted, Serves
<1>10. LiveInv(r)' /\ SyncingInv(r)'
  BY <1>0, <1>2, <1>3, <1>4 DEF LiveInv, SyncingInv, Serves
<1>11. RedeemInv(r)'
  <2>1. CASE pc'[r] = "appending" /\ (verdict'[r] # "PERMIT" \/ q.action # Reauthorize)
    BY <1>3, <2>1 DEF RedeemInv, Permitted
  <2>2. CASE pc'[r] = "lookup" /\ valid /\ MayRedeem(p, q)
    <3>1. Held(g, c)
      <4>1. g \in Grant
        <5>1. g # None /\ q.grant \in GrantRefs
          BY <2>2, StepUpAssumption DEF GrantValid, Input
        <5>2. grants[p] \in GrantTables
          BY <1>2 DEF LedgerIInv, OneProcess, Serves
        <5> QED
          BY <5>1, <5>2, StepUpAssumption
      <4>2. g.verifiedAt \in Nat /\ g.expiresAt \in Nat
        BY <4>1 DEF Grant
      <4>3. g # None /\ ~g.revoked /\ q.change \in g.covers /\ now < g.expiresAt
            /\ g.verifiedAt <= now
        BY <1>0, <2>2, <4>2 DEF GrantValid
      <4>4. AttestationFresh(g) => now <= g.verifiedAt + AttestTtl
        BY <1>0, <4>2, <4>3 DEF AttestationFresh
      <4> HIDE DEF g, valid
      <4> QED
        BY <4>3, <4>4 DEF Held
    <3>2. Prior(memory[p], c)
      <4>1. PICK i \in 1..Len(memory[p]) :
              /\ memory[p][i].id = q.prior
              /\ memory[p][i].decision \in {"STEP_UP", "ESCALATE"}
              /\ memory[p][i].change = q.change /\ memory[p][i].action = Execute
              /\ memory[p][i].time <= now /\ now - memory[p][i].time <= PriorTtl
        BY <2>2 DEF MayRedeem, Redeemable
      <4>2. memory[p][i].time \in Nat
        <5>1. memory[p] \in Seq(Receipt)
          BY LedgerTypes
        <5>2. memory[p][i] \in Receipt
          BY ONLY <4>1, <5>1
        <5> QED
          BY ONLY <5>2 DEF Receipt
      <4>3. now <= memory[p][i].time + PriorTtl
        BY <1>0, <4>1, <4>2
      <4> QED
        BY <4>1, <4>3 DEF Prior
    <3>3. pc'[r] = "lookup" /\ call'[r] = c /\ UNCHANGED <<grants, memory>>
      BY <1>2, <1>3, <2>2
    <3>4. c.by = p /\ c.grant = q.grant
      OBVIOUS
    <3> HIDE DEF c
    <3> QED
      BY <3>1, <3>2, <3>3, <3>4 DEF RedeemInv
  <2> QED
    BY <1>4, <2>1, <2>2
<1> QED
  BY <1>5, <1>6, <1>7, <1>8, <1>9, <1>10, <1>11, <1>12 DEF LedgerIInv

\* The record of r is written behind what its process remembers, so behind everything.
LEMMA LedgerWriteStep ==
  ASSUME IInv, LedgerIInv, NEW r \in Requests, AppendWrite(r)
  PROVE  LedgerIInv'
<1> DEFINE p == call[r].by
           x == Finalized(r)
           n == Len(disk)
<1>0. IInv'
  BY InductiveStep DEF Next, Handle
<1>1. /\ pc[r] = "appending" /\ Len(disk) = Len(memory[p])
      /\ disk' = Append(disk, x) /\ pc' = [pc EXCEPT ![r] = "syncing"]
      /\ UNCHANGED <<now, status, grants, memory, lock, synced, call, verdict, reply>>
  BY DEF AppendWrite, SizeMatches
<1>2. /\ TypeOK /\ n \in Nat /\ p \in Procs /\ Serves(p) /\ call[r] \in Call
      /\ memory[p] \in Seq(Receipt) /\ disk \in Seq(Receipt) /\ synced \in 0..n
      /\ \A i \in 1..n : memory[p][i] = disk[i] /\ disk[i].id \in Requests
  BY <1>1, LedgerTypes DEF LedgerIInv, LiveInv, MemoryIsPrefix, IInv
<1>3. x \in Receipt
  BY <1>1, FinalizedType
<1>4. /\ Len(disk') = n + 1 /\ disk'[n + 1] = x /\ \A i \in 1..n : disk'[i] = disk[i]
      /\ disk' \in Seq(Receipt)
  BY <1>1, <1>2, <1>3
<1>5. /\ x.id = r /\ x.decision = verdict[r] /\ x.action = call[r].action
      /\ x.change = call[r].change /\ x.prior = call[r].prior
      /\ x.reviewer = call[r].reviewer /\ x.time = now
      /\ x.chain = LastId(memory[p])
  BY DEF Finalized
<1> HIDE DEF x
<1>6. pc'[r] = "syncing" /\ \A s \in Requests \ {r} : pc'[s] = pc[s]
  BY <1>1, <1>2 DEF TypeOK
<1>7. OneProcess'
  BY <1>1 DEF OneProcess, LedgerIInv
<1>8. OneRunning'
  BY <1>1, <1>6 DEF OneRunning, LedgerIInv
<1>9. MemoryIsPrefix'
  <2> SUFFICES ASSUME NEW q \in Procs, Serves(q)
               PROVE  /\ synced <= Len(memory[q]) /\ Len(memory[q]) <= n + 1
                      /\ \A i \in 1..Len(memory[q]) : memory[q][i] = disk'[i]
    BY <1>1, <1>4 DEF MemoryIsPrefix, Serves
  <2>1. q = p
    BY <1>2 DEF LedgerIInv, OneProcess, Serves
  <2> QED
    BY <1>1, <1>2, <1>4, <2>1
<1>10. Linked(disk')
  <2>1. x.chain = IF n = 0 THEN None ELSE disk[n].id
    <3>1. CASE n = 0
      <4>1. memory[p] = << >>
        <5>1. memory[p] \in Seq(Receipt) /\ Len(memory[p]) = 0
          BY <1>1, <1>2, <3>1
        <5> QED
          BY ONLY <5>1
      <4> QED
        BY <1>5, <3>1, <4>1 DEF LastId
    <3>2. CASE n # 0
      <4>1. memory[p] # << >> /\ n \in 1..n
        BY <1>1, <1>2, <3>2
      <4> QED
        BY <1>1, <1>2, <1>5, <3>2, <4>1 DEF LastId
    <3> QED
      BY <3>1, <3>2
  <2>2. \A i \in 1..n : disk[i].id # r
    BY <1>1 DEF LedgerIInv, Recorded
  <2> SUFFICES ASSUME NEW i \in 1..(n + 1)
               PROVE  /\ disk'[i].chain = IF i = 1 THEN None ELSE disk'[i - 1].id
                      /\ \A j \in 1..(i - 1) : disk'[j].id # disk'[i].id
    BY <1>4 DEF Linked
  <2>3. CASE i \in 1..n
    <3>1. disk'[i] = disk[i] /\ \A j \in 1..(i - 1) : disk'[j] = disk[j]
      <4>1. \A j \in 1..i : j \in 1..n
        BY <1>2, <2>3
      <4>2. i \in 1..i /\ \A j \in 1..(i - 1) : j \in 1..i
        BY <2>3
      <4> QED
        BY <1>4, <4>1, <4>2
    <3>2. i # 1 => i - 1 \in 1..(i - 1)
      OBVIOUS
    <3> QED
      BY <2>3, <3>1, <3>2 DEF LedgerIInv, Linked
  <2>4. CASE i = n + 1
    BY <1>2, <1>4, <1>5, <2>1, <2>2, <2>4
  <2> QED
    BY <1>2, <2>3, <2>4
<1>11. Recorded(disk)'
  <2> SUFFICES ASSUME NEW i \in 1..(n + 1) PROVE pc'[disk'[i].id] \in {"syncing", "done", "lost"}
    BY <1>4 DEF Recorded
  <2>1. CASE i \in 1..n
    BY <1>2, <1>4, <1>6, <2>1 DEF LedgerIInv, Recorded
  <2>2. CASE i = n + 1
    BY <1>4, <1>5, <1>6, <2>2
  <2> QED
    BY <1>2, <2>1, <2>2
<1>12. AnsweredIsDurable'
  <2>1. \A i \in 1..synced : disk'[i] = disk[i]
    BY <1>2, <1>4
  <2>2. synced' = synced /\ reply' = reply
    BY <1>1
  <2> QED
    BY <2>1, <2>2 DEF LedgerIInv, AnsweredIsDurable
<1>13. ASSUME NEW i \in 1..Len(disk') PROVE Backed(disk', i)
  <2>1. CASE i \in 1..n
    <3>1. \A j \in 1..i : disk'[j] = disk[j]
      BY <1>2, <1>4, <2>1
    <3>2. Backed(disk, i)
      BY <2>1 DEF LedgerIInv
    <3> QED
      BY <2>1, <3>1, <3>2, BackedByPrefix
  <2>2. CASE i = n + 1 /\ Permitted(r)
    <3>1. /\ Prior(memory[p], call[r])
          /\ call[r].reviewer \in Reviewers \ {Author[call[r].change]}
          /\ now <= call[r].at + LookupTimeout /\ call[r].at \in Nat
      BY <1>1, <1>2, <2>2 DEF LedgerIInv, RedeemInv, LiveInv, Call
    <3>2. PICK j \in 1..n :
            /\ memory[p][j].id = call[r].prior /\ memory[p][j].action = Execute
            /\ memory[p][j].decision \in {"STEP_UP", "ESCALATE"}
            /\ memory[p][j].change = call[r].change
            /\ call[r].at <= memory[p][j].time + PriorTtl
      BY <1>1, <3>1 DEF Prior
    <3>3. disk'[j] = memory[p][j] /\ j \in 1..(i - 1)
      BY <1>2, <1>4, <2>2, <3>2
    <3>4. disk[j].time \in Nat /\ memory[p][j] = disk[j]
      <4>1. disk[j] \in Receipt
        BY <1>2, <3>2
      <4> QED
        BY <1>2, <3>2, <4>1 DEF Receipt
    <3>5. now <= disk'[j].time + PriorTtl + LookupTimeout
      <4> DEFINE t == memory[p][j].time
                 at == call[r].at
      <4>1. now \in Nat /\ PriorTtl \in Nat /\ LookupTimeout \in Nat
        BY LedgerTypes
      <4>2. t \in Nat /\ at \in Nat /\ now <= at + LookupTimeout /\ at <= t + PriorTtl
        BY <3>1, <3>2, <3>4
      <4> HIDE DEF t, at
      <4>3. now <= t + PriorTtl + LookupTimeout
        BY <4>1, <4>2
      <4> QED
        BY <3>3, <4>3 DEF t
    <3> QED
      BY <1>4, <1>5, <2>2, <3>1, <3>2, <3>3, <3>5 DEF Backed
  <2>3. CASE i = n + 1 /\ ~Permitted(r)
    BY <1>4, <1>5, <2>3 DEF Backed, Permitted
  <2> QED
    BY <1>2, <1>4, <2>1, <2>2, <2>3
<1>14. ASSUME NEW s \in Requests PROVE LiveInv(s)' /\ SyncingInv(s)' /\ RedeemInv(s)'
  <2>1. CASE s = r
    <3>1. LiveInv(r)'
      BY <1>1, <1>6 DEF LedgerIInv, LiveInv, Serves
    <3>2. SyncingInv(r)'
      BY <1>1, <1>4, <1>5 DEF SyncingInv
    <3>3. RedeemInv(r)'
      BY <1>6 DEF RedeemInv
    <3> QED
      BY <2>1, <3>1, <3>2, <3>3
  <2>2. CASE s # r
    <3>1. pc[s] \notin Running /\ pc'[s] = pc[s]
      BY <1>1, <1>6, <2>2 DEF LedgerIInv, OneRunning
    <3>2. LiveInv(s)'
      BY <1>1, <3>1 DEF LedgerIInv, LiveInv, Serves
    <3>3. SyncingInv(s)'
      BY <3>1 DEF SyncingInv
    <3>4. RedeemInv(s)'
      BY <1>1, <3>1 DEF LedgerIInv, RedeemInv, Permitted
    <3> QED
      BY <3>2, <3>3, <3>4
  <2> QED
    BY <2>1, <2>2
<1> QED
  BY <1>7, <1>8, <1>9, <1>10, <1>11, <1>12, <1>13, <1>14 DEF LedgerIInv

\* The answer waits for the record: synced, and remembered.
LEMMA LedgerSyncStep ==
  ASSUME IInv, LedgerIInv, NEW r \in Requests, AppendSync(r)
  PROVE  LedgerIInv'
<1> DEFINE p == call[r].by
           n == Len(disk)
<1>0. IInv'
  BY InductiveStep DEF Next, Handle
<1>1. /\ pc[r] = "syncing" /\ synced' = n
      /\ memory' = [memory EXCEPT ![p] = Append(@, disk[n])]
      /\ pc' = [pc EXCEPT ![r] = "done"] /\ reply' = [reply EXCEPT ![r] = verdict[r]]
      /\ UNCHANGED <<now, status, grants, lock, disk, call, verdict>>
  BY DEF AppendSync, Answer
<1>2. /\ TypeOK /\ n \in Nat /\ p \in Procs /\ Serves(p)
      /\ memory[p] \in Seq(Receipt) /\ disk \in Seq(Receipt) /\ synced \in 0..n
      /\ n = Len(memory[p]) + 1 /\ disk[n].id = r /\ disk[n].decision = verdict[r]
      /\ \A i \in 1..Len(memory[p]) : memory[p][i] = disk[i]
  BY <1>1, LedgerTypes DEF LedgerIInv, LiveInv, SyncingInv, MemoryIsPrefix, IInv
<1>3. /\ pc'[r] = "done" /\ reply'[r] = verdict[r]
      /\ \A s \in Requests \ {r} : pc'[s] = pc[s] /\ reply'[s] = reply[s]
  BY <1>1, <1>2 DEF TypeOK
<1>4. memory'[p] = Append(memory[p], disk[n]) /\ \A q \in Procs \ {p} : memory'[q] = memory[q]
  BY <1>1, <1>2 DEF TypeOK
<1>5. Len(memory'[p]) = n /\ \A i \in 1..n : memory'[p][i] = disk[i]
  <2>1. n \in 1..n /\ disk[n] \in Receipt
    BY <1>2
  <2> QED
    BY <1>2, <1>4, <2>1
<1>6. OneProcess' /\ OneRunning'
  BY <1>1, <1>3 DEF LedgerIInv, OneProcess, OneRunning
<1>7. MemoryIsPrefix'
  <2> SUFFICES ASSUME NEW q \in Procs, Serves(q)
               PROVE  /\ n <= Len(memory'[q]) /\ Len(memory'[q]) <= n
                      /\ \A i \in 1..Len(memory'[q]) : memory'[q][i] = disk[i]
    BY <1>1 DEF MemoryIsPrefix, Serves
  <2>1. q = p
    BY <1>2 DEF LedgerIInv, OneProcess, Serves
  <2> QED
    BY <1>2, <1>5, <2>1
<1>8. Linked(disk)' /\ \A i \in 1..Len(disk') : Backed(disk', i)
  BY <1>1 DEF LedgerIInv, Linked, Backed
<1>9. Recorded(disk)'
  BY <1>1, <1>3, LedgerTypes DEF LedgerIInv, Recorded
<1>10. AnsweredIsDurable'
  <2> SUFFICES ASSUME NEW s \in Requests, reply'[s] \in Decisions
               PROVE  \E i \in 1..n : disk[i].id = s /\ disk[i].decision = reply'[s]
    BY <1>1 DEF AnsweredIsDurable
  <2>1. CASE s = r
    <3>1. n \in 1..n
      BY <1>2
    <3> QED
      BY <1>2, <1>3, <2>1, <3>1
  <2>2. CASE s # r
    <3>1. PICK i \in 1..synced : disk[i].id = s /\ disk[i].decision = reply[s]
      BY <1>3, <2>2 DEF LedgerIInv, AnsweredIsDurable
    <3>2. i \in 1..n
      BY <1>2
    <3> QED
      BY <1>3, <2>2, <3>1, <3>2
  <2> QED
    BY <2>1, <2>2
<1>11. ASSUME NEW s \in Requests PROVE LiveInv(s)' /\ SyncingInv(s)' /\ RedeemInv(s)'
  <2>1. CASE s = r
    BY <1>3, <2>1 DEF LiveInv, SyncingInv, RedeemInv
  <2>2. CASE s # r
    <3>1. pc[s] \notin Running /\ pc'[s] = pc[s]
      BY <1>1, <1>3, <2>2 DEF LedgerIInv, OneRunning
    <3>2. LiveInv(s)' /\ SyncingInv(s)'
      BY <1>1, <3>1 DEF LedgerIInv, LiveInv, SyncingInv, Serves
    <3>3. CASE pc[s] = "lookup"
      <4>1. call[s].by = p
        BY <1>2, <3>3, OneServer DEF Serves
      <4>2. Held(grants[p][call[s].grant], call[s]) /\ Prior(memory[p], call[s])
        BY <3>3, <4>1 DEF LedgerIInv, RedeemInv
      <4>3. Prior(memory'[p], call[s])
        <5>1. \A j \in 1..Len(memory[p]) : j \in 1..Len(memory'[p]) /\ memory'[p][j] = memory[p][j]
          BY <1>2, <1>5
        <5> QED
          BY <4>2, <5>1 DEF Prior
      <4> QED
        BY <1>1, <3>1, <3>2, <3>3, <4>1, <4>2, <4>3 DEF RedeemInv
    <3>4. CASE pc[s] # "lookup"
      BY <3>1, <3>2, <3>4 DEF RedeemInv
    <3> QED
      BY <3>3, <3>4
  <2> QED
    BY <2>1, <2>2
<1> QED
  BY <1>6, <1>7, <1>8, <1>9, <1>10, <1>11 DEF LedgerIInv

\* A process dies, or the host: the file keeps a prefix, with all that is synced.
LEMMA LedgerCrashStep ==
  ASSUME IInv, LedgerIInv, PowerLoss \/ \E p \in Procs : Crash(p)
  PROVE  LedgerIInv'
<1>0. IInv' /\ TypeOK
  BY InductiveStep DEF Next, IInv
<1>1. \A q \in Procs : status'[q] = "down"
  <2>1. CASE PowerLoss
    BY <2>1 DEF PowerLoss, Kill, Exit
  <2>2. ASSUME NEW p \in Procs, Crash(p) PROVE \A q \in Procs : status'[q] = "down"
    <3>1. status[p] # "down" /\ \A q \in Procs : status'[q] = IF q = p THEN "down" ELSE status[q]
      BY <2>2 DEF Crash, Kill, Exit
    <3> QED
      BY <3>1 DEF LedgerIInv, OneProcess
  <2> QED
    BY <2>1, <2>2
<1>2. /\ \A r \in Requests : pc'[r] \notin Live /\ (pc'[r] = pc[r] \/ pc'[r] = "lost")
      /\ UNCHANGED <<call, verdict, reply>>
  <2>1. CASE PowerLoss
    BY <2>1, LedgerTypes DEF PowerLoss, Kill
  <2>2. ASSUME NEW p \in Procs, Crash(p)
        PROVE  /\ \A r \in Requests : pc'[r] \notin Live /\ (pc'[r] = pc[r] \/ pc'[r] = "lost")
               /\ UNCHANGED <<call, verdict, reply>>
    <3>1. /\ status[p] # "down" /\ UNCHANGED <<call, verdict, reply>>
          /\ pc' = [r \in Requests |->
               IF pc[r] \in Live /\ call[r].by \in {p} THEN "lost" ELSE pc[r]]
      BY <2>2 DEF Crash, Kill
    <3>2. \A r \in Requests : pc[r] \in Live => call[r].by = p
      BY <3>1, OneServer
    <3> QED
      BY <3>1, <3>2
  <2> QED
    BY <2>1, <2>2
<1>3. PICK n \in synced..Len(disk) :
        /\ Len(disk') = n /\ synced <= synced' /\ synced' <= n
        /\ \A i \in 1..n : disk'[i] = disk[i]
  <2>1. CASE PowerLoss
    <3>1. PICK n \in synced..Len(disk) : disk' = SubSeq(disk, 1, n) /\ synced' = n
      BY <2>1 DEF PowerLoss
    <3>2. n \in 0..Len(disk) /\ disk \in Seq(Receipt)
      BY <3>1, LedgerTypes
    <3>3. Len(disk') = n /\ \A i \in 1..n : disk'[i] = disk[i]
      BY <3>1, <3>2
    <3> QED
      BY <3>1, <3>2, <3>3, LedgerTypes
  <2>2. CASE \E p \in Procs : Crash(p)
    <3>1. disk' = disk /\ synced' = synced
      BY <2>2 DEF Crash
    <3> QED
      BY <3>1, LedgerTypes
  <2> QED
    BY <2>1, <2>2
<1>4. n \in Nat /\ n <= Len(disk) /\ Len(disk) \in Nat /\ synced \in Nat /\ synced' \in Nat
  BY <1>0, <1>3, LedgerTypes DEF IInv, TypeOK
<1>5. OneProcess' /\ MemoryIsPrefix' /\ OneRunning'
  BY <1>1, <1>2 DEF OneProcess, MemoryIsPrefix, OneRunning, Serves
<1>6. Linked(disk')
  <2> SUFFICES ASSUME NEW i \in 1..n
               PROVE  /\ disk'[i].chain = IF i = 1 THEN None ELSE disk'[i - 1].id
                      /\ \A j \in 1..(i - 1) : disk'[j].id # disk'[i].id
    BY <1>3 DEF Linked
  <2>1. i \in 1..Len(disk) /\ disk'[i] = disk[i] /\ \A j \in 1..(i - 1) : disk'[j] = disk[j]
    BY <1>3, <1>4
  <2>2. i # 1 => i - 1 \in 1..(i - 1)
    OBVIOUS
  <2> QED
    BY <2>1, <2>2 DEF LedgerIInv, Linked
<1>7. Recorded(disk)'
  <2>1. \A i \in 1..n : i \in 1..Len(disk)
    BY <1>4
  <2> QED
    BY <1>2, <1>3, <2>1, LedgerTypes DEF LedgerIInv, Recorded
<1>8. AnsweredIsDurable'
  <2>1. \A i \in 1..synced : i \in 1..synced' /\ disk'[i] = disk[i]
    BY <1>3, <1>4
  <2> QED
    BY <1>2, <2>1 DEF LedgerIInv, AnsweredIsDurable
<1>9. ASSUME NEW i \in 1..Len(disk') PROVE Backed(disk', i)
  <2>1. i \in 1..Len(disk) /\ i > 0 /\ \A j \in 1..i : disk'[j] = disk[j]
    BY <1>3, <1>4
  <2> QED
    BY <2>1, BackedByPrefix DEF LedgerIInv
<1>10. \A r \in Requests : LiveInv(r)' /\ SyncingInv(r)' /\ RedeemInv(r)'
  BY <1>2 DEF LiveInv, SyncingInv, RedeemInv
<1> QED
  BY <1>5, <1>6, <1>7, <1>8, <1>9, <1>10 DEF LedgerIInv

LEMMA LedgerStep ==
  ASSUME IInv, LedgerIInv, [Next]_vars
  PROVE  LedgerIInv'
<1>1. CASE UNCHANGED vars
  BY <1>1 DEF LedgerIInv, OneProcess, OneRunning, MemoryIsPrefix, Serves, Linked, Recorded,
     AnsweredIsDurable, Backed, LiveInv, SyncingInv, RedeemInv, Permitted
<1>2. ASSUME NEW r \in Requests, Handle(r) PROVE LedgerIInv'
  BY <1>2, LedgerMovesOn, LedgerWriteStep, LedgerSyncStep DEF Handle
<1> QED
  BY <1>1, <1>2, LedgerProcessStep, LedgerDecideStep, LedgerCrashStep DEF Next

THEOREM LedgerInvariance == Spec => [](IInv /\ LedgerIInv)
<1>1. IInv /\ LedgerIInv /\ [Next]_vars => (IInv /\ LedgerIInv)'
  BY InductiveStep, LedgerStep
<1> QED
  BY <1>1, TypeInit, LedgerInit, PTL DEF Spec

\* What a caller was answered survives every crash, a restarted service remembers it,
\* and the file stays one chain (index.ts 272-275, receiptLedger.ts 44-46, 105-111).
THEOREM AnswersLast == Spec => []LedgerInv
<1>1. ASSUME IInv, LedgerIInv PROVE LedgerInv
  <2>1. SingleChain
    BY <1>1, LedgerTypes, Linking DEF SingleChain, LedgerIInv
  <2>2. AnsweredIsRemembered
    <3> SUFFICES ASSUME NEW p \in Procs, NEW r \in Requests, Serves(p), reply[r] \in Decisions
                 PROVE  \E i \in 1..Len(memory[p]) : memory[p][i].id = r
      BY DEF AnsweredIsRemembered, Serves
    <3>1. PICK i \in 1..synced : disk[i].id = r
      BY <1>1 DEF LedgerIInv, AnsweredIsDurable
    <3>2. i \in 1..Len(memory[p]) /\ memory[p][i] = disk[i]
      BY <1>1, <3>1, LedgerTypes DEF LedgerIInv, MemoryIsPrefix
    <3> QED
      BY <3>1, <3>2
  <2> QED
    BY <1>1, <2>1, <2>2 DEF LedgerInv, LedgerIInv
<1> QED
  BY <1>1, LedgerInvariance, PTL

\* Every recorded PERMIT of a reauthorization follows the receipt it redeems, for the
\* same change, in time, and names a reviewer other than the author (index.ts 142-174).
THEOREM PermitsBacked == Spec => []PermitBacked
<1>1. LedgerIInv => PermitBacked
  BY DEF LedgerIInv, Backed, PermitBacked
<1> QED
  BY <1>1, LedgerInvariance, PTL

\* Whenever a PERMIT is decided, the deciding process holds an unrevoked grant for the
\* change, one lookup past its expiry at most (index.ts 86-90, 134, 175).
THEOREM PermitsGranted == Spec => GrantHeldAtPermit
<1> DEFINE Granted(r) == LET c == call'[r]
                             g == grants[c.by][c.grant] IN
                         /\ g # None /\ ~g.revoked /\ c.change \in g.covers
                         /\ now < g.expiresAt + LookupTimeout
                         /\ now <= g.verifiedAt + AttestTtl + LookupTimeout
           A == \A r \in Requests :
                  verdict[r] # "PERMIT" /\ verdict'[r] = "PERMIT" => Granted(r)
<1>1. ASSUME IInv, LedgerIInv, [Next]_vars PROVE [A]_vars
  <2> SUFFICES ASSUME NEW r \in Requests, verdict[r] # "PERMIT", verdict'[r] = "PERMIT"
               PROVE  Granted(r)
    OBVIOUS
  <2>1. TypeOK /\ now \in Nat /\ LookupTimeout \in Nat /\ AttestTtl \in Nat
    BY <1>1, LedgerTypes DEF IInv
  <2>2. ASSUME NEW t \in [GrantRefs -> Grant \cup {None}], NEW f \in GrantRefs, t[f] # None
        PROVE  t[f].verifiedAt \in Nat /\ t[f].expiresAt \in Nat
    BY <2>2 DEF Grant
  <2>3. \A p \in Procs : status[p] # "down" => grants[p] \in [GrantRefs -> Grant \cup {None}]
    BY <1>1, StepUpAssumption DEF LedgerIInv, OneProcess
  <2>4. (\E p \in Procs : Decide(p, r)) \/ SpendSync(r)
    <3>1. \/ \E p \in Procs, s \in Requests : Decide(p, s)
          \/ \E s \in Requests : Handle(s)
          \/ UNCHANGED verdict
      BY <1>1 DEF Next, OpenLock, LoadLedger, RefuseLedger, Shutdown, CloseLedger, Crash, Kill,
         PowerLoss, RecoverLock, GitHubChanges, Tick
    <3>2. ASSUME NEW p \in Procs, NEW s \in Requests, Decide(p, s) PROVE s = r
      BY <2>1, <3>2 DEF Decide, TypeOK
    <3>3. ASSUME NEW s \in Requests, Handle(s) PROVE SpendSync(r)
      BY <2>1, <3>3 DEF Handle, TypeOK, LookupRefused, LookupStale, SpendRefused, SpendCreate,
         SpendSync, SpendFail, AppendRefused, AppendShort, AppendWrite, AppendSync,
         AppendUnsynced, Conclude
    <3> QED
      BY <3>1, <3>2, <3>3
  <2>5. CASE SpendSync(r)
    <3> DEFINE c == call[r]
               g == grants[c.by][c.grant]
    <3>1. /\ pc[r] = "spending" /\ call' = call /\ Held(g, c) /\ c.fresh
          /\ now <= c.at + LookupTimeout /\ Serves(c.by) /\ c \in Call
      BY <1>1, <2>5, LedgerTypes DEF SpendSync, LedgerIInv, RedeemInv, LiveInv
    <3>2. c.by \in Procs /\ c.grant \in GrantRefs /\ c.at \in Nat
      BY <3>1 DEF Call
    <3>3. g.verifiedAt \in Nat /\ g.expiresAt \in Nat
      BY <2>2, <2>3, <3>1, <3>2 DEF Held, Serves
    <3> HIDE DEF g
    <3>4. /\ g # None /\ ~g.revoked /\ c.change \in g.covers
          /\ now < g.expiresAt + LookupTimeout
          /\ now <= g.verifiedAt + AttestTtl + LookupTimeout
      BY <2>1, <3>1, <3>2, <3>3 DEF Held
    <3> QED
      BY <3>1, <3>4 DEF g
  <2>6. ASSUME NEW p \in Procs, Decide(p, r) PROVE Granted(r)
    <3>1. PICK q \in Inputs :
            /\ call'[r].by = p /\ call'[r].change = q.change /\ call'[r].grant = q.grant
            /\ GrantValid(grants[p][q.grant], q)
            /\ PolicyVerdict(grants[p][q.grant], q) = "PERMIT"
      BY <2>1, <2>6 DEF Decide, TypeOK
    <3> DEFINE g == grants[p][q.grant]
    <3>2. q.grant \in GrantRefs /\ status[p] # "down" /\ g # None
      BY <2>6, <3>1, StepUpAssumption DEF Input, Decide, GrantValid
    <3>3. g.verifiedAt \in Nat /\ g.expiresAt \in Nat
      BY <2>2, <2>3, <3>2
    <3>4. AttestationFresh(g)
      BY <3>1 DEF PolicyVerdict
    <3>5. /\ ~g.revoked /\ q.change \in g.covers
          /\ now < g.expiresAt /\ g.verifiedAt <= now
      BY <2>1, <3>1, <3>3 DEF GrantValid
    <3> HIDE DEF g
    <3>6. /\ now < g.expiresAt + LookupTimeout
          /\ now <= g.verifiedAt + AttestTtl + LookupTimeout
      BY <2>1, <3>3, <3>4, <3>5 DEF AttestationFresh
    <3> QED
      BY <3>1, <3>2, <3>5, <3>6 DEF g
  <2> QED
    BY <2>4, <2>5, <2>6
<1>2. IInv /\ LedgerIInv /\ [Next]_vars => [A]_vars
  BY <1>1
<1> QED
  BY <1>2, LedgerInvariance, PTL DEF Spec, GrantHeldAtPermit
==============================================================================
