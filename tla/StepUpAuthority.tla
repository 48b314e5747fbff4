--------------------------- MODULE StepUpAuthority ---------------------------
(***************************************************************************)
(* The runtime authority of services/authority: an HTTP service that       *)
(* decides whether a pull-request execution may run, and that turns a      *)
(* STEP_UP or ESCALATE receipt into one PERMIT after an independent GitHub *)
(* review.  It keeps two durable ledgers on one host: the signed receipt   *)
(* chain (one file, one lock file) and the replay ledger (one ".spent"     *)
(* file per redeemed receipt).                                             *)
(*                                                                         *)
(* A handler is JavaScript: it runs without interleaving until its only    *)
(* await, the GitHub lookup.  A crash can fall between any two system      *)
(* calls, so every system call that touches a ledger is a step.            *)
(***************************************************************************)
EXTENDS Naturals, Sequences

CONSTANTS
  Procs,          \* service processes an operator may start on the host
  Requests,       \* handler invocations; a request names the receipt it issues
  Changes,        \* one subject, repo, PR, branch, run, commit and path list
  Protected,      \* the changes that touch a protected path
  GrantRefs,      \* grant identifiers a caller may quote
  GrantTables,    \* the tables RUNTIME_AUTH_GRANTS_JSON may hold at a start
  Reviewers,      \* GitHub accounts
  Reviews,        \* what GitHub may say of a change: who approved its open head
  Author,         \* the account that opened the PR of each change
  Inputs,         \* the request bodies that reach the handler
  PriorTtl,       \* 600 000 ms: how old a redeemed receipt may be
  AttestTtl,      \* 900 s: how old the grant's trust evidence may be
  LookupTimeout,  \* 8000 ms: AbortSignal of the GitHub calls
  MaxNow,         \* bound on the clock
  MaxCrashes,     \* bound on crashes and power losses
  None

Execute     == "pull_request.execute"
Reauthorize == "merge request reauthorize"
Release     == "release tag request"
Actions     == {Execute, Reauthorize, Release}
Decisions   == {"PERMIT", "STEP_UP", "ESCALATE", "DENY"}
ScoreFloor  == 85

Grant == [covers: SUBSET Changes, action: Actions, score: Nat,
          verifiedAt: Nat, expiresAt: Nat, revoked: BOOLEAN]

Input == [action: Actions, change: Changes, grant: GrantRefs,
          prior: Requests \cup {None}, reviewer: Reviewers \cup {None},
          actor: Reviewers \cup {None}]

ASSUME StepUpAssumption ==
  /\ Protected \subseteq Changes
  /\ GrantTables \subseteq [GrantRefs -> Grant \cup {None}]
  /\ Reviews \subseteq SUBSET Reviewers
  /\ Author \in [Changes -> Reviewers]
  /\ Inputs \subseteq Input
  /\ {PriorTtl, AttestTtl, LookupTimeout, MaxNow, MaxCrashes} \subseteq Nat
  /\ None \notin Requests \cup Reviewers \cup Grant \cup Decisions

VARIABLES
  now,          \* wall clock
  status,       \* status[p]: "down", "opening" the ledger, "up", "closing"
  grants,       \* grants[p]: the table the process parsed when it started, or None
  memory,       \* memory[p]: the receipts the open ledger holds in memory
  lock,         \* the receipt ledger's lock file exists
  disk,         \* the complete records of the receipt ledger file
  torn,         \* the file ends in a partial record
  synced,       \* how many records of disk a power loss cannot remove
  spent,        \* the receipts whose ".spent" file exists
  spentSynced,  \* those whose ".spent" file a power loss cannot remove
  pc,           \* pc[r]: where the handler of r is
  call,         \* call[r]: what the handler read when it decided
  verdict,      \* verdict[r]: the decision reached, or None
  reply,        \* reply[r]: what the caller received, or None
  approvals,    \* approvals[c]: who GitHub says approved the open PR's head
  crashes

serviceVars == <<status, grants, memory>>
ledgerVars  == <<lock, disk, torn, synced>>
replayVars  == <<spent, spentSynced>>
handlerVars == <<pc, call, verdict, reply>>
vars == <<now, serviceVars, ledgerVars, replayVars, handlerVars, approvals, crashes>>

Statuses == {"down", "opening", "up", "closing"}
Running  == {"spending", "appending", "syncing"}   \* on the call stack
Live     == Running \cup {"lookup"}
Stages   == Live \cup {"idle", "done", "lost"}
Unavailable == "DURABLE_RECEIPT_LEDGER_UNAVAILABLE"

Call == [by: Procs, action: Actions, change: Changes, grant: GrantRefs,
         prior: Requests \cup {None}, reviewer: Reviewers \cup {None},
         actor: Reviewers \cup {None}, at: Nat, fresh: BOOLEAN]

Receipt == [id: Requests, action: Actions, change: Changes, grant: GrantRefs,
            prior: Requests \cup {None}, reviewer: Reviewers \cup {None},
            decision: Decisions, time: Nat, chain: Requests \cup {None}]

Init ==
  /\ now = 0
  /\ status = [p \in Procs |-> "down"]
  /\ grants = [p \in Procs |-> None]
  /\ memory = [p \in Procs |-> << >>]
  /\ lock = FALSE /\ disk = << >> /\ torn = FALSE /\ synced = 0
  /\ spent = {} /\ spentSynced = {}
  /\ pc = [r \in Requests |-> "idle"]
  /\ call = [r \in Requests |-> None]
  /\ verdict = [r \in Requests |-> None]
  /\ reply = [r \in Requests |-> None]
  /\ approvals \in [Changes -> Reviews]
  /\ crashes = 0

------------------------------------------------------------------------------
(* The receipt ledger's life in a process.                                 *)

LastId(log) == IF log = << >> THEN None ELSE log[Len(log)].id

\* What opening replays: no identifier twice, every record chained to the last.
ChainIntact(log) ==
  \A i \in 1..Len(log) :
    /\ log[i].chain = LastId(SubSeq(log, 1, i - 1))
    /\ \A j \in 1..(i - 1) : log[j].id # log[i].id

\* The processes ps are gone, with everything they held in memory.
Exit(ps) ==
  /\ status' = [p \in Procs |-> IF p \in ps THEN "down" ELSE status[p]]
  /\ grants' = [p \in Procs |-> IF p \in ps THEN None ELSE grants[p]]
  /\ memory' = [p \in Procs |-> IF p \in ps THEN << >> ELSE memory[p]]

\* O_EXCL creation of the lock file; when it exists the process exits instead.
OpenLock(p) ==
  /\ status[p] = "down" /\ ~lock
  /\ lock' = TRUE
  /\ status' = [status EXCEPT ![p] = "opening"]
  /\ \E table \in GrantTables : grants' = [grants EXCEPT ![p] = table]
  /\ UNCHANGED <<now, memory, disk, torn, synced, replayVars, handlerVars,
                 approvals, crashes>>

\* Mutant: a restart that starts from an empty map.
LoadNothing(p) ==
  /\ status[p] = "opening"
  /\ ~torn /\ ChainIntact(disk)
  /\ status' = [status EXCEPT ![p] = "up"]
  /\ UNCHANGED <<now, grants, memory, ledgerVars, replayVars, handlerVars,
                 approvals, crashes>>

LoadLedger(p) ==
  /\ status[p] = "opening"
  /\ ~torn /\ ChainIntact(disk)
  /\ memory' = [memory EXCEPT ![p] = disk]
  /\ status' = [status EXCEPT ![p] = "up"]
  /\ UNCHANGED <<now, grants, ledgerVars, replayVars, handlerVars,
                 approvals, crashes>>

\* A truncated, malformed or unreadable file: unlink the lock and throw.
RefuseLedger(p) ==
  /\ status[p] = "opening"
  /\ lock' = FALSE
  /\ Exit({p})
  /\ UNCHANGED <<now, disk, torn, synced, replayVars,
                 handlerVars, approvals, crashes>>

OwnedBy(p, r) == pc[r] # "idle" /\ call[r].by = p
Busy(p) == \E r \in Requests : pc[r] \in Running /\ OwnedBy(p, r)

\* SIGTERM or SIGINT: no new connection is accepted, but a request whose body
\* is still awaited will be decided.
Shutdown(p) ==
  /\ status[p] = "up" /\ ~Busy(p)
  /\ status' = [status EXCEPT ![p] = "closing"]
  /\ UNCHANGED <<now, grants, memory, ledgerVars, replayVars, handlerVars,
                 approvals, crashes>>

\* The callback of server.close, once the last handler has answered.
CloseLedger(p) ==
  /\ status[p] = "closing"
  /\ \A r \in Requests : OwnedBy(p, r) => pc[r] \notin Live
  /\ lock' = FALSE
  /\ Exit({p})
  /\ UNCHANGED <<now, disk, torn, synced, replayVars, handlerVars,
                 approvals, crashes>>

------------------------------------------------------------------------------
(* Deciding.                                                               *)

\* Mutant: the revoked flag is not read.
GrantIgnoringRevocation(g, q) ==
  /\ g # None
  /\ q.change \in g.covers
  /\ \/ g.action = q.action
     \/ q.action = Reauthorize /\ g.action = Execute
  /\ g.expiresAt > now
  /\ g.verifiedAt <= now
  /\ g.score \in 0..100

\* verifiedGrant: a grant for this change and action, neither revoked nor
\* expired nor verified in the future.  An execute grant covers its reauthorize.
GrantValid(g, q) ==
  /\ g # None
  /\ ~g.revoked
  /\ q.change \in g.covers
  /\ \/ g.action = q.action
     \/ q.action = Reauthorize /\ g.action = Execute
  /\ g.expiresAt > now
  /\ g.verifiedAt <= now
  /\ g.score \in 0..100

AttestationFresh(g) == now - g.verifiedAt <= AttestTtl

Critical(q) == q.action = Release \/ q.change \in Protected

\* The decisions of a request that redeems nothing.
PolicyVerdict(g, q) ==
  CASE ~AttestationFresh(g)   -> "ESCALATE"
    [] AttestationFresh(g) /\ Critical(q) -> "STEP_UP"
    [] AttestationFresh(g) /\ ~Critical(q) /\ g.score < ScoreFloor -> "ESCALATE"
    [] OTHER -> "PERMIT"

\* Mutant: the receipt's age is not compared.
RedeemableAtAnyAge(p, q) ==
  \E i \in 1..Len(memory[p]) :
    LET prior == memory[p][i] IN
    /\ prior.id = q.prior
    /\ prior.decision \in {"STEP_UP", "ESCALATE"}
    /\ prior.change = q.change /\ prior.action = Execute

\* The receipts of this process that q may redeem.
Redeemable(p, q) ==
  \E i \in 1..Len(memory[p]) :
    LET prior == memory[p][i] IN
    /\ prior.id = q.prior
    /\ prior.decision \in {"STEP_UP", "ESCALATE"}
    /\ prior.change = q.change /\ prior.action = Execute
    /\ prior.time <= now /\ now - prior.time <= PriorTtl

MayRedeem(p, q) == Redeemable(p, q) /\ q.reviewer # None

\* The synchronous head of the handler, up to the await or to the decision.
Decide(p, r) ==
  /\ status[p] \in {"up", "closing"} /\ ~Busy(p)
  /\ pc[r] = "idle"
  /\ \E q \in Inputs :
       LET g == grants[p][q.grant]
           valid == GrantValid(g, q) IN
       /\ call' = [call EXCEPT ![r] =
            [by |-> p, action |-> q.action, change |-> q.change,
             grant |-> q.grant, prior |-> q.prior, reviewer |-> q.reviewer,
             actor |-> q.actor, at |-> now,
             fresh |-> valid /\ AttestationFresh(g)]]
       /\ \/ /\ ~valid \/ (q.action = Reauthorize /\ ~MayRedeem(p, q))
             /\ pc' = [pc EXCEPT ![r] = "appending"]
             /\ verdict' = [verdict EXCEPT ![r] = "DENY"]
          \/ /\ valid /\ q.action = Reauthorize /\ MayRedeem(p, q)
             /\ pc' = [pc EXCEPT ![r] = "lookup"]
             /\ UNCHANGED verdict
          \/ /\ valid /\ q.action # Reauthorize
             /\ pc' = [pc EXCEPT ![r] = "appending"]
             /\ verdict' = [verdict EXCEPT ![r] = PolicyVerdict(g, q)]
  /\ UNCHANGED <<now, serviceVars, ledgerVars, replayVars, reply,
                 approvals, crashes>>

\* assessApprovalHistory on what GitHub returns: the named reviewer approved,
\* and is neither the PR's author nor the actor that invoked the run.
ReviewVerified(c) ==
  /\ c.reviewer \in approvals[c.change]
  /\ c.reviewer \notin {Author[c.change], c.actor}

\* Mutant: pending lookups are abandoned when the service shuts down.
ResumesUnlessClosing(r) ==
  /\ pc[r] = "lookup"
  /\ status[call[r].by] = "up" /\ ~Busy(call[r].by)

\* The await is over: the handler of r runs again.
Resumes(r) ==
  /\ pc[r] = "lookup"
  /\ ~Busy(call[r].by)

Conclude(r, decision) ==
  /\ pc' = [pc EXCEPT ![r] = "appending"]
  /\ verdict' = [verdict EXCEPT ![r] = decision]
  /\ UNCHANGED <<now, serviceVars, ledgerVars, replayVars, call, reply,
                 approvals, crashes>>

\* The review is not corroborated, or the lookup failed or timed out.
LookupRefused(r) == Resumes(r) /\ Conclude(r, "DENY")

\* The attestation was already stale when the request was decided.
LookupStale(r) ==
  Resumes(r) /\ ReviewVerified(call[r]) /\ ~call[r].fresh /\ Conclude(r, "ESCALATE")

\* consumeStepUpReceipt finds the ".spent" file, or cannot create one.
SpendRefused(r) ==
  Resumes(r) /\ ReviewVerified(call[r]) /\ call[r].fresh /\ Conclude(r, "DENY")

\* Mutants: no O_EXCL; and a redemption kept in memory only.
SpendCreateAnyway(r) ==
  /\ Resumes(r) /\ ReviewVerified(call[r]) /\ call[r].fresh
  /\ spent' = spent \cup {call[r].prior}
  /\ pc' = [pc EXCEPT ![r] = "spending"]
  /\ UNCHANGED <<now, serviceVars, ledgerVars, spentSynced, call, verdict,
                 reply, approvals, crashes>>

SpendCreateNowhere(r) ==
  /\ Resumes(r) /\ ReviewVerified(call[r]) /\ call[r].fresh
  /\ call[r].prior \notin spent
  /\ pc' = [pc EXCEPT ![r] = "spending"]
  /\ UNCHANGED <<now, serviceVars, ledgerVars, replayVars, call, verdict,
                 reply, approvals, crashes>>

\* consumeStepUpReceipt creates the ".spent" file (O_EXCL).
SpendCreate(r) ==
  /\ Resumes(r) /\ ReviewVerified(call[r]) /\ call[r].fresh
  /\ call[r].prior \notin spent
  /\ spent' = spent \cup {call[r].prior}
  /\ pc' = [pc EXCEPT ![r] = "spending"]
  /\ UNCHANGED <<now, serviceVars, ledgerVars, spentSynced, call, verdict,
                 reply, approvals, crashes>>

\* Mutant: PERMIT before the record is synced.
SpendUnsynced(r) == pc[r] = "spending" /\ Conclude(r, "PERMIT")

\* The record and its directory entry are synced: the nonce is spent.
SpendSync(r) ==
  /\ pc[r] = "spending"
  /\ spentSynced' = spentSynced \cup {call[r].prior}
  /\ verdict' = [verdict EXCEPT ![r] = "PERMIT"]
  /\ pc' = [pc EXCEPT ![r] = "appending"]
  /\ UNCHANGED <<now, serviceVars, ledgerVars, spent, call, reply,
                 approvals, crashes>>

\* A write or sync failed: the record stays, the request is denied.
SpendFail(r) == pc[r] = "spending" /\ Conclude(r, "DENY")

------------------------------------------------------------------------------
(* Finalising and appending the receipt.                                   *)

Finalized(r) ==
  LET c == call[r] IN
  [id |-> r, action |-> c.action, change |-> c.change, grant |-> c.grant,
   prior |-> c.prior, reviewer |-> c.reviewer, decision |-> verdict[r],
   time |-> now, chain |-> LastId(memory[c.by])]

\* Mutant: only a partial last line is noticed.
SizeUnchecked(p) == ~torn

\* append refuses a file whose size is not the one this process left.
SizeMatches(p) == ~torn /\ Len(disk) = Len(memory[p])

Answer(r, answer) ==
  /\ pc' = [pc EXCEPT ![r] = "done"]
  /\ reply' = [reply EXCEPT ![r] = answer]

\* Any throw before a byte is written, the size check included.
AppendRefused(r) ==
  /\ pc[r] = "appending"
  /\ Answer(r, Unavailable)
  /\ UNCHANGED <<now, serviceVars, ledgerVars, replayVars, call, verdict,
                 approvals, crashes>>

AppendShort(r) ==
  /\ pc[r] = "appending" /\ SizeMatches(call[r].by)
  /\ torn' = TRUE
  /\ Answer(r, Unavailable)
  /\ UNCHANGED <<now, serviceVars, lock, disk, synced, replayVars, call,
                 verdict, approvals, crashes>>

AppendWrite(r) ==
  /\ pc[r] = "appending" /\ SizeMatches(call[r].by)
  /\ disk' = Append(disk, Finalized(r))
  /\ pc' = [pc EXCEPT ![r] = "syncing"]
  /\ UNCHANGED <<now, serviceVars, lock, torn, synced, replayVars, call,
                 verdict, reply, approvals, crashes>>

\* Mutant: the 200 answer does not wait for fsync.
AppendWithoutSync(r) ==
  /\ pc[r] = "syncing"
  /\ memory' = [memory EXCEPT ![call[r].by] = Append(@, disk[Len(disk)])]
  /\ Answer(r, verdict[r])
  /\ UNCHANGED <<now, status, grants, ledgerVars, replayVars, call,
                 verdict, approvals, crashes>>

\* fsync of the file and of its directory, then memory, then the 200 answer.
AppendSync(r) ==
  /\ pc[r] = "syncing"
  /\ synced' = Len(disk)
  /\ memory' = [memory EXCEPT ![call[r].by] = Append(@, disk[Len(disk)])]
  /\ Answer(r, verdict[r])
  /\ UNCHANGED <<now, status, grants, lock, disk, torn, replayVars, call,
                 verdict, approvals, crashes>>

\* fsync failed: the record stays in the file, this process forgets it.
AppendUnsynced(r) ==
  /\ pc[r] = "syncing"
  /\ Answer(r, Unavailable)
  /\ UNCHANGED <<now, serviceVars, ledgerVars, replayVars, call, verdict,
                 approvals, crashes>>

Handle(r) ==
  \/ LookupRefused(r) \/ LookupStale(r)
  \/ SpendRefused(r) \/ SpendCreate(r) \/ SpendSync(r) \/ SpendFail(r)
  \/ AppendRefused(r) \/ AppendShort(r) \/ AppendWrite(r)
  \/ AppendSync(r) \/ AppendUnsynced(r)

------------------------------------------------------------------------------
(* The host, the operator and GitHub.                                      *)

\* The handlers of ps die where they stand; the callers get no answer.
Kill(ps) ==
  /\ Exit(ps)
  /\ pc' = [r \in Requests |->
              IF pc[r] \in Live /\ call[r].by \in ps THEN "lost" ELSE pc[r]]
  /\ UNCHANGED <<call, verdict, reply>>

\* A process dies; the host and its files live on, the lock file too.
Crash(p) ==
  /\ crashes < MaxCrashes /\ status[p] # "down"
  /\ crashes' = crashes + 1
  /\ Kill({p})
  /\ UNCHANGED <<now, ledgerVars, replayVars, approvals>>

\* The host dies: what was not synced may be lost, wholly or in part.
PowerLoss ==
  /\ crashes < MaxCrashes
  /\ crashes' = crashes + 1
  /\ Kill(Procs)
  /\ \E n \in synced..Len(disk) :
       /\ disk' = SubSeq(disk, 1, n)
       /\ synced' = n
       /\ torn' \in {FALSE, torn \/ n < Len(disk)}
  /\ lock' \in {FALSE, lock}
  /\ spent' \in {s \in SUBSET spent : spentSynced \subseteq s}
  /\ spentSynced' = spent'
  /\ UNCHANGED <<now, approvals>>

\* The operator inspects the ledger and removes a lock nobody holds.
RecoverLock ==
  /\ lock /\ \A p \in Procs : status[p] = "down"
  /\ lock' = FALSE
  /\ UNCHANGED <<now, serviceVars, disk, torn, synced, replayVars,
                 handlerVars, approvals, crashes>>

\* Reviews, dismissals, new commits, a closed PR.
GitHubChanges ==
  /\ \E c \in Changes, who \in Reviews :
       approvals' = [approvals EXCEPT ![c] = who]
  /\ UNCHANGED <<now, serviceVars, ledgerVars, replayVars, handlerVars, crashes>>

\* Synchronous code takes no time; a lookup is aborted after LookupTimeout.
Tick ==
  /\ now < MaxNow
  /\ \A r \in Requests :
       /\ pc[r] \notin Running
       /\ pc[r] = "lookup" => now < call[r].at + LookupTimeout
  /\ now' = now + 1
  /\ UNCHANGED <<serviceVars, ledgerVars, replayVars, handlerVars,
                 approvals, crashes>>

Next ==
  \/ \E p \in Procs : \/ OpenLock(p) \/ LoadLedger(p) \/ RefuseLedger(p)
                      \/ Shutdown(p) \/ CloseLedger(p) \/ Crash(p)
                      \/ \E r \in Requests : Decide(p, r)
  \/ \E r \in Requests : Handle(r)
  \/ PowerLoss \/ RecoverLock \/ GitHubChanges \/ Tick

Spec == Init /\ [][Next]_vars

\* A handler on the stack runs on; a lookup ends, by its timeout at the latest.
FairSpec == Spec /\ \A r \in Requests : WF_vars(Handle(r))

------------------------------------------------------------------------------
(* What the authority promises.                                            *)

TypeOK ==
  /\ now \in Nat /\ crashes \in Nat
  /\ status \in [Procs -> Statuses]
  /\ grants \in [Procs -> GrantTables \cup {None}]
  /\ memory \in [Procs -> Seq(Receipt)]
  /\ lock \in BOOLEAN /\ torn \in BOOLEAN
  /\ disk \in Seq(Receipt) /\ synced \in 0..Len(disk)
  /\ spent \subseteq Requests /\ spentSynced \subseteq spent
  /\ pc \in [Requests -> Stages]
  /\ call \in [Requests -> Call \cup {None}]
  /\ verdict \in [Requests -> Decisions \cup {None}]
  /\ reply \in [Requests -> Decisions \cup {None, Unavailable}]
  /\ approvals \in [Changes -> Reviews]

\* r decided to PERMIT a reauthorization, whether or not the caller heard of it.
Permitted(r) == verdict[r] = "PERMIT" /\ call[r].action = Reauthorize

\* One STEP_UP or ESCALATE receipt yields at most one PERMIT, ever: not two for
\* concurrent requests that await GitHub together, nor a second one after a
\* crash, a power loss or a restart (index.ts 178-184, replayLedger.ts).
AtMostOnePermit ==
  \A r, s \in Requests :
    Permitted(r) /\ Permitted(s) /\ call[r].prior = call[s].prior => r = s

\* The inductive strengthening of AtMostOnePermit: what each stage of a handler
\* has established.  A claim is a redemption under way or decided.
Claims(r) == pc[r] = "spending" \/ Permitted(r)

StageInv(r) ==
  /\ pc[r] # "idle" => call[r] \in Call
  /\ pc[r] \in {"lookup", "spending"} =>
       call[r].action = Reauthorize /\ call[r].prior \in Requests
  /\ pc[r] \in {"idle", "lookup", "spending"} => verdict[r] = None
  /\ pc[r] \in {"appending", "syncing"} => verdict[r] \in Decisions
  /\ pc[r] = "syncing" => disk # << >>
  /\ pc[r] # "done" => reply[r] = None
  /\ reply[r] = "PERMIT" => verdict[r] = "PERMIT"
  /\ pc[r] = "spending" => call[r].prior \in spent
  /\ Permitted(r) => pc[r] # "idle" /\ call[r].prior \in spentSynced

IInv ==
  /\ TypeOK
  /\ \A r \in Requests : StageInv(r)
  /\ \A r, s \in Requests :
       Claims(r) /\ Claims(s) /\ call[r].prior = call[s].prior => r = s

\* A decision the caller has received is in the part of the ledger that no
\* crash can remove (index.ts 272-275).
AnsweredIsDurable ==
  \A r \in Requests : reply[r] \in Decisions =>
    \E i \in 1..synced : disk[i].id = r /\ disk[i].decision = reply[r]

\* A restarted authority still knows every receipt it ever answered with, so an
\* approval obtained before a crash can be redeemed after it.
AnsweredIsRemembered ==
  \A p \in Procs, r \in Requests :
    status[p] \in {"up", "closing"} /\ reply[r] \in Decisions =>
      \E i \in 1..Len(memory[p]) : memory[p][i].id = r

\* The ledger file is one unforked chain, whichever processes appended to it and
\* whichever appends failed half-way (receiptLedger.ts 44-46, 105-111).
SingleChain == ChainIntact(disk)

\* What was answered is kept, on disk and in memory, in one chain.
LedgerInv == AnsweredIsDurable /\ AnsweredIsRemembered /\ SingleChain

\* A recorded PERMIT that redeems a receipt follows that receipt in the chain,
\* is bound to the same change, is at most one lookup older than the redemption
\* window, and names a reviewer other than the author (index.ts 142-174).
PermitBacked ==
  \A i \in 1..Len(disk) :
    disk[i].action = Reauthorize /\ disk[i].decision = "PERMIT" =>
      /\ disk[i].reviewer \in Reviewers \ {Author[disk[i].change]}
      /\ \E j \in 1..(i - 1) :
           /\ disk[j].id = disk[i].prior
           /\ disk[j].action = Execute
           /\ disk[j].decision \in {"STEP_UP", "ESCALATE"}
           /\ disk[j].change = disk[i].change
           /\ disk[i].time <= disk[j].time + PriorTtl + LookupTimeout

\* Whenever a PERMIT is decided, the grant table of the deciding process holds
\* an unrevoked grant for the change, at most one lookup past its expiry and
\* past the freshness of its evidence (index.ts 86-90, 134, 175).
GrantHeldAtPermit ==
  [][\A r \in Requests : verdict[r] # "PERMIT" /\ verdict'[r] = "PERMIT" =>
       LET c == call'[r]
           g == grants[c.by][c.grant] IN
       /\ g # None /\ ~g.revoked /\ c.change \in g.covers
       /\ now < g.expiresAt + LookupTimeout
       /\ now <= g.verifiedAt + AttestTtl + LookupTimeout]_vars

\* Every handler that starts answers its caller or dies with its process: the
\* lookup is aborted after LookupTimeout and nothing after it waits.
HandlerEnds ==
  \A r \in Requests : pc[r] \in Live ~> pc[r] \in {"done", "lost"}

\* The one-shot redemption the two ledgers implement: what is spent durably
\* stays spent, and a caller is answered PERMIT only for a spent receipt.
Redemption == INSTANCE OneShotRedemption WITH
  Receipts  <- Requests,
  Callers   <- Requests,
  spent     <- spentSynced,
  permitted <- {call[r].prior : r \in {s \in Requests :
                  reply[s] = "PERMIT" /\ call[s].action = Reauthorize}},
  answers   <- {r \in Requests :
                  reply[r] = "PERMIT" /\ call[r].action = Reauthorize}
RedeemsOnce == Redemption!Spec
==============================================================================
