-------------------------- MODULE MCStepUpAuthority --------------------------
(***************************************************************************)
(* Small instances of StepUpAuthority.  The first pair of definitions      *)
(* exercises races, crashes and failed writes under one standing grant;    *)
(* the second the clock, the grant tables and progress.                    *)
(***************************************************************************)
EXTENDS StepUpAuthority, TLC

CONSTANTS author, reviewer, change, other, grant, releaseGrant, first, second

Symmetry == Permutations(Requests) \cup Permutations(Procs)

AuthorOf == [c \in Changes |-> author]

GrantOf(action, score, verified, expires, revoked) ==
  [covers |-> Changes, action |-> action, score |-> score,
   verifiedAt |-> verified, expiresAt |-> expires, revoked |-> revoked]

Table(ofExecute, ofRelease) ==
  [g \in GrantRefs |-> IF g = grant THEN ofExecute ELSE ofRelease]

ExecuteInput(c) ==
  [action |-> Execute, change |-> c, grant |-> grant, prior |-> None,
   reviewer |-> None, actor |-> None]

ReleaseInput(c) ==
  [ExecuteInput(c) EXCEPT !.action = Release, !.grant = releaseGrant]

ReauthorizeInput(c, id, who) ==
  [ExecuteInput(c) EXCEPT !.action = Reauthorize, !.prior = id, !.reviewer = who]

\* Races and crashes: a standing grant, a protected change.
RaceTables == {Table(GrantOf(Execute, 90, 0, 9, FALSE), None)}
RaceInputs == {ExecuteInput(change)}
  \cup {ReauthorizeInput(change, id, reviewer) : id \in Requests}

\* Time and grants: evidence that goes stale, a low score on evidence dated in
\* the future, a revocation, a missing grant; two changes, two reviewers; a
\* receipt of another action.
ClockTables ==
  {Table(GrantOf(Execute, 90, 0, 3, FALSE), GrantOf(Release, 90, 0, 4, FALSE)),
   Table(GrantOf(Execute, 50, 2, 4, FALSE), GrantOf(Release, 90, 0, 4, FALSE)),
   Table(GrantOf(Execute, 90, 0, 4, TRUE), None)}
ClockInputs == {ExecuteInput(change), ExecuteInput(other), ReleaseInput(change)}
  \cup {ReauthorizeInput(change, id, who) :
            id \in Requests, who \in {author, reviewer}}
  \cup {ReauthorizeInput(other, id, reviewer) : id \in Requests}

NoneOrAll == {{}, Reviewers}
OnlyAll   == {Reviewers}

\* Requests are interchangeable: the first of the two is the one that arrives
\* first.  The process restarts after a shutdown; MaxCrashes is 0.
TimelyNext ==
  \/ \E p \in Procs :
       \/ OpenLock(p) \/ LoadLedger(p) \/ RefuseLedger(p)
       \/ Shutdown(p) \/ CloseLedger(p) \/ Crash(p)
       \/ Decide(p, first)
       \/ pc[first] # "idle" /\ Decide(p, second)
  \/ \E r \in Requests : Handle(r)
  \/ PowerLoss \/ RecoverLock \/ GitHubChanges \/ Tick

TimelySpec ==
  /\ Init /\ [][TimelyNext]_vars
  /\ \A r \in Requests : WF_vars(Handle(r))
==============================================================================
