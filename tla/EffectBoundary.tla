--------------------------- MODULE EffectBoundary ---------------------------
(***************************************************************************)
(* The effect boundary of packages/pctr: a protected call has an authority *)
(* issued for one execution, asks a boundary process to verify it, and     *)
(* executes only when the boundary allows.  The boundary spends the        *)
(* authority's nonce in a replay store it keeps in memory and rewrites as  *)
(* one file.  The nonce of an authority is identified with the call that   *)
(* had it issued.                                                          *)
(*                                                                         *)
(* The boundary is JavaScript without an await: a verification, its file   *)
(* operations included, is not interleaved with another of that process.   *)
(* A crash can fall before the rename that makes the new file visible.     *)
(***************************************************************************)
EXTENDS Naturals

CONSTANTS
  Boundaries,   \* boundary processes started on one project directory
  Calls,        \* calls of protect, or of a client that holds an authority
  Effects,      \* an action on a target
  Principals,
  Keys,         \* signing keys
  Pinned,       \* the keys the boundaries pin: publicKey and trustedKeyIds
  Names,        \* parameter names
  Values,       \* their values, numbers where a maximum applies
  Requests,     \* what protect may be asked to authorize
  Executions,   \* what a holder of an authority may present it for
  ValidFor,     \* validForSeconds
  Timeout,      \* timeoutMs of remoteBoundary
  MaxNow, MaxStops, MaxPowerLosses,   \* bounds
  None

Params == UNION {[S -> Values] : S \in SUBSET Names}

Request == [effect: Effects, principal: Principals, params: Params, key: Keys,
            material: SUBSET Names, nonMaterial: SUBSET Names, max: Params,
            needsApproval: BOOLEAN, approval: BOOLEAN]

Execution == [effect: Effects, principal: Principals \cup {None},
              params: Params, approval: BOOLEAN]

ASSUME BoundaryAssumption ==
  /\ Pinned \subseteq Keys /\ Values \subseteq Nat
  /\ \A q \in Requests : q \in Request
  /\ \A x \in Executions : x \in Execution
  /\ {ValidFor, Timeout, MaxNow, MaxStops, MaxPowerLosses} \subseteq Nat
  /\ None \notin Requests \cup Executions \cup Calls \cup Principals

VARIABLES
  now,        \* wall clock
  up,         \* the boundary processes that run
  memory,     \* memory[b]: the nonces in the Set of b's replay store
  file,       \* the nonces in spent-nonces.json
  readable,   \* the file is absent or a JSON array of strings
  versions,   \* every content the file has had: nothing syncs it
  issued,     \* issued[c]: the request and time of c's authority, or None
  sent,       \* sent[c]: what c presented, where and when, or None
  server,     \* server[c]: how far the boundary is with c's request
  client,     \* client[c]: how far c is
  doneAt,     \* doneAt[c]: when c executed its effect
  stops, powerLosses

storeVars  == <<up, memory, file, readable, versions>>
callVars   == <<issued, sent, server, client, doneAt>>
boundVars  == <<stops, powerLosses>>
vars == <<now, storeVars, callVars, boundVars>>

Issued == [request: Requests, issuedAt: Nat, expiresAt: Nat]
Sent   == [to: Boundaries, nonce: Calls, execution: Execution, at: Nat]
ServerStages == {"none", "queued", "flushing", "allowed", "refused", "gone"}
ClientStages == {"idle", "waiting", "executed", "denied"}

Init ==
  /\ now = 0
  /\ up = {} /\ memory = [b \in Boundaries |-> {}]
  /\ file = {} /\ readable = TRUE /\ versions = {{}}
  /\ issued = [c \in Calls |-> None]
  /\ sent = [c \in Calls |-> None]
  /\ server = [c \in Calls |-> "none"]
  /\ client = [c \in Calls |-> "idle"]
  /\ doneAt = [c \in Calls |-> 0]
  /\ stops = 0 /\ powerLosses = 0

------------------------------------------------------------------------------
(* Authorities.                                                            *)

\* selectMaterial: the named parameters, or all of them when none is named.
MaterialParams(q) ==
  LET named == IF q.material = {} THEN DOMAIN q.params
               ELSE q.material \cap DOMAIN q.params IN
  [k \in named |-> q.params[k]]

\* Mutant: parameters the authority does not mention pass.
BindsMaterialOnly(q, x) ==
  LET material == MaterialParams(q) IN
  /\ x.effect = q.effect /\ x.principal \in {None, q.principal}
  /\ \A k \in DOMAIN material :
       k \in DOMAIN x.params /\ x.params[k] = material[k]
  /\ \A k \in DOMAIN q.max \cap DOMAIN x.params : x.params[k] <= q.max[k]
  /\ q.needsApproval => x.approval

\* What is about to execute is what was signed: same action, target and
\* principal, the signed parameters and no unsigned one that was not declared
\* non-material, no constrained parameter above its maximum, and the approval.
Binds(q, x) ==
  LET material == MaterialParams(q) IN
  /\ x.effect = q.effect /\ x.principal \in {None, q.principal}
  /\ DOMAIN x.params \subseteq DOMAIN material \cup q.nonMaterial
  /\ \A k \in DOMAIN material :
       k \in DOMAIN x.params /\ x.params[k] = material[k]
  /\ \A k \in DOMAIN q.max \cap DOMAIN x.params : x.params[k] <= q.max[k]
  /\ q.needsApproval => x.approval

\* Mutant: expiry is not compared.
WithinIssueOnly(a) == a.issuedAt <= now /\ a.issuedAt < a.expiresAt

WithinValidity(a) ==
  a.issuedAt <= now /\ now < a.expiresAt /\ a.issuedAt < a.expiresAt

\* verifyAuthority finds no failure.
Verifies(b, m) ==
  LET a == issued[m.nonce] IN
  /\ a.request.key \in Pinned
  /\ WithinValidity(a)
  /\ Binds(a.request, m.execution)
  /\ m.nonce \notin memory[b]

------------------------------------------------------------------------------
(* The boundary process and its replay store.                              *)

\* Mutant: a restarted boundary does not read the file.
StartEmpty(b) ==
  /\ b \notin up /\ readable
  /\ up' = up \cup {b}
  /\ memory' = [memory EXCEPT ![b] = {}]
  /\ UNCHANGED <<now, file, readable, versions, callVars, boundVars>>

\* persistentReplayStore throws on a file that is not a list of nonces.
Start(b) ==
  /\ b \notin up /\ readable
  /\ up' = up \cup {b}
  /\ memory' = [memory EXCEPT ![b] = file]
  /\ UNCHANGED <<now, file, readable, versions, callVars, boundVars>>

Flushing(b) == \E c \in Calls : server[c] = "flushing" /\ sent[c].to = b

Serves(b, c) == b \in up /\ ~Flushing(b) /\ server[c] = "queued" /\ sent[c].to = b

\* The 200 answer with a decision that denies; the nonce is not spent.
Refuse(b, c) ==
  /\ Serves(b, c) /\ ~Verifies(b, sent[c])
  /\ server' = [server EXCEPT ![c] = "refused"]
  /\ UNCHANGED <<now, storeVars, issued, sent, client, doneAt, boundVars>>

\* Mutant: the nonce is not added to the Set.
SpendNothing(b, c) ==
  /\ Serves(b, c) /\ Verifies(b, sent[c])
  /\ server' = [server EXCEPT ![c] = "flushing"]
  /\ UNCHANGED <<now, storeVars, issued, sent, client, doneAt, boundVars>>

\* spend adds the nonce in memory before it writes the file.
Spend(b, c) ==
  /\ Serves(b, c) /\ Verifies(b, sent[c])
  /\ memory' = [memory EXCEPT ![b] = @ \cup {sent[c].nonce}]
  /\ server' = [server EXCEPT ![c] = "flushing"]
  /\ UNCHANGED <<now, up, file, readable, versions, issued, sent, client,
                 doneAt, boundVars>>

\* Mutant: the answer does not wait for the file.
AllowUnflushed(b, c) ==
  /\ server[c] = "flushing" /\ sent[c].to = b
  /\ server' = [server EXCEPT ![c] = "allowed"]
  /\ UNCHANGED <<now, storeVars, issued, sent, client, doneAt, boundVars>>

\* The rename: the file holds this process's whole Set, and only that.
Flush(b, c) ==
  /\ server[c] = "flushing" /\ sent[c].to = b
  /\ file' = memory[b] /\ versions' = versions \cup {memory[b]}
  /\ server' = [server EXCEPT ![c] = "allowed"]
  /\ UNCHANGED <<now, up, memory, readable, issued, sent, client, doneAt, boundVars>>

\* The write or the rename throws: 503; the nonce stays in memory.
FlushFails(b, c) ==
  /\ server[c] = "flushing" /\ sent[c].to = b
  /\ server' = [server EXCEPT ![c] = "refused"]
  /\ UNCHANGED <<now, storeVars, issued, sent, client, doneAt, boundVars>>

Stopped(bs) ==
  /\ up' = up \ bs
  /\ memory' = [b \in Boundaries |-> IF b \in bs THEN {} ELSE memory[b]]
  /\ server' = [c \in Calls |->
       IF server[c] \in {"queued", "flushing"} /\ sent[c].to \in bs
       THEN "gone" ELSE server[c]]

\* An interrupt or a crash; a written answer may still arrive.
Stop(b) ==
  /\ b \in up /\ stops < MaxStops
  /\ stops' = stops + 1
  /\ Stopped({b})
  /\ UNCHANGED <<now, file, readable, versions, issued, sent, client, doneAt,
                 powerLosses>>

\* The host dies: the file may be back at an earlier content, or unreadable.
PowerLoss ==
  /\ powerLosses < MaxPowerLosses
  /\ powerLosses' = powerLosses + 1
  /\ Stopped(Boundaries)
  /\ file' \in versions /\ readable' \in BOOLEAN
  /\ UNCHANGED <<now, versions, issued, sent, client, doneAt, stops>>

------------------------------------------------------------------------------
(* The client.                                                             *)

Send(c, n, x) ==
  /\ client' = [client EXCEPT ![c] = "waiting"]
  /\ server' = [server EXCEPT ![c] = "queued"]
  /\ \E b \in Boundaries :
       sent' = [sent EXCEPT ![c] =
                  [to |-> b, nonce |-> n, execution |-> x, at |-> now]]

\* protect: a request whose approval is missing is denied; otherwise
\* issueAuthority, and the boundary is asked about the requested execution.
Protect(c) ==
  /\ client[c] = "idle"
  /\ \E q \in Requests :
       /\ q.needsApproval => q.approval
       /\ issued' = [issued EXCEPT ![c] =
            [request |-> q, issuedAt |-> now, expiresAt |-> now + ValidFor]]
       /\ Send(c, c, [effect |-> q.effect, principal |-> q.principal,
                      params |-> q.params, approval |-> q.approval])
  /\ UNCHANGED <<now, storeVars, doneAt, boundVars>>

\* A retry, or another holder, presents an authority issued earlier.
Present(c) ==
  /\ client[c] = "idle"
  /\ \E n \in Calls, x \in Executions : issued[n] # None /\ Send(c, n, x)
  /\ UNCHANGED <<now, storeVars, issued, doneAt, boundVars>>

\* Connection refused, a lost answer, an error status or the timeout: denied.
\* The boundary may still be working on the request, or get to it later.
GiveUp(c) ==
  /\ client[c] = "waiting"
  /\ client' = [client EXCEPT ![c] = "denied"]
  /\ UNCHANGED <<now, storeVars, issued, sent, server, doneAt, boundVars>>

\* The boundary's answer arrives: the effect is executed, or nothing is.
Receive(c) ==
  /\ client[c] = "waiting"
  /\ \/ /\ server[c] = "allowed"
        /\ client' = [client EXCEPT ![c] = "executed"]
        /\ doneAt' = [doneAt EXCEPT ![c] = now]
     \/ /\ server[c] = "refused"
        /\ client' = [client EXCEPT ![c] = "denied"]
        /\ UNCHANGED doneAt
  /\ UNCHANGED <<now, storeVars, issued, sent, server, boundVars>>

\* A flush takes no time; a client waits no longer than Timeout.
Tick ==
  /\ now < MaxNow
  /\ \A c \in Calls :
       /\ server[c] # "flushing"
       /\ client[c] = "waiting" => now < sent[c].at + Timeout
  /\ now' = now + 1
  /\ UNCHANGED <<storeVars, callVars, boundVars>>

Next ==
  \/ \E b \in Boundaries :
       \/ Start(b) \/ Stop(b)
       \/ \E c \in Calls : Refuse(b, c) \/ Spend(b, c) \/ Flush(b, c) \/ FlushFails(b, c)
  \/ \E c \in Calls : Protect(c) \/ Present(c) \/ GiveUp(c) \/ Receive(c)
  \/ PowerLoss \/ Tick

Spec == Init /\ [][Next]_vars

------------------------------------------------------------------------------
(* What the boundary promises.                                             *)

TypeOK ==
  /\ now \in Nat /\ stops \in Nat /\ powerLosses \in Nat
  /\ up \subseteq Boundaries
  /\ memory \in [Boundaries -> SUBSET Calls]
  /\ file \subseteq Calls /\ readable \in BOOLEAN
  /\ versions \in SUBSET SUBSET Calls
  /\ issued \in [Calls -> Issued \cup {None}]
  /\ sent \in [Calls -> Sent \cup {None}]
  /\ server \in [Calls -> ServerStages]
  /\ client \in [Calls -> ClientStages]
  /\ doneAt \in [Calls -> Nat]

\* While the host keeps power, one authority executes at most one effect: not for
\* two holders that present it at once, nor after a timeout whose request was still
\* being served, a flush that failed half-way or a restart of the boundary
\* (authority.mjs 105-107, boundary.mjs 13-41).
AtMostOneEffect ==
  powerLosses = 0 =>
    \A c, d \in Calls :
      /\ client[c] = "executed" /\ client[d] = "executed"
      /\ sent[c].nonce = sent[d].nonce
      => c = d

\* While the host keeps power, a boundary that runs knows every nonce it allowed,
\* before or after a restart (boundary.mjs 12: "Spent nonces must survive a restart").
AllowedIsRemembered ==
  powerLosses = 0 =>
    \A c \in Calls :
      server[c] = "allowed" /\ sent[c].to \in up => sent[c].nonce \in memory[sent[c].to]

\* The inductive strengthening of the two: a call claims its nonce from the moment
\* the boundary verified it.
Claims(c) == server[c] \in {"flushing", "allowed"}

Exclusive ==
  /\ \A c \in Calls :
       /\ client[c] = "idle" <=> server[c] = "none"
       /\ client[c] = "executed" => server[c] = "allowed"
       /\ server[c] = "flushing" =>
            sent[c].to \in up /\ sent[c].nonce \in memory[sent[c].to]
       /\ server[c] = "allowed" => sent[c].nonce \in file
  /\ \A b \in up : file \subseteq memory[b]
  /\ \A c, d \in Calls :
       Claims(c) /\ Claims(d) /\ sent[c].nonce = sent[d].nonce => c = d

\* For one boundary: what holds always, and what holds until the power fails.
IInv ==
  /\ TypeOK
  /\ \A c \in Calls : server[c] # "none" => sent[c] \in Sent
  /\ powerLosses = 0 => Exclusive

\* An executed effect is the one its authority was requested for: same action,
\* target and principal, and every parameter that was not declared non-material
\* has the requested value, even after retries, restarts or a power loss
\* (authority.mjs 72-104, protect.mjs 141-153).
EffectAsRequested ==
  \A c \in Calls : client[c] = "executed" =>
    LET x == sent[c].execution
        q == issued[sent[c].nonce].request IN
    /\ q.key \in Pinned
    /\ x.effect = q.effect /\ x.principal \in {None, q.principal}
    /\ \A k \in DOMAIN x.params \ q.nonMaterial :
         k \in DOMAIN q.params /\ x.params[k] = q.params[k]
    /\ \A k \in DOMAIN x.params \cap DOMAIN q.max : x.params[k] <= q.max[k]
    /\ q.needsApproval => x.approval

\* No effect is executed before its authority is issued, nor later than one
\* answer's delay after it expired: the boundary reads the clock, the client
\* that executes on its answer does not (authority.mjs 62-70, boundary.mjs 97-106).
EffectWhileValid ==
  \A c \in Calls : client[c] = "executed" =>
    /\ issued[sent[c].nonce].issuedAt <= doneAt[c]
    /\ doneAt[c] < issued[sent[c].nonce].expiresAt + Timeout

\* Every effect is the one that was authorized, while that was authorized.
EffectAuthorized == EffectAsRequested /\ EffectWhileValid

\* The one-shot redemption the store implements for one boundary process on a host
\* that keeps power: the file only grows, and a call executes only for a nonce in
\* the file.
Redemption == INSTANCE OneShotRedemption WITH
  Receipts  <- Calls,
  Callers   <- Calls,
  spent     <- file,
  permitted <- {sent[c].nonce : c \in {d \in Calls : client[d] = "executed"}},
  answers   <- {c \in Calls : client[c] = "executed"}
Redeems == powerLosses' = 0 => [Redemption!Next]_(Redemption!vars)
RedeemsOnce == Redemption!Init /\ [][Redeems]_vars
==============================================================================
