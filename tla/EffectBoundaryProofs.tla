------------------------- MODULE EffectBoundaryProofs -------------------------
(***************************************************************************)
(* Proofs about EffectBoundary, for any number of calls, requests,         *)
(* executions, restarts and power losses of one boundary process: IInv is  *)
(* inductive, so an authority executes at most one effect, and the replay  *)
(* store implements the one-shot redemption, until the host loses power.   *)
(* AuthInv is inductive for any number of processes and power losses: what  *)
(* is executed is what its authority was requested for, in time.            *)
(***************************************************************************)
EXTENDS EffectBoundary, TLAPS

\* One `pctr serve` per project directory; nothing in the code enforces it.
Solo == \A a, b \in Boundaries : a = b

\* What no step of any process, and no power loss, disturbs.
Sound ==
  /\ TypeOK
  /\ \A c \in Calls : server[c] # "none" => sent[c] \in Sent

Full == Sound /\ powerLosses = 0 /\ Exclusive

USE DEF vars, storeVars, callVars, boundVars, ServerStages, ClientStages

LEMMA InitInv == Init => Full
<1> SUFFICES ASSUME Init PROVE Full
  OBVIOUS
<1>1. TypeOK
  BY DEF Init, TypeOK
<1> QED
  BY <1>1 DEF Init, Full, Sound, Exclusive, Claims

\* The steps of a call, seen from the other calls.
LEMMA SendStep ==
  ASSUME Full, NEW c \in Calls, client[c] = "idle", NEW n \in Calls,
         NEW x \in Execution, Send(c, n, x),
         UNCHANGED <<now, storeVars, doneAt, boundVars>>,
         issued' \in [Calls -> Issued \cup {None}]
  PROVE  Full'
<1>1. PICK b \in Boundaries :
        sent' = [sent EXCEPT ![c] = [to |-> b, nonce |-> n, execution |-> x, at |-> now]]
  BY DEF Send
<1>2. sent'[c] \in Sent /\ server'[c] = "queued" /\ client'[c] = "waiting"
  BY <1>1 DEF Full, Sound, Exclusive, TypeOK, Send, Sent
<1>3. \A d \in Calls \ {c} :
        sent'[d] = sent[d] /\ server'[d] = server[d] /\ client'[d] = client[d]
  BY <1>1 DEF Full, Sound, Exclusive, TypeOK, Send
<1>4. TypeOK'
  <2>1. sent' \in [Calls -> Sent \cup {None}]
    BY <1>1, <1>2 DEF Full, Sound, Exclusive, TypeOK
  <2>2. server' \in [Calls -> ServerStages] /\ client' \in [Calls -> ClientStages]
    BY DEF Send, Full, Sound, Exclusive, TypeOK
  <2> QED
    BY <2>1, <2>2 DEF Full, Sound, Exclusive, TypeOK
<1>5. ~Claims(c)' /\ \A d \in Calls \ {c} : Claims(d)' <=> Claims(d)
  BY <1>2, <1>3 DEF Claims
<1> QED
  BY <1>2, <1>3, <1>4, <1>5 DEF Full, Sound, Exclusive

\* A call's request is answered, or waits, without a new claim.
LEMMA ServerStep ==
  ASSUME Full, NEW c \in Calls, server[c] # "none",
         NEW s \in {"allowed", "refused"}, server' = [server EXCEPT ![c] = s],
         s = "allowed" => server[c] = "flushing" /\ sent[c].nonce \in file',
         client[c] # "executed",
         UNCHANGED <<now, up, memory, readable, issued, sent, client, doneAt, boundVars>>,
         file \subseteq file', file' \subseteq Calls, versions' \in SUBSET SUBSET Calls,
         \A b \in up : file' \subseteq memory[b]
  PROVE  Full'
<1>1. server'[c] = s /\ \A d \in Calls \ {c} : server'[d] = server[d]
  BY DEF Full, Sound, Exclusive, TypeOK
<1>2. TypeOK'
  BY DEF Full, Sound, Exclusive, TypeOK
<1>3. \A d \in Calls : Claims(d)' => Claims(d)
  BY <1>1 DEF Claims
<1>4. \A d \in Calls :
        /\ client'[d] = "idle" <=> server'[d] = "none"
        /\ server'[d] # "none" => sent'[d] \in Sent
        /\ client'[d] = "executed" => server'[d] = "allowed"
        /\ server'[d] = "flushing" =>
             sent'[d].to \in up' /\ sent'[d].nonce \in memory'[sent'[d].to]
        /\ server'[d] = "allowed" => sent'[d].nonce \in file'
  BY <1>1 DEF Full, Sound, Exclusive
<1> QED
  BY <1>2, <1>3, <1>4 DEF Full, Sound, Exclusive

\* What the boundary verified is claimed by nobody else: every claimed nonce is
\* in its memory, put there by a flush in progress or read back from the file.
LEMMA SpendStep ==
  ASSUME Full, Solo, NEW b \in Boundaries, NEW c \in Calls, Spend(b, c)
  PROVE  Full'
<1> DEFINE n == sent[c].nonce
<1>1. /\ b \in up /\ server[c] = "queued" /\ sent[c].to = b /\ n \notin memory[b]
      /\ memory' = [memory EXCEPT ![b] = @ \cup {n}]
      /\ server' = [server EXCEPT ![c] = "flushing"]
      /\ UNCHANGED <<now, up, file, readable, versions, issued, sent, client,
                     doneAt, boundVars>>
  BY DEF Spend, Serves, Verifies
<1>2. sent[c] \in Sent /\ n \in Calls /\ client[c] \notin {"idle", "executed"}
  BY <1>1 DEF Full, Sound, Exclusive, Sent
<1>3. /\ server'[c] = "flushing" /\ memory'[b] = memory[b] \cup {n}
      /\ \A d \in Calls \ {c} : server'[d] = server[d]
      /\ \A a \in Boundaries : memory[a] \subseteq memory'[a]
  BY <1>1 DEF Full, Sound, Exclusive, TypeOK
<1>4. TypeOK'
  <2>1. memory' \in [Boundaries -> SUBSET Calls]
    BY <1>1, <1>2 DEF Full, Sound, Exclusive, TypeOK
  <2>2. server' \in [Calls -> ServerStages]
    BY <1>1 DEF Full, Sound, Exclusive, TypeOK
  <2> QED
    BY <1>1, <2>1, <2>2 DEF Full, Sound, Exclusive, TypeOK
<1>5. ASSUME NEW d \in Calls, Claims(d) PROVE sent[d].nonce # n
  <2>1. CASE server[d] = "flushing"
    <3>1. sent[d].to \in up /\ sent[d].nonce \in memory[sent[d].to]
      BY <2>1 DEF Full, Sound, Exclusive
    <3>2. sent[d].to = b
      BY <3>1 DEF Solo, Full, Sound, Exclusive, TypeOK
    <3> QED
      BY <1>1, <3>1, <3>2
  <2>2. CASE server[d] = "allowed"
    BY <1>1, <2>2 DEF Full, Sound, Exclusive
  <2> QED
    BY <1>5, <2>1, <2>2 DEF Claims
<1>6. \A d \in Calls \ {c} : Claims(d)' <=> Claims(d)
  BY <1>3 DEF Claims
<1>7. \A d \in Calls :
        /\ client'[d] = "idle" <=> server'[d] = "none"
        /\ server'[d] # "none" => sent'[d] \in Sent
        /\ client'[d] = "executed" => server'[d] = "allowed"
        /\ server'[d] = "flushing" =>
             sent'[d].to \in up' /\ sent'[d].nonce \in memory'[sent'[d].to]
        /\ server'[d] = "allowed" => sent'[d].nonce \in file'
  <2> SUFFICES ASSUME NEW d \in Calls
               PROVE  /\ client'[d] = "idle" <=> server'[d] = "none"
                      /\ server'[d] # "none" => sent'[d] \in Sent
                      /\ client'[d] = "executed" => server'[d] = "allowed"
                      /\ server'[d] = "flushing" => sent'[d].to \in up' /\ sent'[d].nonce \in memory'[sent'[d].to]
                      /\ server'[d] = "allowed" => sent'[d].nonce \in file'
    OBVIOUS
  <2>1. CASE d = c
    BY <1>1, <1>2, <1>3, <2>1
  <2>2. CASE d # c
    BY <1>1, <1>3, <2>2 DEF Full, Sound, Exclusive, TypeOK
  <2> QED
    BY <2>1, <2>2
<1>8. \A a \in up' : file' \subseteq memory'[a]
  BY <1>1, <1>3 DEF Full, Sound, Exclusive, TypeOK
<1> QED
  BY <1>1, <1>4, <1>5, <1>6, <1>7, <1>8 DEF Full, Sound, Exclusive

\* A boundary is the only writer of its file, so its Set holds all of it.
LEMMA StartStep ==
  ASSUME Full, NEW b \in Boundaries, Start(b)
  PROVE  Full'
<1>1. TypeOK'
  BY DEF Start, Full, Sound, Exclusive, TypeOK
<1>2. \A a \in up' : file' \subseteq memory'[a]
  BY DEF Start, Full, Sound, Exclusive, TypeOK
<1>3. \A c \in Calls : server[c] = "flushing" =>
        sent[c].to \in up' /\ sent[c].nonce \in memory'[sent[c].to]
  BY DEF Start, Full, Sound, Exclusive, TypeOK
<1> QED
  BY <1>1, <1>2, <1>3 DEF Start, Full, Sound, Exclusive, Claims

LEMMA StopStep ==
  ASSUME Full, NEW b \in Boundaries, Stop(b)
  PROVE  Full'
<1>1. TypeOK'
  BY DEF Stop, Stopped, Full, Sound, Exclusive, TypeOK
<1>2. \A c \in Calls :
        /\ server'[c] = "none" <=> server[c] = "none"
        /\ server'[c] = "allowed" <=> server[c] = "allowed"
        /\ server'[c] = "flushing" => server[c] = "flushing" /\ sent[c].to # b
  BY DEF Stop, Stopped, Full, Sound, Exclusive, TypeOK
<1>3. /\ up' = up \ {b} /\ \A a \in up' : memory'[a] = memory[a]
      /\ UNCHANGED <<now, file, issued, sent, client, doneAt, powerLosses>>
  BY DEF Stop, Stopped, Full, Sound, Exclusive, TypeOK
<1>4. \A c \in Calls : Claims(c)' => Claims(c)
  BY <1>2 DEF Claims
<1> QED
  BY <1>1, <1>2, <1>3, <1>4 DEF Full, Sound, Exclusive

LEMMA PoweredStep ==
  ASSUME Solo, Full, [Next]_vars, powerLosses' = 0
  PROVE  Full'
<1>1. CASE UNCHANGED vars
  BY <1>1 DEF Full, Sound, Exclusive, TypeOK, Claims
<1>2. ASSUME NEW b \in Boundaries, Start(b) \/ Stop(b) PROVE Full'
  BY <1>2, StartStep, StopStep
<1>3. ASSUME NEW b \in Boundaries, NEW c \in Calls,
             Refuse(b, c) \/ Flush(b, c) \/ FlushFails(b, c)
      PROVE  Full'
  <2>1. server[c] \in {"queued", "flushing"} /\ client[c] # "executed"
    BY <1>3 DEF Refuse, Serves, Flush, FlushFails, Full, Sound, Exclusive
  <2>2. CASE Flush(b, c)
    <3>1. b \in up /\ sent[c].nonce \in memory[b]
      BY <2>2 DEF Flush, Full, Sound, Exclusive
    <3>2. \A a \in up : memory[b] \subseteq memory[a]
      BY DEF Solo, Full, Sound, Exclusive, TypeOK
    <3>3. memory[b] \subseteq Calls /\ versions' \in SUBSET SUBSET Calls
      BY <2>2 DEF Flush, Full, Sound, Exclusive, TypeOK
    <3>4. file \subseteq memory[b]
      BY <3>1 DEF Full, Sound, Exclusive
    <3> QED
      BY <2>1, <2>2, <3>1, <3>2, <3>3, <3>4, ServerStep DEF Flush
  <2>3. CASE Refuse(b, c) \/ FlushFails(b, c)
    <3>1. file \subseteq Calls /\ versions \in SUBSET SUBSET Calls
          /\ \A a \in up : file \subseteq memory[a]
      BY DEF Full, Sound, Exclusive, TypeOK
    <3> QED
      BY <2>1, <2>3, <3>1, ServerStep DEF Refuse, FlushFails
  <2> QED
    BY <1>3, <2>2, <2>3
<1>4. ASSUME NEW b \in Boundaries, NEW c \in Calls, Spend(b, c) PROVE Full'
  BY <1>4, SpendStep
<1>5. ASSUME NEW c \in Calls, Protect(c) PROVE Full'
  <2>1. PICK q \in Requests :
          /\ issued' = [issued EXCEPT ![c] =
               [request |-> q, issuedAt |-> now, expiresAt |-> now + ValidFor]]
          /\ Send(c, c, [effect |-> q.effect, principal |-> q.principal,
                         params |-> q.params, approval |-> q.approval])
    BY <1>5 DEF Protect
  <2>2. [request |-> q, issuedAt |-> now, expiresAt |-> now + ValidFor] \in Issued
    BY BoundaryAssumption DEF Issued, Full, Sound, Exclusive, TypeOK
  <2>3. issued' \in [Calls -> Issued \cup {None}]
    BY <2>1, <2>2 DEF Full, Sound, Exclusive, TypeOK
  <2>4. [effect |-> q.effect, principal |-> q.principal,
         params |-> q.params, approval |-> q.approval] \in Execution
    BY BoundaryAssumption DEF Request, Execution
  <2> QED
    BY <1>5, <2>1, <2>3, <2>4, SendStep DEF Protect
<1>6. ASSUME NEW c \in Calls, Present(c) PROVE Full'
  <2>1. PICK n \in Calls, x \in Executions : Send(c, n, x)
    BY <1>6 DEF Present
  <2>2. x \in Execution
    BY BoundaryAssumption
  <2> QED
    BY <1>6, <2>1, <2>2, SendStep DEF Present, Full, Sound, Exclusive, TypeOK
<1>7. ASSUME NEW c \in Calls, GiveUp(c) \/ Receive(c) PROVE Full'
  <2>1. client[c] = "waiting" /\ UNCHANGED <<now, storeVars, issued, sent, server, boundVars>>
    BY <1>7 DEF GiveUp, Receive
  <2>2. /\ client'[c] \in {"executed", "denied"}
        /\ client'[c] = "executed" => server[c] = "allowed"
        /\ \A d \in Calls \ {c} : client'[d] = client[d]
    BY <1>7 DEF GiveUp, Receive, Full, Sound, Exclusive, TypeOK
  <2>3. TypeOK'
    BY <1>7 DEF GiveUp, Receive, Full, Sound, Exclusive, TypeOK
  <2> QED
    BY <2>1, <2>2, <2>3 DEF Full, Sound, Exclusive, Claims
<1>8. ~PowerLoss
  BY DEF PowerLoss, Full
<1>9. CASE Tick
  BY <1>9 DEF Tick, Full, Sound, Exclusive, TypeOK, Claims
<1> QED
  BY <1>1, <1>2, <1>3, <1>4, <1>5, <1>6, <1>7, <1>8, <1>9 DEF Next

\* A power loss takes the memory and may take the file back, but nothing else.
LEMMA SoundStep ==
  ASSUME Sound, [Next]_vars
  PROVE  Sound'
<1> USE DEF Sound, TypeOK
<1>1. CASE UNCHANGED vars \/ Tick
  BY <1>1 DEF Tick
<1>2. ASSUME NEW b \in Boundaries, Start(b) PROVE Sound'
  BY <1>2 DEF Start
<1>3. ASSUME NEW bs \in SUBSET Boundaries, Stopped(bs), file' \subseteq Calls,
             readable' \in BOOLEAN, stops' \in Nat, powerLosses' \in Nat,
             UNCHANGED <<now, versions, issued, sent, client, doneAt>>
      PROVE  Sound'
  <2>1. memory' \in [Boundaries -> SUBSET Calls] /\ up' \subseteq Boundaries
    BY <1>3 DEF Stopped
  <2>2. /\ server' \in [Calls -> ServerStages]
        /\ \A c \in Calls : server'[c] # "none" => server[c] # "none"
    BY <1>3 DEF Stopped
  <2> QED
    BY <1>3, <2>1, <2>2
<1>4. ASSUME NEW b \in Boundaries, Stop(b) PROVE Sound'
  BY <1>3, <1>4 DEF Stop
<1>5. CASE PowerLoss
  <2>1. file' \subseteq Calls
    BY <1>5 DEF PowerLoss
  <2> QED
    BY <1>3, <1>5, <2>1 DEF PowerLoss
<1>6. ASSUME NEW b \in Boundaries, NEW c \in Calls,
             Refuse(b, c) \/ Spend(b, c) \/ Flush(b, c) \/ FlushFails(b, c)
      PROVE  Sound'
  <2>1. server[c] # "none" /\ sent[c] \in Sent /\ sent[c].nonce \in Calls
    BY <1>6 DEF Refuse, Spend, Flush, FlushFails, Serves, Sent
  <2>2. PICK s \in {"flushing", "allowed", "refused"} : server' = [server EXCEPT ![c] = s]
    BY <1>6 DEF Refuse, Spend, Flush, FlushFails
  <2>3. /\ server' \in [Calls -> ServerStages]
        /\ \A d \in Calls : server'[d] # "none" => server[d] # "none"
    BY <2>1, <2>2
  <2>4. memory' \in [Boundaries -> SUBSET Calls]
    BY <1>6, <2>1 DEF Refuse, Spend, Flush, FlushFails
  <2>5. file' \subseteq Calls /\ versions' \in SUBSET SUBSET Calls
    BY <1>6 DEF Refuse, Spend, Flush, FlushFails
  <2>6. UNCHANGED <<now, up, readable, issued, sent, client, doneAt, boundVars>>
    BY <1>6 DEF Refuse, Spend, Flush, FlushFails
  <2> QED
    BY <2>3, <2>4, <2>5, <2>6
<1>7. ASSUME NEW c \in Calls, NEW n \in Calls, NEW x \in Execution, Send(c, n, x),
             issued' \in [Calls -> Issued \cup {None}],
             UNCHANGED <<now, storeVars, doneAt, boundVars>>
      PROVE  Sound'
  <2>1. PICK b \in Boundaries :
          sent' = [sent EXCEPT ![c] = [to |-> b, nonce |-> n, execution |-> x, at |-> now]]
    BY <1>7 DEF Send
  <2>2. [to |-> b, nonce |-> n, execution |-> x, at |-> now] \in Sent
    BY DEF Sent
  <2>3. sent' \in [Calls -> Sent \cup {None}] /\ sent'[c] \in Sent
        /\ \A d \in Calls \ {c} : sent'[d] = sent[d]
    BY <2>1, <2>2
  <2>4. /\ server' \in [Calls -> ServerStages] /\ client' \in [Calls -> ClientStages]
        /\ \A d \in Calls \ {c} : server'[d] = server[d]
    BY <1>7 DEF Send
  <2> QED
    BY <1>7, <2>3, <2>4
<1>8. ASSUME NEW c \in Calls, Protect(c) PROVE Sound'
  <2>1. PICK q \in Requests :
          /\ issued' = [issued EXCEPT ![c] =
               [request |-> q, issuedAt |-> now, expiresAt |-> now + ValidFor]]
          /\ Send(c, c, [effect |-> q.effect, principal |-> q.principal,
                         params |-> q.params, approval |-> q.approval])
    BY <1>8 DEF Protect
  <2>2. [request |-> q, issuedAt |-> now, expiresAt |-> now + ValidFor] \in Issued
    BY BoundaryAssumption DEF Issued
  <2>3. issued' \in [Calls -> Issued \cup {None}]
    BY <2>1, <2>2
  <2>4. [effect |-> q.effect, principal |-> q.principal,
         params |-> q.params, approval |-> q.approval] \in Execution
    BY BoundaryAssumption DEF Request, Execution
  <2> QED
    BY <1>7, <1>8, <2>1, <2>3, <2>4 DEF Protect
<1>9. ASSUME NEW c \in Calls, Present(c) PROVE Sound'
  <2>1. PICK n \in Calls, x \in Executions : Send(c, n, x)
    BY <1>9 DEF Present
  <2>2. x \in Execution
    BY BoundaryAssumption
  <2> QED
    BY <1>7, <1>9, <2>1, <2>2 DEF Present
<1>10. ASSUME NEW c \in Calls, GiveUp(c) \/ Receive(c) PROVE Sound'
  BY <1>10 DEF GiveUp, Receive
<1> QED
  BY <1>1, <1>2, <1>4, <1>5, <1>6, <1>8, <1>9, <1>10 DEF Next

LEMMA PowerStaysLost ==
  ASSUME TypeOK, [Next]_vars, powerLosses' = 0
  PROVE  powerLosses = 0
<1>1. PowerLoss => powerLosses' # 0
  BY DEF PowerLoss, TypeOK
<1>2. ~PowerLoss => powerLosses' = powerLosses
  BY DEF Next, Start, Stop, Refuse, Spend, Flush, FlushFails, Protect, Present,
         GiveUp, Receive, Tick
<1> QED
  BY <1>1, <1>2

LEMMA InductiveStep ==
  ASSUME Solo, IInv, [Next]_vars
  PROVE  IInv'
<1>1. Sound'
  BY SoundStep DEF IInv, Sound
<1>2. ASSUME powerLosses' = 0 PROVE Exclusive'
  <2>1. Full
    BY <1>2, PowerStaysLost DEF Full, Sound, IInv
  <2> QED
    BY <1>2, <2>1, PoweredStep DEF Full
<1> QED
  BY <1>1, <1>2 DEF IInv, Sound

\* IInv holds of every behaviour of one boundary.
THEOREM Invariance ==
  ASSUME Solo PROVE Spec => []IInv
<1>1. Init => IInv
  BY InitInv DEF IInv, Full, Sound
<1>2. IInv /\ [Next]_vars => IInv'
  BY InductiveStep
<1> QED
  BY <1>1, <1>2, PTL DEF Spec

\* While the host keeps power an authority executes at most one effect, whatever is
\* retried, timed out, half-flushed or restarted (authority.mjs 105-107, boundary.mjs
\* 13-41).
THEOREM ExecutedOnce ==
  ASSUME Solo PROVE Spec => []AtMostOneEffect
<1>1. IInv => AtMostOneEffect
  BY DEF IInv, Exclusive, AtMostOneEffect, Claims
<1> QED
  BY <1>1, Invariance, PTL

\* While the host keeps power a boundary that runs knows every nonce it allowed,
\* before a restart too.
THEOREM Remembered ==
  ASSUME Solo PROVE Spec => []AllowedIsRemembered
<1>1. IInv => AllowedIsRemembered
  BY DEF IInv, Exclusive, AllowedIsRemembered
<1> QED
  BY <1>1, Invariance, PTL

------------------------------------------------------------------------------
(* The one-shot redemption is implemented.                                 *)

Executed == {c \in Calls : client[c] = "executed"}

LEMMA RedemptionStep ==
  ASSUME Solo, Full, Full', [Next]_vars
  PROVE  [Redemption!Next]_(Redemption!vars)
<1> USE DEF Redemption!Next, Redemption!vars, Redemption!Spend, Redemption!Permit, Executed
<1> DEFINE permitted == {sent[c].nonce : c \in Executed}
\* A call executes: its nonce is in the file and nobody else executed it.
<1>1. ASSUME NEW c \in Calls, Receive(c), server[c] = "allowed"
      PROVE  [Redemption!Next]_(Redemption!vars)
  <2>1. /\ client[c] = "waiting" /\ client' = [client EXCEPT ![c] = "executed"]
        /\ sent' = sent /\ file' = file
    BY <1>1 DEF Receive
  <2>2. Executed' = Executed \cup {c} /\ c \notin Executed
    BY <2>1 DEF Full, Sound, Exclusive, TypeOK
  <2>3. sent[c].nonce \in file /\ sent[c].nonce \in Calls
    BY <1>1 DEF Full, Sound, Exclusive, TypeOK
  <2>4. \A d \in Executed : sent[d].nonce # sent[c].nonce
    BY <1>1, <2>2 DEF Full, Sound, Exclusive, Claims
  <2>5. permitted' = permitted \cup {sent[c].nonce} /\ sent[c].nonce \notin permitted
    BY ONLY <2>1, <2>2, <2>4
  <2> QED
    BY <2>1, <2>2, <2>3, <2>5
\* Every other step at most adds nonces to the file.
<1>2. ASSUME file \subseteq file',
             \A c \in Calls : client'[c] = "executed" <=> client[c] = "executed",
             \A c \in Calls : client[c] = "executed" => sent'[c] = sent[c]
      PROVE  [Redemption!Next]_(Redemption!vars)
  <2>1. Executed' = Executed /\ permitted' = permitted
    BY <1>2
  <2>2. file' \subseteq Calls
    BY DEF Full, Sound, Exclusive, TypeOK
  <2>3. file' = file \cup (file' \ file)
    BY <1>2
  <2> QED
    BY <1>2, <2>1, <2>2, <2>3
<1>3. ASSUME NEW b \in Boundaries, NEW c \in Calls,
             Start(b) \/ Stop(b) \/ Refuse(b, c) \/ Spend(b, c) \/ FlushFails(b, c)
      PROVE  file' = file /\ client' = client /\ sent' = sent
  BY <1>3 DEF Start, Stop, Refuse, Spend, FlushFails
<1>4. ASSUME NEW b \in Boundaries, NEW c \in Calls, Flush(b, c)
      PROVE  file \subseteq file' /\ client' = client /\ sent' = sent
  BY <1>4 DEF Flush, Full, Sound, Exclusive
<1>5. ASSUME NEW c \in Calls, Protect(c) \/ Present(c)
      PROVE  [Redemption!Next]_(Redemption!vars)
  <2>1. /\ client[c] = "idle" /\ file' = file
        /\ client' = [client EXCEPT ![c] = "waiting"]
        /\ \A d \in Calls \ {c} : sent'[d] = sent[d]
    BY <1>5 DEF Protect, Present, Send, Full, Sound, Exclusive, TypeOK
  <2> QED
    BY <1>2, <2>1 DEF Full, Sound, Exclusive, TypeOK
<1>6. ASSUME NEW c \in Calls, GiveUp(c) \/ (Receive(c) /\ server[c] # "allowed")
      PROVE  [Redemption!Next]_(Redemption!vars)
  <2>1. /\ client[c] = "waiting" /\ file' = file /\ sent' = sent
        /\ client' = [client EXCEPT ![c] = "denied"]
    BY <1>6 DEF GiveUp, Receive
  <2> QED
    BY <1>2, <2>1 DEF Full, Sound, Exclusive, TypeOK
<1>7. CASE Tick \/ UNCHANGED vars
  BY <1>2, <1>7 DEF Tick
<1>8. ~PowerLoss
  BY DEF PowerLoss, Full
<1>9. ASSUME NEW b \in Boundaries, Start(b) \/ Stop(b)
      PROVE  [Redemption!Next]_(Redemption!vars)
  <2>1. file' = file /\ client' = client /\ sent' = sent
    BY <1>9 DEF Start, Stop
  <2> QED
    BY <1>2, <2>1
<1>10. ASSUME NEW b \in Boundaries, NEW c \in Calls,
              Refuse(b, c) \/ Spend(b, c) \/ Flush(b, c) \/ FlushFails(b, c)
       PROVE  [Redemption!Next]_(Redemption!vars)
  BY <1>2, <1>3, <1>4, <1>10
<1> QED
  BY <1>1, <1>5, <1>6, <1>7, <1>8, <1>9, <1>10 DEF Next

\* Until the host loses power, the store of one boundary implements the one-shot
\* redemption: the file only grows, and each nonce in it lets one call execute
\* (boundary.mjs 13-41, 54-87).
THEOREM ImplementsRedemption ==
  ASSUME Solo PROVE Spec => RedeemsOnce
<1>1. Init => Redemption!Init
  BY DEF Init, Redemption!Init
<1>2. ASSUME IInv, IInv', [Next]_vars PROVE Redeems
  <2> SUFFICES ASSUME powerLosses' = 0 PROVE [Redemption!Next]_(Redemption!vars)
    BY DEF Redeems
  <2>1. Full /\ Full'
    BY <1>2, PowerStaysLost DEF Full, Sound, IInv
  <2> QED
    BY <1>2, <2>1, RedemptionStep
<1> QED
  BY <1>1, <1>2, Invariance, PTL DEF Spec, RedeemsOnce

------------------------------------------------------------------------------
(* What executes is what was authorized, for any number of boundaries and   *)
(* power losses.                                                            *)

(* What the boundary found of an authority a, presented as m says.          *)
Verified(a, m) ==
  a.request.key \in Pinned /\ Binds(a.request, m.execution) /\ m.at < a.expiresAt

CallAuth(c) ==
  LET a == issued[sent[c].nonce] IN
  /\ issued[c] # None => client[c] # "idle" /\ issued[c].issuedAt <= now
  /\ server[c] # "none" =>
       /\ a \in Issued /\ client[sent[c].nonce] # "idle"
       /\ a.issuedAt <= now /\ sent[c].at <= now
  /\ server[c] \in {"flushing", "allowed"} => Verified(a, sent[c])
  /\ client[c] = "waiting" => server[c] # "none" /\ now <= sent[c].at + Timeout
  /\ client[c] = "executed" =>
       server[c] = "allowed" /\ a.issuedAt <= doneAt[c] /\ doneAt[c] < a.expiresAt + Timeout

AuthInv == Sound /\ \A c \in Calls : CallAuth(c)

\* The signed parameters are the requested ones.
LEMMA BindsRequested ==
  ASSUME NEW q, NEW x, Binds(q, x)
  PROVE  /\ x.effect = q.effect /\ x.principal \in {None, q.principal}
         /\ \A k \in DOMAIN x.params \ q.nonMaterial :
              k \in DOMAIN q.params /\ x.params[k] = q.params[k]
         /\ \A k \in DOMAIN x.params \cap DOMAIN q.max : x.params[k] <= q.max[k]
         /\ q.needsApproval => x.approval
<1> DEFINE named == IF q.material = {} THEN DOMAIN q.params ELSE q.material \cap DOMAIN q.params
<1>1. /\ DOMAIN MaterialParams(q) = named
      /\ \A k \in named : MaterialParams(q)[k] = q.params[k]
  BY DEF MaterialParams
<1>2. named \subseteq DOMAIN q.params
  OBVIOUS
<1> HIDE DEF named
<1> QED
  BY <1>1, <1>2 DEF Binds

LEMMA AuthInit == Init => AuthInv
  BY InitInv DEF Init, AuthInv, CallAuth, Full

\* A call whose request was not verified, nor executed, by this step.
LEMMA AuthLater ==
  ASSUME AuthInv, NEW c \in Calls, now' \in Nat, now <= now',
         sent'[c] = sent[c], issued'[c] = issued[c], doneAt'[c] = doneAt[c],
         client'[c] = client[c] \/ (client[c] = "waiting" /\ client'[c] = "denied"),
         server'[c] = server[c]
           \/ (server[c] \in {"queued", "flushing"} /\ server'[c] \in {"refused", "gone"}),
         \A d \in Calls : client[d] # "idle" => client'[d] # "idle" /\ issued'[d] = issued[d],
         client[c] = "waiting" => now' <= sent[c].at + Timeout
  PROVE  CallAuth(c)'
<1> DEFINE n == sent[c].nonce
<1>1. CallAuth(c) /\ now \in Nat
  BY DEF AuthInv, Sound, TypeOK
<1>2. server[c] # "none" => n \in Calls /\ client[n] # "idle" /\ issued[n] \in Issued
                            /\ issued[n].issuedAt \in Nat /\ issued[n].issuedAt <= now
                            /\ sent[c].at \in Nat /\ sent[c].at <= now
  BY <1>1 DEF AuthInv, Sound, Sent, CallAuth, Issued
<1>9. issued[c] # None => issued[c].issuedAt <= now'
  BY <1>1 DEF AuthInv, Sound, TypeOK, Issued, CallAuth
<1>3. server[c] # "none" => client'[n] # "idle" /\ issued'[n] = issued[n]
                            /\ issued'[n].issuedAt <= now' /\ sent[c].at <= now'
  BY <1>1, <1>2
<1>4. server'[c] # "none" => server[c] # "none"
  OBVIOUS
<1>5. server'[c] \in {"flushing", "allowed"} => server[c] = server'[c]
  OBVIOUS
<1>6. client'[c] \in {"waiting", "executed"} => client[c] = client'[c]
  OBVIOUS
<1>7. client[c] = "waiting" => server'[c] # "none"
  BY <1>1 DEF CallAuth
<1>8. client[c] = "executed" => server'[c] = "allowed"
  BY <1>1 DEF CallAuth
<1> QED
  BY <1>1, <1>2, <1>3, <1>4, <1>5, <1>6, <1>7, <1>8, <1>9 DEF CallAuth

\* A boundary serves a call: only what it verified gets further than the queue.
LEMMA ServedAuth ==
  ASSUME AuthInv, NEW b \in Boundaries, NEW c \in Calls,
         Refuse(b, c) \/ Spend(b, c) \/ Flush(b, c) \/ FlushFails(b, c)
  PROVE  \A d \in Calls : CallAuth(d)'
<1> DEFINE n == sent[c].nonce
<1>1. /\ UNCHANGED <<now, issued, sent, client, doneAt>> /\ server[c] # "none"
  BY DEF Refuse, Spend, Flush, FlushFails, Serves
<1>2. \A d \in Calls \ {c} : server'[d] = server[d]
  BY DEF Refuse, Spend, Flush, FlushFails, AuthInv, Sound, TypeOK
<1>3. /\ now \in Nat /\ CallAuth(c) /\ sent[c] \in Sent /\ issued[n] \in Issued
      /\ \A d \in Calls : client[d] = "waiting" => now <= sent[d].at + Timeout
  BY <1>1 DEF AuthInv, Sound, TypeOK, CallAuth
<1>4. \A d \in Calls \ {c} : CallAuth(d)'
  BY <1>1, <1>2, <1>3, AuthLater
<1>5. CASE Refuse(b, c) \/ FlushFails(b, c)
  <2>1. server[c] \in {"queued", "flushing"} /\ server'[c] = "refused"
    BY <1>5 DEF Refuse, FlushFails, Serves, AuthInv, Sound, TypeOK
  <2> QED
    BY <1>1, <1>3, <1>4, <2>1, AuthLater
<1>6. CASE Spend(b, c) \/ Flush(b, c)
  <2>1. server'[c] \in {"flushing", "allowed"} /\ server[c] # "allowed"
    BY <1>6 DEF Spend, Flush, Serves, AuthInv, Sound, TypeOK
  <2>2. Verified(issued[n], sent[c])
    <3>1. CASE Spend(b, c)
      <4>1. /\ issued[n].request.key \in Pinned /\ now < issued[n].expiresAt
            /\ Binds(issued[n].request, sent[c].execution)
        BY <3>1 DEF Spend, Verifies, WithinValidity
      <4>2. sent[c].at <= now /\ sent[c].at \in Nat /\ issued[n].expiresAt \in Nat
        BY <1>1, <1>3 DEF CallAuth, Sent, Issued
      <4> QED
        BY <1>3, <4>1, <4>2 DEF Verified
    <3>2. CASE Flush(b, c)
      BY <1>3, <3>2 DEF Flush, CallAuth
    <3> QED
      BY <1>6, <3>1, <3>2
  <2>3. client[c] # "executed"
    BY <1>3, <2>1 DEF CallAuth
  <2>4. CallAuth(c)'
    BY <1>1, <1>3, <2>1, <2>2, <2>3 DEF CallAuth
  <2> QED
    BY <1>4, <2>4
<1> QED
  BY <1>5, <1>6

\* A call is made: for its own new authority, or for one issued earlier.
LEMMA SentAuth ==
  ASSUME AuthInv, NEW c \in Calls, client[c] = "idle", NEW n \in Calls,
         NEW x \in Execution, Send(c, n, x), issued'[n] \in Issued, issued'[n].issuedAt <= now,
         n = c \/ (client[n] # "idle" /\ issued'[c] = issued[c]),
         \A d \in Calls \ {c} : issued'[d] = issued[d],
         UNCHANGED <<now, doneAt>>
  PROVE  \A d \in Calls : CallAuth(d)'
<1>1. now \in Nat /\ Timeout \in Nat
  BY BoundaryAssumption DEF AuthInv, Sound, TypeOK
<1>2. /\ sent'[c].nonce = n /\ sent'[c].at = now
      /\ server'[c] = "queued" /\ client'[c] = "waiting"
  BY DEF Send, AuthInv, Sound, TypeOK
<1>3. \A d \in Calls \ {c} :
        sent'[d] = sent[d] /\ server'[d] = server[d] /\ client'[d] = client[d]
  BY DEF Send, AuthInv, Sound, TypeOK
<1>4. CallAuth(c)'
  <2>1. client'[n] # "idle"
    BY <1>2, <1>3
  <2>2. n = c \/ issued'[c] = None
    BY DEF AuthInv, CallAuth
  <2> QED
    BY <1>1, <1>2, <2>1, <2>2 DEF CallAuth
<1>5. ASSUME NEW d \in Calls \ {c} PROVE CallAuth(d)'
  <2>1. \A e \in Calls : client[e] # "idle" => client'[e] # "idle" /\ issued'[e] = issued[e]
    BY <1>3
  <2>2. client[d] = "waiting" => now' <= sent[d].at + Timeout
    BY DEF AuthInv, CallAuth
  <2> QED
    BY <1>1, <1>3, <2>1, <2>2, AuthLater
<1> QED
  BY <1>4, <1>5

LEMMA AuthStep == AuthInv /\ [Next]_vars => AuthInv'
<1> SUFFICES ASSUME AuthInv, [Next]_vars PROVE \A c \in Calls : CallAuth(c)'
  BY SoundStep DEF AuthInv
<1>1. /\ now \in Nat /\ {Timeout, ValidFor} \subseteq Nat /\ TypeOK
      /\ \A d \in Calls : client[d] = "waiting" => now <= sent[d].at + Timeout
  BY BoundaryAssumption DEF AuthInv, Sound, TypeOK, CallAuth
<1>2. CASE UNCHANGED vars \/ Tick \/ \E b \in Boundaries : Start(b)
  <2>1. /\ UNCHANGED callVars /\ now' \in Nat /\ now <= now'
        /\ \A d \in Calls : client[d] = "waiting" => now' <= sent[d].at + Timeout
    <3>1. CASE Tick
      <4>1. ASSUME NEW d \in Calls, client[d] = "waiting" PROVE now + 1 <= sent[d].at + Timeout
        <5>1. sent[d].at \in Nat /\ now < sent[d].at + Timeout
          BY <3>1, <4>1 DEF Tick, AuthInv, Sound, CallAuth, Sent
        <5> QED
          BY <1>1, <5>1
      <4> QED
        BY <1>1, <3>1, <4>1 DEF Tick
    <3>2. CASE UNCHANGED vars \/ \E b \in Boundaries : Start(b)
      BY <1>1, <3>2 DEF Start
    <3> QED
      BY <1>2, <3>1, <3>2
  <2> QED
    BY <2>1, AuthLater
<1>3. CASE PowerLoss \/ \E b \in Boundaries : Stop(b)
  <2>1. /\ UNCHANGED <<now, issued, sent, client, doneAt>>
        /\ \A c \in Calls : server'[c] = server[c]
             \/ (server[c] \in {"queued", "flushing"} /\ server'[c] = "gone")
    BY <1>1, <1>3 DEF PowerLoss, Stop, Stopped, TypeOK
  <2> QED
    BY <1>1, <2>1, AuthLater
<1>4. ASSUME NEW b \in Boundaries, NEW c \in Calls,
             Refuse(b, c) \/ Spend(b, c) \/ Flush(b, c) \/ FlushFails(b, c)
      PROVE  \A d \in Calls : CallAuth(d)'
  BY <1>4, ServedAuth
<1>5. ASSUME NEW c \in Calls, Protect(c) PROVE \A d \in Calls : CallAuth(d)'
  <2>1. PICK q \in Requests :
          /\ issued' = [issued EXCEPT ![c] =
               [request |-> q, issuedAt |-> now, expiresAt |-> now + ValidFor]]
          /\ Send(c, c, [effect |-> q.effect, principal |-> q.principal,
                         params |-> q.params, approval |-> q.approval])
    BY <1>5 DEF Protect
  <2>2. [request |-> q, issuedAt |-> now, expiresAt |-> now + ValidFor] \in Issued
    BY <1>1 DEF Issued
  <2>3. issued'[c] \in Issued /\ issued'[c].issuedAt <= now
        /\ \A d \in Calls \ {c} : issued'[d] = issued[d]
    BY <1>1, <2>1, <2>2 DEF TypeOK
  <2>4. [effect |-> q.effect, principal |-> q.principal,
         params |-> q.params, approval |-> q.approval] \in Execution
    BY BoundaryAssumption DEF Request, Execution
  <2> QED
    BY <1>5, <2>1, <2>3, <2>4, SentAuth DEF Protect
<1>6. ASSUME NEW c \in Calls, Present(c) PROVE \A d \in Calls : CallAuth(d)'
  <2>1. PICK n \in Calls, x \in Executions : issued[n] # None /\ Send(c, n, x)
    BY <1>6 DEF Present
  <2>2. x \in Execution /\ issued[n] \in Issued /\ client[n] # "idle"
        /\ issued[n].issuedAt <= now
    BY <1>1, <2>1, BoundaryAssumption DEF AuthInv, CallAuth, TypeOK
  <2> QED
    BY <1>6, <2>1, <2>2, SentAuth DEF Present
<1>7. ASSUME NEW c \in Calls, GiveUp(c) \/ Receive(c) PROVE \A d \in Calls : CallAuth(d)'
  <2>1. /\ client[c] = "waiting" /\ UNCHANGED <<now, issued, sent, server>>
        /\ \A d \in Calls \ {c} : client'[d] = client[d] /\ doneAt'[d] = doneAt[d]
        /\ client'[c] \in {"executed", "denied"}
    BY <1>1, <1>7 DEF GiveUp, Receive, TypeOK
  <2>2. \A d \in Calls \ {c} : CallAuth(d)'
    BY <1>1, <2>1, AuthLater
  <2>3. CASE client'[c] = "denied"
    <3>1. doneAt' = doneAt
      BY <1>1, <1>7, <2>3 DEF GiveUp, Receive, TypeOK
    <3> QED
      BY <1>1, <2>1, <2>2, <2>3, <3>1, AuthLater
  <2>4. CASE client'[c] = "executed"
    <3> DEFINE a == issued[sent[c].nonce]
    <3>1. server[c] = "allowed" /\ doneAt'[c] = now
      BY <1>1, <1>7, <2>4 DEF GiveUp, Receive, TypeOK
    <3>2. CallAuth(c) /\ sent[c] \in Sent
      BY <3>1 DEF AuthInv, Sound
    <3>3. a \in Issued /\ a.issuedAt <= now /\ sent[c].at < a.expiresAt
          /\ now <= sent[c].at + Timeout
      BY <2>1, <3>1, <3>2 DEF CallAuth, Verified
    <3>4. now < a.expiresAt + Timeout
      <4>1. a.expiresAt \in Nat /\ sent[c].at \in Nat
        BY <3>2, <3>3 DEF Issued, Sent
      <4> HIDE DEF a
      <4> QED
        BY <1>1, <3>3, <4>1
    <3>5. client[sent[c].nonce] # "idle" => client'[sent[c].nonce] # "idle"
      BY <2>1, <3>2 DEF Sent
    <3>6. CallAuth(c)'
      BY <2>1, <2>4, <3>1, <3>2, <3>3, <3>4, <3>5 DEF CallAuth
    <3> QED
      BY <2>2, <3>6
  <2> QED
    BY <2>1, <2>3, <2>4
<1> QED
  BY <1>2, <1>3, <1>4, <1>5, <1>6, <1>7 DEF Next

\* An executed effect is the one its authority was requested for, and no later than an
\* answer's delay after that expired, however many boundaries share the project,
\* whatever is retried, and after power losses too (authority.mjs 62-104,
\* protect.mjs 141-153, boundary.mjs 97-106).
THEOREM ExecutedAsAuthorized == Spec => []EffectAuthorized
<1>1. AuthInv => EffectAuthorized
  <2> SUFFICES ASSUME AuthInv, NEW c \in Calls, client[c] = "executed"
               PROVE  /\ Verified(issued[sent[c].nonce], sent[c])
                      /\ issued[sent[c].nonce].issuedAt <= doneAt[c]
                      /\ doneAt[c] < issued[sent[c].nonce].expiresAt + Timeout
    BY BindsRequested DEF Verified, EffectAuthorized, EffectAsRequested, EffectWhileValid
  <2> QED
    BY DEF AuthInv, CallAuth
<1> QED
  BY <1>1, AuthInit, AuthStep, PTL DEF Spec
==============================================================================
