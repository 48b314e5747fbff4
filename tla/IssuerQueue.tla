---------------------------- MODULE IssuerQueue ----------------------------
(***************************************************************************)
(* TTPIssuer (sdk/typescript): an issuer signs the receipts of what it     *)
(* observed and submits each at once, or queues them for a batch that goes *)
(* out when the queue is full or when a timer fires.  Signing is awaited,  *)
(* so the receipts of several calls are under construction at a time and   *)
(* join the queue in any order.  The network is the environment.           *)
(***************************************************************************)
EXTENDS Integers, Sequences, FiniteSets, SequencesExt

CONSTANTS
  Receipts,        \* the receipts the issuer builds, each for one call
  FlushSize,       \* 50: a queue this long is flushed
  FlushInterval,   \* 5 s: a queue is flushed this long after its first receipt
  BatchLimit,      \* 100: the longest batch the authority takes
  MayStop,         \* whether the process of the issuer may end
  NoTimer             \* no timer

ASSUME IssuerAssumption ==
  /\ FlushSize \in Nat \ {0}
  /\ FlushInterval \in Nat
  /\ BatchLimit \in Nat
  /\ FlushSize <= BatchLimit
  /\ MayStop \in BOOLEAN
  /\ NoTimer \notin Nat

VARIABLES
  phase,          \* what has become of each receipt
  pendingQueue,   \* the queue
  flushTimer,     \* the time left until the timer fires, or NoTimer
  headAge,        \* how long the first in the queue has been there
  batches,        \* the batches on their way to the authority
  arrivals,       \* how often each receipt has reached the authority
  up              \* whether the process of the issuer runs

queueVars == <<phase, pendingQueue, flushTimer, headAge, batches, arrivals, up>>

Phases == {"new", "building", "signing", "invalid", "queued", "away", "posted",
           "done", "lost", "thrown"}

QueueTypeOK ==
  /\ phase \in [Receipts -> Phases]
  /\ pendingQueue \in Seq(Receipts)
  /\ flushTimer \in 0..FlushInterval \cup {NoTimer}
  /\ headAge \in 0..FlushInterval
  /\ batches \subseteq Seq(Receipts)
  /\ arrivals \in [Receipts -> Nat]
  /\ up \in BOOLEAN

QueueInit ==
  /\ phase = [r \in Receipts |-> "new"]
  /\ pendingQueue = <<>>
  /\ flushTimer = NoTimer
  /\ headAge = 0
  /\ batches = {}
  /\ arrivals = [r \in Receipts |-> 0]
  /\ up = TRUE

In(s) == {s[k] : k \in 1..Len(s)}

\* queueReceipt, up to the await of the signature.
queueReceipt(r) ==
  /\ up
  /\ phase[r] = "new"
  /\ phase' = [phase EXCEPT ![r] = "building"]
  /\ UNCHANGED <<pendingQueue, flushTimer, headAge, batches, arrivals, up>>

\* submitReceipt, up to the await of the signature.
submitReceipt(r) ==
  /\ up
  /\ phase[r] = "new"
  /\ phase' = [phase EXCEPT ![r] = "signing"]
  /\ UNCHANGED <<pendingQueue, flushTimer, headAge, batches, arrivals, up>>

\* A score outside 0 to 1: logged for a queued receipt, thrown for the other.
Invalid(r) ==
  /\ up
  /\ phase[r] \in {"building", "signing"}
  /\ phase' = [phase EXCEPT ![r] = "invalid"]
  /\ UNCHANGED <<pendingQueue, flushTimer, headAge, batches, arrivals, up>>

\* flush, for a queue that is not empty, up to the await of the answer.
Flush(queue, phases) ==
  /\ pendingQueue' = <<>>
  /\ headAge' = 0
  /\ flushTimer' = NoTimer
  /\ batches' = batches \cup {queue}
  /\ phase' = [r \in Receipts |-> IF r \in In(queue) THEN "away" ELSE phases[r]]

Full(queue) == Len(queue) >= FlushSize

\* Mutant: every receipt starts the timer anew.
ArmedAnew(queue) == FlushInterval

\* Mutant: the first receipt does not start the timer.
ArmedForCompany(queue) ==
  IF flushTimer = NoTimer /\ Len(queue) > 1 THEN FlushInterval ELSE flushTimer

\* The timer, once a receipt has joined a queue that is not full.
Armed(queue) == IF flushTimer = NoTimer THEN FlushInterval ELSE flushTimer

\* The receipt is signed and joins the queue.
Queued(r) ==
  LET queue  == Append(pendingQueue, r)
      phases == [phase EXCEPT ![r] = "queued"]
  IN /\ up
     /\ phase[r] = "building"
     /\ \/ Full(queue) /\ Flush(queue, phases)
        \/ /\ ~Full(queue)
           /\ pendingQueue' = queue
           /\ phase' = phases
           /\ flushTimer' = Armed(queue)
           /\ UNCHANGED <<headAge, batches>>
     /\ UNCHANGED <<arrivals, up>>

\* The timer fires.
TimerFires ==
  /\ up
  /\ flushTimer = 0
  /\ pendingQueue # <<>>
  /\ Flush(pendingQueue, phase)
  /\ UNCHANGED <<arrivals, up>>

\* The owner of the issuer calls flush.
CallFlush ==
  /\ up
  /\ pendingQueue # <<>>
  /\ Flush(pendingQueue, phase)
  /\ UNCHANGED <<arrivals, up>>

\* The authority takes in a batch; what it answers of the single receipts,
\* and that the batch was refused as a whole, is at most logged.
BatchArrives(b) ==
  /\ b \in batches
  /\ batches' = batches \ {b}
  /\ arrivals' = [r \in Receipts |->
       IF r \in In(b) /\ Len(b) <= BatchLimit THEN arrivals[r] + 1 ELSE arrivals[r]]
  /\ phase' = [r \in Receipts |-> IF r \in In(b) THEN "done" ELSE phase[r]]
  /\ UNCHANGED <<pendingQueue, flushTimer, headAge, up>>

\* The batch does not arrive: the error is logged and the receipts are gone.
BatchLost(b) ==
  /\ b \in batches
  /\ batches' = batches \ {b}
  /\ phase' = [r \in Receipts |-> IF r \in In(b) THEN "lost" ELSE phase[r]]
  /\ UNCHANGED <<pendingQueue, flushTimer, headAge, arrivals, up>>

\* sendReceipt: the signed receipt is on its way by itself.
Post(r) ==
  /\ up
  /\ phase[r] = "signing"
  /\ phase' = [phase EXCEPT ![r] = "posted"]
  /\ UNCHANGED <<pendingQueue, flushTimer, headAge, batches, arrivals, up>>

\* It arrives and is accepted, or its answer is an error or gets lost.
PostArrives(r) ==
  /\ phase[r] = "posted"
  /\ arrivals' = [arrivals EXCEPT ![r] = @ + 1]
  /\ \E end \in {"done", "thrown"} : phase' = [phase EXCEPT ![r] = end]
  /\ UNCHANGED <<pendingQueue, flushTimer, headAge, batches, up>>

PostLost(r) ==
  /\ phase[r] = "posted"
  /\ phase' = [phase EXCEPT ![r] = "thrown"]
  /\ UNCHANGED <<pendingQueue, flushTimer, headAge, batches, arrivals, up>>

\* A second passes; a timer may fire later than it should.
QueueTick ==
  /\ flushTimer # NoTimer
  /\ headAge < FlushInterval \/ flushTimer > 0
  /\ flushTimer' = IF flushTimer > 0 THEN flushTimer - 1 ELSE 0
  /\ headAge' = IF headAge < FlushInterval THEN headAge + 1 ELSE headAge
  /\ UNCHANGED <<phase, pendingQueue, batches, arrivals, up>>

\* The process ends, and with it everything it had not sent.
Stop ==
  /\ MayStop
  /\ up
  /\ up' = FALSE
  /\ pendingQueue' = <<>>
  /\ flushTimer' = NoTimer
  /\ headAge' = 0
  /\ phase' = [r \in Receipts |->
       IF phase[r] \in {"building", "signing", "queued"} THEN "lost" ELSE phase[r]]
  /\ UNCHANGED <<batches, arrivals>>

QueueNext ==
  \/ \E r \in Receipts :
       queueReceipt(r) \/ submitReceipt(r) \/ Invalid(r) \/ Queued(r) \/ Post(r)
         \/ PostArrives(r) \/ PostLost(r)
  \/ \E b \in batches : BatchArrives(b) \/ BatchLost(b)
  \/ TimerFires \/ CallFlush \/ QueueTick \/ Stop

QueueSpec == QueueInit /\ [][QueueNext]_queueVars

\* Signatures finish, time passes and a timer that is due fires.
QueueFairness ==
  /\ \A r \in Receipts : WF_queueVars(Queued(r) \/ Invalid(r))
  /\ WF_queueVars(QueueTick)
  /\ WF_queueVars(TimerFires)

FairQueueSpec == QueueSpec /\ QueueFairness

-----------------------------------------------------------------------------
(* Properties. *)

\* A queue that holds a receipt has its timer running, and the timer fires no
\* later than FlushInterval after the first of them came; an empty queue has
\* none.
QueueWatched ==
  /\ pendingQueue = <<>> <=> flushTimer = NoTimer
  /\ pendingQueue # <<>> => headAge + flushTimer <= FlushInterval

\* No batch is longer than the authority takes, and a queue between two steps
\* is always shorter than that.
BatchFits ==
  /\ \A b \in batches : Len(b) <= FlushSize
  /\ Len(pendingQueue) < FlushSize

\* A receipt is in one place: the queue and the batches hold the receipts that
\* are queued and away, each once, and the authority meets none twice.
OnePlace ==
  /\ IsInjective(pendingQueue)
  /\ In(pendingQueue) = {r \in Receipts : phase[r] = "queued"}
  /\ \A b \in batches : IsInjective(b) /\ \A r \in In(b) : phase[r] = "away"
  /\ \A b, c \in batches : b # c => In(b) \cap In(c) = {}
  /\ \A r \in Receipts : arrivals[r] <= IF phase[r] \in {"done", "thrown"} THEN 1 ELSE 0

\* What holds of the queue between any two steps: it is watched by a timer,
\* shorter than a batch may be, and holds every receipt that is nowhere else.
QueueInv == QueueTypeOK /\ QueueWatched /\ BatchFits /\ OnePlace

\* While the process runs, a receipt given to queueReceipt is handed to the
\* network unless it cannot be built: no receipt waits for company for ever.
QueuedLeaves ==
  \A r \in Receipts :
    phase[r] = "building" ~> phase[r] \in {"away", "done", "lost", "invalid"}
=============================================================================
