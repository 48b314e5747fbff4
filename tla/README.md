# A verification development of the Trust Token Protocol

TLA+ models of the programs of this repository that keep state and decide: the
runtime authority service, the PCTR effect boundary, protected loop, responses,
measurement of trust, learning and local workspace, the trust authority with its
tokens and SDK clients and issuers, the runtime authority gate, the trust routing
engine with its resolver, and two pure parts of the protocol's core, isnad chains and
the evaluation of trust claims. TLC checks twelve small instances; TLAPS proves
all but one of the safety properties for every value of the constants.

* [The system](#the-system): the components, their state, what is hard about them
* [The modules](#the-modules): how each model corresponds to the code
* [The runs](#the-runs): what TLC checks, with which bounds
* [Fairness](#fairness)
* [The proofs](#the-proofs)
* [Divergences](#divergences-between-documents-and-code)
* [What is not modelled](#what-is-not-modelled), [The plan](#the-plan)

To check a run: `tlc -config Boundary.cfg MCEffectBoundary`; to check the proofs
of a module: `tlapm EffectBoundaryProofs.tla`. `PROJECT.json` lists components,
runs, mutants, hazards and theorems, and maps every definition to the lines of
the source it stands for. Definitions marked *Mutant* are what a plausible bug
would make of the definition next to them: every checked property fails for one.

## The system

The repository holds several programs around one idea: an agent's action is
executed only with recent evidence of trust, and every decision leaves a signed,
chained receipt. They do not share a process; they meet through documents
(receipts, tokens, authorities) and files.

```
 issuers --receipts--> trust authority --tokens--> agents (TTPClient) --> services (verifier, middleware)
 (issuer SDK)          operators: block, quarantine

 protect loop --authority--> effect boundary --> effect        pctr decide: responses to trust changes
   (timeline, router, graph)  (spent nonces)                   .pctr/: keys, receipts (local workspace)

 workflow --request--> runtime authority service --(GitHub review)--> PERMIT    (receipt and replay ledgers)
 callers  --request--> runtime authority gate (reference), trust route resolver (+ routing engine)
```

| Component (code) | State | Operations | What makes it hard |
|---|---|---|---|
| Runtime authority service (`services/authority`) | receipt chain in memory and on disk, its lock file, one `.spent` file per redeemed receipt, grants read at start | authorize, reauthorize with a GitHub review, start, shut down | one await in the middle of a redemption, crashes and power loss between any two system calls, two processes, operators who remove a lock |
| Effect boundary and authority (`pctr/authority.mjs`, `boundary.mjs`) | spent nonces in memory and in a file; authorities in the clients' hands | issue, verify, spend, flush, remote call with a timeout | replay at any time and after restarts, an answer that comes too late, a flush that fails |
| Protected loop (`protect.mjs`, `timeline.mjs`, `observe.mjs`, `events.mjs`) | the timeline of canonical events shared by calls | preview, route, approve, authorize, enforce, receipt | calls that interleave at their awaits, trust that changes meanwhile |
| Router, graph, trust (`router.mjs`, `graph.mjs`, `trust.mjs`, `history.mjs`, `consequences.mjs`, `twin.mjs`, `probe.mjs`) | none; reads graph and evidence | enumerate delegation paths, reject, rank | evidence that ages between reading and use |
| Responses (`decisions.mjs`, `whatIf` of `history.mjs`) | none; reads graph, policies and receipts | respondToChange, for `pctr decide` and for each receipt in `whatIf` | the order of eight checks, which hide each other |
| Local workspace (`store.mjs`, `keys.mjs`, `receipt.mjs`, `bin/pctr.mjs`) | key and receipt files in `.pctr/`, the manifest `pctr.json` | load or create key, continue the newest receipt, save; learn and apply | concurrent commands, crashes that leave torn files, a manifest read, changed and written |
| Attestation, aggregation (`attest.mjs`, `aggregate.mjs`) | none | measure an agent from signed receipts and attestations | which evidence counts, a cap that raises the other shares, ages at their limits |
| Learning (`learn.mjs`) | none; proposes changes of the manifest | undeclared actions, understated consequences, unused authority | what is learnt twice, or from receipts that change meanwhile |
| Discovery, adapters, output (`discover.mjs`, `render.mjs`, ...) | none | conversions | not interesting here |
| Trust authority (`reference-implementations/trust-authority`) | agents with block and quarantine, issuers, receipts, identifiers seen | register, submit, confirm with a peer, issue tokens, block, quarantine, lift, provision, prune, restart | awaits inside handlers, skewed clocks, two kinds of pruning, lazy expiry of quarantines |
| SDK verifier and middleware | cache of token identifiers with timers | verify offline, deny quarantined | a token carries the past; the cache ends by its own timer |
| SDK client | one cached token per domain | getTrustToken, invalidate | overlapping fetches whose answers overtake each other |
| SDK issuer and peer issuer | queue of receipts, flush timer; the token of the attester in the client's cache | submit, queue, flush, stop; attest another agent | timer and size race, lost batches, signatures that take time; a token that ends on the way |
| Runtime authority gate (`runtime-authority-gate`) | receipts in memory and in a file | authorize, reauthorize, save, load | the file is truncated and rewritten, saves fail after memory changed |
| Trust routing engine (`packages/trust-routing-engine`) | none | resolve under six strategies | the order of denials and terms |
| Trust route resolver (`apps/trust-route-resolver`) | receipts, revocations, attestations in memory | authorize, revoke, attest, restart | bodies awaited while state changes |
| Isnad chains (`src/src/isnad.mjs`), trust claims (`src/src/evaluator.js`) | none | verify a chain of links, evaluate a claim at a time | the boundary cases of a chain; a claim over its life |
| API gateway issuer, other trust primitives (`src/src/*.mjs`), parser of the TTP language, governance workflow, cryptography, other SDKs, schemas, site | little or none | | see "What is not modelled" |

What makes each correct: a step-up receipt or an authority has its effect at most
once, whatever crashes, and what was answered stays on record (service,
boundary); causes and receipts on a timeline stay those of their call and are told in full, and
a loss of trust reaches every effect within a bound (loop); no response lets through
what the situation forbids (responses); no issuer outweighs its cap, and a threshold
is proved only by evidence that reaches it (measurement); forks and foreign keys come
only from commands that overlapped, and learning only takes authority away
(workspace); no receipt counts twice, quarantine is shown in
tokens and ends as promised, a block freezes an agent and reaches every service
within a bound (trust authority, verifier, client); no receipt is left in a queue
or sent twice, and who lost trust soon attests no longer (issuers); a chain stays a chain, and less trust never buys a looser
answer (gate, engine, resolver); trust that is handed on attenuates, and a claim only
ends (chains, claims).

## The modules

Constants are named for what the code calls them, with the code's value in the
comment; their assumptions are named ASSUMEs. History variables, which the code
does not have, are marked *(history)* and never occur in a guard.

**`OneShotRedemption`** is the abstract specification of two components: a set of
things spent for good, and answers given only for what is spent, each to one
caller. `StepUpAuthority` and `EffectBoundary` implement it (`RedeemsOnce`).

**`StepUpAuthority`** - the runtime authority service. JavaScript runs a handler
without interruption up to its only await, the GitHub lookup (`Decide` up to it,
`Lookup...`, `Spend...` and `Append...` after it). Because a crash can fall
between any two system calls, each call that touches a ledger is a step: creating
the `.spent` file with O_EXCL, syncing it, writing the record, syncing it.
Several processes may run; the lock file decides. `PowerLoss` loses any suffix of
unsynced records, any unsynced `.spent` files and possibly the lock; `fsync` is
believed. `RecoverLock` is the operator of
`docs/security/CFAV_STAGING_ACTIVATION.md:28`, who removes a lock nobody holds.
A ledger with a torn line is refused and nothing in the code repairs it, so the
system may stop there. Prior age, grant expiry and attestation freshness are
checked before the await, so what is decided after it may be late by
`LookupTimeout` (8 s, `approvalVerifier.ts`): the properties say so. A receipt is
identified with the request that issues it and its chain hash with the previous
receipt.

**`EffectBoundary`** - authorities and the boundary. A nonce is identified with
the call that issued its authority; a client may present any authority it holds,
with its own execution, at any time, and gives up after `Timeout`. Verification
with its file operations is not interleaved within a process. `spend` adds to the
Set before it writes the file; a failing write leaves the nonce in memory only. The
code never syncs, so `PowerLoss` may bring back an old file or leave one that
cannot be read (the boundary then refuses to start). Action and target are one
`effect`. The properties on replay are therefore stated up to the first power
loss (`powerLosses = 0 => ...`), which the code does not claim to survive.

**`ProtectLoop`** - the loop on a shared timeline. Steps end at the awaits of
`protect`: the measurement (`Begin` to "measuring"), the boundary ("asking"), the
effect ("executing"). The route is a simple delegation path from an entry agent to
a user of the tool; jurisdiction, availability and the TTP check are one flag.
`attestGraph` awaits only microtasks, and the trust it reads is that of `Route`.
`Observe` changes the agents at any time. An event is known by its place in the
timeline, its causes by theirs. AGENT_DELEGATED and CAPABILITY_DISCOVERED are
recorded in fixed company of other events, cause nothing, and are left out.

**`Explanation`** - what `why` tells of an event of that timeline: the code's walk from
causes to causes, in their order, that visits none twice and ends at a depth.

**`RouteResponse`** - the answers to one action. Situation, consequence and receipts
change at will; `Decide(p)` is what `pctr decide` would answer in each state under a
policy p, `whatIf(p)` which receipts the policy would decide differently. Neither keeps
an answer, so neither is an action. `RunOnce` is not held up by the response, as `pctr
protect` never asks it. What `resolveRoute` reads of the policies (hops, jurisdictions)
is taken to be the same for the policies that are compared: it is in the route that is
offered. `whatIf` looks at the last hundred receipts, of which there are fewer here.
`reconcile` and the previous route are left out, as nothing but a test passes them.

**`Aggregation`**, **`Measurement`** - the trust that `attestAgent` measures, as
operators over receipts and attestors; **`Measuring`** calls them again and again while
signals, receipts and attestors come in, in any number and order. Scores are in twentieths and ages in whole
half-lives, so that weights, cap and water-fill are computed exactly; the code's
floating point and rounding are not. A signature verifies or does
not; an attestor answers or throws.

**`LocalRuns`** - commands that each are a process: load or make the key, read the
newest receipt, work, save. A file is created empty and filled, and a crash may fall in
between. Receipts of one millisecond are listed in the order of their random
names, so `Newest` is a choice among them.

**`Learning`** - `pctr learn --apply` beside runs and an editor of one manifest. A learn
reads the manifest, then the receipts, opens the file (which empties it) and writes, and
may die in between. Only the three findings that change the manifest are modelled,
with what each needs of a receipt: action, route, records, agents. A learn is `Pending`
while it may write what it did not see: it has read the receipts, or a manifest that
another learn has replaced since.

**`TrustAuthority`** - the authority's handlers over its store. A handler is one
step, except around `callConfirmationApi` (`AskConfirmation`, `Confirmed`) and for the
signature of a token: `RequestToken` fixes its claims and what they make of the agent,
`Signed` answers it, and a restart in between loses it. `tokens` holds those of
`signing` too, and `Answered` is what anyone can present. Whoever attests to a peer
receipt shows a token of which the code reads the claims and verifies nothing
(`routes.ts:224`), so `Shown` are any claims. Scores are in hundredths; the aggregate
is any score between the least and the greatest of the receipts in the window,
which contains what `aggregation.ts` computes. A receipt is an identifier with a
fixed body, dated by its issuer's clock (`IssuerSkew`). `Settled` is
`getAgentStatus`, through which every reader ends an expired quarantine. A peer
receipt waits for its verdict for as long as it takes: the 2 s of the code end with the
headers of the answer, not with its body. A restart
forgets the store; the tokens answered live on.

**`TrustToken`** - the relying service beside that authority: it extends
`TrustAuthority` with verification, replay cache and middleware. `jose` accepts a
token until expiry plus tolerance. The identifier is remembered before the
quarantine is looked at, and forgotten by a timer that may be late.

**`TokenClient`** - the client's cache; the authority is the environment and answers
in any order. What `getTrustToken` does up to the await and what it does after it
are one step each.

**`PeerIssuer`** - submissions of peer receipts through that client: the token from the
cache, the look at its score, the signature, the post, which may be lost, and the
authority that looks at the token when it arrives. The score falls and the agent is
blocked at any time.

**`IssuerQueue`** - queue, timer and batches. The signature awaited by
`buildReceipt` is a step, so receipts join the queue in any order; the timer fires at
or after its time; a batch is lost or arrives.

**`RuntimeGate`** - the reference gate. Saving is `Truncate` then `Written`, and may
fail or be cut short anywhere; the caller of a failed save is told 400 while the
receipt stays in memory. A file that cannot be parsed is taken for an empty log. Trust
and cost of a request are numbers, `Missing` (a number that is not there) or `Text` (what
`Number()` reads no number from), and a `NaN` is neither below nor above a limit.

**`TrustRouting`**, **`RouteResolver`** - the engine's decision as operators over a
request and its candidates, and the service around it. A candidate's score is
the one after decay; freshness, scope, environment, delegation and hops are one
flag. A handler awaits its body (`Arrive`) and is then one step.

**`IsnadChain`**, **`TrustClaim`** - the verification of a chain of links and the
evaluation of a claim against a proof, as operators. Amounts are whole numbers of a
unit; `allowSelf` and malformed fields are left out. The decay of a claim is any that
takes away, and more with time (`DecayAssumption`). **`TrustCalls`** asks the engine, the
check of a chain or the evaluation of a claim, one call after the other, with anything of
the right type. **`Products`** has the products and powers that chains and weights are
made of, and what is kept of a list.

`MC...` modules instantiate these for TLC. Four runs (`client`, `local`, `response`,
`resolver`) check two things that share a component or a client and no more: a behaviour is
then of one of them, from its first state on (`part`). `MCMeasuring` and `MCTrustCalls`
hold the instances of the second part of `response` and `resolver`. `MCMeasuring` takes the
issuers in order, as the properties do not tell them apart, and ends after two pieces of
evidence. Where a run has *scenes*, the MC module restricts Next to a union of small instances that share the constants; every
behaviour of a scene is a behaviour of the specification.

## The runs

Twelve runs: one for each component with state and two for the runtime authority
service; the pure functions are called in behaviours of `response` and `resolver`. All pass; each finishes
within two and a half minutes on two workers.

| Run | Instance and bounds | What it shows |
|---|---|---|
| `stepup_crash` | 2 processes, 3 requests, 1 crash or power loss anywhere, clock stopped; symmetry | `IInv` is inductive in the small; no receipt is redeemed twice (`AtMostOnePermit`); answers are on disk beyond any crash and known after it, in a file that never forks (`LedgerInv`); refinement of `OneShotRedemption` (`RedeemsOnce`) |
| `stepup_clock` | 1 process, 2 requests, clock 0..3, three grant tables, two changes, restarts by shutdown (crashes are the other run's) | `PermitBacked`, `GrantHeldAtPermit` up to one lookup; `HandlerEnds` under fairness |
| `boundary` | 1 boundary, 2 restarts; 4 equal calls, or 2 calls with clock 0..3, 1 power loss and 6 kinds of execution; symmetry | `IInv`, `AtMostOneEffect`, `RedeemsOnce`; what is executed is what was requested, while the authority is valid (`EffectAuthorized`) |
| `authority` | scenes of 1 or 2 receipts, issuers and agents, 2 tokens; clock 0..5, attesters with the default minimum; symmetry | `IInv`, with `CountedOnce` in it; `QuarantineShown`, `LeavesQuarantine`, `BlockedIsFrozen`, with signatures awaited meanwhile |
| `token` | 1 agent, 2 tokens, lifetimes 2 and 1, tolerance 1, cache 2, clock 0..5, 1 restart of the service | `QuarantineReaches`, `ReplaysApart` |
| `client` | 3 calls, 2 domains, lifetimes 2 and 3, threshold 1, 2 invalidations, clock 0..4; or 2 peer submissions for 1 domain with 1 invalidation and a loss of score or a block; symmetry | `RightTokens`, `BlockOutlived`; how long a peer goes on attesting, and for what it is refused (`PeerInv`) |
| `issuer` | 4 receipts, batches of 3, timer of 2, the process may end | `QueueInv`, `QueuedLeaves` |
| `gate` | 4 receipts, 2 crashes, saves that fail; or 2 receipts of one of some 250 kinds of request that differ in trust and cost alone, clock 0..1 | `LogInv`, `NeverLoosens` |
| `loop` | 3 agents, 2 routes, severities HIGH and CRITICAL; three calls, two under way at a time, and 1 change of trust that may be undone before the third, or one call, 3 changes and clock 0..3 | `TimelineInv` (causes, receipts, effects and changes of route on record), `ReceiptsExplained`, `TrustLossReaches`, `AuthorityEarned` |
| `response` | 2 agents, 3 severities, 4 consequences, 14 policies of which each two are compared, 2 runs; or receipts of up to 3 issuers, two each, with five kinds of score and age; or an agent measured from two pieces of evidence, its own receipt (11 kinds) and attestors (34 kinds), each right or wrong in one part | `AnswersWarranted`, `StricterStops`; what is measured, `SignalsCount`, `MeasuredOnEvidence` |
| `local` | 3 commands; or 3 learns, or 2 and 1 edit, with 3 receipts and 2 actions of 1 agent; symmetry | `WorkspaceInv`; `LearningInv`, `LearnsInTwo` |
| `resolver` | 3 requests of 2 subjects, 1 restart; or every kind of request with up to 2 candidates, chains of up to 3 links among 3 parties, claims with 4 scores and times | `ServiceInv`; of every call, `DecisionsFollowTrust`, `ChainsAttenuate`, `ClaimsOnlyEnd` |

Why the bounds are enough. A redemption is raced by another, and a third request
issues what they redeem: three requests show every pair. One crash can fall at
every system call; a second adds only states a first one reaches with fewer
requests. Times are small numbers in the order the code's constants have (threshold
< lifetime, tolerance on top, cache life = default lifetime); each clock runs at
least one unit past the longest deadline of its run. Batches are exceeded by one
receipt. A delegation path of two agents beside one of one shows rejection,
ranking and decay; the third agent is the alternative. `NeverLoosens` compares
receipts pairwise, and the trust values straddle every threshold. The engine looks
at candidates one by one, except for its maximum, the "all" of `require_all` and the
"any" of a revocation: two candidates tell these apart. The water-fill needs three
issuers for a second pass and two receipts each for a score within an issuer; a chain
needs three links for one that is neither first nor last; an edit is lost between two
learns, and a third reads what one of two wrote before the other writes. `why` is looked at when a receipt is issued, which is as far from the start as an
event of a call can be; three calls of one timeline whose trust is lost and regained go
past the depth where it ends.

Every action of every component fires in a run of it. Deadlock is checked for
`response` (where a measurement stays at its end) and `resolver`; elsewhere names, clocks or receipts run out, or, in
`StepUpAuthority`, a torn ledger really stops the service.

## Fairness

Liveness is asserted twice, and under weak fairness only.

* `HandlerEnds` (runtime authority): `WF(Handle(r))` for each request. A handler
  on the call stack is run by Node until it returns, and a lookup is ended by
  `AbortSignal.timeout(8000)`. Nothing is assumed about processes starting,
  operators, GitHub's answers or the disk: a failing step is also a step.
* `QueuedLeaves` (issuer): fairness of the signature that a queued receipt
  awaits (a WebCrypto promise settles), of the timers' clock and of the timer's
  callback. The network may lose every batch.

Nothing else is promised by the code: a fetch of `TTPClient` has no timeout, a
gate that keeps failing to save keeps answering 400, a peer's confirmation may be
awaited as long as its body takes, and a post of the peer issuer has no timeout.

## The proofs

Eight modules prove theorems, for any sets of processes, calls, agents, tokens, runs and
receipts and any bounds; only the ASSUMEs named in the components are used. Of each, the
inductive invariant is named first: what the properties lack to be inductive.

* **`StepUpAuthorityProofs`**. `Invariance`, `TypeCorrect`, `RedeemedOnce`
  (`AtMostOnePermit`), `ImplementsRedemption`. `AtMostOnePermit` is not inductive: it
  speaks of verdicts, and two handlers could both be about to reach theirs. `IInv`
  adds what each stage has established: a handler that is spending has created its
  `.spent` file, a permitted one finds it among the synced ones, and *claims* (spending
  or permitted) for one receipt are unique. O_EXCL keeps new claims apart from old
  ones, and a power loss kills every spending handler while it keeps
  `spentSynced`: so claims survive exactly if they are durable.
  `AnswersLast` (`LedgerInv`), `PermitsBacked`, `PermitsGranted`
  (`GrantHeldAtPermit`) rest on `LedgerIInv`, of the receipt file: one process holds the
  lock, the memory of one that runs is a prefix of the file but for a record being synced,
  and a handler that redeems still has the grant, prior receipt and reviewer it has seen,
  as old as one lookup may make them.
* **`EffectBoundaryProofs`**. `Invariance`, `ExecutedOnce`, `Remembered`,
  `ImplementsRedemption`, under `Solo`: one boundary process (with two the properties
  fail, see below). `IInv` says that, until power is lost (`Exclusive`), the file holds
  what a flush completed, a running boundary's memory contains the file and
  the nonces being flushed, and no two calls are past verification with one
  nonce. `ExecutedAsAuthorized` (`EffectAuthorized`) needs neither: `AuthInv` follows an
  authority from its request through the client's hands to the effect, for any number of
  boundaries and power losses.
* **`TrustAuthorityProofs`**. `Invariance`, `TypeCorrect`, `NoDoubleCount` (`CountedOnce`).
  Receipts are pruned by their own date and identifiers by the time of acceptance, so
  `IInv` relates them: every receipt that could still be counted has its identifier in the
  map, at a time not before its date less the tolerated future. This needs `Window +
  MaxFuture <= MaxAge`, which the code's values meet (`docs/security.md:24`,
  `protocol/aggregation-spec.md:21`): the theorem shows which relation between
  the three constants keeps deduplication sound. `QuarantineIsShown` rests on a second
  invariant (`ReviewInv`): tokens are in the past, and a quarantine's `since` never moves
  back while it lasts; `QuarantineLeft` (`LeavesQuarantine`) and `BlockedFrozen`
  (`BlockedIsFrozen`) are what single steps do under it. They speak of tokens from the
  moment their claims are fixed, so they hold of what is answered after any wait.
  Of `TrustToken`: `RevocationReaches`, that no quarantined agent (where the
  service denies quarantine) and no blocked one is served later than `MaxTtl +
  ClockTolerance` (630 s) after. `ReachInv` has three facts about tokens: none
  lives longer than `MaxTtl`, none is issued to a blocked agent, none issued in
  quarantine lacks the claim. `ReplaysKeptApart` (`ReplaysApart`): `ReplayInv` says that
  what was accepted in this life of the service is in the cache or has been for its time.
* **`SdkProofs`**. `AnsweredRight` (`RightTokens`) and `CacheOutlived` (`BlockOutlived`)
  by `ClientInv`: cached, travelling and answered tokens alike expire before a horizon that
  a block stops, and are newer than what their call has to beat. `AttestationsEnd`
  (`PeerInv`) by `PeersInv`, on top of it: what a token with a good score is worth after
  the loss. That lifetimes have a longest is assumed (`ClientAssumption`).
  `QueueKept` (`QueueInv`) by `QueueIInv`: an empty queue has no age, so the next receipt
  has the timer's whole interval.
* **`RuntimeGateProofs`**. `LogHolds` (`LogInv`), `NeverMoreGenerous` (`NeverLoosens`).
  `GateInv` holds the same of memory and of the file, as a start makes the one the other;
  that the ladder is monotone, in trust and in cost, is a lemma for each of its rungs. It
  places a claim that is not a number where the code does, at the most trust and the least
  cost: `NeverLoosens` does not say that such a claim is refused, for it is not.
* **`ProtectLoopProofs`**. `LoopInvariance`, `TimelineHolds` (`TimelineInv`),
  `AuthorityIsEarned` (`AuthorityEarned`), `LossReaches` (`TrustLossReaches`). The
  properties are predicates of a sequence of events (`Proper`) which appending preserves.
  `LoopInv` adds what a call that awaits relies on (`CallKept`): the event it was at is
  still its own, and the agents of its route were fit when it looked at them
  (`UnfitKept`).
* **`WorkspaceProofs`**. `WorkspaceHolds` (`WorkspaceInv`). A fork is possible only if two
  runs read before either saved, but `ForksAreOverlaps` does not say so: `RunsIInv` adds that
  of two runs that did not overlap, the later one continues a receipt no older than that of
  the earlier, that what a run continues is older than itself, and that a run without the
  key on disk made one or overlapped with a run that did. `ChainTells` needs also that
  receipts of different times can be sorted (`Ranked`, by counting the ones before).
  `LearningHolds` (`LearningInv`), `LearningSettles` (`LearnsInTwo`): `LearningIInv` says of
  every copy that a learn may still write what is said of the manifest. Its proof showed
  that `KeepsUsed` had left out learns that read a manifest which another one then
  replaced; three learns show it to TLC, and `Pending` now counts them.
  `AnswersAreWarranted` (`AnswersWarranted`): the order of the checks is the order of the
  responses, wherever a route is taken. `StricterPoliciesStop` (`StricterStops`), by cases
  of the first check that one policy takes and the other does not; which limits must not
  be lowered for it (`StopsNoLess`) is what the theorem tells the writer of a policy.
* **`TrustProofs`**. `ServiceHolds` (`ServiceInv`), and what holds of every call and every
  measurement, for any number of candidates, links, receipts, issuers and attestors:
  `CallsFollowTrust` (`DecisionsFollowTrust`); `CallsAttenuate` (`ChainsAttenuate`), from
  `ChainsCut`, for chains of any length cut anywhere, and `ChainAttenuates`; `CallsOnlyEnd`
  (`ClaimsOnlyEnd`), from `ClaimsEnd`, that no claim becomes valid with time, and none comes
  back, for any decay that takes away more with time; that the code's powers of 1/2 do is
  `DecayAssumption`. `SignalsWeighed` (`SignalsCount`) and `MeasurementsEarned`
  (`MeasuredOnEvidence`) rest on `Evidence`, that only evidence of its type is measured,
  and on the algebra below.

Sums, products, powers, flattened lists and the passes of the water-fill are all defined by
recursion. The library's induction theorems cannot be instantiated here, so `TrustProofs`
begins with two of its own that take a *set* where those take a predicate:
`NumberInduction` and `SetInduction`. From these it shows that the fold of
the community modules, which takes its elements in an order a CHOOSE picks, may take any
element first (`FoldAny`), and then what one expects of sums and products; that a function
with given steps exists (`Recursion`); and that a flattened list holds what its parts hold
(`HoldsFlattened`). On that rest four arguments:

* A chain attenuates (`ChainAttenuates`). In units, the product of n amounts is at most
  that of fewer of them times a power of the unit for those left out (`ProductFalls`).
* The water-fill ends (`PassesEnd`). A set of capped issuers is *level* if each of
  them would be at the cap or over it even if it shared what is left with the others. A pass keeps it so and
  caps one more issuer or none (`LevelRises`), and less than all are capped as the
  cap can be kept. So after n + 1 passes nobody is over it, and the shares are
  `Fair`: they make a whole, none is above the cap, and whoever gets less than its weight
  is worth is at the cap.
* More weight for one issuer costs the others (`FairFalls`): between two fair distributions,
  if nobody's weight falls, nobody who was there gets more than its weight is worth. A
  further receipt of the worst score may be the oldest and so change the unit of all the
  weights; scaled back (`FairScaled`) it adds weight and no score, so every issuer's part
  of the score falls or stays (`CombinedFalls`).
* The trust of any receipts is at most the highest of their scores (`TrustBounded`), so
  that a threshold is reached only if one of them reaches it; and every receipt that is
  counted comes from a list it was kept of (`CollectedHolds`, `ProvenOnGrounds`).

That a bad receipt never helps looks evident and is not: the share of an issuer may rise when
another is capped, and a cap that rose with the number of issuers would let a further receipt
hand a good issuer more than before. It never does (`effectiveCap`: 1, 1/2, then 2/5).

Only model-checked are:

* liveness (`HandlerEnds`, `QueuedLeaves`), as TLAPS cannot reason about ENABLED;
* `ReceiptsExplained`, as `visit` is recursive in the depth and in the causes, and no module
  a theorem is about may reach a RECURSIVE operator.

## Divergences between documents and code

Where a document or comment says more than the code does, the model follows the
code, and the properties above are what does hold. Met on the way, each seen in
a counterexample of TLC when the sentence was stated as a property:

* Two `pctr serve` in one directory overwrite each other's spent nonces
  (`boundary.mjs:30`), so a restarted one forgets what it allowed;
  `packages/pctr/README.md:619` "an authority cannot be replayed across a restart".
* A token is accepted again after 300 s (`verifier.ts:119`) although it may live
  600 s and is tolerated for 30 more; `verifier.ts:117` "Cache the JTI until the
  token would have expired". `ReplaysApart` is what holds.
* A fetch begun before `invalidateToken` fills the cache after it
  (`client.ts:52`); `client.ts:65` "forcing the next call to fetch fresh".
  `QuietInvalidationForces` is what holds.
* The gate hashes a receipt before it sets the chain hash of a reauthorization
  (`server.mjs:441`); `specs/execution-receipt.md:30` "MUST be derived from canonical
  receipt content". It reauthorizes receipts of any outcome (`server.mjs:399`);
  `specs/scim-re-authorize-api.md:162` "after `STEP_UP` or `ESCALATE`".
* Without a route, `decisions.mjs:105` answers CONSTRAIN before it looks at rate and
  severity; `decisions.mjs:70` "Checks run most-restrictive first". THROTTLE, which
  proceeds, ranks above STEP_UP and ESCALATE, which do not, and replaces
  them (`decisions.mjs:183`, against `:179`). So a lower rate limit, or without a route a
  lower bound for CONSTRAIN, may let proceed what was stopped; `StricterStops` excepts
  both. `bin/pctr.mjs:351` counts every
  receipt as an execution "in this window" (`decisions.mjs:117`).
* `reconcile` has no caller but a test, and no command passes a previous route;
  `packages/pctr/README.md:240` "`reconcile()` refuses to answer a change with a weaker
  response than it warranted". A later `pctr decide` may answer KEEP after DENY, and none
  answers REROUTE.
* The gate reads trust and cost with `Number()` (`server.mjs:137`, `:68`): what is not a
  number is NaN, below no threshold and above no budget, and gets what full trust and no
  cost get, although the evaluation starts from DENY, FAILED_CLOSED (`:142`).
* Concurrent commands fork the chain (`bin/pctr.mjs:214`, against `README.md:161`);
  the newest receipt may be removed unnoticed (`receipt.mjs:78`, against
  `packages/pctr/README.md:418`). `ForksAreOverlaps` and `ChainTells` are what hold.
* The routing engine selects paths without a grant and the first of equals
  (`resolve.js:62`, `:96`, against `docs/architecture/trust-routing-core.md:35`); the
  resolver forgets revocations when it restarts (`server.mjs:6`, against
  `docs/ops/persistent-storage.md:32`).

* The trust authority caps each issuer once and renormalises (`aggregation.ts:77`), which
  `protocol/aggregation-spec.md:134` replaced by the water-fill of `aggregate.mjs`;
  so do the two disagree. `TrustAuthority` assumes neither. Raising a score from below
  0.5 to 0.5 may lower the aggregate, since a bad receipt weighs more
  (`aggregate.mjs:46`); `BetterNeverHurts` is stated on each side.
* `attestAgent` hands over what attestors repeat, though `aggregate.mjs:25` says "valid,
  deduplicated"; and `pctr attest` passes no trusted keys (`bin/pctr.mjs:79`), so nothing
  is proven from the command line. At severity LOW the maximal age is Infinity, which
  `verify_attestation` takes for no age: attestations that set none themselves never
  count there, though they do at every stricter severity (`LooserProvesMore`).
* `protect` admits only receipts of executions that succeeded as evidence of a live
  effect (`protect.mjs:65`), so what an agent failed at does not lower its trust there.
* `learn` counts denied and simulated receipts as uses (`learn.mjs:246`), and writes back
  the manifest it read: an edit in between is lost (`bin/pctr.mjs:331`). `OnlyTightens`
  says what holds nevertheless.
* `why` ends after nine causes in a row (`timeline.mjs:44`; `:36` "deterministic
  explanation built from the recorded causal chain"): a receipt is explained within its
  call and up to the route it replaced, and of a run that changed its route twice the
  first call is left out.
* The confirmation of a peer receipt "fails closed: any error, timeout"
  (`routes.ts:879`), but the timeout is cleared when the headers arrive (`:896`): the
  body is awaited without one, and the attester is not looked at again.
* The token of an attester is decoded "without full verification for now"
  (`routes.ts:224`), under "verify the signature" (`:220`): that its score was earned is
  no property of the code, and none here.
* A half-life of `0s` parses: a claim is then not a number until it is issued, and its
  minimum afterwards (`evaluator.js:98`); a score below the `minimum` is raised to it.

A crash of the runtime authority between spending a receipt and appending the PERMIT
burns the approval. The code fails closed there on purpose, and no property asks
for more.

## What is not modelled

* Cryptography and canonical bytes (`crypto.ts`, `signing.mjs`, `ttp.mjs`): a
  signature verifies exactly what was signed.
* Wire formats, HTTP framing, API keys and bearer checks, logging, text output,
  SVG, reports, discovery of tools: no state that interacts.
* Exponential decay and floating point: a model without real numbers has their order and
  their exact ratios, not their rounding (the four decimals of a score). The aggregate
  inside `TrustAuthority` is any value its bounds allow.
* In `attest.mjs` and `learn.mjs`: the list of overstated agents, the unsigned modes for
  development, and the findings that are reported and change nothing. `Learning` also
  leaves out authority given by prefix (`router.mjs:10`) and limits on amounts
  (`learn.mjs:51`, `:105`).
* In `protect.mjs`: approval by amount (`:123`), beside that by severity. `Changed`
  compares the earlier and the later standing of an agent under the severity of the later
  call, where the code took the earlier one under its own call's (`:101`): calls of
  different severities may record a change that the model does not, or the reverse.
* In `keys.mjs`: a command whose public key cannot be written leaves its private key on
  disk whole and signs with another; `KeyFails` leaves none.
* Beside a token, the authority answers the quarantine as it is after the signature
  (`routes.ts:444`); only the token's own claims are modelled.
* In `timeline.mjs`: replay, fork and comparison, which copy or print the events.
* The SDKs in Python, Go and Node and the API gateway issuer: they repeat, or call, what
  is modelled.
* Of the trust primitives: single delegations, transfers, routes and composite proofs,
  each a comparison of fields of one document. The parser of the TTP language.
* The governed workflow of `.github/`, a client of the runtime authority: planned.
* Schemas, types, build and release checks, documents, examples, the website.

## The plan

In this order; `done` is what this directory holds.

1. Runtime authority, effect boundary, their abstract specification, and the
   proofs of both (done).
2. Trust authority and tokens, with proofs; client, issuer and peer issuer (done).
3. Gate, loop and explanations, responses, measurement, workspace and learning,
   routing engine and resolver, chains and claims (done).
4. The proofs of their safety properties (done but for the list above), with the induction
   over numbers, finite sets and lists that they need.
5. Next to prove: `ReceiptsExplained`, with the visits of `why` as a recursive function of
   what was told, as the passes of the water-fill are.
6. Next to model: `GovernedWorkflow`, the jobs of `governed-execution.yml` as clients of
   `StepUpAuthority`, with pushes to the pull request between them.
