# Citely Deal Desk: formal models

TLA+ models of this repository's case service, TLC runs that check them, and
TLAPS proofs about them. The service takes a deal over HTTP, is paid for it
over x402 or through an ERC-8183 escrow job a wallet funded, buys a compliance
module's answer, adjudicates the deal item by item with a language model,
decides exit and legs, submits a signed settlement authorization (SA) to the
job, has a verifier check and settle it, and books what was earned and spent. A
demo page lets a browser wallet go through it. Paths below are relative to
`src/packages/` unless they start with `docs/` or name a top-level directory.

## 1. Inventory

| Component | State it keeps | Operations | Talks to |
|---|---|---|---|
| Orchestrator `engine/src/orchestrator/run-case.ts`, `stages.ts` | locals of one call | `runCase`: intake, `openJob` or `adoptExternalJob`, `procureOnce`, `adjudicateAndSign`, submit, verify, settle, `recordLedger`, `reconcileJobState` | every store, job client, x402, verifier |
| Request idempotency `run-store.ts`, `keyed-mutex.ts` | table `case_runs`; per process a map caseId -> tail of a promise chain | `begin` (started, conflict, replay, in flight, resumed), `markRunning`, `succeed`, `fail`, `runExclusive` | orchestrator |
| Purchases `purchase-store.ts` | table `purchases` | `find`, `record` (INSERT OR IGNORE, read back), `procureOnce` | x402 client |
| Case state `db/state.ts`, `db/store.ts`, `db/composite.ts` | tables `cases`, `party_tasks` | `ensureCase`, `setJobId`, `transitionCase`, `reconcileJobState`, party task transitions | orchestrator |
| tx_log `db/tx-log.ts`, `db/rerun.ts` | table `tx_log` | `lookup`, `record` (throws on a duplicate), `chainStep` | job client, scripts |
| Ledger `ledger/*` | table `ledger`, UNIQUE(ref, ref_type, category, direction, account) | `record`, `recordAll`, `attachSettlementTx`, entry builders, net | orchestrator |
| Job client `chain/src/job-client.ts` | none (it uses tx_log) | `createJob`, `setBudget`, `fund`, `submit`, `complete`, `reject`, `claimRefund`, `splitFees`; reads | escrow contract over RPC |
| Escrow contract and wallets (external) | jobs, allowance, pending transactions | the contract's functions; mining | - |
| x402 buyer `chain/src/x402-client.ts` | none | `check`: balance, payment, validation of the answer and of its question | gateway |
| x402 seller `chain/src/x402-server.ts`, `paid-retry.ts` | in-memory map of paid and undelivered requests, 24 h | `createPaidRoute`: gate, charge, remember | gateway, HTTP |
| Adjudicator `engine/src/adjudicator/*` | directory of cached answers | `adjudicateRubric` in four modes, check and repair of an answer, retries | language model |
| Sandbox `engine/src/sandbox/*`, rubric | none | walk, scan, cut; load a rubric | adjudicator, intake |
| Routing, policy, escalation, SA `engine/src/routing/*`, `policy/*`, `escalation/*`, `sa/*` | none | exit, condition, confidence, legs, briefing, canonical JSON, hash, signature | orchestrator |
| Verifier `verifier/src/*` | trust registry, attestation manifest | three checks, reason, `settleVerifiedJob` | job client |
| Service `server/src/app.ts`, `case-runner.ts`, `case-request.ts`, `rate-limit.ts` | rate-limit buckets | HTTP routes, shape check, limiter, wiring | orchestrator, verifier |
| Remote verifier `server/src/verify-client.ts`, `verifier-app.ts` | map of parked settlements | one call for verify and settle, split into two ports | orchestrator, verifier |
| Marketplace wallet `marketplace/src/*` | none | read an SA, apply the wallet's own policy, pay leg by leg | SA documents |
| Web page and demo API `server/src/webapp/app.js`, `demo-api.ts` | page state; cache of job views | six-step wallet flow with retry, case page, job status | wallet, HTTP, chain |
| Scripts, demo slice, ERC-8004, diagnostics, configuration | - | operator tooling, start-up | - |

Components meet in three ways: method calls inside one Node process, where
another request may run at every `await`; the SQLite file and the cache
directory, which a second process could open as well and which survive a crash;
and the chain, the gateway, the model and the remote verifier, where something
is done before its answer arrives, or without its answer ever arriving.

What is hard here is the idempotency in four layers (`run-case.ts:12-20`):
request (`case_runs` + mutex), chain writes (`tx_log`), purchase (`purchases`),
books (ledger UNIQUE). Every layer records *after* the fact it guards, in
another store, so crashes, lost answers, takeovers and reverted transactions
fall between the two. Around it sit a payment gate that must not charge for
nothing, a verifier that may settle after its caller has given up, an
adjudicator whose input and whose model may both be hostile or wrong, and a
page whose steps outlive the view that shows them. `PROJECT.json` lists the
hazards at their lines, each with the properties that would notice.

What makes each component correct:

- admission: one run of a case at a time, in the order of the requests; never
  under another request's row; a success is final; a crash does not lock the
  case;
- job client: one job per case whatever is broadcast; no write repeated;
- purchases and ledger: one payment per case; cost rows name the kept purchase;
  income only for a job that paid out, and as much as it paid;
- case state: forward only; the end agrees with the chain;
- answer: the deliverable and verdict answered are those on chain;
- adjudicator: every item answered within its rubric's terms, text that a rule
  matches as it came always marked, a replay of what a run has written only of
  an answer to the same question;
- policy, routing, verifier: no gray item is dropped; an SA the engine builds
  passes its verifier, unless routing and policy disagree; a wallet pays only
  what the module passed and its own policy allows;
- seller: what is charged is servable and, until the window closes or the
  process restarts, never lost;
- remote verifier: an answer is the settlement of its own job;
- page: what it shows is true; one escrow per visit, however often retried.

## 2. Modules

| Module | Models | State |
|---|---|---|
| `Escrow` | the contract, the client's allowance and transactions broadcast first and mined later in any order (external) | `jobs`, `txs`, `allowance` |
| `JobClient` (extends `Escrow`) | `sendWrite` step by step over `tx_log` | `txLog`, `call` |
| `RunCase` (extends `JobClient`) | orchestrator and stores, processes, crashes, failing calls, staleness | `pc`, `ctx`, `mutex`, `runs`, `cases`, `purchases`, `ledger`, `payments` |
| `CaseRecord` | abstract: what the record of a case promises | `progress`, `boundJob`, `kept`, `books` |
| `RunCaseProperties` | the properties of `RunCase`, and its refinement mapping `Promise` to `CaseRecord` | - |
| `Verdicts` | the vocabulary adjudicator and routing share | - |
| `Sandbox` | the walk over a case's material: depth and length limits, scan before cut | - |
| `Adjudicator` (extends both) | `adjudicateRubric`: item loop, modes, cache, repairs, two retry counters, fallback | `context`, `stage`, `results`, `attempt`, `cache` (and the histories `edited`, `said`) |
| `CaseDecision` | exits, procurement gate, condition, confidence, legs, escalation, SA body, hash and signature, as operators | - |
| `Verification` (extends `CaseDecision`) | attestation sources, trust registry, the three checks and the reason | - |
| `WalletPolicy` | the marketplace wallet: reading an SA, its own policy | - |
| `ModulePurchase` | what the buyer accepts of a module's answer | - |
| `CaseBooks` | ledger rows, fee split, royalties, UNIQUE key, `attachSettlementTx`, net | - |
| `CasePipeline` (composes these five and `Sandbox`) | one case with its data, from material to payouts | `input`, `stage`, `decision`, `purchase`, `spent`, `legs`, `sa`, `report`, `job`, `escrow`, `books`, `now`, `wallet` |
| `RateLimiter` | fixed windows, bounded map with eviction | (given by its user) |
| `CaseRequest` | the shape check of `POST /cases` | - |
| `KeyedMutex` | the promise chain per key, its clean-up, the end of the process | `tails`, `previous`, `phase`, `keyOf` (histories `ticket`, `issued`) |
| `RemoteVerifier` | the verifier in another process and the parked settlements | `jobs`, `calls`, `parked` |
| `CaseService` (extends `RateLimiter`, `CaseRequest`; instantiates `KeyedMutex`, `RemoteVerifier`) | `POST /cases` from limiter to answer | theirs, and `plan`, `now`, `buckets`, `req`, `charged`, `remembered`, `rows`, `restarts` |
| `WalletFlow` (extends `Escrow`) | `runFlow` of the demo page against wallet, chain and server, whose setBudget is looked up, broadcast, logged, mined and awaited | `visits`, `page`, `steps`, `jobId`, `deal`, `flows`, `runs`, `proposals`, `submits`, ... |
| `CasePage` (extends `WalletFlow`) | the case page and the demo API's cached job views | `loads`, `reads`, `shown`, `cache`, `views` |
| `MCRunCase`, `MCAdjudicator`, `MCCasePipeline`, `MCCaseService`, `MCWalletFlow` | constants for TLC | - |
| `RunCaseProofs`, `RunCaseRecordProofs`, `RunCaseOnceProofs`, `KeyedMutexProofs`, `CaseServiceProofs`, `AdjudicatorProofs`, `CasePipelineProofs`, `WalletFlowProofs` | TLAPS proofs (section 4) | - |

The four state machines overlap on purpose, each with the rest of the system at
the precision its own questions need. `RunCase` has all interleavings of runs
and stores and treats a deliverable as an atom. `CasePipeline` is a single
undisturbed run that opens the atom. `CaseService` reduces a run to its row and
its job, and has everything that surrounds one. `WalletFlow` has the server as
the browser sees it.

**How steps correspond to code.** One action is the stretch between two
awaits; better-sqlite3 is synchronous, so several SQL statements in one stretch
are one action: `ensureCase` with intake, `advanceCaseState` with the purchase
lookup that follows it, the whole of the ledger inserts. `begin` is split only
for a takeover, where a process may come between the check and
`markRunning`'s UPDATE. With other processes on the file such a stretch is not
atomic; what those interleavings could add is between statements on rows that
only runs of the same case touch, and the takeover is the one that changes
which runs there are. In `RunCase`, `pc[r]` names the next stretch and `ctx[r]`
holds the call's locals; `req[n].stage` in `CaseService`, `flows[f].at` and
`phase` in `WalletFlow`, and `stage[r]` in `Adjudicator` do the same.

A chain write of the server is `call -> (fund only: approved) -> record ->
receipt`. Lookup, precondition reads and broadcast are one step, because the
broadcast's own gas estimate evaluates the contract's predicate again at the
moment it is sent. The window between the lookup and the broadcast is therefore
closed in the model; what a second process could do in it (send the same write)
is what a crash between broadcast and row also does, and that window is open.
`approve` is sent and awaited in one step, for the same reason of size. A
LookupHit does not wait for the receipt (`job-client.ts:197-200`), and
`jobIdFromTx` reads the receipt without waiting: both are as in the code.

**Data.** In `RunCase` a request is (case, fingerprint, own or external job,
readable, with escalation configuration); the fingerprint determines the
request, as `requestFingerprint` projects every field a run depends on. A
deliverable is an atom: `PassingSas` are those the three checks accept,
`GraySas` those that need escalation material. `Assess` picks any deliverable,
because adjudication may come out differently when a case is run again. In
`CasePipeline` the SA is a record, a hash is the body itself and a signature
names its account and what it signs (canonical JSON and EIP-712 are taken to be
injective and unforgeable); the wording check looks at every free text of the
body, its keys and closed vocabularies are left out. In `Sandbox` a text is where
it stands and what a rule matches: the text as it came, what is left of it once
it is cut, both or neither. In `Adjudicator` a model's answer has the shape its
schema asks for or not; those that do are small records with wrong ids, foreign
sources, contradictory gray types and too many flags among them; a cache file
holds such an answer, an entry around one of another shape, or no entry. In
`CaseRequest` a field is "ok", "bad" or "absent".

**The environment.** Clients send again and again (`RunCase`), or one of a few
plans (`CaseService`). A call to the outside throws or its answer is lost;
processes crash or restart; time passes; a pending transaction is mined or
reverts; a refund is claimed after expiry; cache files are edited, swapped or
deleted; the contract's owner changes the fee rates; the user refuses a signature, opens
`#/new` again or looks at another page.

`CaseService.FacilitatorPays` charges a credential when the x402 middleware calls
`next()`, before the handler runs, and once. The middleware is not in this
repository: this is how `x402-server.ts` and `paid-retry.ts` read it, and it is
an assumption of `FreeWasPaid`, `ChargedIsServable` and `PaidIsRecoverable`.

## 3. Runs

The eight runs on `MCRunCase` use two runners and at most two cases. Two are
enough for every interaction there: locks, rows and keys are per case, cases
meet only in the allowance and in the chain's order, and a third caller can only
repeat what the second does.

| Run | Configuration | Properties |
|---|---|---|
| `takeover` | 2 processes, 1 case, 2 conflicting requests, 3 arrivals, 1 slow run, 1 crash at a point where something done is not on record, 2 deliverables | TypeOK, OneJobPerCase, SameRequestThroughout, CostsMatchPurchase, ImplementsCaseRecord |
| `recover` | 1 process, 1 case, unlimited arrivals, 1 crash and 1 failed call, fair | OneRunPerCase, SucceededIsFinal, EventuallyAnswered |
| `cases` | 1 process, 2 cases (own job; wallet's job without escalation configuration), refunds, 1 crash before the submission, unlimited arrivals | EndAgreesWithChain, AnswerMatchesChain, IncomeIsReal, WritesAreNotRepeated, ModulePaidOnce |
| `adjudicator` | 2 runs over one cache directory, 2 items, the four modes, materials with a match that is kept, cut off, buried, and one that only the cut makes, every kind of failing call, `ListMax` = `Backoffs` = `MaxEdits` = 1, fair | AdjudicatorTypeOK, InjectionIsMarked, RubricIsAnswered, ReplayIsFaithful, EventuallyAdjudicated |
| `pipeline` | 1 case, 2 items with every pair of verdicts, 29 module answers, 3 escalation configurations, 4 deployments, 2 settlements, 2 fee rates, the wallet shown the case's document or one of 4 others | PipelineTypeOK, GrayIsNeverSilent, RejectedOnlyWhenPolicyAloneEscalates, CompletedMeansAttested, PaidMeansModulePassed, NothingPastARedLine, BooksMatchMoney |
| `service` | 3 requests in one of 3 plans (retries with the same payment; two cases that name one job; a malformed body and a conflicting one), 2 cases, 1 restart or clock tick | ServiceTypeOK, TurnsInOrder, FreeWasPaid, ChargedIsServable, PaidIsRecoverable, AnswerIsTheSettlement, NothingLeftBehind, EvictsOnlyWhenFull, EveryRequestEnds |
| `wallet` | 1 flow at a time, 2 visits, the form read twice, 2 faults, 1 view of a case page, a cache of 1 view, the job may expire, fair | WalletTypeOK, ShownIsTrue, DoneStepsAreTrue, OneEscrowPerVisit, OneCasePerJob, EventuallyServed |
| `overlap`, `repay`, `feerates`, `unfunded`, `rejudged` | the smallest instance of `MCRunCase` that shows a divergence | one each, violated |

**Bounds of the `MCRunCase` runs**, all constants: `MaxArrivals` (0 =
unlimited), `MaxSlow` (live runs that outlast `staleRunMs`), `MaxCrashes`,
`MaxFaults`, and `FailAt`, the points <<stage, phase>> at which a run may die or
fail. `FailAt` is what separates the runs: `takeover` allows a crash only at the
*unrecorded* points, because a crash anywhere else leaves the tables of a run
that stopped one step earlier; `recover` allows every point except the ones from
which the code cannot recover (the findings below and a lost hash of fund,
submit or settlement); `cases` allows the recorded points before the submission,
where nothing may be sent or paid twice.

**Bounds of the others.** `adjudicator` (196 thousand states): two items are
needed for an answer that carries another item's id, two runs for a cache that
is shared; one back-off and the two schema attempts of the code are enough to
meet the two counters in every order, `ListMax` = 1 makes a list of two flags
too long, and one file that is someone's edit at a time is enough for a hit that
no run has written. `pipeline` (1.9 million): two items, because one item's verdict
decides the exit and the other's must not be lost for it; the module's answers
cover every value of every field some decision reads, and each way an answer can
be refused; two rates, one of them with fees that round down. `service` (325
thousand): the window of the limiter and of the retry memory are one tick, the
map holds two clients of three, so one is evicted; three requests are the least
for which the mutex forgets a key at the wrong moment (one inside, one queued,
one new); two cases that name one job may both have adopted it before either
submits. `wallet` (1.3 million): `MaxVisits` and `MaxForms` two, so that a
form is read again under a second visit; two faults, so that a retry fails too;
one cached view, so that the second job evicts the first. With two flows under
way at once (the page opened again while one waits, `app.js:561`)
`DoneStepsAreTrue`, `OneCasePerJob` and `OneEscrowPerVisit` do not hold, because
the old flow writes into the new visit's steps and job, and all three say so with
`~overlapped`; so neither the runs, which keep one flow, nor the theorems say
anything of that hazard but that `ShownIsTrue` survives it.

**Deadlock** is checked in `recover` and `cases`. Elsewhere requests, runs,
visits or faults run out by their bound, and a case that was answered is over,
so a state without steps is no defect and `CHECK_DEADLOCK FALSE` says so.

**Fairness.** `RunCase` (`FairSpec`): weak fairness of each runner's own steps
(Node resumes a promise that is ready, RPC waits end), of the chain
(transactions are mined), of `GrowStale` (time passes), and of `Arrive` (the
client sends again until it has an answer, which is what the header of
`run-store.ts` is written for). `Adjudicator`: the steps of the runs, together,
for the model's call ends by its timeout; which way it ends is free, again and
again, and so is what people do to the cache files.
`CaseService`: the server's own steps, for every await ends, the verifier's call
by `AbortSignal.timeout`; nothing is assumed of clients, of time, or of the
verifier, which may never answer. `CasePage`: the user signs or refuses and
presses Retry; and, together, the chain mines (the provider's setBudget as
well), runs of the server go on and records load, each of which ends; faults,
refusals among them, are bounded. Crashes and failing calls have none
anywhere, so liveness is "if failures stop".

**What the runs show.** With one process - what `server/src/index.ts` starts -
a case is run once at a time, in the order of the requests, its answer is final,
agrees with the chain and, royalties aside, with the books, and every request sent again is
answered, for crashes and lost answers outside the windows below and one that no run
opens: a resumed run whose wallet's job it has submitted itself is refused, as
the job is no longer funded (`run-case.ts:255`), and the wallet's money waits for
the expiry. With two
processes runs may overlap, and still no case gets a second job on record, works
under another's request, or moves backwards, and costs name the kept purchase.
Whatever a model answers, an item ends with a verdict its rubric knows and only
its own sources, and text a rule matches as it came is marked on every item,
also when the part that matches is cut off, when the model refuses, floods its
own flags, or is not asked because the answer is cached or someone has edited
the cache; what only the cut makes match is not (below). A gray item always
reaches a human; an SA built by a correctly configured desk fails its own
verifier in exactly one case (below); a wallet pays nothing past a red line. A
charge is for a servable body and is never lost inside its window and its
process. Every property has a mutant (a definition ending in the name of the
bug, placed before the one it replaces) that TLC refutes.

**Findings** (runs that end in a violation):

1. `overlap`: two processes resume the same failed row; `markRunning` checks
   nothing (`run-store.ts:182`, `:234`), against `run-store.ts:12` and
   `docs/design/orchestrator-run-case.md:48-49`.
2. `repay`: payment before its row; the answer is lost, the module is paid
   twice (`purchase-store.ts:161`), against `purchase-store.ts:2`.
3. `feerates`: one failed read after the settlement locks the case for ever,
   because `settleVerifiedJob` looks at the state before `tx_log` could answer
   (`run-case.ts:495`, `settle.ts:79-83`), against `run-store.ts:15-16`.
4. `unfunded`: a reverted `fund` stays in `tx_log`; the next run goes on with
   an open job (`job-client.ts:213`), against `job-client.ts:193-194`.
5. `rejudged`: a resumed run adjudicates again, `submit` is a hit, the checks
   and the answer use the new deliverable (`run-case.ts:486`), against
   `types.ts:59`.

**Met while modelling**, and stated in the models as they are:

- A string is scanned and then cut (`sandbox/index.ts:89-90`); a rule that ends
  in `\b` (`rules.ts:61`, `67`, `101`, `109`) may match what is left and not the
  whole, and no flag is raised, although `docs/design/llm-provider-openai.md:697-698`
  has the rules run over the extracted fields as well. `InjectionIsMarked` is
  about texts as they came.
- `isGoldenEntry` (`cache.ts:66-77`) does not look at `wire`; an entry around one
  of another shape is a hit, its validation throws outside the `try`
  (`adjudicator/index.ts:271`) and ends the rubric also in a mode that may ask
  the model (`CacheHitMisshapen`), against `rubric-run.ts:51-52` and `cache.ts:123`.
- The royalty of a purchase is booked as money paid, under the purchase's receipt
  and also when it rounds to 0 (`stages.ts:284`), although no code pays it,
  against `ledger/purchase.ts:35-39`, `69-70` and `119-122`. `CaseBooks` books it
  as the code does, and `BooksMatchMoney` is about the rows that are no royalties.
- A retried setBudget is a `tx_log` hit that does not wait (`job-client.ts:197`);
  the page's step is done while the job has no budget (`SetBudgetHit`), against
  `docs/demo-ui.md:38-44`. `DoneStepsAreTrue` says of that step what is true, that
  the call is in `tx_log`, and of fund that the budget was there.
- The whitelist rubric routes `unverifiable` to exit 4 in its text;
  `routing/exits.ts:97-101` lets it through exit 2.
- A module that escalates while no adjudication is gray gives a leg with
  condition ESCALATE and no material: the verifier rejects it
  (`RejectedOnlyWhenPolicyAloneEscalates` is about exactly this case).
- A forbidden phrase is only found when the SA is signed (`sa/build.ts`), after
  the module was paid.
- The exits 1, 3 and 5 are not reachable from `runCase`.
- A cache file that is someone's edit and still an entry is replayed, whatever
  key it names (`cache.ts:66-77`); it is validated again, so the item's terms and
  the flags of the run's own material hold, which is what `RubricIsAnswered` and
  `InjectionIsMarked` say, and `ReplayIsFaithful` speaks of all other files.
- Two cases that name one wallet's job both adopt it (`run-case.ts:255` and
  `:479` are awaits apart); the second settlement finds it ended and fails.
- A failing `cache.put` drops a valid answer of the model
  (`adjudicator/index.ts:298`).
- `submittedDeliverableHash` is the run's own hash, never the one on chain.
- A remembered retry key is not removed when its retry is delivered, and a
  conflicting request is answered 500 after it was charged, so it is remembered
  and free to fail again.
- The case page of one case may paint into the card of another when a read
  comes late (`app.js`, against its comment at the call); what it paints is
  still true of the job it names, which is what `ShownIsTrue` says.
- A second `reviewAndSettle` pays the earlier legs again (`agent.ts:280-284`),
  and `commissionReview` of the same case reuses the idempotency key
  (`agent.ts:242`).
- `server/src/index.ts:123-132` refuses the remote verifier today; its two
  ports are modelled as they are written.

## 4. Proofs

TLAPS proves every safety invariant and every action property that a passing
run checks, and both refinements, for every value of the constants that
satisfies the named assumptions. Liveness is left to TLC.

| Assumption | Says | Why the code justifies it |
|---|---|---|
| `EscrowAssumption` | `NoSa` is no deliverable; a wallet's jobs are jobs | sentinels |
| `RunCaseAssumption` | every runner has a process; sentinels are no members; a fingerprint determines its request | `requestFingerprint` projects every field a run depends on |
| `MutexParameters` | the absent promise is no caller | sentinel |
| `RateLimiterAssumption` | window, limit and bound are positive | the deployment's limits; a limiter that lets nothing pass is no deployment |
| `ServiceAssumption` | plans name bodies, bodies name cases and jobs; a case's requests of one fingerprint name the same job | as above |
| `AdjudicatorAssumption` | the rubric is a sequence of items, there are four modes, answers have the wire's shape | `schema.ts`, `modes.ts` |
| `RubricAssumption` | a rubric has items, and no id twice | `parseRubric` |
| `DeploymentAssumption` | registry and manifest are accepted ones | a deployment whose keys overlap does not start |
| `AmountsAssumption` | amounts are natural numbers; rates come to at most the budget | the contract's `FeesTooHigh` |
| `DocumentAssumption` | a document's legs are a list, its amounts are natural numbers; a wallet's limits are integers | `usdc6.ts`; `sa-view.ts:58`, `:85-91` refuse anything else where a document is read |
| `MaterialAssumption` | built escalation material is never mistaken for none | sentinel |
| `WalletAssumption`, `PageAssumption` | flows are finite in number, there is a deal; bounds are numbers | finitely many presses |

| Theorem | States | Besides the assumptions |
|---|---|---|
| `TypeCorrect` | `Spec => []TypeOK` of `RunCase` | |
| `AlwaysSameRequest` | `Spec => []SameRequestThroughout` | |
| `AlwaysOneJob` | `Spec => []OneJobPerCase` | |
| `CostsAlwaysMatch` | `Spec => []CostsMatchPurchase` | |
| `EndAlwaysAgrees` | `Spec => []EndAgreesWithChain` | |
| `RecordRefinement` | `Spec => ImplementsCaseRecord`: `RunCase` implements `CaseRecord` | |
| `OneProcessOneRun` | `Spec => []OneRunPerCase` | one process |
| `OneProcessFinal` | `Spec => SucceededIsFinal` | one process |
| `OneProcessPaysOnce` | `Spec => []ModulePaidOnce` | one process, `PurchasesNotCut` |
| `OneProcessWritesOnce` | `Spec => []WritesAreNotRepeated` | one process, `JobsApart`, `BroadcastsNotCut`, finitely many cases |
| `OneProcessIncomeIsReal` | `Spec => []IncomeIsReal` | one process, `JobsApart`, `PayoutsNotCut` |
| `OneProcessAnswers` | `Spec => []AnswerMatchesChain` | one process, `JobsApart`, `SubmissionNotCut` |
| `MutexOrder` | `MutexSpec => []TurnsInOrder` | |
| `ServiceRefinesMutex` | `ServiceSpec => Mutex!MutexSpec`: the service implements the mutex | |
| `ServiceTurnsInOrder` | `ServiceSpec => []TurnsInOrder` | |
| `AlwaysFreeWasPaid` | `ServiceSpec => []FreeWasPaid` | |
| `AlwaysChargedIsServable` | `ServiceSpec => []ChargedIsServable` | |
| `AlwaysAnswerIsTheSettlement` | `ServiceSpec => []AnswerIsTheSettlement` | |
| `AlwaysPaidIsRecoverable` | `ServiceSpec => []PaidIsRecoverable` | |
| `AlwaysNothingLeftBehind` | `ServiceSpec => []NothingLeftBehind` | |
| `AlwaysServiceTypeOK` | `ServiceSpec => []ServiceTypeOK`, the bound of the limiter's map among it | |
| `FullMapsEvict` | `ServiceSpec => EvictsOnlyWhenFull` | |
| `AlwaysAdjudicatorTypeOK` | `AdjudicatorSpec => []AdjudicatorTypeOK` | |
| `AlwaysInjectionIsMarked` | `AdjudicatorSpec => []InjectionIsMarked` | |
| `AlwaysReplayIsFaithful` | `AdjudicatorSpec => []ReplayIsFaithful` | |
| `AlwaysRubricIsAnswered` | `AdjudicatorSpec => []RubricIsAnswered` | |
| `AlwaysPipelineInv` | `PipelineSpec => []PipelineInv` | |
| `AlwaysPipelineTypeOK` | `PipelineSpec => []PipelineTypeOK` | |
| `AlwaysGrayIsNeverSilent` | `PipelineSpec => []GrayIsNeverSilent` | |
| `AlwaysRejectedOnlyWhenPolicyAloneEscalates` | `PipelineSpec => []RejectedOnlyWhenPolicyAloneEscalates` | |
| `AlwaysCompletedMeansAttested` | `PipelineSpec => []CompletedMeansAttested` | |
| `AlwaysPaidMeansModulePassed` | `PipelineSpec => []PaidMeansModulePassed` | |
| `AlwaysNothingPastARedLine` | `PipelineSpec => []NothingPastARedLine` | |
| `AlwaysBooksMatchMoney` | `PipelineSpec => []BooksMatchMoney` | |
| `AlwaysWalletTypeOK` | `Spec => []WalletTypeOK` of `CasePage` | |
| `AlwaysShownIsTrue` | `Spec => []ShownIsTrue` | |
| `DoneStepsStayTrue` | `Spec => []DoneStepsAreTrue` | |
| `JobsAreNotShared` | `Spec => []OneCasePerJob` | |
| `RetriesFundOnce` | `Spec => []OneEscrowPerVisit` | |

`DoneStepsAreTrue`, `OneCasePerJob` and `OneEscrowPerVisit` speak of visits without overlapping flows; the others
have no such condition. The extra hypotheses of the one-process theorems are
explained below.

### runCase, with any number of processes

- `TypeOK` is not inductive: a step that reads a transaction needs the hash it
  holds to exist, and a step about a runner's case needs the runner to have a
  request. `Basic` adds these (`LoggedHandles`, `HeldHandles`, `HasRequest`)
  and is the base of everything else. It is proved variable by variable; frame
  lemmas (`AdmitChanges`, `WriteChanges`, `ProceedChanges`, `EnvChanges`) say
  once which kinds of steps touch which variables.
- `CostsMatchPurchase` needs that receipts name payments of their own case
  in the runner's hand, in `purchases` and in the ledger (`Receipts`), and that
  past the purchase a run holds the *kept* receipt.
- `OneJobPerCase` needs that keys of `tx_log` are unique (record throws), that a
  run which waits for createJob's receipt, or reads its job id, holds the
  recorded hash, and that runs which have not started hold nothing (`JobsInv`).
  It is where INSERT-or-throw matters: a run whose record throws fails, and so
  never works on the job of the broadcast it lost.
- `ImplementsCaseRecord` maps a case to its progress (its state's rank), its
  bound job, the kept receipt and what is booked. Each step is one of the
  record's or a stutter because of three invariants. `WritesInv`: a hash held or
  logged is of the write its key names, and no call starts with an old one.
  `BindingInv`: a job bound to a case stays bound, since whoever binds it again
  is about the same request (`SameRequestThroughout`) or holds the one logged
  createJob. `ProgressInv`: a run past the submission has moved its case that
  far, and a case that far has bought its answer. So a second run of a case that
  ended can repeat statements, and change nothing.
- `EndAgreesWithChain` is a part of `ProgressInv`: `reconcileJobState` writes
  what it read of a job that has ended, and a job that ended does not move.

### runCase, with one process

- `OneRunPerCase` follows from `LockHeld`: a run that is past `begin` holds its
  process's lock for its case. This needs no assumption on the number of
  processes; only its reading as "one run" does.
- `SucceededIsFinal` needs `RowOpen`: while a run executes, its row is
  "running". Its proof uses the lock, so it too is about one process.
- The four properties of run `cases` are true only where no failure falls into
  a window the code leaves open. `FailAt` holds the points at which a run may
  die or have a call fail, and the hypotheses exclude just the window a property
  cannot survive: between payment and row for `ModulePaidOnce`
  (`PurchasesNotCut`), between broadcast and row for `WritesAreNotRepeated`
  (`BroadcastsNotCut`), between the completion and its receipt for
  `IncomeIsReal` (`PayoutsNotCut`), and from the submission to the answer for
  `AnswerMatchesChain` (`SubmissionNotCut`). The points of run `cases` satisfy
  all four. Runs `repay` and `rejudged` show that the first and the last are
  needed. `JobsApart` says that two cases do not bring the same wallet job; the
  contract would serve only one of them, and the code keeps no table of jobs
  that would refuse the second.
- All four rest on `OriginInv`: a hash is with one runner until it is on record,
  and in one row from then on (`OneHolder`); a job was made by one mined
  createJob or brought by a wallet (`MadeOnce`).
- `ModulePaidOnce` (`PaymentsInv`): a payment is the kept one or in the hand of
  the run that made it, and who is about to pay has a case with nothing kept.
- `WritesAreNotRepeated`: whoever broadcasts has not found the key logged, and
  every transaction is known (logged, or with the runner that sent it:
  `KnownOf`, `SendingUnlogged`), so by the lock a second one of the same key
  would find the first. Finiteness of the cases is needed to count them.
- `IncomeIsReal` (`OutcomesInv`, `SettlingInv`): a mined write fits its job
  (`TxsFit`), only a passing report leads to completion (`Verdict`), a logged
  settlement of a job that has not ended is waited for by a run (`Watched`), so
  that a run which reaches the books has seen the job end as it settled it
  (`SettledAs`).
- `AnswerMatchesChain` (`SubmissionInv`, `SubmitOpen`, `AnswersInv`): while the
  job has not ended, the run that submitted is still there (`Attended`), so no
  other run adjudicates and submits to it; past the submission a run holds the
  deliverable that is on chain, or finds the job over and fails (`AsSubmitted`);
  a submission that reverts found its job ended. What the row answers is then
  what the run held when it succeeded.

### The service

- `TurnsInOrder` is not inductive: a caller looks only at the promise it found.
  `MutexInv` adds that a key's tail is its last arrival (`LastIsTail`), that the
  promise a queued caller found was the last one in front of it (`FoundIsLast`),
  and that whoever left was not overtaken (`NotOvertaken`); this is why the
  clean-up may delete an entry only when the tail is its own.
- The service's turns are the mutex's by refinement: every step of the service
  is a step of `KeyedMutex` for its request and case, or leaves it alone; then
  `MutexOrder` is used through its instance.
- `FreeWasPaid` and `ChargedIsServable` need what the gate keeps about a request
  on its way (`ServiceInv`): at the gate it has passed the shape check, at the
  facilitator it names no job, who has paid was charged for its body, and what
  is remembered was charged. All steps behind the gate are of one kind (`Later`).
- `AnswerIsTheSettlement` follows the settlement through its five places: the
  verifier's answer to a call, the parked entry, the run that took it, the row
  that replays it, the answer (`CallsRight`, `ParkedRight`, `RunsRight`,
  `RowsRight`), each naming what the verifier did with the job concerned. They
  last because a settled job stays settled (`JobsSettle`). It is where taking
  the first entry *of the job* matters, and where two requests of a case with
  the same fingerprint must name the same job.
- `PaidIsRecoverable` is where the turns pay off. A run that is inside has the
  mutex's turn for its case (`TurnHeld`), so by `MutexInv` no two are
  (`OneInside`), so nobody else writes its row (`RowHeld`); a success on its way
  back therefore still has its succeeded row (`Responses`), which a later
  request with the same payment is answered from. A failure is remembered before
  it is answered, for at least the window after the charge and in this process
  only (`Clock`), and who has paid is past the gate and names no job on chain
  (`PaidPast`), so none of its refusals is of the kind that a retry repeats.
- `NothingLeftBehind` has two halves. A parked settlement belongs to a run that
  is about to take it, and no job is settled for two requests (`OneAnswer`); a
  key's tail is a request that has not left (`TailHasNotLeft`, from the mutex).
  When nobody is under way there is neither.
- `ServiceTypeOK` and `EvictsOnlyWhenFull` are about the limiter's map. `Kept`
  is the buckets at a set of positions, in their order, so that what is dropped
  is a matter of cardinalities: the live positions are a subset of all
  (`KeptBuckets`), the map stays within its bound because room is made before a
  key is added (`BucketsBounded`), and a live bucket goes only if the live
  positions are as many as the map may hold, hence all of them.

### The adjudicator

- `InjectionIsMarked` holds because every result, replayed ones included,
  carries the flags of its run's material (`Flagged`), also when the list of the
  model is cut. It is about texts as they came; nothing is said of what matches
  only once it is cut.
- `ReplayIsFaithful` is an action property: at the hit, the file of a key that no
  one has edited since a run wrote it holds the answer last kept for exactly that key
  (`CacheWasSaid`), and a run's own write ends an edit.
- `RubricIsAnswered`: the results of a run are a prefix of the rubric's items,
  each with a verdict, sources and gray type its own item allows (`Answers`,
  `Fits`), whichever of answer, repair, replay or fallback made it; and a run is
  done only when the prefix is whole (`Shape`).

### The pipeline

- `PipelineInv` says of every stage what the stages before it left: the answer
  bought was accepted for this request, exit and legs are those of the case's
  data, the document is the one built from them, the report the one made of the
  document. `GrayIsNeverSilent`, `RejectedOnlyWhenPolicyAloneEscalates` and
  `CompletedMeansAttested` are then facts about operators: a gray item gives
  material and low confidence to every leg; each of the three checks passes on
  what the engine itself built and signed, except when policy escalates and
  routing does not; a check of the attestation that passes has found an
  attester's signature.
- `WalletInv` says that a wallet that reviewed a document has made a prefix of
  the payments it agreed to, and has the rest before it or has given up.
  `NothingPastARedLine` and `PaidMeansModulePassed` follow from what it agrees
  to.
- `MoneyInv` says what the books of an answered case are: rows of income if the
  job was completed, and the rows of the purchase. `BooksMatchMoney` adds up
  those that are no royalties.
- The library's induction theorems cannot be used here (they take an operator
  as a parameter), so loops and sums are proved about as functions: `Loop` and
  `UptoInduction` argue with the least number at which a property of a set
  fails, `SubsetInduction` does the same over the finite subsets for the sums of
  the ledger, of which `SumTakes` shows that they do not depend on the order of
  the rows.

### The page

- `ShownIsTrue` is proved from one fact about the chain (`Grows`): a job's
  status, budget and deliverable only move forward, so a claim that was true of
  a job when it was read is true when it is painted, however late, and whoever
  reads at the same time. `PageTrue` carries it through loads, reads and cache.
- The three properties of a visit need `Solo`, which holds as long as flows did
  not overlap: one flow is active and works on the page's visit, job and deal
  (`Alone`), steps are done in their order (`Ordered`), a step that is done is
  true of the job (`DoneTrue`), the job belongs to no earlier visit (`Fresh`),
  and the jobs that are funded, or may still be, are no more than the visits
  (`Spare`). That setBudget is done means only that `tx_log` has it; that a
  funded job has its budget is the contract's doing, as fund reverts without one.

### Only model-checked

`EventuallyAnswered`, `EventuallyAdjudicated`, `EveryRequestEnds` and
`EventuallyServed`: liveness under fairness is outside the prover's reach. The
shape check of a request, the sandbox's walk and the canonical form of a
document are used in the proofs only by the facts named above; what they
compute for all inputs is not a theorem.

## 5. Not modelled

- Cryptography, canonical JSON, date arithmetic, logging, redaction, wording and
  layout: no state, and where a property needs them they are perfect.
- Composite case and task state (`db/composite.ts`): it has no caller but its
  tests, so there is no order of calls to model. The same holds of the
  escalation states of a case, `recordAll`, `entryForRefund`,
  `purchaseLedgerEntries`, and the resilient gateway client.
- `chainStep` and `runChainSteps` (`db/rerun.ts`) and the job poller: only
  scripts call them.
- `openCase` and `commissionReview` of the marketplace agent: they open jobs of
  the wallet's own with the job client that is modelled, one after the other.
- The HTTP routes without state (agent card, readiness, identity, rubric), the
  start-up wiring, configuration, ERC-8004 registration and diagnostics: reads
  at start-up and pure I/O.
- The demo slice and the scripts: rehearsals run by hand, straight lines
  through what `runCase` does.
- The landing page, forms and texts of the web page.
- `claimRefund` as a method: no case calls it; the contract's refund is there.
- The contract itself is external; its rules are those of
  `docs/design/contracts-vertical-slice.md` section 2.3 as the client uses them.
- SQLite failures (disk full, busy) and clock changes.

## 6. Plan

What is left: `CasePipeline` and `RunCase` on one state, a run with its data that
is resumed after a crash, for the books of a case that failed in between.
