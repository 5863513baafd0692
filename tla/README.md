# Image platform: TLA+ models, checks and proofs

TLA+ modules for the DreamChat image platform: jobs, costs, request admission,
packs, webhooks, asset slots and their reuse, provider routing and prices, visual
identities and rate limits; the TLC configurations that check them, and TLAPS
proofs of what matters most. `PROJECT.json` lists components, runs, mutants, the
map from definitions to source lines, findings, hazards and theorems.

    tlc -workers 2 -config job_overlap.cfg MCGenerationJob
    tlapm GenerationJob_proofs.tla

## 1. The system

An API process accepts generation requests, decides whether an existing image can
be reused, prices and reserves what is left, inserts a `generation_jobs` row and
puts a task in Redis (asynq). Worker processes take tasks, walk a chain of
provider routes, store the images, publish assets, finalize the cost and emit
webhooks. PostgreSQL is the only shared memory; Redis delivers tasks at least
once and counts requests.

| component | state it keeps | operations | talks to |
|---|---|---|---|
| job creation (`jobs/service.go`, the handlers) | `generation_jobs`, idempotency keys, pack rows | replay lookup, gate, reuse, `CreateAndEnqueue`, completed reuse jobs, `enqueue` with its cleanup | cost, queue, assets, routing |
| worker (`jobs/worker.go`, `guarded_persist.go`, `repository.go`) | job row, `provider_attempts`, final and preview assets | `process`, `processPreviewFirst`, claims, guarded persists, failure tail | queue, providers, storage, cost, webhooks |
| pack fan-out (`jobs/worker_pack.go`) | asset packs, their items | `processPack`, `generatePackItem`, completeness | as worker |
| queue (`jobs/enqueue.go`, asynq) | tasks with retry counts and leases | enqueue, deliver, retry, archive, recover, requeue | worker |
| admin jobs (`adminjobs`) | the job and pack rows | `CancelJob`, `RetryJob`, `enqueueRetry` | cost, queue |
| cost (`cost/cost.go`, `cost*.sql`) | `cost_budgets`, `cost_reservations`, budget holds, cost events | `Reserve`, commit, release, `ReconcileForReservation` | worker, admin |
| admin cost (`admincost`) | budgets, price entries | `UpdateBudget`, `CreatePrice`, `UpdatePrice` | cost, routing |
| assets (`assets`) | versioned slots of `visual_assets` | supersede, plain insert, `Retrieve`, `CompareVariants` | worker, handlers |
| routing (`providers/routing`, `capability.go`) | `provider_routes`, read with prices | `Resolve`, `ResolveChain`, `Reconcile` | handlers, worker |
| identities (`identities`) | identities, versions, anchors | `Upsert`, `SetAnchorAssets`, bootstrap | handlers, worker |
| webhooks (`webhooks`) | endpoint, delivery rows | `PUT` of the endpoint, `Emit`, `Handle` | worker, queue |
| rate limit (`ratelimit`) | two counters per token in Redis | `Allow` | HTTP |
| governance, auth, storage, imaging, migrate, styles, config | none, or read-mostly | | |

What is hard in it:

* the queue delivers a task more than once, and a delivery that lost its lease
  goes on working next to the one that replaced it;
* an admin retry reuses the job id: tasks, workers and reservations of the old
  *run* meet those of the new one. A run is named by its cost reservation;
* an admin may cancel at any instant, and a provider call is long;
* several parties finalize the same reservation, and providers report their
  price late;
* the row, the queue, the pack and the ledger are written by separate
  transactions, with crashes, errors and early returns in between;
* at READ COMMITTED every statement has its own snapshot: what a handler read
  (a key, a price, the anchors, a ready asset) may be gone when it writes.

What makes each part correct: one published output per job and none after a
cancel (worker); one live hold per job, charged exactly when it delivered
(worker and cost); events that never contradict the row (worker, webhooks);
every queued job has a task and ends (creation, admin, queue); held and spent
amounts that add up and fit the limit (cost); one job per live key and no more
live jobs than the cap (creation); a pack whose status agrees with its job
(packs); one ready row per slot, versions that never collide, substitutes that
contradict nothing (assets); routes that can draw the request, in the order its
intent asks (routing); one active price (admin cost); each change of an identity
recorded once and every render fit for its request (identities); no more requests than the limit
(rate limit).

## 2. Modules

| module | models |
|---|---|
| `JobLifecycle` | abstract specification: status machine of one row, the hold of its current run, its published output |
| `GenerationJob` | the job in detail: row, tasks, workers, admins, faults; implements `JobLifecycle` |
| `PackFanout` | the pack worker with the pack's rows; implements `JobLifecycle` |
| `CostLedger` | budgets, reservations, holds, cost events, finalizer, reconciliation |
| `CreateJob` | concurrent requests of one token: keys, cap, reuse, reservation, commit, enqueue |
| `WebhookDelivery` | endpoint, emission, delivery attempts and their record |
| `AssetSlots` | the rows of one reuse slot under forced, plain and preview publications |
| `VariantMatrix` | the variant catalogue and `CompareVariants`, as operators |
| `PackReuse` | retrieval and the reuse plan of a pack over `VariantMatrix` |
| `PriceBook` | the price rows of one model and the transactions that edit them |
| `RouteResolution` | route filters, ranking, primary, chain and the alternates a job keeps, over the prices of `PriceBook` |
| `IdentityRenders` | one identity, its versions and anchors, and the requests that read them |
| `RateLimit` | the two windows of a token |
| `MC...` | the instance of a module for TLC: symmetry, constants too long for a cfg, and for `RouteResolution` the initial states of its run |
| `GenerationJob_proofs` | theorems about `GenerationJob`: types; safety, call cap, claims and refinement |
| `PackFanout_proofs`, `CostLedger_proofs`, `IdentityRenders_proofs`, `WebhookDelivery_proofs` | theorems about the module of that name |
| `CreateJob_proofs` | theorems about `CreateJob`, and about the rate limit in front of it (`RateLimit`) |
| `AssetSlots_proofs` | theorems about `AssetSlots`, and about the plan made of its assets (`PackReuse`) |
| `RouteResolution_proofs` | theorems about `PriceBook` and about `RouteResolution`, which implements it |

Definitions named `Mutation: ...` in a comment are wrong variants of the
definition that follows them. No specification uses them; each shows that the
property it is paired with in `PROJECT.json` can fail.

Each step of a module is one statement or transaction, one provider, storage or
receiver call, or one queue operation, so everything else may happen between two
of them. Data is abstracted to what the control distinguishes: a body is a value,
a hash is the tuple of what it covers, an image is its row.

### GenerationJob and the code

One job is modelled: jobs share no row that the handler writes, except budgets,
which are in `CostLedger`.

* `job` is the row: `status`, `run` (the index of `cost_reservation_id`),
  `preview` (the run that produced `preview_asset_ids`, 0 for none), `claimed`
  (`preview_finalization_claimed`), `delivered` (`final_asset_ids` is not empty),
  `previewFirst` (which of the two paths the payload asks for).
* `finals`, `billed`, `emitted` count final assets, `provider_attempts` rows and
  emitted events; `resv` is the status of each run's reservation.
* `task[r]` is the asynq task of a run; `api[r]` is where the request that
  opened the run is after its commit.
* `pc`, `dlv`, `snap`, `loc` are a worker's control state: the next step, the
  delivery it executes, the snapshot it read at the start (which the code goes on
  using), its local variables.

Each step is one transaction or statement, one provider or storage call, or one
queue operation, so everything else may happen between two of them. The handler
is the sequence `ReadJob`, `ClaimQueuedJob`, `Prepare`, the chain of routes
(`SkipRoute`, `CheckCallCap`, `InsertProviderAttempt`, `ProviderReturns`,
`ChainExhausted`), `UploadImages`, `PersistPreview` and
`ClaimPreviewFinalization` for a two-phase job, `PersistFinal`, then `Emit` and
`CommitReservation`, or the failure tail `MarkFailed`, `Emit`,
`ReleaseReservation`. The three ways the code treats an error of that tail are
`loc.tail`: `failTerminal` returns it (*strict*), a terminal generation error
drops it (*swallow*), `failJobOnFinalAttempt` followed by `return err` keeps the
generation error (*error*).

Data is abstracted to what the control distinguishes. A provider answers with an
image, a content-policy rejection, or a failure that is transient or unpaid. A
denied reservation of an admin retry rolls the request back and is no step.

External code: asynq (delivery, retry count, archive after the last attempt,
recovery of expired leases, shutdown requeue with an unchanged count) and the
death of processes. `DbError` sends a failed statement where the handler's error
path goes; its transaction is rolled back.

### CostLedger and the code

`budget`, `rsv`, `hold` are `cost_budgets`, `cost_reservations` and
`cost_reservation_budget_holds`; `events` sums the reported cost events of a
reservation; `over` is history (what a budget was billed beyond what was set
aside). `Reserve` is one step: its guarded updates hold the budget rows until the
commit, and the savepoint makes it all or nothing. Finalization is two steps,
`BeginFinalize` (the guarded UPDATE that sums the events visible to it) and
`EndFinalize` (the commit), because at READ COMMITTED other sessions read the old
status in between. A late success records its event (`DiscardedSuccess`) and then
reconciles; a late failure records its event only (`FailedCall`). Amounts are
small naturals; there is one currency.

### CreateJob and the code

`keyRow`, `jobs` and `lock` are committed idempotency rows, jobs and the holder of
the token's advisory lock; `pending` is the job an open transaction wrote,
`keyLock` the transaction whose uncommitted key another one waits for, `ts` its
`now()`, against which the TTL is judged. A request goes `LookupReplay`, `Gate`,
`PlanReuse`, then either `CreateCompleted` (a completed job for reused output,
without the cap's lock, as in the code) or `BeginCreate`, `AcquireLock`,
`LookupUnderLock`, `CountLive`, `InsertJob` (with the reservation's verdict),
`InsertIdempotencyKey`, `Commit`, `Enqueue` or `EnqueueFails` with its
cleanup; the loser of the key's unique index goes to `ReplayExisting`. `Abort` is an
error or a dying handler, `JobEnds` and `RetryJob` are what workers and admins do
to the counted jobs. The rows of a reservation are in `CostLedger` and
`GenerationJob`, those of a pack in `PackFanout`, the prices in `RouteResolution`:
none of them decides about a key or the cap.

### PackFanout and the code

`job`, `pack`, `items`, `hold`, `task` are the rows and the task of each run. The
handler is `ReadJob` (with the terminal shortcut `CorrectPack`), `Claim`,
`Prepare`, `MarkInProgress`, `ListItems`, then per role `GenerateItem`,
`InsertItem`, `Recheck`; then `UpdateCompleteness`, `UpdatePackStatus`,
`MarkCompleted` or `MarkFailed` and `FailPack`, and the cost. As in the code the
pack's status is written with the job's id as its only guard, in a transaction of
its own. Events and the route walk are in `GenerationJob`. `Prepare` leaves one path
out: a payload without a pack or without variants fails the job and not its pack
(`worker_pack.go:129-142`), and no handler creates such a payload.

### WebhookDelivery and the code

`endpoint`, `row`, `task` are the tenant's endpoint, the delivery row and its task;
`accepted` counts what the receiver took. `PutStep` is the read and the write of
the endpoint by `PUT`, `EmitStep` the lookup, the row and the enqueue of `Emit`,
`WorkerStep` the handler: it loads row and endpoint again, posts and records the
outcome unconditionally. URLs are numbered in the order they were set. Signing is
reduced to which secret was used.

### AssetSlots, VariantMatrix, PackReuse and the code

`AssetSlots` holds the committed rows of one slot; a forced regeneration takes the
slot lock, reads the highest version, inserts, archives and commits; a plain
completion inserts version 1 without the lock; `FindReadyByPromptHash` is the
reuse lookup. `VariantMatrix` is `ClassifyVariant` and `CompareVariants` for both
entity types. `PackReuse` is `Retrieve` role by role, the exact read and the
candidate list as two steps with publications in between, `pickBest`, the claim of
an asset for one role, and the aggregated cache result. Its reference definition,
`Contradicts`, says what a substitute may not show without using the matrix.

### PriceBook, RouteResolution and the code

`book` holds the committed price rows of the listed model, `stmt` what an open
`CreatePrice` has ended, `tx` where each request is. `SupersedePreviousActivePrice`
waits for the writers of the rows its snapshot found and looks at them again, as an
UPDATE at READ COMMITTED does; `InsertProviderModelPrice` meets the partial unique
index. `RouteResolution` extends it: `table` is `provider_routes`, `price` what the
LEFT JOIN finds. `RouteError` and the sets before it are the filters in their order,
`ranksBefore` the comparison, `Resolve` a scan and `ResolveChain` a sort on a second
read, `Alternates` what the handler keeps. The transaction that creates the job
follows: `LookupPrimary` and one `LookupCandidate` per alternate
(`samePriceFallbacksWithQueries`) keep the alternates of the primary's price, in `kept`,
and `Reserve` reads that price once more; each of them sees the prices of its own moment.
`still` is history: no price changed since `LookupPrimary`. `table` never changes, since
nothing but a migration writes `provider_routes`. `Suits` is the reference definition: it
says which routes may draw a request without the pipeline.

### IdentityRenders and the code

`identity`, `history`, `assets` are the identity's row, its version rows and the
renders. A *look* is what an upsert compares: all traits, the style profile and the
consistency key. A *picture* is what a render is asked for and what the reuse keys cover:
the appearance trait or, without one, the display name, in its style
(`identityPrompt`). An upsert may change the look and leave the picture as it was, or
rename an identity, which is no change of the look and may be one of the picture.
`UpsertRead` locks the row when there is one, `UpsertInsert` and
`UpsertUpdate` write row and history in the same transaction; `AttachAnchors` and
`AttachSet`, the bootstrap's five steps and `RedeliverCompleted` are the writers of
anchors. A generation reads the identity once (`GenerationRead`), looks its key up,
and on a miss its job reads the anchors again (`singleImageReferences`) before it
renders. The job itself is `GenerationJob`.

### RateLimit and the code

`counters` are the live Redis keys with count, creation and expiry; a request reads the
clock, increments the minute's key, then the hour's, each by one script, and is
judged by both counts. A store error before or after the script lets it through.

## 3. Runs

Every bound is a constant of a cfg.

| run | question | bounds |
|---|---|---|
| `job_overlap` | safety and refinement of a job, both paths | 2 workers, 2 runs, 2 attempts, 2 routes of which the first has no adapter, 1 call per unit, 2 faults of 5 kinds |
| `job_progress` | liveness, whatever became of the enqueue | 2 workers, 2 runs, 2 attempts, 2 routes, 2 enqueue or event faults |
| `ledger_budgets` | the books balance | 2 stacked budgets, 2 reservations, 2 calls, 1 window, 1 admin update |
| `ledger_late_success` | what a comment says of late successes (violated) | 1 budget, 1 reservation, 2 calls |
| `create_requests` | admission of concurrent requests | 2 requests, 1 key or none, 2 bodies, 2 endpoints, cap 1, TTL 2 ticks, 1 admin retry |
| `pack_fanout` | a pack under overlapping deliveries | 2 workers, 2 roles, 3 attempts, 2 runs, 1 cancel, 1 fault, 1 lost lease |
| `webhook_delivery` | deliveries and the endpoint | 1 event, 2 handlers, 2 admins, 3 attempts, 1 fault, 1 lost lease, enqueue may fail |
| `asset_slots` | one slot | 3 forced, 1 plain, 1 preview publication, 1 rollback |
| `pack_reuse` | the reuse plan | 3 assets of 8 character or 9 place variants, 2 tiers, 3 and 4 roles, 4 policies, 1 publication meanwhile |
| `routes_and_prices` | routes, the price book and the alternates of a job | up to 3 routes, 4 providers, 3 creations, 2 edits; see below |
| `identities` | renders and anchors | no identity or a bootstrapped one, any 4 of 2 upserts, 1 attach, 1 bootstrap with 1 redelivery and 2 generations, 3 looks, 1 name, 2 texts, 2 styles |
| `rate_windows` | the two windows | 4 requests, windows of 2 and 4 ticks, limits 1 and 2, 4 ticks, 1 store error |

Why these bounds. Two workers give every pair of overlapping deliveries, two runs
make an old delivery meet a reopened job, two attempts make a first and a last
delivery, which is what the code tells apart (three where a middle one differs).
Two faults are needed for a duplicate delivery (one) that is then disturbed (one).
The call cap, the concurrent-job cap and the rate limits are low enough to be
reached. Two requests decide every race for a key or the last place under the cap;
two roles let a pack be partly done. The ledger has two holders for one limit, two
stacked scopes, and amounts below, at and above the estimates. Three forced
regenerations make one of them wait behind a rollback of another. Two upserts race
to create an identity, or to change one that was there; two of the looks draw the same
picture and one has no appearance, so that its picture is the name. Four of the six
requests of `identities` cover what the properties relate: a render made and served
again, with two writers before, between and after. Of four rate-limited requests three
can use up both the minute and the hour, and the fourth can come back after either
denial. The ids of the `Library`
are ordered because ties are broken by id.

`routes_and_prices` starts from four kinds of initial states, each exhaustive in
what it asks about and fixed elsewhere (`MCInit`): every claim, tier, preview and
pin for up to two routes (`Filters`); every order of tiers, latencies, priorities
and prices of three routes (`Ranking`); two routes while a creation and an edit move
the price between any of the reads of handler and create transaction
(`Repricing`); and all five requests on the book
(`Editing`). They are initial states of the module's `Init`, so what the run shows
is about the specification itself.

Deadlock is checked where the module has no final states, and switched off where
the system is meant to stop: a terminal job with nothing in flight, answered
requests, finished transactions, a clock at its bound.

What the properties say, beyond their comments:

* `OneFinalAsset`, `ChargedOnlyIfDelivered`, `DeliveredNeverReleased`,
  `OneLiveHold`, `EventsTellTheTruth`: output, money and announcements agree,
  whoever loses a race. They rest on the compare-and-set writes *and* on the
  binding of every write to the reservation.
* `FirstDeliveriesExclusive`: provider money is not spent twice for duplicate
  first deliveries. Retried deliveries may overlap a delivery that lost its
  lease: the code accepts that, and the properties above make it harmless.
* `CallCapSlack`: the cap counts and inserts in two statements, so it is a cap up
  to one extra call per other concurrent worker. The slack is reached.
* `OnlyCurrentRunPublishes` is an action property, `ImplementsLifecycle` the
  refinement of `JobLifecycle`, for artifact jobs and for packs.
* `BudgetsBalance` (`ReservedMatchesHolds`, `SpentMatchesCharges`,
  `NeverOvercharged`), `NeverOversold`, `HoldsFollowReservation`: the ledger's
  columns are exactly the sums of the rows they summarise.
* Conjunctions of named parts, one question each: `IdempotentCreation`
  (`OneJobPerLiveKey`, `AnswersOwnRequest`), `LogHonest` (`DeliveredWasAccepted`,
  `FailedMeansExhausted`, `AttemptsBounded`), `RegenerationsSerialize`
  (`VersionsNeverCollide`, `SingleReady`), `PlanIsSound` (`PlanCoversRoles`,
  `CacheResultHonest`), `CarriesItsRoutes` (`NoRouteLost`, `SamePriceFallbacks`,
  `FailsForItsReason`).
* A `TypeOK` is checked by a run where it says more than the shape of the rows
  (`GenerationJob`: retries and indices in range; `CostLedger`: amounts never
  negative). In the other modules it declares the variables for the reader, and is
  the first conjunct of the invariants of section 4.
* `ReplayWinsOverCap`, `SettledPackAgrees`, `FailedMeansExhausted`, `SingleReady`,
  `RetryAfterClears`, `SamePriceFallbacks` are stated with the condition under which the code keeps
  them; section 5 says what happens outside it.

### Fairness

`GenerationJob`, `PackFanout` and `WebhookDelivery` assume weak fairness of each
worker's own next step (a goroutine that runs goes on; provider, receiver and
database calls return), of taking a task (asynq hands
pending tasks to free processors) and, in `GenerationJob`, of `RecoverTask` (the
recoverer is periodic) and of a request's enqueue or cleanup. `CreateJob` assumes
that a handler runs until it has answered, which includes that a waiting lock is
granted once it is free. Nothing is assumed of admins, callers, faults, clocks or of how a provider
or receiver answers.

## 4. Proofs

The theorems hold for every value of the constants that satisfies the assumption
named in the module that declares them: any number of workers, requests, runs,
attempts, roles, routes, budgets, reservations, faults and so on. Where an
assumption says more than a type, it is that sets are finite where things are
counted (`Workers`, `Requests`, `Ids`, the ledger's sets), that the names a module
uses for "nobody", "free" or "none" are not names of workers, requests or rows, that
the kinds of requests of a slot or an identity are different requests, that the
ledger has a reservation to speak of, that a pack template has at least one role and
none twice (the templates are literals of the code), and that the long rate window is
a multiple of the short one (a minute and an hour). A rate limit is not zero:
`effectiveLimits` puts the default in the place of one that is not positive
(`auth/middleware.go:115`). `PriceBook`, `PackReuse` and `RateLimit` name their parts
(`BookInit`, `PlanSpec`, `LimitNext`, ...) so that another module can extend them next to
its own component.

None of the properties is inductive. What is proved each time is `Init => Inv`,
`Inv /\ [Next]_vars => Inv'` and `Inv => Property` for an invariant that says what
the control state of every process still knows about rows it read or wrote some
steps ago. Each invariant was first checked by TLC with the constants of its run.

**GenerationJob.**

* `TypeCorrect`: `Spec => []TypeOK`. The index of a route stays in range only
  because a worker that calls a provider is on a route of the chain: `TypeInv`
  adds `OnARoute`.
* `SafetyInvariant`: `Spec => []SafetyInv`. A worker commits, releases or announces
  on the strength of a compare-and-set it won several steps ago, so `SafetyInv`
  states `TailsKnow` (at `release` the run is over without an output; at `commit`
  the run is the delivered one; at the failed event the run is over or the job
  failed), `OneAnnouncer` (one worker owes the terminal event of a run, and only
  while none was emitted), `HoldsFollowStatus`, `FutureRunsUntouched`,
  `DeliveriesNotAhead`. Lemmas group the actions by effect, and `SafetyStep` has one
  case per action. `OneFinalAssetHolds`, `ChargedOnlyIfDeliveredHolds`,
  `DeliveredNeverReleasedHolds`, `OneLiveHoldHolds` and `EventsTellTheTruthHolds`
  follow from it.
* `CallCapSlackHolds`: `CallSlots`, calls billed plus workers between the count and the
  insert are at most the cap plus the other workers.
* `FirstDeliveriesExclusiveHolds`: `ClaimsLeaveMarks` (who won a claim as a first
  delivery left the row no longer queued, or claimed, unless the run is over) and
  `ClaimersAlone`; a second winner would have met the mark.
* `Refinement`: `Spec => ImplementsLifecycle`, with the mapping of the instance
  `Lifecycle` in `GenerationJob`. The invariant is what makes a `release` of an
  old run a stuttering step and one of the current run a `Release`.
* `OnlyCurrentRunPublishesHolds`: the action property.

**PackFanout.** `RowInvariant` is the counterpart of `SafetyInv` for the pack's job and
gives `Refinement`: both paths implement `JobLifecycle`. `SettledPackAgreesHolds` rests
on `PackInvariant`: in a first run that nobody cancels and whose deliveries do not
overlap, the handler at work owns the task, its list of delivered roles is the items
table, it has warnings exactly if it passed a role without delivering it, and by the
step it is at one knows which of its writes of pack and job have happened. An attempt to
prove the property as it was first stated failed for a reason: if every delivery after
the failure of the job is cut short too, nobody corrects the pack. The run did not show
it because it has fewer faults than attempts; the property now says so.

**CostLedger.** `LedgerInvariant`: `ControlInv` (who owns a finalization, that the sum it
saw is a past one, that amounts are charged only once settled) and `Books(b)`, the two
columns of a budget as sums over its reservations. `BudgetsBalanceHolds` and
`HoldsFollowReservationHolds` follow. `NeverOversoldHolds` needs the books as well: that
a settlement frees what it held is true only if the reserved column covers it.

**CreateJob.** `CreateInvariant`: for each request, what it knows of its own uncommitted
row, its locks and its answer (`Mine`: `Placed`, `Fresh`, `LockKept`, `KeysKept`, `Winner`,
`Slot`, `Counting`), and for each key, that its row is the one of the latest job under it
(`KeyRowRight`, `Latest`). `Slot` is why the cap holds: who has counted under the lock
is the only one to add a live job until it commits. `IdempotentCreationHolds`,
`CapHeldHolds`, and the action property `ReplayWinsOverCapHolds`.

**AssetSlots.** `SlotInvariant`: who holds the slot lock knows the highest version
(`Ahead`) and the rows it archives (`Archiving`); links lead to later versions
(`Linked`), and versions are at most the number of rows (`Counted`).
`RegenerationsSerializeHolds`, the action property `NeverWithoutReadyHolds`, and
`LinksEndInReadyHolds`: a walk along the links climbs in version, versions are bounded,
so it ends, and only at a ready row.

**IdentityRenders.** `RendersInvariant`: what an upsert knows under the row lock
(`Holding`), what a bootstrap and a generation read (`Booting`, `Serving`), and that a row
a generation's key finds shows the picture of that key at its intent, and that a conditioned
row was made from references (`Honest`). The key covers the picture and not the look, so
what `ServedRenderEligible` promises is the text and style of the identity that was read.
`VersionsRecordChangesHolds`, `ServedRenderEligibleHolds`, `ConditionedFailsClosedHolds`.

**WebhookDelivery.** `HookInvariant`: one part about the PUTs of the endpoint (the secret in
the row is the one of the request that inserted it), one about the log: accepted posts
plus handlers that may still post are at most the times the task was taken (`Counted`),
which is what bounds the attempts a row may claim. `AnsweredSecretSignsHolds`,
`LogHonestHolds`.

**RouteResolution and PriceBook.** `BookHasOnePrice`: that one price is active is not
inductive, since a commit rests on what its INSERT found in the unique index some steps
ago. `BookInv` says that an open transaction that has inserted its row is the only one and
that what it has ended includes every row active now. `RoutesImplementBook` and
`OneActivePrice` carry this over to the composition. For the routes, `ranksBefore` is
read as the comparison of two lists of keys, decided by the first key on which they
differ (`Chained`, `Opposite`), which makes it a strict total order on any rows: the
last key is the row itself. On such an order the scan of `Resolve` ends on the first row
whatever the order of the table, a sort starts with it (it is shown to exist, as sorting
is a choice among permutations), and the filters in sequence leave exactly the rows that
`Suits` describes without them. `RouteInv` adds to the types what a
request knows between the two reads: `Resolving`, `PrimaryLeads` (the primary is first at
the prices of the scan) and `HeadLeads` (the chain's head at those of the sort, and the
chain and the primary together are the backed routes), and what the create transaction
knows between its lookups: `Creating` (how far it is) and `LookupsHold` (as long as no
price changed, what it has kept are the looked-up alternates of the primary's price).
`JobCarriesItsRoutes` says that the job then carries exactly the other routes that may
draw it at the price it reserved; `PrimaryHonoursIntent` and `ChainStartsWithPrimary`
follow as well.

**RateLimit.** A request holds a ticket of each window: the count it was given and the
creation of the key that gave it. `LimiterInv` says that a ticket's key is still there
with at least that count, or has expired (`TicketsCurrent`); that two tickets of one life
of a key differ (`TicketsDistinct`); and that a count above one means somebody else was
there (`TicketsShared`). `LimitHeld` is then a count: different numbers, none above
the limit, are at most the limit. `RetryAfterHonest` needs the multiple: when the hour
ends so does a minute, so that whoever comes back as told meets an expired key.

**PackReuse.** The tables first: what every row of a catalogue and the unknown variant
have in common, then each rule of the matrix, which gives that a verdict other than
"invalid" never contradicts the role. `pickBest` chooses: the lemmas show that among
non-empty candidates a best one exists, since outcomes and tiers are few and ids are
numbers, so that what is chosen is a candidate. `PlanInv` is `ItemsFit` (each
item still fits its role in the library of now: a publication adds rows and archives
others, and changes the key, tier or anchor flag of none),
`VisitedOnce` (reused and missing roles are the first ones of the template, each in one
list, no asset in two items) and `AnswerFollows`. `SubstitutesSafe` and `PlanSound` follow.

**Sums, maxima, counts and walks.** The installed provers cannot instantiate the
library's induction theorems, which take an operator. Where a proof needs induction over
a finite set or a sequence of steps, it takes a minimal counterexample instead: `WFMin`
of `WellFoundedInduction` gives a minimal subset, or number, among those that violate
the claim, and one element less refutes it (`MinimalSubset` in `CostLedger_proofs` and
`AssetSlots_proofs`). The scan over the rows of `RouteResolution` is unfolded the same
way. The sums of the ledger are the community module's folds, whose
table over subsets `CostLedger_proofs` unfolds first.

**Only model-checked.** Liveness (`EventuallySettled`, `EventuallyAnswered`,
`EventuallyRecorded`), which is beyond this prover. Every invariant, action property and
refinement a passing run checks is stated by a theorem.

## 5. Where code and text disagree

One finding is kept as a run. `ledger_late_success`: `ReconcileForReservation`
filters on the settled status before it locks the row, so a late success that
reconciles while the finalizer's transaction is open is never charged, although
`internal/cost/cost.go:479-483` says this "closes the race where cancellation or a
duplicate winner finalizes before the losing provider call returns".

Met while modelling, each reproduced with a small instance of the module named, and
kept out of the checked properties or stated there as a condition:

* `GenerationJob`. The preview-first path commits the cost before it emits the
  completed event (`jobs/worker.go:1130`, `:1139`); one failing commit loses the
  event. `jobs/worker.go:130`: "an event is emitted immediately after the status
  transition is durable and BEFORE cost finalization".
* `GenerationJob`. If the cleanup of a failed enqueue fails too, the job stays
  queued. `adminjobs.go:249`: "It never leaves a queued job with no queued task."
* `CostLedger`. A failed call that reports after finalization is recorded and never
  charged (`jobs/worker.go:1759`). `cost-control.md:108`: "each attempt writes its
  own reservation-scoped cost event and is reconciled".
* `CostLedger`. Only the tenant's budgets and the narrowest other scope are enforced
  (`cost.go:336`). `cost-control.md:114`: "For every applicable budget (tenant
  always; plus token / world / user when set)".
* `CreateJob`. A cache hit commits its key without the cap's lock; in between another
  request's lookup and count, that request is denied instead of replayed.
  `service.go:467`: "Idempotency replay ALWAYS wins over the cap."
  (`ReplayWinsOverCap` leaves these keys out.)
* `RouteResolution`. Fallback prices and the reservation are statements with a snapshot
  each. `service.go:684-686`: "come from the same read". (`SamePriceFallbacks` is about
  jobs during whose creation no price changed.)
* Creation and admin retry. A pack job that was denied has no pack row; a retry gives it a
  reservation and reopens it, and with no pack to name `enqueueRetry` sends it an
  artifact task. `service.go:564-566` speaks of "a job that will never run". (No module
  joins the two, and no property covers it.)
* `PackFanout`. `UpdateAssetPackStatusForJob` is guarded by the job's id only, so a
  worker past its check writes "completed" to a cancelled job's pack.
  `adminjobs.go:131-132`: "a worker that loses the job-row lock cannot later publish
  a completed pack status". (`SettledPackAgrees` is about uncancelled first runs
  without a lost lease.)
* `PackFanout`. `failPackTerminal` writes the pack in a second transaction, possibly
  after a retry. `worker_pack.go:595-598`: "this stale worker must not overwrite the
  winner's terminal pack status".
* `PackFanout`. Overlapping deliveries each write the completeness of their own view.
  `worker_pack.go:269-271`: "Written once here so it is correct in every terminal
  branch".
* `WebhookDelivery`. A delivery row whose enqueue fails is never posted.
  `job-lifecycle.md:116`: "Delivery is at-least-once".
* `WebhookDelivery`. An overlapping attempt records failed over delivered, with
  retries left. `webhooks.go:26-27`: "After this many retries the delivery stays
  status=failed". (`FailedMeansExhausted` is about deliveries without a lost lease.)
* `AssetSlots`. A plain completion lands beside the row a regeneration published, as
  version 1. `assets/repository.go:112-114`: "never observing zero or multiple ready
  rows"; `:78-79`: "versions stay monotonic". (`SingleReady` is about slots without a
  plain insert.)
* `PackReuse`. A neutral portrait is a compatible match for a mild expression
  (`compatibility.go:114`). `variant-compatibility-matrix.md:82`: "`neutral_front` is
  **`preview_fallback`** for missing mild expressions".
* `PackReuse`. A higher tier is not reused. `variant-compatibility-matrix.md:32`:
  "quality_tier ≥ requested".
* `RouteResolution`. A price change between the two reads gives a chain that does not
  start with the primary. `routing.go:228`: "ResolveChain(...)[0] equals
  Resolve(...)". (No route is lost: `NoRouteLost`.)
* `PriceBook`. `UpdatePrice` sets `is_active` or `effective_to` without the other.
  `cost-control.md:41`: "synchronized with `effective_from <= now < effective_to`".
* `IdentityRenders`. A render made from new anchors is stored under the key of the old
  ones. `generations_handler.go:341-342`: "replacing a character's reference images
  must not keep serving renders of the previous appearance".
* `IdentityRenders`. Anchors attached during a bootstrap request do not stop its job.
  `openapi.yaml:209-210`: "If the identity already has one or more
  `anchor_asset_ids`, no job is created".
* `RateLimit`. A minute's denial counts in the hour, so a caller that waited as told
  may be denied by the hour. `ratelimit.go:118-119`: "so Retry-After tracks the window
  that clears the denial". (`RetryAfterClears` leaves this case out.)

Known limits that no document denies: a worker that dies or loses its lease on
the last attempt leaves the job `running` with its hold and no task
(`jobs/worker.go:479`); a pack worker that dies on the last attempt between the job's
failure and the pack's leaves the pack `in_progress` (`jobs/worker_pack.go:594`); a release error on the last attempt is logged and the hold
stays; an API process that dies between commit and enqueue leaves a queued job.
Nothing sweeps such jobs, so `EventuallySettled` is checked without these faults. The
lifetime call cap spans admin retries: a job that used its calls up fails again at
once (`jobs/worker.go:1531`).

## 6. Not modelled

* Generated code without control: `apigen`, the querier interface, row types, the
  read-only queries and admin listings; decoding, validation and JSON mapping of the
  handlers; `CreateBudget`, a plain insert.
* The HTTP conversations of the provider adapters (submission, polling, decoding):
  they happen inside one provider call, whose classes of answers `GenerationJob` has.
* Background removal and imaging: arithmetic on pixels that writes no row.
* Cryptography: governance signatures and webhook signatures are reduced to valid or
  not and to the secret used. Authentication is one lookup per request.
* `migrate`, configuration, styles, telemetry, audit rows, command wiring and
  benchmarks: linear scripts, parsing or logging that no guard reads.
* Row locks one by one: two transactions that lock budget rows in opposite orders
  (`cost.go:269` takes them in the order of an unordered query) are aborted by
  PostgreSQL, which the models see as a denial or a database error.
* Currency, prompt text and image content.
