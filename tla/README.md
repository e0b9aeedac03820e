# Verification of the Cartel smart cart optimizer

TLA+ modules that model the parts of the backend whose correctness depends on
interleavings, crashes and retries, or on an algorithm that decides something;
TLC configurations that check them on small instances; and proofs of the main
results that TLAPS checks for every value of the constants. Paths below are
relative to `src/backend/app` unless they start with `src/`.

    tlc -config MCDurableJobs.cfg MCDurableJobs        # one run
    tlapm DurableJobsProofs.tla                        # one module's proofs

## 1. Inventory

| Component | State it keeps | Operations | What is hard | Correct when |
|---|---|---|---|---|
| **Durable jobs** `workers/background_jobs.py` | table `background_jobs` | `create` `claim` `succeed` `fail`; `BackgroundWorker.run_once`, `run_forever` | racing keyed creation, worker crashes, leases that expire under a running handler, reports that read without a lock | a key names one job; a claim has one holder; a job is not lost; a success was really performed |
| **Scrape lifecycle** `data_ingestion/lifecycle_store.py`, `workers/job_execution_coordinator.py`, `local_ingestion.py`, `product_intelligence_runtime.py` | one JSON file per job: transitions, attempts, allocated numbers | `append_transition` `record_attempt` `allocate_attempt_number`; `execute` and its recovery | a crash at any step, redelivery, two executors, read before lock | history is append-only and follows the graph; no attempt runs twice; outcome and history agree; a job that is delivered often enough ends |
| **Email outbox** `workers/background_jobs.py` | table `email_outbox_events` | `claim` `sent` `failed` | crash after sending, expired lease | every e-mail is sent or failed, resent only after a lost lease |
| **Idempotent mutations** `services/idempotency.py`, `api/routes/lists.py`, `optimizations.py` | `idempotency_records`, `shopping_lists`, items, optimization snapshots | `claim` `complete`; create, update, add, remove; `create_optimization` | transactions that wait on a unique constraint and on row locks, expiry, rollback | a key runs its mutation once while it lives and every repeat gets the same answer; a snapshot is of the revision asked for |
| **Accounts** `auth/service.py` | users, identities, challenges, sessions, OAuth states | sign-up, verify, login, OAuth, recovery, logout | concurrent consumption and creation of challenges and identities | a link is accepted once; an identity keeps its owner; what is revoked stays revoked |
| **Cart planning** `cart_optimization/automatic_planning.py`, `planning.py`, `construction.py`, `candidate_enrichment.py`, `providers.py` | the directory of checkout captures | plan, plan with supplied plans, capture a checkout | one directory, looked at and then written with no lock; adapters that fail or answer for another plan; crashes | a plan is costed on a checkout of its own request and id; a ready answer is the cheapest of all choices |
| **Cart optimization** `cart_optimization/service.py` | none | `optimize` | downgrading rules, ties, incomplete coverage | what is chosen brings exactly the cart and nothing left open could have beaten it |
| **Cost intelligence** `cost_intelligence/` | none | fees, memberships, offers, subtotal to effective cost | unknown components, several currencies | unknown in, unknown out; the cost is the sum of its parts |
| **Product intelligence** `workers/product_intelligence_runtime.py`, `product_intelligence/execution.py`, `orchestrator` | the files below; review queue and assertions in memory | process the observations of a batch; execute, with a resolution of a review | files shared by processes, failing and torn writes, sequences of resolutions | what is reported resolved is recorded; an assertion rests on an approved review or on an exact match |
| **Matching** `product_intelligence/matching`, `candidate_generation` | none | product and variant match | precedence of contradicting evidence, ties | an assertion is of one product and of a variant of it |
| **Assertions, review** `product_intelligence/assertions`, `review` | revisions, review cases | `apply`, `enqueue`, `resolve` | repeated and partial application | a decided case stays decided |
| **Catalog, evidence** `product_intelligence/catalog`, `evidence` | `catalog.json`, `listing_associations.json`, `record.json` and `bundle.json` | populate, register, resolve | whole-file replacement without a lock, one temporary name, writing in place | an association is of something the catalog has, and a listing is assigned once |
| **Artifact store, observation registry** `data_ingestion/artifact_store`, `observation_registry` | files | `store`, `register` | two files per artifact, a crash in between | an observation's artifact can be retrieved |
| **Search and cart services** `services/product_search.py`, `cart_resolution.py`, `cart_candidate_discovery.py` | none | search, resolve, discover | three services that read the same files, each in its own way | what search shows can be put in the cart and planned |
| **Rate limit** `core/rate_limit.py` | Redis counter per window | `allow` | expiry between requests | never more than the limit in a window |
| **Web client** `src/frontend/store/cartStore.ts` | cart and the results computed from it | setters | an answer that comes after the cart has changed | a shown result belongs to the shown cart |
| Write-once stores `retailer_data`, `cart_optimization/persistence.py`; scrapers; shell; migrations | — | — | I/O, parsing, wiring, code that only tests call | not modelled, see section 7 |

How they interact. HTTP handlers and worker processes share one PostgreSQL
database and one data directory. `POST /scrape/async` creates a durable job; a
worker claims it and calls `JobExecutionCoordinator.execute`, which
`POST /scrape` also calls directly, without a job. The coordinator leaves its
progress in the lifecycle file only. Ingestion stores artifacts and parses
them; the runtime registers the observations, resolves their listings against
the catalog, stores associations and evidence and runs the orchestrator. Search,
cart resolution and candidate discovery read those files. Planning takes the
discovered listings, captures a checkout for every plan and hands costs and
plans to the optimizer. Consumers edit lists under idempotency keys, and an
optimization is computed inside the transaction that holds the list's lock.
Sign-up and recovery put e-mails into the outbox, which a second worker loop
empties.

`PROJECT.json` lists under "hazards" where the code is hard to test, line by
line, with the properties that cover each and a note where none does yet.

## 2. Modules

| Module | Models |
|---|---|
| `JobQueue` | what the job table promises, abstractly |
| `DurableJobs` | `DurableJobStore` and `BackgroundWorker`, transaction by transaction |
| `LifecycleStore` | the lifecycle record and the checks of its store, as operators |
| `ScrapeLifecycle` | the coordinator and an attempt's stages over that record |
| `ConsumerMutations` | idempotency keys, lists, optimizations, statement by statement |
| `EmailOutbox` | the outbox and its worker |
| `Accounts` | the account functions, composed with `EmailOutbox` |
| `CostIntelligence` | evaluators and aggregation of a checkout's cost, as operators |
| `CartOptimization` | the optimizer, as operators over `CostIntelligence` |
| `CartPlanning` | planning and capturing by threads, over `CartOptimization` |
| `ProductMatching` | resolver, candidate generation and both matchers, as operators |
| `ProductOrchestrator` | orchestrator, review queue and assertions, as operators over `ProductMatching` |
| `ListingServices` | association registry, search, cart resolution and discovery, as operators over `ProductMatching` |
| `ProductKnowledge` | workers, the importing operator and their files, over the last two |
| `DurableJobsProofs`, `ScrapeLifecycleProofs`, `ConsumerMutationsProofs`, `EmailOutboxProofs`, `AccountsProofs`, `ProductKnowledgeProofs`, `CartPlanningProofs` | theorems about the module of that name |
| `MC…` | instances for TLC |

Definitions named `X_Y` are mutations of `X`: plausible bugs that a property
must catch. Nothing in the specifications uses them.

### DurableJobs

| Code | Model |
|---|---|
| row of `background_jobs` | `jobs[j]`, named after the call that inserted it |
| `create` up to the insert, locking SELECT | `Lookup` |
| `create`, commit of the new row | `Insert` |
| `create`, the `except` branch: rollback and second look-up | `InsertFails` |
| `claim`: requeue expired rows, lock the oldest due one, lease it | `Claim` (`Claims`, `ClaimsNothing`) |
| the handler ends: result, `KeyError`, any other exception | `Handle` |
| `succeed`/`fail`: the plain SELECT | `ReadRow` |
| `succeed`/`fail`: the UPDATE by primary key | `WriteRow` |
| `succeed` itself raises, so `fail` is called | `SucceedRaises` |
| process death, and `fail` raising out of `run_forever`, `asyncio.gather` and the process | `Crash`, after which the worker is `Down` |
| somebody starts the process | `Start` |
| time: lease end, backoff end | `AbandonedLeaseExpires`, `OutlivedLeaseExpires`, `BackoffElapses` |

A transaction whose reads lock (`claim`: `FOR UPDATE SKIP LOCKED`) is one
action. One that reads without a lock and writes later is two, because another
transaction may commit in between; so `create` and the two reports are split
where the code is. Clocks are flags: a lease is live or expired, a queued row
is due or not. `created_at` defaults to the start time of the creating
transaction, so `clock` numbers the look-ups and the claim order follows it.

`JobQueue` is the contract: a call gets a job or a refusal in one step,
repeats of a keyed request share its job, a job is reported succeeded only
after a handler finished. `ImplementsJobQueue` is the refinement, under the
mapping `Asked`, `Answers`, `Performed`, `Reports`: the two-step creation,
rollback and second look-up included, looks atomic from outside.

### LifecycleStore and ScrapeLifecycle

`LifecycleStore` is the file: a record of transitions, recorded attempts and
allocated numbers, and for each store operation when it is accepted and what
it saves. `Loadable` is what the loader demands before it returns a record;
one that fails it makes every later use of the job raise
`LifecycleStoreCorruption`.

`ScrapeLifecycle` has executors, each an activation of `execute`. A store
operation is two steps, because the code reads the file before it takes the
lock: `Load`, and one of `AppendTransition`, `AllocateAttempt`,
`RecordAttempt`. Executors of one process exclude each other's operations (the
coordinator calls them from one event loop and does not yield inside them);
executors of different processes do not: `ProcessOf` says who shares one.
`Peek`, `Check`, `Eligible` and `Fail` are the reads by which the coordinator
decides; `StageSucceeds`, `StageFails`, `RegistrationRaises` are the work
between two reports, with the failure that each stage can produce and the way
it leaves. `Refused` is what a rejected transition does: within ingestion it
fails the attempt, elsewhere it raises out of `execute`. `begun` is a history
variable.

Every failure that the code can produce is retryable, so `FAILED` is never
reached; nothing in the code cancels, expires, blocks or invalidates a job, so
those states occur in the graph only. `MaxAttempts` is 3 as in the code.

### ConsumerMutations

One user's requests, each a transaction under READ COMMITTED. What a
transaction has written is invisible until it commits, so state holds committed
tables and the locks: `keyHolder` (an uncommitted insert of a key, or
`FOR UPDATE` on an expired record) and `listHolder`.

| Code | Model |
|---|---|
| `claim` of `services/idempotency.py`: locking SELECT; replay, conflict, replace an expired record | `SelectNothing`, `SelectLive`, `SelectExpired` |
| the insert, which waits for a competing one and may be refused | `InsertSucceeds`, `InsertRefused` |
| `_owned_list(lock=True)`, and the search for an earlier snapshot | `Lock` |
| the handlers, up to the commit with `complete` | `CreateList` … `CreateOptimization` |
| any exception, 404, 409, death of the server: `get_db` closes the session | `Rollback`, `Abort` |
| `get_list`, two statements | `ReadRow`, `ReadItems` |
| the key's time to live ends | `Expire` |

The planner's answer is any of its statuses, restricted to what `_run_planner`
can return for the items. `_persist_plans` raises a `KeyError` for a result
with a chosen plan (`api/routes/optimizations.py:90` reads
`canonical_product_id` of an allocation, which has none), so `Storable` is
false of "ready". `history`, `ran` and `answered` are history variables.

### EmailOutbox and Accounts

`EmailOutbox` has the same two-step reports as `DurableJobs`, and its mailers
run or are stopped (`MailerStart`, `MailerCrash`). `Send` covers
what a mail server can do: take the mail and say so, take it and lose the
connection, not take it. `Accounts` extends it: the transaction that creates a
challenge also queues its e-mail (`QueueEmail`). There is one address, its
identity for passwords and one identity of an outside provider; a function is
one action when what it reads is locked or decided by its last statement, else
two (`SignupLooks` / `SignupInserts`, `ChallengeBegins` / `ChallengeCommits`,
`LoginReads` / `LoginCommits`, `ResolveReads` / `ResolveWrites`,
`ExternalLooks` / `ExternalInserts`). `Autoflush` is whether a session writes
what is pending before a SELECT: `db/session.py` makes sessions without, the
repository's tests use the default.

### CostIntelligence, CartOptimization, CartPlanning

A checkout observation is its lines, each reduced to the words the evaluators
look for and its amounts. `EffectiveCost` is the pipeline
`SubtotalExtractor` – fee, offer and membership evaluators –
`UnknownPropagationPolicy` – aggregation. `CartOptimization` has what
`CartOptimizer` refuses (`Refuses`), the effective feasibility of a plan, the
ranking key and the outcome. In `CartPlanning` a thread serves one request:

| Code | Model |
|---|---|
| `AutomaticCartPlanningService.plan` up to its loop | `Plan`, `Discover` |
| the loop: adapter, validation of the artifact | `Capture`, `CaptureFails` |
| correlation store: look, then write | `Look`, `Write` |
| the observation of the plan, evaluated | `EvaluateCheckout` |
| `attach_to_request` and the optimizer | `Optimize` |
| `CartPlanningService.plan` with the caller's contexts, plan ids, checkouts and evaluations | `PlanSupplied` |
| `_ece_result`, `_ece_reference`: conflicting, missing and mismatched evaluations | `Unusable` |
| `POST /cart/checkout-capture`, for any plan id | `CaptureOnly` |
| `POST /cost-intelligence/evaluate` with plans of the caller's | `EvaluateSubmitted` |
| the process dies; the directory stays | `Crash` |

A plan has an id of its own, apart from its combination. Automatic planning
makes the id a digest of the combination's place and allocations, for which the
place stands (`DOMAIN Combinations`); a caller may send that same text, or one
of its own (`OwnId`), for whatever combination. Captures are stored and looked
up by request and id alone, as in `planning.py:208`, so what the listings of a
supplied plan have to do with its checkout is up to the caller, in the model as
in the code.

### ProductMatching, ProductOrchestrator, ListingServices, ProductKnowledge

Texts are sets of tokens, packs are records of fields that may be absent.
`Resolution` is the exact-key resolver, `Candidates` the generation,
`MatchProduct` and `MatchVariant` the matchers. `ProductOrchestrator` keeps the
review queue and the assertions in a value that `Execute` maps to the next one.

| Code | Model |
|---|---|
| `LocalFilesystemArtifactStore.store`: the two replaces | `StorePayload`, `StoreReference` |
| `_execute_observation`: register, and its failure; resolve | `Register`, `RegisterFails`, `ResolveListing` |
| association registry: load and validate, write the temporary file, replace | `Load`, `Write`, `Replace` |
| execution trigger: the association as the registry has it now | `Check` |
| evidence: record, then bundle, written in place | `Record`, `Bundle`, `PublishFails` |
| snapshot and orchestrator, a new one for each execution | `Run` |
| `CatalogPopulationService.import_manifest` | `Import`, `ImportEntity`, `ImportAssociation`, `ImportEnds` |
| a program that keeps one orchestrator (demo, tests) and sends resolutions | `Submit` |
| a process dies; what it was writing may be half there | `Crash` |

`listing_associations.json.tmp` is one name for every process, so `temporary`
is one file: a `Replace` may move what another process wrote, find nothing, or
put a torn file in place. `FoundCanBeCarted` relates the three services by the
operators of `ListingServices`.

## 3. Runs

| Run | Instance | Shows |
|---|---|---|
| `jobs` | 2 workers, 2 attempts; 1 call and 2 faults (crashes, outlived leases), or 2 calls, 1 key, 2 payloads and 1 fault; fairness | the safety properties of the job table, the refinement of `JobQueue`, `EveryJobSettles` |
| `jobs_attempts` | 1 job, 2 workers, 2 crashes, 2 outlived leases | violation: attempts are not bounded |
| `lifecycle` | 1 executor, redelivered, 3 crashes | the lifecycle's properties, that a delivery returns, and that deliveries bring the job to its end |
| `lifecycle_shared` | 2 executors of one process | history and attempts when deliveries overlap |
| `lifecycle_stuck` | 1 executor, 1 crash | violation: a crash can strand the job |
| `lifecycle_retry_dropped` | 1 executor, 1 crash | violation: a retry that is due is not given |
| `lifecycle_two_processes` | 2 executors, 2 processes | violation: history is overwritten |
| `consumer` | 2 clients, 3 requests of 6 kinds, 1 view, 1 expiry, 2 keys, 3 lists, 3 items | keys, revisions and snapshots under racing transactions, and that no request waits for ever |
| `accounts` | 2 callers and 5 calls, or 2 calls and a mailer with 2 faults; 2 challenges, 3 sessions, 2 OAuth states | links, identities, sessions, and every e-mail settled |
| `accounts_mail` | 1 caller, sessions as `db/session.py` makes them | violation: no request creates an e-mail |
| `planning` | 2 threads, 1 request, 2 items, 3 listings, 3 plan ids, 14 requests with plans of the caller's, 3 captures | planning, captures, costs and the choice |
| `knowledge` | 2 workers with 3 observations and 1, 1 operator with 3 manifests and 2 imports; 3 embedded executions | the files, the three reading services, and assertions |

`DurableJobs`: `KeyNamesOneJob` (a key never names two jobs); `ClaimHeldOnce`
(an attempt number of a job has one holder); `SucceededWasPerformed`,
`FailedForReason` (a report, even a late one, tells the truth about the
handlers); `ImplementsJobQueue`; `EveryJobSettles` (every queued job ends
succeeded or failed, unless all workers are down).

`ScrapeLifecycle`: `RecordIsLoadable`; `HistoryOnlyGrows`; `AttemptRunsOnce`
(no attempt number begins acquisition twice, recovery included);
`AttemptMatchesHistory` (a recorded attempt has the transition that its outcome
claims); `AttemptsInOrder` (an older attempt never reports after a newer one);
`DeliveryEnds` (an execution does not hang, whatever it finds);
`EndsIfDelivered` (a caller who delivers the job again and again brings it to a
terminal state, if no executor dies). The properties of the documents that the
code does not have are `EndsSettled` and `RetriesAreGiven`.

`ConsumerMutations`: `KeyRunsOnce`, `RepeatsAnswerAlike` (while a key lives its
mutation runs once and every repeat is answered with the same);
`RevisionCountsChanges` (no update is lost); `SnapshotsAreOfRevisions`;
`OptimizesWhatWasSeen` (a view is read in two statements and can pair a
revision with later items; a plan computed for a view is for its items all the
same); `EveryRequestEnds`.

`Accounts`, `EmailOutbox`: `AcceptedOnce`; `IdentityKeepsOwner`;
`RevokedStaysRevoked`; `MailsAccountedFor` (an e-mail recorded as sent was
taken by the server, and is tried no more often than the limit plus the
mailer's faults); `EveryMailSettles` (unless all mailers are down).

`CartPlanning`: `EvaluatedOnOwnCapture` (a plan is costed on a checkout of its
own request and id, by the evaluation that came with it, or not at all, and in
automatic planning the id of the checkout stands for these very listings);
`ReadyIsCheapest` (a ready answer
costed every choice of listings on a checkout it understood, and none is
cheaper); `ChosenFulfills` (the chosen plan of the caller's brings exactly the
cart, and what is open about another plan could not have made it better).

`ProductKnowledge`: `AssociationsResolve`; `FoundCanBeCarted` (what search
shows can be put in the cart, by variant or by listing, and has a candidate);
`ResolvedIsRecorded`; `AssertionsAreJustified` (every revision of an assertion,
superseded ones too, rests on evidence that can be read and on an approved
review or a variant of its product).

**Bounds.** Two calls under one key with two payloads is the least in which
creations race and conflict; two workers the least in which a claim is lost to
somebody. `MaxSlow` bounds leases that end while their worker still runs,
`MaxCrashes` deaths: two faults on one job let both workers die, or one die and
the other report late, and reach every action and both orders of a late report
and a new claim; where two calls race (`MCNext`) there is one fault. The
requests in `MCDurableJobs` are one of each kind up to renaming. With two attempts a job is retried once and then fails,
which is every branch of `fail`. Three crashes of an executor are as many as a
job has attempts, so every attempt may be interrupted; `lifecycle_shared` has
none, because executors that interleave are its question. `MaxSends` 3 lets a
request, its repeat and a third that changes the list meet under any
interleaving of two transactions, `MaxReads` and `MaxExpiries` 1 put one view
and one expiry anywhere among them; the requests are one of each kind, and a
key shared by different bodies. `MaxRequests` 5 is sign-up, a second challenge,
two links and a sign-in; where a mailer runs, `MCInit` leaves two calls, since
its steps interleave with all of theirs, and it may die or be slow twice. `MaxMails` is 2 instead of the
configured number: one retry and one give-up. In `planning` one item has two
listings and the other one, so that there are two combinations to rank;
`MaxCaptures` 3 lets one of them be captured again by the other thread; what
checkouts, worlds and submitted requests there are is chosen in
`MCCartPlanning` so that ties, unknown costs, several currencies and
incomplete coverage occur; the plans of the caller's are one for each way in
which an id, a checkout, an evaluation and its reference agree or do not,
among them plans under the id that automatic planning has for other listings. In `knowledge` three observations share an artifact,
two are of one listing but of different products, and the manifests overlap,
contradict and associate; `MaxExecutions` 3 is submit, resolve, submit again.

Symmetry is used only where no liveness is checked: in `lifecycle_shared`, and
of the threads in `planning`. Deadlock is checked in
`planning`, where a thread can always be asked again. Elsewhere it is off,
because the systems stop: jobs settle, calls are answered, batches end, and the
bounds exhaust what clients may send.

## 4. Fairness

`DurableJobs`: weak fairness of each worker's claim, handler, read and write.
`run_forever` polls while its process lives. A process that dies stays down:
the worker service of `src/docker-compose.yml` (lines 85-112) has no restart
policy, so `Start` is an action that may happen and need not, and
`EveryJobSettles` allows for a job that waits because all workers are down.
Weak fairness of time: an abandoned lease ends, a backoff ends. Nothing makes a
lease end under a live worker, nothing makes a worker crash, and no creation is
forced.

`ScrapeLifecycle`: weak fairness of each executor's decision, store operation
and stage. A stage ends because acquisition and parsing have timeouts. No
delivery is fair: `POST /scrape` delivers once, and the job worker marks its
row succeeded when `execute` returns with a retry scheduled
(`workers/background_jobs.py:147`). That the job is delivered again and again
is the hypothesis of `EndsIfDelivered` and of `EndsSettled`
(`KeepsBeingDelivered`), which say what such a caller may rely on;
`DeliveryEnds` needs no such caller.

`ConsumerMutations`: weak fairness of the next statement of each client's
request. A statement that waits for a lock is not enabled; PostgreSQL grants a
lock that has become free, and a handler goes on after its statement. No
request is forced to begin, no key to expire.

`EmailOutbox`: weak fairness of a mailer that runs, which polls as the job
worker does, and of time, as above. Nothing makes a mailer start, or start
again, so `EveryMailSettles` has the same exception.

`CartPlanning` and `ProductKnowledge` state no liveness: a thread or a worker
goes through its steps once, and dies with its work if it dies.

## 5. Proofs

Every proof is for all values of the constants, under the named assumptions of
the modules, which say no more than what the code's types and configuration
do: bounds are numbers, marks of absence are no values (`NoRow`, `None`,
`NoKey`), what goes in has its type, and what is a list in the code is finite.
Each result is a theorem `Spec => []Inv` or `Spec => [][A]_vars`; below, what
had to be added to the property so that steps preserve it.

`DurableJobsProofs`, for any calls, workers, keys, payloads and bounds:

- `TypeCorrect`: `TypeOK`. Inductive with `Engaged`, which ties a worker's
  phase to its having a job.
- `KeyedCreationIsAtomic`: `KeyNamesOneJob`. The inductive invariant
  `CreationInv` says what a call in each phase may assume of the table: a call
  that waits has no row, an answer names the row of an equal request.
- `ClaimsAreExclusive`: `ClaimHeldOnce`, and `RunningIsLeased` (no running row
  without a lease, so that none is lost to both queries of `claim`). Inductive
  with `Current`: the attempt number a worker holds is at most the row's, so
  that a new claim, which increments it, cannot coincide with an old one.
- `ReportsAreHonest`, `FailuresHaveReason`: `SucceededWasPerformed` and
  `FailedForReason`. Inductive with `Honest`: what a worker is about to write
  is justified already, by how handlers of the job have ended and by the
  attempt count it read.
- `TableImplementsQueue`: `ImplementsJobQueue`. Initial states map to initial
  states; each action maps to the step of `JobQueue` it names or to a stutter,
  by the four invariants above.

`ScrapeLifecycleProofs`, for any executors, any assignment to processes and any
number of crashes:

- `TypeCorrect`: `TypeOK`, with `PhaseOK`, what an executor's phase says of
  its state and number.
- `RecordStaysLoadable`: `RecordIsLoadable`. The invariant `Safe` adds that
  each copy an operation works on is loadable; that an accepted change of a
  loadable record is loadable are three lemmas about the operators
  (`TransitionKeepsLoadable`, `AllocationKeepsLoadable`,
  `AttemptKeepsLoadable`). It holds for processes that overwrite each other:
  what is saved is always one valid record, if not always the whole history.
- `OneProcessAppends`: `HistoryOnlyGrows` under `OneProcess`. The invariant
  `Fresh` says that one operation at most is in progress and that its copy is
  what the file holds. The run `lifecycle_two_processes` shows that the
  assumption is needed.
- `AttemptsRunOnce`, `AttemptsMatchHistory`: `AttemptRunsOnce` and
  `AttemptMatchesHistory` under `OneProcess`, also where deliveries overlap.
  `Owned`: an executor that works on an attempt has its number to itself, and
  the file has it allocated; a recovery takes over a number only to give it up. `Begun`: acquisition was not begun under it while its executor is
  `Early`. `Matched`: the transition that a recorded attempt will claim is in
  the history before the attempt is recorded.
- `OneExecutorInOrder`: `AttemptsInOrder` under `OneExecutor`, that is where
  deliveries of a job do not overlap, however many of them die. `Latest`: the
  attempt at work is the latest allocated. The property is false of overlapping
  deliveries even in one process: an attempt that is still running is taken for
  interrupted by the other delivery.

`ConsumerMutationsProofs`, for any clients, keys, lists, items, requests and
bounds, under READ COMMITTED as modelled:

- `MutationsTypeCorrect`: `TypeOK`. Inductive with `Engaged`: a client in each
  phase has the request, the copy and the list that its next statement reads.
- `KeysRunOnce`, `AnswersAgree`: `KeyRunsOnce` and `RepeatsAnswerAlike`.
  `KeyInv`: a key is held exactly by the transaction that claimed it and has
  not ended (`Claimed`), no record of a held key is live (`HeldIsDead`), and
  live records are those of exactly one run, whose answer every repeat was
  given (`Counted`). The insert of a row that a competing transaction has
  committed meanwhile is refused because of `HeldIsDead`.
- `UpdatesAreNotLost`: `RevisionCountsChanges`. `LockInv`: the row lock of a
  list is held exactly by the transaction that is about to write it, and what
  it copied under the lock is the row still. `NumberInv` adds that a list that
  does not exist has no past.
- `SnapshotsAreTrue`: `SnapshotsAreOfRevisions`. `PlanInv` adds what a
  transaction found when it looked for an earlier snapshot (`Found`).
- `PlansAreOfViews`: `OptimizesWhatWasSeen`. `Seen`: a view, read in two
  statements, has the items of its revision as long as the list still has that
  revision. A view may pair a revision with later items; then the list has
  moved on, and the request is refused.

`EmailOutboxProofs` and `AccountsProofs`, for any callers, challenges,
sessions, provider states, mailers and faults, with and without autoflush:

- `AccountsTypeCorrect`: `TypeOK`, with `MailEngaged` and `Informed`: what a
  mailer or a caller in the middle of a function has found is there still.
- `LinksAreAcceptedOnce`: `AcceptedOnce`. `Accepted`: what was accepted is
  consumed; `Go` collects what any step may do to the tables, so that each of
  the functions is proved once to be such a step.
- `AttemptsAreAccountedFor`: `MailsAccountedFor`. The limit on attempts is a
  count of faults, and `Shares` is the count as an invariant: holders of a row
  beyond the first have cost a fault each, and once the attempts are used up
  only the mailers that had read the row before can free it again, each once
  (`Willing`). It needs finitely many mailers. `SentWasTaken` is the other half.
- `IdentitiesKeepOwners`, `RevokedSessionsStay`: the two action properties, from
  `Go`.

`ProductKnowledgeProofs`, for any workers, batches, manifests, hooks and
bounds, from `KnowledgeAssumption` (the operator is not a worker, batches are
not empty, an id is a digest of its contents, an artifact is of one attempt),
`InputAssumption`, `NamesAssumption` (a snapshot names no variant twice) and
`FiniteAssumption`:

- `KnowledgeTypeCorrect`: `TypeOK`. Inductive with `AtItem` and
  `AtAssociation`: a worker in the midst of its steps is at an observation of
  its batch, a process that registers has an association to register, and the
  operator's is the next of its import.
- `AssociationsAlwaysResolve`: `AssociationsResolve`. Of the file alone it is
  not inductive, since any process may move any process's temporary file into
  it. `Sound` asks it of the file, of the temporary file and of what each
  process is about to write, and adds where that comes from: targets are of
  pairs that the catalog has, and in an import every association comes after
  the products and variants it needs (`PlanPlaced`, from `ImportTyped` and
  `ValidComes`). Nothing leaves the catalog or the registry
  (`NothingLeaves`), so what was true of a list when it was loaded still is
  when it is moved, however late. Lost updates and torn files are in the model
  and do no harm to it.
- `FoundIsCarted`: `FoundCanBeCarted`. Of the same invariant, with `Distinct`:
  the catalog names no variant twice, whatever the imports. The three services
  then agree, as each of them finds the pair through the one association that
  the listing has.
- `ResolvedAlwaysRecorded`: `ResolvedIsRecorded`. `Kept` says what a worker
  knows of its artifact at each step: not registered before it is stored,
  stored after, `record` alone between the two writes of evidence. It is kept
  against the others because no two workers share an artifact (`Own`).
- `AssertionsStayJustified`: `AssertionsAreJustified`. `Supported` asks it of
  every revision there is, `Managed` that the manager's lists hold nothing
  else; cases that were approved stay so (`StillApproved`), so what a revision
  rests on does not go away. That matching selects something whenever it calls
  its outcome mapped is `StrongestExists`: among finitely many products one is
  outranked by none.

`CartPlanningProofs`, for any cart, threads, listings, configurations,
checkouts and submitted requests, from `PlanningAssumption` and
`InputAssumption` (what comes from outside has its type; item and combinations
are finite):

- `PlanningTypeCorrect`: `TypeOK`. The inductive invariant `PlanInv` is
  `Frame`, `Directory` (a correlation is of the request and id it is stored
  under), `Threads` and `Answered`; `Threads` asks `Fits` of each thread, which
  is `Described` (types), `Going` (what its step may rely on) and `Costed`
  (each input is of a plan of the job that is no longer to do, no two of one
  plan, each on a checkout of the job's request and the plan's id or by the
  caller's evaluation, and an automatic job leaves no plan out).
- `OwnCaptures`: `EvaluatedOnOwnCapture`, from `Costed`. An input may be costed
  on a checkout that another thread registered in between, automatic or by
  hand, but only on one of the same request and id, by `Directory`. For an
  automatic plan, whose id stands for its listings, that is a checkout of those
  listings as far as ids tell; the theorem does not tie the id of a supplied
  plan to its listings, since nothing in the code does.
- `ReadyCheapest`: `ReadyIsCheapest`. Beside the invariant it needs what the
  optimizer computes: a cost is an amount (`CostTyped`), the ranking is a
  strict total order (`BeforeIsStrict`), so that among finitely many feasible
  plans there is a best (`BestExists`), all of them are in one currency
  (`SameCurrency`), and every combination brings the cart
  (`CombinationFulfills`), hence none of them is left out.
- `ChoicesFulfill`: `ChosenFulfills`. What the optimizer counts per item is the
  sum of the quantities (`SumCountsUnits`). The proof found a corner: of a cart
  that asks for zero of an item, a plan without allocations brings exactly
  that, but the optimizer holds it infeasible; the property now says so.

`RunningSum`, `SumTyped` and `SumCountsUnits` are inductions over a number or a
finite set. They are made by hand from a least counterexample, since the
library's induction rules take an operator, which the provers cannot
instantiate; the sums are recursive functions for that reason.

Only model-checked: the liveness properties `EveryJobSettles`, `DeliveryEnds`,
`EndsIfDelivered`, `EveryRequestEnds` and `EveryMailSettles`, as temporal
proofs under fairness and `ENABLED` are out of the prover's reach. Every
invariant, action property and refinement that a passing run checks has a
theorem; those under `OneProcess` and `OneExecutor` have it for the
configurations in which they hold.

## 6. Findings

Each is a disagreement of the code with its documents, met while modelling,
and shown by a run that must find the violation.

1. `jobs_attempts`: `claim` (`workers/background_jobs.py:88`) returns expired
   rows to the queue without looking at `max_attempts`; only `fail` compares.
   A job that kills its worker is claimed without limit.
2. `lifecycle_stuck`: recovery (`workers/job_execution_coordinator.py:102`)
   knows two targets, which the graph does not allow out of `CREATED` or
   `REGISTERED` (and out of `DEQUEUED` only one of them); a crash there strands
   the job, however often it is delivered again.
3. `lifecycle_retry_dropped`: an allocated number without a recorded attempt
   counts as an interruption for ever (`workers/job_execution_coordinator.py:77`).
   Once a job has one, say because its executor died between the report of
   `RETRY_SCHEDULED` and `record_attempt`, the next delivery of a scheduled
   retry goes to recovery, which finds no edge for a retry and dead-letters the
   job (lines 103-107). The RFC (`src/docs/architecture/scrape_job_lifecycle_rfc.md:335`,
   `:452`) has it retried until its attempts are used up.
4. `lifecycle_two_processes`: `append_transition`
   (`data_ingestion/lifecycle_store.py:129`) reads before it locks, with a
   lock of the process, so two processes drop each other's transitions.
5. `accounts_mail`: sign-up, resending and recovery (`auth/service.py:127`)
   select a challenge they have not flushed, in sessions that do not autoflush
   (`db/session.py:58`); the request ends in an `AttributeError` and nothing is
   stored. The tests make sessions of their own, which autoflush; the run
   `accounts` models what the functions then do.

Behaviour that the models have and that no document of the repository denies,
or that none of the runs is about:

- Jobs: `succeed` and `fail` (`workers/background_jobs.py:107`, `:117`) do not
  check that the caller still holds the claim, so a worker whose lease expired
  may requeue a row under another's live lease, or reopen a settled one.
- Lifecycle: a failure in `ARTIFACT_CAPTURED`, `PARSED` or `NORMALIZED` is
  dead-lettered at its first attempt, since those states have no edge for a
  retry. The table of edges (`scrape_job_lifecycle_contract.md:87-97`) has none
  either, while the RFC's table of failures retries what fails there: the
  documents disagree with each other. A retry that was scheduled is delivered by
  nobody when the job came from the queue (`workers/background_jobs.py:147`).
- Optimizations: `api/routes/optimizations.py:90` raises a `KeyError` for a
  result with a chosen plan, so none is ever stored.
- Planning: a correlation is looked for and then written with no lock
  (`cost_intelligence/observation/checkout_capture.py:56`), so of two
  registrations that overlap the later replaces the earlier, though the class is
  an "Atomic store" (line 37) of an "immutable correlation" (line 20), and the
  earlier request is costed on the later's checkout. The id of a supplied plan
  is free text (`cart_optimization/planning.py:66`) and so is the one of a
  capture: the checkout found for it may be of other listings, and a capture
  under the id of an automatic plan stands in the way of that plan's own, or
  replaces it. A failed automatic plan cannot be repeated under its
  request id, as the captures it made are refused the second time. Automatic
  planning captures the platform of the first allocation only; supplied plans
  are declared complete coverage whatever they cover; a percentage discount is
  known but not subtracted; a negative cost ranks first; the identity of an
  optimization leaves out feasibility and what the evaluations hold.
- Associations: the file's whole-file replacement loses updates between
  processes, so a registered association may vanish and a listing may be
  resolved differently by two processes; a crash can leave the file torn for
  good, and all of its readers raise then.
- Product intelligence: the runtime makes a new review queue and assertion
  manager for every execution (`workers/bootstrap.py:62`), so queued reviews
  are lost, and its default governance leaves variants unresolved, so it never
  asserts. The catalog side of the variant key folds the case of the product
  id, the observed side does not (`catalog/identity.py`). A quantity hint of a
  listing makes every product a candidate.
- Cart resolution takes the association of a listing that was stored first.

## 7. Not modelled, and the plan

- Scrapers and normalization: browser automation and text extraction.
- Application shell, migrations: settings, wiring, middleware, schema.
- Code that only tests call: `cart_optimization/persistence.py`, the job
  submission store of `retailer_data/jobs.py`, `canonical_source`, the governed
  association service, `quantity_semantics.py`'s resolver. Nothing of the
  application reaches it, so there is no environment to model it in.
- The retailer observation store behind search: nothing associates what it
  holds.
- A second operator: loading and replacing the catalog is one step of the
  model, and with two operators it would lose updates, as the association file
  does.
- A torn temporary file of the lifecycle store; limits on sizes; identities,
  rationales and provenance, which decide nothing.

Planned next, in this order:

1. Refinements: an abstract specification of keyed mutations (each runs at one
   moment, once, and repeats are told its answer) that `ConsumerMutations`
   implements, and one of the outbox for `EmailOutbox`.
2. `JobExecution`: `DurableJobs` composed with `ScrapeLifecycle`. A handler's
   end is the end of an execution; whether a scheduled retry is delivered
   (`workers/background_jobs.py:147`), and whether row and lifecycle agree.
3. `CartStore` (answers that come after the cart has changed) and `RateLimit`
   (a window's counter and its expiry).
