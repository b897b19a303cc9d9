# Formal model of the investment research engine

TLA+ modules, TLC configurations and TLAPS proofs for the engine: the autonomous
job runtime, the paper ledger on SQLite and on PostgreSQL, the dynamic paper
rebalance and its selection rules, the frozen forward observation, the strategy
review, the research lifecycle, the model registry, the derivatives streams and
signals, the synchronisation of candles, and the backtest and training code. The
engine trades paper portfolios only, but it does so unattended, from several
processes and threads and an HTTP interface, over database rows, JSON records and
plain files; what is hard about it is control and time rather than arithmetic.

## 1. The system

Source paths are relative to `src/investment/` of the repository.

| Component | State it keeps | Operations | Interacts with | Module |
| --- | --- | --- | --- | --- |
| Autonomous runtime (`runtime/`) | `_accepting`, `_active_jobs`, the engine state; execution records; the `job_lease` table | `start`, `stop`, `run_job`, `heartbeat`; `acquire`, `release`; `publish` | APScheduler threads and API calls enter `run_job`; events go out over HTTP; processes share the state directory | `JobRuntime` |
| Paper ledger (`crypto/infrastructure/sqlite_accounting.py`) | `paper_portfolio`, `paper_position`, `paper_execution`, `paper_rebalance_decision` | `create`, `apply_execution`, `get`, `save_rebalance_decision`, `list_*` | every process that trades paper | `PaperLedger`, `PaperAccount` |
| Database backends and migration (`database/`) | PostgreSQL tables; the SQLite files | `translate_sqlite_statement`, transactions; `migrate_sqlite_to_postgres` | the repositories above them; a runtime that may still write | `PostgresLedger`, `Migration` |
| Dynamic rebalance (`crypto/application/dynamic_paper_rebalance.py`) | none of its own; reads the ledger, writes fills and a decision | `run` | called by the scheduled lane (under a lease) and by `POST /dynamic-rebalance` (without one) | `PaperRebalance`, `SelectionRules` |
| Wiring (`interfaces/api/fastapi/main.py`) | lanes, policies, experiments | `lifespan`, `run_dynamic_lane` | builds the runtime, stops it on shutdown | the callers of every module |
| Frozen observation (`crypto/observation/`) | experiments, decisions, outcomes | `start`, `permits_execution`, `capture`, `interrupt`, `evaluate_pending` | the lanes and a command line of its own | `FrozenObservation` |
| Strategy registry and review (`crypto/strategy_registry.py`, `crypto/strategy_review_workflow.py`, `crypto/research/strategy_review.py`) | policy documents; analyses, proposals, validations, promotions as immutable files | load, serialize, patch; `analyze`, `propose`, `validate`, `promote` | reads the observation and the paper database while the scheduler writes them | `StrategyPolicy`, `StrategyReview`, `ReviewAnalysis`, `Statistics` |
| Research lifecycle (`crypto/application/research_lifecycle_service.py`) | experiments and strategy versions, a JSON file each | `create_experiment`, `ready`, `run`, `promote`, `reject` | HTTP callers, without a transaction | `ResearchLifecycle` |
| Derivatives streams (`crypto/derivatives/streams.py`) | a directory lock with heartbeats; the status row of a stream | acquire, refresh, release, takeover; connect, read, watchdog | every engine process on the volume | `DerivativesStreams` |
| Derivatives signals (`crypto/derivatives/`) | streamed marks and liquidations, snapshots, squeeze and crowding signals | `capture`, `known_at`, overlay | Binance over HTTP; decisions of the lanes | `DerivativesSignals` |
| Market data (`crypto/infrastructure/upbit.py`, `crypto/application/*_service.py`) | Parquet candles, the universe snapshot | sync, capture, save | Upbit over HTTP; the intraday job and a route | `MarketSync` |
| Machine learning (`crypto/ml/`) | model directories, `LATEST`, `ACTIVE`, activation records | train, activate, load, predict | HTTP callers, the dry-run job | `ModelRegistry`, `ModelTraining` |
| Backtest, regime and portfolio models | none | pure functions | lifecycle, training | `Backtest`, `ModelTraining`, `SelectionRules` |
| Signal and hypothesis registries | append-only JSON | register, record | by hand | not modelled |
| Bitcoin research, core platform, notebooks | batch files | analyses | by hand | not modelled |

What makes them hard: threads and processes that interleave between a check and
a write (`run_job`, `get`, `propose`, `promote`), leases and heartbeats that
expire under a running owner, crashes between two records or two files, storage
operations that raise in the middle of a protocol, reports that fail, retried
requests, plans that are stale when executed, transactions that are weaker on
one backend than on the other, data that is stored later than the time it
carries, and guards that read a history through a caller's own `as_of`. The
hazards in `PROJECT.json` list each at its line with the property that would
catch it.

What makes each component correct:

* runtime: one call per scope in a process, one unexpired lease per key across
  processes, one recorded run per job and minute, an engine state that tells
  what runs, final outcomes, scopes that are freed;
* ledger: balances and positions that the execution rows explain, one fill per
  intent, no negative amounts, a cost basis that reconciles; on PostgreSQL the
  same, as long as no fill is committed over balances another has changed;
* rebalance: plans the risk engine approves and the cash funds, decisions that
  fills back, entries that were confirmed, a cooldown that holds; to whoever
  trades on it, an account that changes by whole fills only;
* selection: an outage of the derivatives data sells nothing, and the recorded
  reasons and control selections tell what the rules did;
* observation: evidence and trades of one frozen identity within one window, an
  end that fits the status, outcomes that are written once, not too early and
  in the end always;
* review: a report that depends on its cutoff alone, artifacts that never
  change, a promotion that rests on a chain of artifacts about one policy,
  policy documents that hold what a policy is;
* lifecycle and models: what is active has passed its evaluation, and what one
  file names is on disk;
* streams: one collector while heartbeats are fresh, two resolve, a crash does
  not end the collection, and no window is taken for covered that was not;
* signals, backtest, training: nothing that was unknown at a decision reaches it;
* candles: a candle once stored whole stays whole.

## 2. Modules

### JobRuntime

`RuntimeStateService.run_job` for several processes that share a state
directory. An element of `Execs` is one call and its thread; `pc[e]` is the
point of `run_job` where it stands, and what the code does under its `RLock` is
one step. `scopes[p]` is `_active_jobs`, `engine[p]` is `_state`, `lease` the
`job_lease` table, `status`, `startedAt` and `call` the persisted execution
records, `expires[e]` the expiry of the lease a call was granted.

* Life cycle: `Boot`, `ReportStarted`, `ShutdownScheduler`, `Stop`,
  `ReportStopping`, `Crash`. With `HostDrains` the host ends every call before
  `state.stop()`, as the deployed server does; without it the service is on its
  own and calls may arrive late.
* A call: `RunJob`, `Report` (of SCHEDULED), `Admit`, then for a keyed job
  `Acquire`, `SkipLocked` or `Check`, `ReleaseDuplicate`, `SkipDuplicate`;
  `Start`, `Report`, `HandlerEnds` or `HandlerTimesOut`, `Finish`, `Report`,
  `ReleaseLease`, `Return`.
* Exceptions: every step with a storage operation may `Raise`; where the thread
  goes is `AfterException`: the except clauses, `finally`, or out of `run_job`.
* `Publish` is what `_publish` does to the engine state when the delivery
  succeeds or fails after its finite retries.

Abstractions. A tick is one minute, the width of an execution identity. At most
one storage operation of a step raises. `find_execution_by_identity` searches
all records, the code its latest 10,000. `engine.json` is never read back by
the engine, so its file is not a variable. A save that fails in the very first
statement of `run_job` changes nothing and is not an action. A handler is
opaque, except that the heartbeat's publishes; a timed-out handler goes on as a
zombie.

### PaperLedger

`SqlitePaperPortfolioRepository`. `create` and `apply_execution` each run in one
SQLite transaction and so are one action. `Accepts` is the conjunction of the
checks that raise, `Duplicate` the idempotency check that returns `False`,
`Filled`, `CashAfter` and `RealizedPnl` the arithmetic. Amounts are natural
numbers of a smallest unit and the average cost is rounded half-even, as the
decimal context rounds its last digit. The order id is a prefix and the intent
id, so one identity stands for both unique columns. `deposited` is a history
variable: the cash a portfolio was created with.

`LedgerSpec` is the abstract specification of what any caller may do: any intent
with any report whose fee is at most its notional (the gateway's fee is a rate
of the notional).

### PaperRebalance

`DynamicPaperRebalanceService.run` on one portfolio, extending `PaperLedger`. A
run reads the row of a portfolio that exists (`Bootstrap`, then `BeginJob`, `BeginRoute`), then the positions
(`ReadPositions`: `get` issues two statements without a transaction), decides
and plans (`Decide`), submits one order per step (`ExecuteOrder`), is done with
its orders (`Executed`) and saves its decision (`SaveDecision`). It may fail to
value a holding (`CannotValue`), be rejected in the middle of a plan (`Abandon`)
or die (`Crash`).

* The scheduled job runs one at a time with an `as_of` of its own: that is what
  `LeaseExclusion` and `OncePerWindow` of `JobRuntime` give it. The route takes
  no lease and its `as_of` is the client's.
* `Selections` keeps the rules on holdings, expiry, cooldown and confirmations
  and leaves scores, volatility, regime, concentration and derivatives guards to
  the market: the selection may be any set the rules allow.
* `Plan` computes the orders as `_plan` does, with quantities cut to whole
  units; `Approves` is the risk engine, `Report` the paper exchange with fee and
  slippage.
* The history that a run reads between the snapshot and the plan is read in the
  step that plans.

### FrozenObservation

`FrozenObservationService` on one experiment, over the observation repository.
`experiment` is the row of `observation_experiment`, `snapshots` and `outcomes`
are the rows of `decision_snapshot` and `decision_outcome_minute`, `candles` the
Parquet files with the time at which each candle was collected. A call is the
start-up, the lane or the evaluation job of the engine, or a command or request
from outside; `pc[c]` is the point where it stands and `seen[c]` the row it has
read. Every repository method is a transaction of its own, so a method of the
service is several steps and its writes may be stale.

* `start`: `StartRead`, then `StartCreate` (the row was absent), `StartExisting`
  or `StartMismatch`. An engine whose start raises does not come up.
* `run_dynamic_lane`: `BeginLane`; `permits_execution` is `PermitRead`, then
  `Invalidate`, `PermitCompletes`, `PermitRefuses` or `PermitGrants`; the run is
  `RunChecks` (the deadline, once for the batch), `SubmitOrder` for each order and
  `RunEnds`, or `RunRaises` anywhere; `capture` is `CaptureRead`,
  then `Invalidate`, `CaptureIgnores` or `Capture` and `CaptureBundle`.
* `evaluate_pending`: `EvaluateRead`, `EvaluateStatus`, `EvaluateLoad`, then
  `EvaluateNext` for each key in the order of the query, `EvaluateDone`.
* `interrupt`: `InterruptRead`, `Interrupt`.
* Environment: `Tick`, `Sync` of one pair, `Crash` of the engine.

Abstractions. A tick is 15 minutes, the width of a candle. An identity stands for
portfolio, strategy version and configuration hash; `capture` raises without
`INVALIDATED` when only the portfolio differs, which no lane reaches since its
permit compared all three and a row keeps its identity. The run itself is
`PaperRebalance`; what is kept of it here is the check of the deadline and the
orders after it, between which time passes: `_execute` does not look at the clock, so
the orders of a batch that was checked in time may be booked after the planned end,
as ADR 0038:51-53 describes ("before the execution batch"). `fills` records for each
order when its batch was checked and whether it was late. How many orders a batch has
is left open, and orders of one batch that agree in this are one record.
`EvaluateLoad` reads stored outcomes and snapshots in one step; the code reads
the outcomes first, so it may only find more keys of newer snapshots, and a key
stored in between is ignored by `save_outcome`. The clock of `interrupt` and its
save are one step. A method called without a row raises `KeyError` and changes
nothing, which is no action. A row that is not used any more is forgotten.
Calls of one lane in one tick have the same decision time, so the second capture
is ignored as a retry. `CREATED` is never written by the code.

### PaperAccount

What a portfolio promises to those who trade on it: it is opened once and then
changes by whole fills, each of an intent of its own, paid from the cash or taken
from the holdings of that moment. `PaperRebalance` maps its ledger row, positions
and execution rows to it (`Book`), and `ImplementsAccount` is `Book!Spec`:
snapshots, retries, overlapping runs and crashes are invisible in the account.
The refinement is checked by TLC and proved.

### PostgresLedger and Migration

The repositories are written for SQLite and run on PostgreSQL when
`INVESTMENT_DATABASE_URL` is set (ADR 0040). `PaperLedger` and everything above
it model the SQLite backend. `PostgresLedger` runs `apply_execution` statement by
statement as READ COMMITTED does: `translate_sqlite_statement`
(`database/postgres.py:35`) turns `BEGIN IMMEDIATE` into `BEGIN`, so each
statement sees what was committed when it began, a write waits for the row that
another transaction has written, and what is written counts from the commit. The
history variable `raced` remembers a fill committed over balances it had read
before another fill.

`Migration` is `migrate_sqlite_to_postgres`: snapshots or a direct read of the
files, tables in the order of references, one transaction on the target,
`--replace`, a failure anywhere and two migrations that overlap, beside a runtime
that goes on writing to the files or already writes to the target. A transaction
of the runtime adds one row to each table of a database, so a consistent database
is one whose tables are equally long.

### SelectionRules and StrategyPolicy

The part of `run` that `PaperRebalance` leaves free: assessment of the universe,
both scoring methods, regime and derivatives gates, concentration and rolling
loss guards, replacement, confirmations, and the reasons and control selections
that are recorded, for every published version of the policy. What is recorded of a
candidate grows while the selection is made (`CandidateReasons`, then `Admit`, which
adds to an entrant and to the asset whose place it takes); what a decision says of
itself is a second, shorter list (`SelectionReasons`, `DecisionReasons`; what the
derivatives context adds to it is left out). Recent exits, expired holdings and losses
are read from the executions, concentration from earlier cohorts. Scores are in
ten-thousandths, rates in millionths, and every division rounds down; the code
uses binary floats there, so ties within a rounding error are not told apart.

`StrategyPolicy` is a policy as a document: the schemas and the fields each
knows, serialisation, loading with its refusals, and the patch that makes a
candidate of a parent.

### StrategyReview, ReviewAnalysis and Statistics

`StrategyReview` is the workflow: four directories of artifacts and the candidate
snapshots beside them. A command reads, writes a temporary file and links it into
place; two commands interleave at every file, and a command may be killed between
two. A hash is the content it stands for.

`ReviewAnalysis` is `analyze`: what it reads from the observation and later from
the paper database while cycles and evaluations go on writing both, the cutoff it
selects, the cohorts, metrics and gates it computes from what lies before, and
its decision. `Statistics` holds the means, medians, ranks, drawdowns and gates
as exact fractions.

### ResearchLifecycle, ModelRegistry and Stores

`create_experiment`, `ready`, `run`, `promote`, `reject`, and `save`, `train`,
`activate`, `load_active`, each file by file with overlapping callers and crashes.
`model.pkl`, `metadata.json` and `ACTIVE` are written through a temporary file of one
fixed name in three steps (`OpenPickle`, `DumpPickle`, `ReplacePickle` and so on), as
`SharedFile` describes it. The file of an activation record carries its time and is one
step, as is the load of a model; model identifiers are of one length, so two writers
of `ACTIVE.tmp` leave one of the two. The records of the lifecycle go through a
temporary file too (`research_repository.py:117`), but their write is one step
here. A split could add files that cannot be read, calls that end with an error and
renames that publish the record of the other writer of the same version, which that
writer was about to publish itself.
An experiment identifier is the request and the version it is derived from, a
model identifier the data and configuration its hash covers. What a backtest
measures is any of a few values.

`Stores` puts the lifecycle, the registry, the candle files, the fills on PostgreSQL
and the migration into one state. They share no file and no table, so one of them
runs in a behaviour (`part`); each keeps its own initial states and steps. The
lifecycle and the migration are extended, the others are instances.

### SharedFile

A file that is replaced as a whole through a temporary file with one name: opening it
empties it (`Emptied`), the content goes where the descriptor points (`Filled`), and the
rename takes what is there (`Replaced`) or finds nothing (`Abandoned`). A second
writer may empty what the first has filled, publish a half written file, or write into
a file that was renamed meanwhile. Bytes of two writers are `Torn`, or the later
content on top (`Written`); torn bytes are taken for unreadable. `shared` is a
history variable: what is published was put there while another writer was at the
file. `ModelRegistry` and `MarketSync` use it, and `StoresProofs` has its lemmas.

### DerivativesStreams

The ownership lock is a directory that several processes share. Every call on it
(`mkdir`, `open`, `stat`, `rename`, `utime`, `unlink`, `rmdir`) is a step; beside it
run the supervisor, the stream worker, the worker's watchdog and the writes of
the status row from which a capture decides whether a liquidation window was
covered. Ages stop growing at the bound that matters, so no clock bounds a
behaviour and liveness is real.

### DerivativesSignals

Streamed messages with event and receive times, the capture with its fetches,
fallbacks and cooldown after a rate limit, one transaction per stored row, the
features, squeeze and crowding scores, and the overlay a decision reads as of its
cutoff. In production (`main.py:158`) the primary calculator is the proxy one and
the official one is additional.

### MarketSync

The universe snapshot, pages with retries and a time budget, and the merge of the
result into the file of a pair, by the job and the route at once: `Merge` reads the
file, `OpenTemporary`, `WriteTemporary` and `Replace` are the steps of `SharedFile`. A
file that cannot be read ends the sync that reads it, since no caller catches the
error. What a candle holds is the time up to which it covers the market.

### Backtest and ModelTraining

The daily loop with its known-at views, next-open fills, fees and weights; the
dataset with point-in-time features and forward labels, purged walk-forward
folds, the choice of a model, the prediction and the dry-run job. Prices are
powers of two so that logarithms are exact; regressors are an opaque score.

### Model-checking modules

`MCAlgorithms` holds several independent parts in one state space; the variable
`input` picks one of them in the initial state, so that parts do not multiply. The
other `MC` modules only give constants and symmetries.

## 3. Runs

| Run | Bounds | Shows |
| --- | --- | --- |
| JobLease | 2 processes, 3 calls of one keyed job, TTL 1, clock 1, 1 crash | `ScopeExclusion`, `LeaseExclusion`, `OncePerWindow` with expiry under a running handler, a takeover, a late release and a restart |
| JobFaults | 1 process, 2 calls, a keyed job and a timed heartbeat, 2 storage faults, failing reports, late calls, 1 crash | `EngineTellsWhatRuns`, `OutcomeIsFinal` |
| JobFreed | 1 process, 2 calls, 1 crash, fairness | `ScopeIsFreed` |
| RebalanceJob | 2 assets, 2 price levels, 3 scheduled runs, 1 crash, an experiment that ends | `PlansAreFunded`, `AuditTellsFills` |
| RebalanceEntry | 1 asset, 2 price levels, 4 scheduled runs, 7 instants, 1 crash | `EntryIsConfirmed`, `CooldownHolds` |
| RebalanceRoute | 2 assets, 2 runs (job or route), 2 client times, 1 crash | `LedgerReconciles`, `CostBasisReconciles`, `AuditIsBacked`, `PlansAreApproved`, `FillsAreFinal`, `ImplementsAccount` |
| Observation | 1 lane, 1 pair that nobody trades in the second quarter, 1 horizon, clock 2, the engine's start and job, one of a start with another identity, an evaluation and an interruption from outside, 1 crash, fairness | `EvidenceIsFrozen`, `EndMatchesStatus`, `DelayIsNotMissing`, `TradesAreFrozen`, `OutcomesAreFinal`, `OutcomesAreFilled`, `ExperimentCloses` |
| Streams | 2 processes, heartbeat limit 2, window 2, silence 1, 1 fault (stop, crash, suspension or failed write), fairness | `CoverageIsReal`, `OneCollectorWhileFresh`, `TwoCollectorsResolve`, `CollectionResumes` |
| Review | 2 commands at once, 2 patches, 2 proposal, 1 validation and 1 promotion identifiers | `PromotionIsEarned`, `ArtifactsAreImmutable` |
| Stores | lifecycle: 2 callers, 2 requests, 2 versions; registry: 2 callers, 2 models, 4 calls; fills on PostgreSQL: 2 callers, 4 intents on 2 assets; migration: 2 databases, 3 tables, 2 migrators, 1 further write per database; candles: 2 pairs, one of them not traded yet, 3 syncs, clock 3 | `ActiveIsEarned`, `ReferencesResolve`, `ModelInUseIsApproved`, `PostgresKeepsTheBooks`, `RepairedForGood` |
| Algorithms | analysis: 2 decisions, 8 instants; selection: every published policy, 6 pairs in 4 kinds of market, 5 sets of holdings with their executions, 20 cohorts, 3 contexts; policies: every single-field patch and edit of 3 parents; backtests: 11 days, 3 assets, 2 courses, edits of prices; signals: 3 instants, 1 stream event, 1 fault | `ReportIsFixed`, `OutageSellsNothing`, `SelectionIsExplained`, `PoliciesSurvive`, `NothingLeaks`, `OverlayIsPointInTime` |
| ResearchChampion (a violation) | 1 caller, 2 requests, 3 versions | `OneChampion` fails |

Why the bounds are enough. Two calls of one key and a third that arrives after
the takeover are the smallest set in which a late release could delete another
owner's row; two ticks separate "unexpired" from "expired" and one window from
the next. Two faults reach every except clause from every try block. Three
scheduled runs are a confirmation, an entry and a rebalance at other prices;
four runs over seven instants add a sale, the cooldown and a second entry. Two
concurrent route runs with equal or different `as_of` values give torn
snapshots, stale plans, duplicate intents with other quantities and
insufficient cash. The percentages are round numbers (fee 2 %, slippage 1 %,
invested 90 %) chosen larger than the real ones so that their effect is visible
in whole units. In the observation run the experiment, the horizon and the grace
period are one tick long each, so within two ticks a decision is captured, its
experiment ends, its outcome falls due and the grace period runs out, in every
order with the collection of candles; one call from outside at any point is
enough for every pair of stale writers, and the proofs cover any number.

In the streams run one suspended owner and one newcomer reach a takeover, the old
owner's return and the foreign token; a second fault only repeats it. Two
commands and two patches of one candidate are the smallest review in which a
snapshot is removed and proposed anew under a validation that is in progress.
Four intents on two assets let two transactions fill different assets of one
portfolio, the same asset, and the same intent. Two databases tell "all" from
"one of them", two tables of a database a torn read from a cut. In an analysis a
decision before and one after the cutoff, with outcomes settled late, is what a
report could mix up. In the candle run two overlapping syncs and a third alone
are needed to store a candle whole and to put an older part of it back. Four calls of
the registry are a training, its activation, and two more that overlap each other.
Two writers of one file reach every way in which one can empty, rename or fill the
file of the other. In the selection three pairs take every kind of market, the fourth
has lost money, the fifth is a weak or a strong asset that may be held, and the sixth
is selected too often; with three holdings every position is taken, so that an
entrant replaces the weakest, or is refused for its score or for its return, and
holdings are cut; holdings are older and younger than each limit and exits older and
younger than each cooldown.

The system may stop (bounded calls, a stopped engine), so deadlock is checked only
in the streams run, where it may not. Calls, runs and callers are interchangeable;
symmetry is used where only safety is checked.

`PlansAreFunded` depends on the policy: it holds when the uninvested fraction
covers the threshold of every skipped sale plus fee and slippage. With the
default minimum order of 5,000 and an equity near 100,000, skipped sales may
exceed the uninvested part; the bounds of the run keep the ratio of the
defaults at a larger equity. `PaperRebalanceProofs` states a condition that is sufficient
(`CoveredBy`): if a plan buys, the uninvested part of the equity, less what
fees and slippage can take from both sides, is at least the threshold of an order
for each holding that the plan leaves or only cuts. In the instance of RebalanceJob
every executed plan is covered with a loss of 4 %, plans that keep a holding and buy
included; with deposits of 330 to 500 TLC finds plans that are rejected, none of
them covered. The guarantee concerns scheduled runs only; a route call may always
take the cash away.

Properties that name their exception. Some guarantees hold but for one case that
the code leaves open, and the property says which, so that it fails if another
one appears. `FillsHoldOnPostgres`: the books reconcile unless a fill was
committed over balances another fill had changed. `TargetIsACut`: only a direct
read of files that are still written, which its documentation reserves for stopped
writers, may be no cut. `OverlayIsPointInTime`: a capture was between its last
fetch and its last transaction. `ReportIsFixed`: an outcome batch straddles the
cutoff. `CoverageIsReal`: a process died or a write of the row failed.
`OncePerWindow`: a run started after its own lease had expired. `RepairedForGood`:
the candle was stored while no other sync ran, and the file was not left unreadable
by two syncs that were at it at once. `ModelInUseIsApproved`: a file two
calls were at when one renamed it may be unreadable, until a call replaces it alone.
`ActiveIsEarned`: two overlapping creations wrote one version number, and the later
parameters trade on the evaluation of the earlier. `TradesAreFrozen`: the
orders after the planned end are all of one batch that was checked before it.
`SelectionIsExplained`: the control is what the previous version would select unless
a holding is expired, or an exit recent, for one of the two versions only; and of the
holdings against which nothing is recorded the best are kept, as many as there are
positions.

Fairness. `FairSpec` of the runtime assumes weak fairness of a thread's own steps:
threads are scheduled and handlers end, since providers and events have finite
timeouts. No fairness is assumed for new calls, time, shutdown or crashes. In
`FrozenObservation` it is weak fairness of the engine's start-up and of its
evaluation job, which the scheduler calls every quarter of an hour; nothing is
assumed of lanes, commands, collection or time, and both liveness properties
exempt an engine that refuses to boot. In `DerivativesStreams` it is weak fairness
of the supervisor's and the worker's own steps, of starting a supervisor that the
engine's heartbeat finds dead, of connecting, and of time; messages, silence and
broken connections are left open.

### Disagreements with the documentation

ResearchChampion shows one that the model reaches by ordinary use, one call after
the other: `promote` retires the version an experiment was derived from and not
the active one, so two candidates of one champion promoted in turn are both
ACTIVE (ADR 0017:17). The finding in `PROJECT.json` quotes it. The modules contain
the steps behind the following ones as well; no run is spent on them.

Runtime and trading:

* a delivered stopping event after a failed report turns `STOPPED` into `IDLE`
  (ADR 0018:17, `runtime/service.py:203`); `Complete` leaves `DEGRADED` without a
  delivered report (ADR 0019);
* an exception between `acquire` and the `try` block keeps lease and scope (ADR
  0028:51, `runtime/service.py:103`);
* a repeated route call confirms its own entry (ADR 0026:10,
  `dynamic_paper_rebalance.py:1730`), a route call with an earlier `as_of` re-enters
  a sold asset at once (README:84, `:1532`), and a dry run of the route persists no
  decision (ADR 0026);
* on PostgreSQL two overlapping fills of one portfolio, one of the job and one of
  the route, may lose an update of cash or of a position (ADR 0013:10 "Apply fills
  inside an immediate transaction", README:428);
* the control selection of v2.6 takes its expired holdings with the limit of one
  hour of v2.6 and not the four hours of v2.5, and that of v2.7 its recent exits with
  the cooldown of four hours of v2.7 and not the two hours of v2.6
  (`dynamic_paper_rebalance.py:1162`);
* a holding beyond the number of positions is let go without a reason
  (`dynamic_paper_rebalance.py:1337`), and the reasons of a decision are fewer than
  those recorded of its candidates (`:1361`).

Observation and review:

* an evaluation before the target's candle was collected settles the outcome with
  a close up to 30 minutes older (ADR 0029:29, `observation/service.py:566`);
* a report of one `analysisId` changes when the status or the completion time of its
  experiment does (`strategy_review.py:699`), or when an outcome batch that began
  before the cutoff commits after it (`:431`; the docstring at `:240` promises
  otherwise);
* the halves of `_incremental_alpha_variants` are ordered by a hash and not by time
  (`strategy_review.py:1172`);
* a command killed between two files may leave a proposal without its candidate's
  snapshot.

Data:

* a crash leaves the row of a stream CONNECTED (README:565);
* a crowding signal reads liquidations and coverage after its own `available_at`
  (`derivatives/domain.py:318`, `derivatives/service.py:283`);
* a sync stores the candle that is still open (`runtime/application.py:96`), which
  is read as complete when the next sync fails, and is not repaired after an outage
  longer than the lookback; two syncs at once share no lock and one temporary file, may
  publish it half written and then fail on every later sync of the pair
  (`storage.py:79`); a `RuntimeError` or `OSError` of one pair ends the whole sync;
* the label horizon counts positions of the timeline, the purge calendar days
  (`ml/dataset.py:98`, ADR 0014:10), so on days without candles the two differ.

Some behaviour no document excludes is worth knowing. In the lifecycle (ADR 0017
disclaims concurrency) a crash in `promote` after the retirement leaves no active
version until it is repeated, a crash after the activation followed by `reject`
loses the champion, a crash in `run` leaves RUNNING, overlapping creations share a
version number, so that the parameters of the later one may be promoted on the
evaluation of the earlier, and a repeated request leaves an orphaned challenger.
`LATEST` is written in place, training the same data again replaces the scores of the
active model, and two trainings of one model, or two activations, may leave one of its
files, or `ACTIVE`, unreadable. An experiment that is closed while its lane runs keeps the
fills of that run without a captured decision. In `FrozenObservation` a stale
writer may turn one terminal status into another; `EndMatchesStatus` says what
remains true. The identity of a run is searched in the latest 10,000 records and
the daily budgets in the latest 1,000 executions. `health_counts` expects outcomes
for six of the seven horizons.

## 4. Proofs

All constants are arbitrary within the named assumptions (`ConstantsAssumption`,
`LedgerAssumption`, `RebalanceAssumption`, `ObservationAssumption`,
`StreamsAssumption`, `ReviewAssumption`, `AnalysisAssumption`, `LifecycleAssumption`,
`MigrationAssumption`, `StoresAssumption`), which TLC evaluates in the runs. They say of the constants what the code takes for granted: the value
for a missing file is no record (`NoFile \notin Rows`, `None \notin Versions`), the
intents of a rebalance are named by its `as_of`, the asset and the side, and a
universe is finite. Two groups of theorems have a hypothesis of their own.
`FillsAlwaysHoldOnPostgres` assumes that the intents are fills that can be asked for
(`OrdersAreFills`), which `StoresAssumption` grants the composition. The three `Scheduled...` theorems and
`CoveredPlansAreFunded` assume `ClientAsOf = {}`,
no route calls, as the runs of the same properties do: with a route call they are
false, and section 3 lists how.

* `JobRuntimeProofs`: `TypeCorrect`, `ScopeExclusionHolds`,
  `LeaseExclusionHolds`, `OncePerWindowHolds`, `EngineTellsWhatRunsHolds`,
  `OutcomeIsFinalHolds`. Scope exclusion is inductive only
  together with the fact that every call between admission and discard has its
  scope in `_active_jobs` of a live process (`ScopeIsHeld`, `DownIsQuiet`).
  Lease exclusion needs `LeaseIsOwn`: a call inside an unexpired lease is the
  owner of the row and the row carries its expiry, so a release can only delete
  the call's own row. Once-per-window needs that a call that has passed the
  identity check under an unexpired lease is alone (`StartingIsAlone`) and that
  the record follows the thread (`StatusFollowsThread`). The engine state needs
  that what is active in a process is a call of that process (`ActiveIsStarted`),
  so that a crash or completion elsewhere leaves it alone, and that a state that
  is STARTING has nothing active (`EnginesFit`), so that a failed report may turn
  it into DEGRADED. Outcomes are final because without a storage error the except
  clause is entered from a running handler only (`RaisedWhileRunning`).
* `PaperLedgerProofs`: `LedgerTypeCorrect` (no negative balance or position,
  from the cover checks and a fee below the notional), `LedgerFillsAreFinal`
  (rows are appended, one for an intent) by the inductive `IntentsAreUnique`, and
  `LedgerAlwaysReconciles`: cash and positions are sums over all execution rows,
  however many. A sum is the last value of a recursive function of running sums;
  that the function exists and that one more row adds its last term is shown by
  taking the least number of rows at which it fails (`LeastNat`, `SumsExist`,
  `RunningStep`, `SumAppend`). `NoneDeposited` is needed for the portfolio that is
  created with cash after others have traded.
  `LedgerKeepsCostBasis` bounds what rounding can do to the books: a buy moves the
  average cost by at most half a unit for each unit held (`RoundDivBounds`), a sale
  leaves it, so the difference between what was paid and what the books say is at
  most what the rows can have rounded away (`Drift`, `CostIsKept`). One unit held
  was bought (`HeldWasBought`), which bounds the holdings by the rows, and the sum
  over the assets goes over the finite set one asset at a time (`SetSums`).
* `PaperRebalanceProofs`: `RebalanceFillsAreFinal`, since every step of a run
  leaves the rows alone or is an `ApplyExecution`; and `RebalanceAuditIsBacked`,
  whose inductive invariant `PlanIsBacked` says that what a run has taken off
  its list is backed by an execution row, applied by this run or an earlier one.
  `RebalanceImplementsAccount` proves the refinement for any assets, prices, policy
  and number of runs: the initial state maps to an unopened account, `Bootstrap` to
  `Open`, an order that `ApplyExecution` fills to `Fill`, and every other step to
  nothing. The inductive invariant is only that the stored rows have their shape
  (`RowsAreShaped`, `ExecutionsAreRows`) and that orders name known assets
  (`OrdersNameAssets`); that a fill is new and covered comes from the checks inside
  the transaction itself.
  `RebalanceTypeCorrect`, `RebalanceReconciles`, `RebalanceKeepsCostBasis` and
  `RebalancePlansAreApproved` rest on one invariant, `Sound`. A plan is approved
  because the equity, a sum over the finite set of assets (`FoldsExist`,
  `SumOverBounds`), is at least the value of each holding, and a target is a fraction
  of it (`TargetBounds`, `PlanBounds`), however torn the snapshot was.
  `ScheduledAuditTellsFills`, `ScheduledCooldownHolds` and
  `ScheduledEntryIsConfirmed` rest on `Scheduled`: runs follow one another with
  increasing `as_of` (`JobsFollow`), executions and decisions belong to runs that
  have begun or ended (`ExecutionsOfRuns`, `DecisionsOfRuns`), a run that has not
  decided finds no execution after its `as_of` (`NothingYet`), the orders to do find
  the positions the run has seen (`PlanIsTold`), and those that open a position
  are past the cooldown and confirmed when they are planned and until they are
  filled (`EntriesAreAllowed`). That a fill opens a position is read off the
  rows; `LedgerReconciles` ties that to the stored position.
  `CoveredPlansAreFunded` says when no plan is abandoned half way. Its hypotheses are
  a bound on what trading loses (`TradingLoses`: fee and slippage take at most
  `percent` of every price on either side, roundings included) and that the plans that are
  executed are covered (section 3), a premise about the plan and the equity alone. For each asset a covered plan
  pays no more than the target exceeds the holding, plus the loss and, where it
  leaves a holding above its target, the threshold (`AssetPays`); the sum over the
  assets is what the plan needs of the cash (`DuesBound`), the targets
  add up to the invested fraction at most (`TargetsAddUp`), and the equity is the cash and the
  holdings (`EquityIs`), so the cash and the sales pay for the purchases
  (`PlanIsFunded`). The invariant `Funded` carries this through the run: the cash is
  the one that was read until the run decides, and afterwards the cash and
  what is due for the orders still to do (`Dues`) are not negative together. Sales
  go first, so before a purchase only purchases are left and the cash alone covers
  it (`CoveredIsAccepted`). `AlwaysFunded` needs no premise about the plans: whichever plan is
  rejected was not covered (`RejectedUncovered`).
* `FrozenObservationProofs`: `ObservationTypeCorrect`, `EvidenceIsFrozenHolds`,
  `EndMatchesStatusHolds`, `TradesAreFrozenHolds`, `DelayIsNotMissingHolds`,
  `OutcomesAreFinalHolds`. The invariant `FrozenInv` rests on one fact about the
  upsert: a row that exists keeps its identity and window (`StepOfRow`,
  `RowIsKept`), so a row some call has read, however stale, agrees with the
  stored one in both (`SeenIsFrozen`). Added to it are that no recorded time
  lies in the future (`TimesArePast`), that the engine comes up only over a row
  (`EngineHasRow`) and what a lane knows at each point (`LanesAreInside`): a lane that
  submits orders has checked the deadline between its decision and the planned end.
  Once an order is late no further check passes, and who still trades is its batch
  (`LateIsOneBatch`), since lanes run one at a time (`OneLaneAtATime`).
  `OutcomeInv` adds that missing data is recorded after its grace period and not
  in the future (`MissingIsLate`), so whatever is collected later is too late,
  and that keys are unique.
* `StrategyReviewProofs`: `ArtifactsNeverChange`, `PromotionsAreEarned`, `ReportsAreFixed`.
  The chain behind a promotion is stated for every document, stored (`StoredEarned`) or
  still in the hands of a command (`HeldEarned`): a document names another by its
  key and carries its content, and since a stored file is never replaced the two
  go on agreeing. `ParentRow` says that only the candidate's experiment observes
  the candidate, so a REJECTED report of the parent is of the base policy.
  The analysis: a report is a function of what is loaded up to its cutoff, so no fold
  has to be followed, only the tables. A cycle fixes the time of its snapshots when it
  begins (`Coming`) and all rows before it are earlier (`RowsArePast`); so what was
  written since the observation was read is later than all that was read
  (`ViewPrecedes`), although a decision of the paper database may be newer. The cutoff
  is the time of a snapshot that was read and of a decision that was saved
  (`CutoffIs`), and whatever a later analysis loads up to the filed cutoff is what was
  filed (`FiledHolds`), outcomes alone may be added.
* `PostgresLedgerProofs`: `FillsAlwaysHoldOnPostgres`. Under read committed a
  transaction acts on what it read statements ago. The invariant says what it still
  knows (`TxnsHold`): whatever it has read has passed the cover checks, and unless
  another fill of the portfolio was committed since, its balance and position are
  those of the tables. From the `UPDATE` of the balance to the commit it alone holds
  the row of its portfolio (`RowsAreLocked`), and at the commit no execution of
  its intent exists. A commit over balances that are still the ones it has read
  is then exactly one `ApplyExecution` of `PaperLedger` (`FreshCommitApplies`), so
  the lemmas of `PaperLedgerProofs` give the books; a stale one keeps the types and
  the single row of an intent.
* `StoresProofs`, the lifecycle: `ActiveVersionsAreEarned`, `ReferencesAlwaysResolve`.
  Calls write back records they read long ago, so the invariant speaks of every
  copy a call keeps (`CallsHold`) as well as of the files (`StoredResolve`): the
  versions it names are on disk, and a copy that says CANDIDATE is of a challenger
  whose parameters were run and passed, or of a number two creations share
  (`EarnedStays`).
  Shared files: whoever is at the file, its published content is whole or it was
  replaced while writers overlapped (`Sound`, with one lemma for each operation), and
  every content it holds was written by someone (`FilledKeeps`).
  The registry: `ModelsInUseAreApproved`. An activation keeps the scores
  it approved, and its record is written before the pointer (`ActivationsHold`), so
  whatever identifier `ACTIVE` or its temporary file holds has a record; a model that
  was approved has both its files, which are replaced and never removed.
  The migration: `TargetIsAlwaysACut`. A run holds what it has read, a prefix of
  each database, and the last one where the writers were stopped before
  (`ReadsHold`); what it has copied is what it has read, in the order of the tables
  and never empty (`CopiesHold`). Only one run copies, because a second waits at
  the first table for the key that the first has inserted (`OneCopies`), and a run
  that does not replace finds none of the migrated rows until it commits
  (`AddsToNone`); so a commit loads all tables or none (`AllOrNone`).
  The candle files: `RepairedCandlesStay`. A page has no gap (`PageHasNoGap`), and a
  short one holds all there is: after the latest candle it left out there would be a
  full page (`ShortPageIsAll`, `ServedWhole`). So a sync holds every closed candle
  from its cursor to its end, then from its start, whole (`FetchHolds`).
  A sync that is alone finds the other idle (`AloneIsAlone`), so when it marks candles
  as repaired nobody holds rows read earlier; whoever fetches later finds them closed,
  and whoever merges finds them in the file. The temporary file of a waiting sync may
  be the other's, but then neither is alone; for every candle that counts as repaired
  the published and the temporary content agree, or are not whole (`FilesHold`), and a
  file that is open belongs to a sync at its write (`OpensHold`).
  `StoresAreEachOfThem` shows that the composition implements each of the five, and
  `StoresUseApprovedModels`, `StoresKeepCandles` and `PostgresAlwaysKeepsTheBooks`
  carry the theorems over to the run's own specification; for the fills that needs
  their assumptions for the instance (`FillsAssumed`).
* `DerivativesStreamsProofs`: `StreamsTypeCorrect`, `OneCollector`,
  `CoverageAlwaysReal`, `OverlaysArePointInTime`. As long as no heartbeat was found stale, the directory
  belongs from `mkdir` to `rmdir` to one process, and the owner file is absent or
  its own (`FreshLock`); only who holds the lock has a worker (`CollectorsHold`).
  Coverage needs that whenever the row has a `connected_since`, someone answers for
  it: a worker connected as long, or one that is about to write the end
  (`SinceIsReal`), for any number of collectors at once.
  The signals: a row is as old as its snapshot (`RowsAreDated`), and a snapshot is
  available when its fetch has ended, by a clock that is past the cutoff of every
  decision that has begun; so a capture that is not yet storing when a decision reads
  stores only rows of a later time (`NotYet`), and what is known at a cutoff does not
  change by them (`KnownStays`). That the constructor never rejects the overlay of
  what is known (`KnownIsSound`) is part of it. No assumption on a constant is needed.

`TypeCorrect`, `LedgerTypeCorrect`, `RebalanceTypeCorrect`, `ObservationTypeCorrect`
and `StreamsTypeCorrect` are theorems only; no run repeats them. Every inductive
invariant was first checked by TLC with the configuration of the component's run.

Model-checked only:

* liveness (`ScopeIsFreed`, `OutcomesAreFilled`, `ExperimentCloses`,
  `TwoCollectorsResolve`, `CollectionResumes`), because fairness and `ENABLED` are
  outside the proof system's reach;
* the properties that `MCAlgorithms` states itself, whose definitions are recursive
  operators or folds over sets and sequences of which the property needs every
  element (`ReportIsFixed` and `OverlayIsPointInTime`, of the same run, need none and
  are proved).

## 5. Not modelled, and what is left

Left out for good: formatting, logging, plotting, request parsing, the confidence
intervals by bootstrap, the regressors, the raw archive of exchange responses and
the spacing of requests; the health, report and diagnostics of the observation,
which only read; the batch Bitcoin research, the core research platform and the
notebooks, which are sequences of pure steps run by hand. The signal and
hypothesis registries are one check and one write per call and nothing in the
engine reads them; two registrations at once could reset `oos_exposed_at`. The
observation and derivatives repositories are modelled on SQLite only: their writes
are single upserts or inserts that ignore conflicts, which PostgreSQL keeps.

A continuation would take up the composition of `PaperRebalance` and
`FrozenObservation` through `run_dynamic_lane`: no fill of an experiment's portfolio
outside its window, the route included.
