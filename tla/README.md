# Verification of the API-Football bronze ingestor

TLA+ models of the ingestor in `src/ingestor/`, model-checked with TLC on small
instances, and theorems about them proved with TLAPS for every instance.
`PROJECT.json` lists the components, runs, mutants, source lines, findings,
hazards and theorems this document explains.

## The system

One process, `ingestor ingest`, started by a daily schedule or by hand, pulls
JSON from API-Football into Postgres:

| Component (code) | State it keeps | Operations | Talks to |
|---|---|---|---|
| Runner (`orchestrator/runner.py`) | none but its stack; the run's row | start or resume, `/leagues`, Phase A, Phase B, verdict, projection, handler of a crash | everything below |
| Phase A, Phase B (`phase_a.py`, `phase_b.py`) | outcomes and counters under a lock; an executor's queue | one task per (league, season), one per (fixture, endpoint) | store, fetchers, dead letter |
| Checkpoint store (`checkpoint/store.py`) | `ingestion_runs`, `ingestion_checkpoints` | `start_run`, `heartbeat`, `finish_run`, `is_succeeded`, `mark_*` | pool |
| Dead letter (`deadletter.py`) | `dead_letter` | `record_failure` | pool |
| Fetchers (`fetchers/`) | none | an API call, then `write_bronze` | client, bronze writer |
| Bronze writer (`db/bronze_writer.py`) | `bronze_*`, `bronze_latest_hash` | `write_bronze` in the caller's transaction | Postgres |
| HTTP client, retry, validation (`http/`) | none | `get`: acquire, request, observe headers, validate, retry | limiter, API |
| Rate limiter (`http/rate_limiter.py`) | two deques of timestamps under a lock | `acquire`, `observe_headers` | clock |
| Selection (`selection/`) | none (pure) | `select_leagues`, `select_fixture_ids` | - |
| Projection (`projection.py`) | `apifootball_events` in another database | read the newest catalogues, replace the table | both pools |
| Heartbeat (`heartbeat.py`) | a stop event, a daemon thread | tick, stop | store |
| Connection pool (`db/connection.py`) | borrowed and free connections | `connection()`: commit or roll back | Postgres |
| Migrations (`db/migrations.py`) | `schema_migrations` | apply what is not recorded | Postgres |
| Command line (`cli.py`) | none | parse, guard, run | runner |

What is hard, and what must be right:

- **Runner, phases, checkpoints.** Tasks interleave between their database
  calls; every call may fail, or commit with its acknowledgement lost; the
  process may die between any two; a later one resumes with other arguments.
  *A checkpoint never says more than the bronze tables hold; the verdict is
  true of the tables; work that is done is not redone; the projection is built
  from complete work only; an API failure is its task's own; a process ends.*
- **Rate limiter.** Threads claim slots and responses pad the deques, in any
  order; a sleep is computed before, and over after, the deques have changed.
  *Neither window is ever exceeded, nobody sleeps for nothing, and a finite
  number of calls are all served.*
- **Bronze writer.** A compare-and-append of several statements, under row
  locks that exist only for rows that exist, with timestamps of the beginning
  of a transaction. *It is atomic, appends only what has changed, and what
  readers take for the newest row is what was written last.*
- **Client.** Retries, each with a new slot, of several threads over one
  limiter; failures that come as a 200. *Data is returned only from an accepted
  answer, what is transient is retried and nothing else, a server's hint is
  honoured, every call ends.*
- **Heartbeat, pool.** Workers, main thread and heartbeat borrow from one pool
  that raises when it is empty; a tick may outlive the join that waits for it.
  *The pool suffices and gets everything back; the run's row is not touched
  after its verdict unless the join gave up; nobody waits for ever.*
- **Migrations, projection.** Several processes on one database, in the middle
  of each other's DDL, or of a table's replacement. *The schema is applied in
  order, whole and once; the matcher's table is of one moment.*
- **Selection, command line.** Options narrow each other; payloads age while
  Phase A runs. *Work is planned for what was asked; no finished fixture slips
  between the windows of two runs.*

## Modules

| Module | What it is |
|---|---|
| `Runner`, `MCRunner` | the runner, both phases, checkpoint store, dead letter, bronze log and projection gate as one system |
| `RunLedger` | abstract: the life of runs and tasks in the tables; `Runner` implements it |
| `RunnerClaims` | what the repository's documents say of a run and the code does not keep |
| `RunnerProofs`, `RunnerLedgerProofs` | inductive invariant; refinement of `RunLedger` and of `BronzeLog`, progress, where the claims hold |
| `RateLimiter`, `MCRateLimiter`, `RateLimiterProofs` | the limiter and the use that is made of it |
| `Client`, `MCClient`, `ClientProofs` | `get` with its attempts, over `RateLimiter` (which it extends) |
| `BronzeLog` | abstract: one payload log with an atomic compare-and-append |
| `BronzeWriter`, `MCBronzeWriter`, `BronzeWriterProofs` | `write_bronze` statement by statement, shown to implement `BronzeLog` |
| `Lifecycle`, `LifecycleProofs` | the threads of a process, its pool, its heartbeat and its end |
| `Migrations` | `apply_migrations` by several processes |
| `Processes`, `ProcessesProofs` | `Migrations` carried on to ingestion and projection |
| `Planning`, `MCPlanning`, `PlanningProofs` | from the command line to Phase B's list |

How they fit: `Client` extends `RateLimiter` and refines it; one `Fetch` of
`Runner` stands for one `get` of `Client` and one write of `BronzeLog`: what a
task's rows in `Runner` are, seen alone, is a behaviour of `BronzeLog`
(`BronzeIsLog`), as is what the statements of `BronzeWriter` make of them
(`LogImplemented`), so the two levels meet in that module.
`Runner` goes into the tables and failures of one process after another,
`Lifecycle` into the connections and threads of one, `Processes` into several
at once, `Planning` into what the selection of `Runner` may be.

### Runner and RunLedger

*Correspondence.* `runs`, `ck`, `bronze`, `deadLetter` are the tables
`ingestion_runs`, `ingestion_checkpoints`, `bronze_*`, `dead_letter`; `snapshot`
stands for `apifootball_events` (which process built it). `pc` is the main
thread, `tpc` each task, `payload` the catalogues in `PhaseAResult.outcomes`.
`works`, `window` and `fixtureIds` are what this process selected. Every
`with pool.connection()` is one step, since nothing else sees a transaction
before it commits, and ends as one of `DbOutcomes`: `"ok"`; `"error"`, rolled
back and raised; `"lost"`, committed and raised. Each step of `task`/`run_one`
is an action (`TakeTask`, `LoadLatestPayload`, `MarkPending`, `Fetch`,
`MarkSucceeded`, `MarkFailed`, `RecordFailure`); an exception outside the `try`
leads to `"raised"`, upon which the executor's queue is cancelled
(`CancelQueued`), what runs is awaited and the phase aborts (`AbortPhase`).
`Exit` forgets what the process held, on every way out, `Crash` included.

*Abstractions.* A catalogue is the set of its fixtures with an eligible status;
the time window and coverage flags, which depend on the clock and the
arguments, are an arbitrary set per process, and so is the league selection
(`Planning` has both). A body at fixture grain is never read back, so one value
stands for all. The task counters only matter through `failed == 0`. The
executor's queue is unordered. `write_bronze` is atomic here: `BronzeWriter`
shows that it is. `bronze_leagues` is left out because nothing reads it.

*The ledger.* `RunLedger` says what the tables promise whoever resumes a run: a
task is recorded as done only once its payload is stored, what is done is not
begun again, `partial` needs a failed task, what is dead-lettered had failed.
It knows neither processes nor threads nor faults. `Fail` is possible from
`succeeded` too: the caller of a `mark_succeeded` that committed unheard marks
the task failed.

*Not in it.* Two processes at work on one *run* at once (a run resumed while
alive). Exceptions from malformed payloads in `extract_fixture_records`
(they would crash the run as a failed call does). A keyboard interrupt that
drains the executor before it leaves (`Crash` is a kill).

### RateLimiter

`log` is every timestamp ever appended to a window's deque, `head` how many
have been popped, so that proofs can speak of what is gone; the deque is
`log` from `head + 1`. Each lock section is a step: `Claim` or `Wait` of
`acquire`, and one per window of `observe_headers`, with any report of
`Reports` in either. Between a claim and the arrival of its request up to
`SendDelay` passes. Time is an integer; the one effect of floating point that
matters, the truncated quotient of `_reconcile`, is a choice between the exact
result and one less. The floor of a sleep, `max(wait, 0.001)`, is one tick
(`SleepUntil`); it never adds to a wait that was computed right
(`WakeAtBounds`). `granted` and `arrivals` are history, read by properties
only.

### Client

An attempt is what `_attempt` does: claim, request, `observe_headers`,
validation. `call` is where a thread's `get` is, `tries` its attempts, `until`
the end of the retrier's sleep. An answer is its status, its `Retry-After` and
the class of its body: the entries of `errors` (none, some, one that looks like
a rate limit) or no object at all. The random exponential backoff is any
element of `Backoffs`; a hint replaces it, cut at `HintCap`, unless it is
unreadable or negative. `ClientTick` is the limiter's `Tick`: time passes
whatever the threads are at, while they sleep and oversleep, while a slot is
claimed and its request not yet at the API, and while a request waits for its
answer. So entries expire, and other threads claim, under a request in flight.

### BronzeLog and BronzeWriter

One (endpoint, request_params), written by processes whose transactions may
overlap: a scheduled run and a manual backfill do. Each statement is a step,
and `locker` who holds the row of `bronze_latest_hash` to the end of its
transaction. While there is no row `SELECT .. FOR UPDATE` neither waits nor
locks, and only the upsert's unique key makes writers meet. `began` is `now()`,
the time of BEGIN, which orders the readers' `ingested_at DESC`. A failed
statement, a failed COMMIT and a dead process all are `Rollback`; a COMMIT
whose acknowledgement is lost is a `Commit`. `FirstAlone` says that nobody else
is at a key while it is written for the first time; `met` is history: two
writers have overlapped on the key. `BronzeLog` is the promise, and the
operation `WriteBronze` of `Runner` uses. `last_checked_at` and its siblings
are left out: no code reads them.

### Lifecycle

`main` is the main thread of `run_ingestion` with every `with
pool.connection()` it opens, `hb` the heartbeat's thread, and a worker is a
connection it holds or not: what the transactions of a phase do is `Runner`'s
subject, here they last, and fail or not (`leaves` tells a failure that leaves
its task from one the task handles). `used` are the connections lent out; a
`getconn` raises when there is none left or the pool is closed. `rowLock` is
the row of the run, which a tick's UPDATE locks until its commit, so that
`finish_run` waits for it and it for `finish_run`. `JoinTimesOut` is the end of
`stop()`'s join, an interval and a second after the event, while a tick is
under way. `Handler` says where an exception goes from each point.

### Migrations and Processes

READ COMMITTED, a step per statement: `CREATE TABLE IF NOT EXISTS` finds the
table, makes it, or waits for the uncommitted transaction that is making it,
and raises if that one commits (a unique violation in the system catalogue).
The statements of one file up to the row in `schema_migrations` are one step,
and its tables one object: the first statement decides who waits. `maker` holds
the objects an open transaction has made or locked. `Processes` goes on with
ingestion, which only makes `bronze` newer, and the projection: one SELECT,
`CREATE TABLE`, `TRUNCATE`, inserts. A catalogue is its version number, and
`snapshot` the versions `apifootball_events` is built from; which fixtures of
a catalogue become rows (`_to_row`) is abstracted. `together` is history: two
projections have overlapped.

### Planning

A payload is told by the time it was fetched at, which decides each fixture's
status in it. `works` is the catalogue restricted to the entries that
`select_leagues` keeps, in order, because the last one of a league decides its
coverage. Lists of ids are sets: code treats an empty one and none alike. A
league's task reloads, fetches, or fails with its payload landed or not.
Unparseable text is refused as a range that is upside down is, and leaves
nothing. `seen` is history: what the last rolling list had looked at.

## Runs

| Run | Instance | What it shows |
|---|---|---|
| `RunnerFaults` | 1 run id, 2 leagues, 1 fixture (4 tasks), 2 workers, 2 processes, all faults | types; `SucceededLanded`, `FailureIsolated`, `VerdictHonest`, `SnapshotBacked`, `ImplementsLedger` |
| `RunnerRuns` | 2 run ids, 1 league, 1 fixture, 3 processes, lost acknowledgements and crashes | `SucceededNotRedone`, `PhaseBCoversCatalogue` where runs share bronze rows |
| `RunnerEnds` | 1 league, 1 fixture, 2 processes, all faults, fair | `AttemptEnds`, `RunSettles` |
| `RateLimiterSafe` | 2 threads, 2 calls per 3, 3 per 5, delay 1, unbounded time | types, `WindowRespected`, `ArrivalsRespected`, `NoNeedlessSleep` |
| `ClientCalls` | 2 threads, 2 calls of `get`, 1 per 2 and 2 per 3, 2 attempts, 9 kinds of answer, delay 1, 1 tick of lag, 16 ticks in all, fair | types, `OutcomeJustified`, `RequestsHaveSlots`, `HintHonoured`, `CallEnds` |
| `BronzeWrites` | 3 writers, 2 payloads, 4 transactions, key known or its first write alone, fair | types, `ReadersSeeLatest`, `ImplementsLog`, `WriteEnds` |
| `LifecycleThreads` | 3 workers (a pool of 6), 3 transactions a phase, all faults, fair | `NeverExhausted`, `ConnectionsReturned`, `LateOnlyIfAbandoned`, `HeartbeatLives`, `ProcessEnds` |
| `ProcessesTogether` | 2 processes, 2 files, 2 leagues of up to 2 versions, all faults, fair | types, `AppliedInOrder`, `AppliedOnce`, `SchemaCompletes`, `SnapshotOfOneMoment`, `SnapshotAdvances`, `ProcessesEnd` |
| `PlanningLists` | 2 leagues, 2 years, 5 fixtures, 9 command lines (2 refused), 2 catalogues, 2 settings, 5 instants, days of 2 | types, `OnlyAskedFor`, `WholeDays`, `CoverageOfItsSeason`, `NothingSlips` |

*Bounds.* Two processes are the least with a resumption; three processes with
two run ids let another run write between a run and its resumption. Two workers
on two leagues give every interleaving of two tasks, one task queued behind
another and a failure next to a success; a fixture gives Phase B its two tasks
per fixture. The limiter's windows are chosen so that each one is the binding
one at times, and there are more calls than either takes; the `VIEW` of
`MCRateLimiter` identifies states that agree on the ages of what is still in a
deque, the time left to sleep or send and the history younger than a day: every
guard and property depends on differences to `now` only, and older history
cannot violate anything any more, so unbounded time is covered by finitely many
states. In `ClientCalls` two calls with a retry each want four slots where
three time units offer two, so each window makes someone wait and the last
attempt is reached; hints lie below, at and beyond the cap, or are negative.
The clock of `MCClient` is bounded twice, since liveness forbids a `VIEW`:
ticks that find a thread able to go on (a request under way, a claimed slot, an
overslept sleep or backoff) are `MaxLag` in all, on any threads at any time;
and none pass beyond `Horizon`, where a call that has not ended is stuck, so
that `CallEnds` holding shows the horizon to be far enough. The latest any call
ends is tick 10. `MaxLag` and `Horizon` are the instance's alone: the proofs
are about `ClientSpec`, whose clock has no bound. Four overlapping transactions
of three writers allow one to hold the row, two to wait, and another round. A
pool for three workers is the smallest that is not the constant 4; more work
per phase only repeats its states. Two files are the least where one can be
applied and another not, and two versions the least where a snapshot can go
back. `PlanningLists` has fixtures before, in and after each window, one
without a kick-off, a league listed twice, and time enough for a fixture to be
seen unplayed and finished. `AllDone`, `AllEnded` and `Ended` stand for the end
that a bound brings, so that TLC's deadlock check stays on everywhere.

*Symmetry* (leagues, fixtures, run ids) is used where safety only is checked.

*Fairness.* `Runner`: a process that is up runs its threads (weak fairness of
the main thread and of each task); nothing makes anybody launch, resume or
kill one. `Client` (`FairMCSpec` of `MCClient`): threads are scheduled, time
passes, and a request is answered or times out, since httpx is given a timeout. `BronzeWriter`,
`Processes` and `Lifecycle`: threads are scheduled and a statement that need
not wait is executed; launching, news and the database's failures are not fair,
so that nobody gets on only because something fails. Weak fairness is what an
operating system's scheduler gives to runnable threads, and every guard that
another thread can falsify is a wait for a lock, which Postgres grants to
someone; no property needs more.

### Disagreements with the documents

Three runs end in a counterexample:

- `ClaimOthersKeepRunning`: a database error in `is_succeeded`, `mark_pending`
  or `mark_failed` cancels the leagues still queued (`phase_a.py:3-4` says
  other leagues keep running).
- `ClaimResume`: a resumed run plans anew, and may end `succeeded` with a
  failed checkpoint it never retried (`docs/REBUILD.md:49`,
  `docs/ROADMAP.md:87`).
- `ClaimIdempotentWrite`: two processes that write a key for the first time
  both insert the same payload (`README.md:139`).

Each of the three is true under a condition, and that is proved: other leagues
keep running as long as no call of the database fails
(`OthersRunIfDbHolds`), a run that no process resumes skips nothing, whatever
fails (`NothingIsSkippedUnresumed`), and the same payload is inserted twice in
a row only where two writers have met on a key's first write
(`DuplicatesTakeTwo`). So the counterexamples show the only ways to it.

Others can be read off a definition, or are conditions of a property, and have
no run of their own:

- `README.md:15` says that every run is recorded in `ingestion_runs` and every
  call given up on in `dead_letter`: `ResumeRun` takes an id that has no row
  and creates none, and a failed `FetchLeagues` goes to `HandleCrash`, which
  records no dead letter.
- `README.md:42` has the heartbeat tell hung runs: it lives as long as the body
  does (`HeartbeatLives`), so it tells dead processes, not stuck ones.
- `projection.py:51` and `phase_a.py:132` take the newest `ingested_at` for the
  last write: true unless two writers have met on the key (`ReadersSeeLatest`);
  copies of the last write are then skipped as unchanged.
- `errors.py:43-45` says that notices of the rate limit among the `errors` of a
  200 are not special-cased; `validation.py` promotes them to a retryable
  failure (`RateLimited`).
- `client.py:89` names subclasses of `HttpError` as what is raised; after the
  last attempt a transport error is raised as it is (`NoAnswerComes`).
- `fixture_filter.py:7` and `:81` bound the rolling window by now above, which
  the code does not (`InWindow`); a fixture that is over has begun, so nothing
  of the default statuses depends on it.

## Proofs

For every value of the constants, from the named assumptions of each module.

- **`RunnerProofs`.** `IInv` is `TypeOK`, `SucceededLanded`, and two
  strengthenings. `TaskTruth` says what each program point of a task implies
  of the tables: a task about to be marked `succeeded` has its payload in
  bronze, one that has landed or was skipped is checkpointed `succeeded`, one
  that counts as failed is checkpointed `failed`. `PlanTracked` says that the
  tasks of the executor are those of `works` and `fixtureIds`.
  `SucceededLanded` alone is not inductive, since `MarkSucceeded` must know
  what `Fetch` did. From it: `TypeCorrect`, `SucceededIsLanded`,
  `VerdictIsHonest`, `ProjectionIsBacked`, `SucceededIsNotRedone`, the last
  three as action properties.
- **`RunnerLedgerProofs`.** On top of it, each action maps to a step of
  `RunLedger` or leaves its tables alone (`LedgerImplemented`); each reload or
  fetch leaves the newest catalogue in `payload` (`CatalogueIsCovered`); a
  failed task disturbs no other and is marked before it is buried
  (`FailuresAreIsolated`). `BronzeIsLog`: only a fetch that lands writes a
  task's rows, by the append of `BronzeLog`. `ProcessGoesForward` orders the
  points of the main thread and of a task, and every step takes one of them
  on; `ProcessIsNeverStuck` needs that tasks are only cancelled where one has
  raised (`CancelledForCause`); `NoRunIsLeft` is about runs without a fault.
  `OwnTasksOnly`, that a run which is not resumed has checkpoints of its
  process's own tasks only, gives `NothingIsSkippedUnresumed`.
- **`RateLimiterProofs`.** `LogSorted`, `DequeFits` (what was popped has
  expired, what is left fits the limit), `LogSpaced` (entries `limit` apart
  are a window apart, padding included) and `GrantsLogged` (each claim has an
  entry of its own, in order). A new entry is at least `limit` places after
  any popped one and less than `limit` after any that is left, which carries
  `LogSpaced` over claims and padding alike; `WindowIsRespected` follows for
  any threads, limits, windows and headers. `SleepIsNeeded`: the entries that a
  sleeper counted are still there, and not expired, as long as it is told to
  sleep (`SleepBacked`). `ArrivalsAreRespected`: requests overtake each other,
  so an arrival cannot be paired with the claim of the same rank; `Traces`
  keeps an injective map from arrivals to claims of at most `SendDelay` before,
  and of any `limit + 1` consecutive arrivals two must, by the pigeonhole
  principle, come from claims `limit` apart (`ClaimsApart`). A sleep lasts
  some time and at most a window (`NobodyOversleeps`), and is long enough: at
  its end fewer than `limit` of the entries there were are left in either
  window (`WakesToASlot`), because pruning stops at the first entry that has
  not expired (`PrunedFits`) and no deque exceeds its limit
  (`DequesAreBounded`). Only newer entries can send a thread back to sleep.
- **`ClientProofs`.** `ClientIsLimited`: every behaviour of the client is one
  of the limiter's, so that `WindowIsRespected` carries over to retried calls
  (`RetriesAreLimited`), and with it what is proved of arrivals and sleeps
  (`RetriesArriveApart`, `CallsSleepInNeed`). `CInv` counts the attempts and
  justifies outcomes by the last answer (`OutcomesAreJustified`).
  `RequestsAreSlotted`: arrivals and claims in hand never outnumber the claims.
  `HintsAreHonoured`: a retrier that was given a hint sleeps till the hint,
  counted from the failure, and none sleeps longer than the cap or its own
  backoff (`NoServerParksUs`). `CallsGoOn`: a call goes on within its attempt,
  or to the next.
- **`BronzeWriterProofs`.** `Concluded`: what a writer concluded from its
  SELECT holds until it commits, since it holds the row or is alone. From it
  the refinement `LogImplemented`, on the condition `FirstAlone`, which is
  needed, as `ClaimIdempotentWrite` shows. `InTurn` (timestamps increase along
  the log as long as no two have met) gives `ReadersAreCurrent`; `TypeCorrect`
  needs no condition. `LastIsHashed`, that the hash is the last row's whoever
  meets whom, gives `DuplicatesTakeTwo`; `HolderGoesOn`, that a holder of the
  row waits for nobody, gives `WritersNeverStuck`.
- **`LifecycleProofs`.** `Lent` says who may hold a connection at each point of
  the main thread, so at most the workers, the heartbeat and, outside the
  phases, the main thread: `PoolSuffices` for every size the settings accept,
  and `AllReturned`. `Beating` ties the heartbeat's thread to the body
  (`BodyIsCovered`); a landed tick after the verdict implies that the join gave
  up (`SettledIsQuiet`). `NobodyWaitsInACircle` is about `finish_run`, the tick
  and the join; `ProcessGoesOnward` says that only the first exception takes
  the main thread back.
- **`ProcessesProofs`.** What a process found recorded or has passed is
  applied (`AlreadyThere`, `InItsPlace`), what it holds is not made yet
  (`MadeOrFound`, `Holding`), one file is open at a time (`OpenOnes`); hence
  order, completeness and once-ness of the migrations for any processes and
  files. What was read is of the past (`Present`, `NoNewer`), and as long as
  projections are kept apart (`Apart`) the snapshot only advances. Each kind of
  table is held at its own statements (`HeldAtHome`), so whoever waits, waits
  for one that does not (`ProcessesNeverCircle`); nobody comes to a file it has
  found recorded (`ComesToFile`), so nobody goes back (`ProcessesOnlyGoOn`) and
  who is refused was overtaken (`RefusalsAreOvertakings`).
- **`PlanningProofs`.** `Process` (a command line that was accepted passed its
  guards), `Kept` (what is planned came through the filter) and `Chosen` (what
  is on the list is eligible and in the window) give `AskedForOnly`,
  `DaysAreWhole`, `CoverageIsOwn`; `NoneSlips` is a matter of arithmetic: a
  fixture not over at the last look has begun less than its duration before.

All invariants and all action properties the runs check are proved.
Model-checked only: `AttemptEnds`, `RunSettles`, `CallEnds`, `WriteEnds`,
`SchemaCompletes`, `ProcessesEnd`, `ProcessEnds`: liveness under fairness is
beyond the prover. What such a property needs of the steps is proved without
a run of its own, for every instance: that somebody can always go on, in terms
of the actions' guards since `ENABLED` is out of reach too, and that every
step goes forward in an order with an end.

| Liveness | Nobody is stuck | Steps only go forward |
|---|---|---|
| `AttemptEnds`, `RunSettles` | `ProcessIsNeverStuck`, `NoRunIsLeft` | `ProcessGoesForward` |
| `CallEnds` | `WakesToASlot`, `NobodyOversleeps`, `NoServerParksUs` | `CallsGoOn` |
| `WriteEnds` | `WritersNeverStuck` | `WritersStepOn` |
| `ProcessEnds` | `NobodyWaitsInACircle` | `ProcessGoesOnward` |
| `ProcessesEnd`, `SchemaCompletes` | `ProcessesNeverCircle` | `ProcessesOnlyGoOn`, `RefusalsAreOvertakings` |

These are not the liveness properties: that a thread that can go on does is
the fairness TLC assumes, and two of the orders have no end of their own. A
call sleeps on as often as others take the slot before it, and a writer begins
as many transactions as it likes.

Proved without a run as well: the type invariant of `Lifecycle`,
`MigrationsInFull` (who is through with the migrations finds all applied), and
the theorems under conditions named with the disagreements.

## Not modelled

- Logging, and parsing of the DSN and the log level: no state of the system.
- The scheduler and the containers: they only decide when a process is
  launched, which the models leave open.
- Report builders and the legacy script (`docs/_build_*.py`,
  `docs/legacy/fix.py`): one-off tools, not part of the ingestor.
- `_to_row`, a pure transformation of a catalogue's entry.
- The API's own count across a restart of the process: the limiter starts empty
  (`rate_limiter.py:53`) and is corrected by the first headers; how far it
  overshoots is decided outside the code.
- A process that dies between `succeeded` and the projection
  (`runner.py:115`): the table keeps its previous contents until a later run
  succeeds; a resumed run is the way to rebuild it.

## Plan

The plan is carried out: the runner, its ledger, limiter, client, bronze
writer, lifecycle, migrations, projection and selection are modelled, checked
and proved about. What could still be added is of smaller weight: two processes
on one run id at once, and a keyboard interrupt that drains the executor.
