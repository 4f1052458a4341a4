# Verification of the Instant Strike Execution Engine

The engine reads NIFTY 50 prices, detects a move of five per cent within sixty
seconds, stores a simulated option trade and notifies the user through a webhook.
This directory holds TLA+ models of it, the TLC configurations that check them on
small instances, and theorems checked by TLAPS for every value of the constants.
Paths below are relative to `src/app/` of the repository.

## 1. The system

### Processes and how they interact

```
 broker ──ticks──► API process (x2)                Celery worker processes
                   feed consumer ─► pipeline        send_trade_notification ─► breaker ─► webhook
 POST /replay ───► pipeline ─► spike detector       notification_dead_letter
                       │  window, cooldown          reconcile_notifications
                       ▼                                  ▲          │
                     Redis ◄──────── claim key ───────────┼──────────┘
                       ▲                                  │
                   signal task ─► trade ─► Postgres ──────┤ flags of a trade
                                    └─enqueue─► broker queues ◄── Celery Beat
 POST /ask ──► model/tool loop ─► Postgres (reads)
```

* The API process is one asyncio loop. Every tick gets a task of its own, every
  signal a background task, every request its handler. Tasks interleave wherever
  they await.
* Workers are processes, each with its own copy of the circuit breaker. They share
  nothing but the broker's queues, the claim key `notif_sent:<trade>` in Redis, and
  the two flags of a trade in Postgres.
* Celery Beat puts a reconciliation task in a queue of its own once a minute.

### Components, their state and what makes them correct

| Component | State | Operations | Correct when |
|---|---|---|---|
| Notification tasks (`features/notifications/tasks.py`) | claim key, `notification_sent`, `notification_failed`, the queues | claim, fetch, post, mark, release, retry, dead letter | the user gets one message per trade, or the reason for another is known; flags are earned |
| Reconciliation (`.../reconciliation.py`) | the list read at the start of a round | scan, re-enqueue | every stored trade is settled in the end |
| Webhook client and breaker (`external/webhook/`) | state, failures, time of opening | before_call, on_success, on_failure, status | trips at the threshold, probes sparingly, opens in outages, closes after recovery |
| Price window (`external/redis/window.py`) | sorted set with a TTL | append, read, flush | the reference is the price of sixty seconds ago |
| Spike detector and cooldown (`features/spike_detection/`) | cooldown key | detect, set_cooldown | one signal per cooldown, none suppressed without one |
| Pipeline and replay (`features/ingestion/`, `api/routes/replay.py`) | tasks in flight, request in progress | ingest_tick, replay, dispatch | ticks of one source do not disturb each other |
| Trading service (`features/trading/`) | the trades table | strike, premium, side, commit, enqueue; list by page, summarise | the option fits the signal; the row precedes its message; readers can account for what they miss or see twice |
| Latency metrics (`metrics/latency.py`, `api/routes/metrics.py`, `scripts/benchmark.py`) | a bounded collector per API process | record, reset, statistics, verdict | a verdict is about the replay it was asked for |
| Feed consumer (`external/feeds/dhanhq/consumer.py`) | connection state, delay, watchdog | connect, reconnect, watch, stop | keeps trying on schedule, notices silence, never gives up by itself, stops when told |
| AI layer (`features/ai/`, `external/llm/`) | conversation, turn count, session | ask, model request, tool call | conversations stay well formed; every question ends unless the database never replies |
| Lifespan (`main.py`, `core/dependencies.py`, clients of Redis and Postgres) | what is open | start-up, shutdown | starts whatever is missing, closes what it opened |

Not modelled, and why: the earlier copy of the consumer (`external/dhanhq`, imported by
nothing), migrations (schema only), queue depths and the other routes that read one value
and format it, the reader of the settings, the schemas the tools are described with, the
generator of replay files and the webhook mock. `PROJECT.json` lists each with its files.

### What is hard

The behaviours a test hardly reaches are listed in `PROJECT.json` under `hazards`, each
with its line and the properties that would notice it go wrong: a worker dying between
the claim and the request or between the request and the flag; an answer lost after the
endpoint accepted; two retry chains for one trade; a list read before a loop and used
after its rows changed; a queue nobody consumes; a request that fails after the outage it
began in; ticks whose Redis commands interleave; a replay beside the live feed; a
silence measured with two clocks; a `stop()` during any wait; one tool of several
failing; a close that raises during shutdown; a Redis that comes back without its last
writes; a process that ends with a signal it has claimed the cooldown for; a database that
never replies to a statement without a timeout; pages, totals and summaries read while trades are committed; a verdict taken from another process's samples.

## 2. Modules

| Module | Models | Properties, in the run |
|---|---|---|
| `Notifications` | tasks, workers, queues, Beat, reconciliation, claim key, flags | `delivery`, `settled`, `one_message`, `compose_queues` |
| `NotificationsRestart` | `Notifications` with a Redis that restarts from what it had on disk | `settled` |
| `NotificationDelivery` | the abstract promise: one right to message per trade, and what gives it back | refined by `Notifications` |
| `NotificationsProofs` | proofs about `Notifications` | |
| `NotificationsRefinement` | proofs about the promise, its refinement, and restarts of Redis | |
| `Breaker` | the state of a `CircuitBreaker`, and its methods as wholes, as a single thread runs them | |
| `CircuitBreaker` | one breaker, statement by statement, several threads, an endpoint | `breaker` |
| `WebhookRetries` | one `Breaker` per worker composed with the retry schedule and requests that take time | `retries` |
| `CircuitBreakerProofs`, `WebhookRetriesProofs` | proofs | |
| `Ingestion`, `IngestionProofs` | live ticks and a replay through window, detector, cooldown, dispatch; proofs | `ticks`, `cold_start` |
| `FeedConsumer`, `FeedConsumerProofs` | connection loop, backoff, watchdog, stop, cancellation; proofs | `feed`, `silent_feed` |
| `Strike` | `calculate_atm_strike`, `simulate_premium`, side and option, as operators | |
| `Trading` | the trades table, `GET /trades` page by page, the summary tool | `api` |
| `Benchmark` | latency collectors, the replay request that fills one, `scripts/benchmark.py` | `api` |
| `Api`, `ApiProofs` | `Trading` and `Benchmark` together; proofs about both | `api` |
| `Assistant` | `POST /ask`: the model/tool loop of the groq, openai, ollama and langchain providers | `app` |
| `Application` | the lifespan, extending `Assistant`, which runs while it serves | `app` |
| `ApplicationProofs` | proofs | |
| `MCNotifications`, `MCRestart`, `MCIngestion`, `MCApi` | instances for TLC | |

The definitions before each module's actions named as faulty variants are mistakes the
properties are tested against (`mutants` in `PROJECT.json`); no specification uses them.

### How state and actions correspond to the code

**Notifications.** A task runs as one action for each call that leaves the process,
because a worker may die, and other workers act, between any two: `Claim` (SETNX),
`Fetch`, `Post` with its refusal and lost-answer forms, `MarkSent`, `Release` (the
handler's DELETE), `Publish` (the retry, or the dead letter after the last one), `Bury`,
`Ack`. With `task_acks_late` a message stays in `job[w]` until `Ack`; `Crash` puts it
back. `Scan` reads the list of unsettled trades past the grace period, oldest first and
at most `BatchLimit`; `Requeue` works through it without looking again. The set `key`
is the claim; `Expire` is its 24-hour TTL. `Consumed` says which queues the workers were
started with. The countdown of a retry is not measured here: a queued attempt may be
taken at any time. `WebhookRetries` measures it.

**NotificationsRestart.** Queues and claims are Redis's, flags are Postgres's. `Save` notes
what Redis has on disk, at any moment; `RedisRestarts` goes back to that: messages and claims
written since are lost, acknowledged messages and deleted claims since come back. Only the last
write before a restart matters, so one `Save` per restart is enough. Workers keep the task
they are at and go on with it. A restart is one of the bounded failures, and a claim it loses
is a right to message that comes back (`again`), like an expiry. Worker crashes are left to
`Notifications`: `Proceeds` has none, as `Crash` puts back a message that Redis may have lost.

**Breaker, CircuitBreaker.** `time.monotonic` is read as time since a moment, capped at the
reset period. In `CircuitBreaker` a step is one read or write of an attribute of the object, and
`pc[t]` the statement thread t executes next: `Read`, `Elapsed`, `Halve` and the second read in
`Refuse` or `Send` are the `state` property with `before_call` or `status` around it; `Reset`,
`Close` are `on_success`; `Count` and `Store` are the two halves of `_failures += 1`, and `Test`,
`Compare`, `Trip`, `Stamp` the rest of `on_failure`. Any other thread may come between two of them.
A request is `sent` and becomes `hurt` when the endpoint is down at any time of it; only then can
it fail. The history variable `raced` says that two methods have overlapped since the last success
that nobody overlapped. `Breaker` has each method as one operator on a record (`Seen` is the
`state` property), which is what a process with one thread makes of it.

**WebhookRetries.** Each worker is such a process: it runs one task at a time
(`worker_prefetch_multiplier=1` and a prefork pool). `Send` is `before_call` and the POST's
departure, `Accepted` and `NotAccepted` its end, up to `RequestTime` later, with `on_success` or
`on_failure`. A request begun in an outage can thus fail, and open the breaker, after `ComeUp`.

**Ingestion.** `Receive` creates the task of a live tick; `Add`, `Evict`, `Read`,
`NoSpike`/`Suppress`/`Emit` are the Redis commands and decisions in a task's order. ZADD
and ZREMRANGEBYSCORE are separate steps because the pipeline is not transactional. (The key's
TTL is set with the entry; the code sets it by the EXPIRE that follows the eviction, and a new key
has none until then. No property depends on it.)
`RedisFails` leaves a command done or not done with its answer lost. `StartReplay`,
`FeedLine`, `LineDone`, `EndReplay` are the replay request, whose ticks carry the
timestamps of the file. `Store` and `StoreFails` are the background task of a signal.
`ProcessEnds` is the end of an API process with any of the tasks and signals in flight: a
crash, or a shutdown, which waits for none of them.

**FeedConsumer.** What the loop does between two awaits is one action. A tick of the
clock is the base delay. `Measured` is what `loop.time() - _last_tick_time` evaluates
to: `ClockOffset` is the difference between Unix time and the loop's monotonic clock. `told`
records that somebody called `stop()` or cancelled the task.

**Strike, Trading.** Exact integers: prices in paise, premiums in thousandths of a paisa,
before the rounding to two decimals. Binary floating point is left out. `Store` is the commit
of `handle_signal`; `created_at` is the tick's time, so rows appear in any order of it. `Count`
and `Select` are the two statements of a page, `Pages` all results the second may have: rows of
equal time have no order of their own. The client is the one thing not in the repository: it
goes on to the next page, and stops at the total it was given or on a page that is not full.
`Aggregate` is one of the five statements of `tool_get_pnl_summary`, each of which sees what is
committed when it starts.

**Benchmark.** `Post` resets the collector of the process that serves the replay; what the
others hold is arbitrary. `SkipBlank`, `Refuse` and `Feed` are the lines of the file,
`Feed` with any latency, as `ingest_tick` records ticks it drops as well. `Answer` keeps what
`replay` says of the statistics, `Get` asks any process for them again, `GetFails` falls back to
the answer. `LiveTick` and `Reset` are the feed and other clients. `Percentile` is numpy's linear
interpolation in hundredths.

**Assistant.** `ToolReply` and `FinalReply` are the model's answers, `Report` appends
the message every tool call ends with, `QueryFails` is a query that takes the session's
transaction with it, after which every further query of the question raises
(`ToolRaises`). `DatabaseHangs` is a query, a commit or a rollback that never gets its reply: the
engine is created without a command timeout, and the request waits for ever. `NextTurn` and `LimitReached` are the head of the loop. `Leave` is
`get_db`'s exit. The langchain provider hands the loop to LangGraph, which runs the calls of a
reply at once, orders their results like the calls, and puts a text of its own in place of
calls at its limit; two calls that use the session together are two of which any may fail. What
a tool computes, the wording, and the prompt are left out. One
question at a time: questions share nothing that they change.

**Application.** One action per stage of `lifespan`, each with its failure. `Closing` is a
guarded close, whose exception is caught and leaves the resource as it is. Requests
are over before shutdown begins, as the server waits for them. `CancelFeed` ends the consumer's
loop, which is all that the cancelled task is; section 6 has what goes on.

## 3. Runs

All runs together fire every action. A run's constants are in its `.cfg`.

| Run | Bounds | Shows |
|---|---|---|
| `delivery` | 1 trade, 2 workers, 1 retry, one crash, one failing call, one late expiry, two refusals | type, `OneHolder`, `DuplicatesHaveACause`, `SentWasDelivered`, `FailedWasExhausted`, `QueuedIsCommitted`, and the refinement `KeepsThePromise` |
| `settled` | 2 trades, 1 worker, batches of one, one failing call or one restart of Redis | `EveryTradeIsSettled` under fairness, also for the trade a round had no room for and for one whose message or claim a restart lost or brought back; `DuplicatesHaveACause` with restarts among the causes |
| `one_message` | 1 trade, one failing call | violated: see 6.1 |
| `compose_queues` | the queues of `docker-compose.yml` | violated: see 6.2 |
| `breaker` | 2 calling threads and one that reads the status, threshold 3, reset period 3 | under any interleaving of statements: opens in a lasting outage, closes after recovery; while no methods have overlapped: open exactly from the threshold on, and requests at a tripped breaker are a reset period apart unless one is under way |
| `retries` | 2 workers, 2 trades, 4 attempts, 2 outages, requests of up to a tick | attempts are lost only in an outage or within a request and a reset period of it; every chain ends |
| `ticks` | 2 live ticks, one replay of 3 lines, window 2, one failing call or ended process | references are less than a window older than their tick while one source feeds it; signals a cooldown apart; spikes are suppressed in favour of a trade unless something failed |
| `cold_start` | 2 live ticks | violated: see 6.3 |
| `feed` | delays 1, 2, 4, 8, with and without the broker's package | back-off schedule; tries for ever unless told to end; a stop during the back-off ends it |
| `silent_feed` | a silence as long as the watchdog's limit | violated: see 6.4 |
| `api` | 5 signals, two of one time, prices at and a paisa beside an even and an odd midpoint; pages of 2; 2 processes, collectors of 3 samples, a file of 3 ticks, a refused and a blank line, two stray ticks or resets | what pages and summaries may miss or repeat; nearest strike, premium bounds, option in the money; the benchmark's verdict |
| `app` | 3 turns, up to 2 calls per reply, four providers | conversations well formed, the text returned is the last one, groq needs two turns, questions end unless the database never replies, start-up and shutdown get through every failure |

**Why the bounds are enough to see something.** Two workers are what it takes to have a
rival for a claim, a redelivery beside a retry, or a round beside a chain; the budget of
`delivery` allows one failure of every kind in one behaviour, so that they combine. One
retry makes a first and a last attempt. Two ticks and one replayed line in flight are
three tasks on one window, and the clock runs past a window and a cooldown. The breaker's
period and threshold of three tell "at", "before" and "after" apart. Three turns contain a
first, a middle and a last one, and two calls a first and a last. Five trades fill two pages and
begin a third; three samples are fewer than the ticks of a file and of the feed together, so that
the collector drops some. `QueueCap`, the budgets,
`Outages`, `Replays`, `Faults`, `Start`/`End` and `Strays`, `Signals` and `MaxCalls` are bounds of the models, not
of the code, and are named as such where they are declared.

**CHECK_DEADLOCK FALSE** is set where the system really stops: the ticks of a bounded run
are used up (`ticks`, `cold_start`), nothing is left that anyone consumes
(`compose_queues`), the process is over (`app`).

### Fairness

* `Notifications!FairSpec`: Beat ticks, time passes, the app's task and the workers run
  (weak fairness), and every queued message of a consumed queue is taken in the end
  although workers are busy in between (strong fairness per message, as Redis lists are
  emptied in order). Failures, crashes and late expiries are owed nothing and are
  finite. A claim expires in the end unless its trade is already marked.
  `NotificationsRestart!FairSpecR` is the same fairness; restarts are finite and not owed.
* `CircuitBreaker!FairSpec`: time passes, a thread inside a method goes on, a request ends
  (the client has a timeout), and callers keep calling. The endpoint's health is free.
* `WebhookRetries!FairSpec`: time passes, some worker runs each queued attempt, and a request
  ends. httpx bounds each wait of a request by `WEBHOOK_TIMEOUT_SECONDS`; `RequestTime` is what
  these come to together.
* `FeedConsumer!FairSpec`: tasks are scheduled and a connection attempt ends. A
  session may last for ever and ticks are not owed.
* `Application!FairSpec`: the loop runs start-up and shutdown. A model request ends: the clients of
  groq and openai, which all four providers use, time out by default. A statement of the database
  need not end, as nothing bounds it: `DatabaseHangs` may come instead of any tool's answer, of the
  commit or of the rollback, and is an end of its own for `EveryQuestionEnds`. The one reply that
  is assumed is that of Redis to the ping at start-up (`StartsAndStops`): `from_url` is given no
  socket timeout, so that a Redis that accepts connections and says nothing would stop the start-up
  there. No signal to shut down and no question is owed.
* The workers' calls of Redis and Postgres are taken to return or raise in the same way
  (`Notifications!FairSpec`).

## 4. Proofs

Every theorem is for all values of the constants permitted by the named assumptions of
its module (`TradesAssumption`, `MaxRetriesAssumption`, ... ), which TLC also evaluates.

* **Type and claim** (`TypeCorrect`, `ClaimIsExclusive`). The inductive invariant adds
  `JobOK`: a worker past the claim works on a send task that names a trade. Without it
  "the trade of w's job" is not known to be a trade. `OneHolder` is inductive with it: a
  claim needs the key absent, and whoever is between claim and release has it present.
* **`QueueFollowsCommit`** is inductive as it stands, relative to the type.
* **`SentIsEarned`, `FailureIsEarned`** need history: `MarkFollowsPost` (a worker about to
  mark has delivered) and `AttemptsAreCounted` (attempt k is queued or running only
  after k failed ones, and a dead letter only after all).
* **`Refinement`**. The abstract right to message is mapped to "the key is absent, or
  its holder has not delivered yet". The step simulation has one step per action and
  relies on `OneHolder`: the key's deletion gives the right back only if no other holder
  depends on it. The abstract invariant (`RightsBoundMessages`, proved of the promise
  alone) then gives `DuplicatesAreBounded` for the tasks.
* **`RestartDuplicatesAreBounded`**. After a restart the claim excludes nobody: two workers
  may be past it for one trade, and neither `OneHolder` nor the refinement holds. The bound
  stays, by counting: `EveryRightCounted` says that the messages of a trade, the workers with
  an unused right to send one (`Senders`), and the right a free key gives are together at most
  one more than the rights given back. A worker that claims, posts or releases moves a unit
  from one place to another (`CountMoved`); an expiry and a lost claim add one on both sides.
* **`RestartedQueueFollowsCommit`, `RestartedSentIsEarned`, `RestartedFailureIsEarned`**. The
  other guarantees survive a restart unchanged, by the invariants above and `Earned`: what
  Redis has on disk is about committed trades and follows the failed attempts it counts. Queues
  and work in progress satisfy this when they are written (`ContentsEarned`), and it stays true
  because Postgres keeps trades and failures are never undone (`HistoryGrows`).
* **Breaker** (`BreakerTypeCorrect`, `TripsAtThreshold`, `OneProbePerReset`,
  `OneThreadNeverRaces`). For any number of threads, statement by statement. The type holds under
  every interleaving. The other two have the premise `~raced`: `Serial` says that at most one
  thread is inside a method and what it finds before each statement, `Apart` that a breaker has
  been open for no longer than since its last call, and that one that is half open with nobody
  calling is a whole reset period past it. The premise cannot be dropped (section 6), and with
  one thread it always holds (`OneThreadNeverRaces`), as in the deployed worker.
* **`BreakersOutlastNoOutage`** composes one breaker per worker with the retry chains. A request
  that has seen the outage has been under way since before it ended (`HurtInOutage`), so that an
  open breaker was opened at most `RequestTime` after the endpoint came up (`OpenedInWake`), and
  its reset period ends in time.
* **`RetriesTypeCorrect`** adds the types of the chains (`ChainsOK`). A chain that goes on has
  an attempt left (`RetryCounts`); its countdowns are powers of two (see below).
* **Ingestion** (`OneSignalPerCooldown`, `ReferencesAreRecent`, `SuppressionsAreCaused`,
  `IngestionTypeCorrect`). `CooldownCovers` says that the key's remaining time covers what is
  left of the time since the last signal; `Covered`, that a living key is the key of a signal
  whose trade is stored or about to be, unless something failed. `ReferencesAreRecent` has two
  halves. With live ticks only, `LiveReads` says that a task's own entry stays until the task
  has read, that after its eviction nothing too old for it comes back, and that the key lives
  long enough; `Timely` is the `Lag` that this rests on. With a replay only, `ReplayReads` says
  the same of one task, but allows the key to have expired, when there is nothing to compare
  with. `Start <= End` is the one assumption the proofs added: the clock has a range.
* **Feed consumer** (`ConsumerTypeCorrect`, `BackoffIsScheduled`). `Scheduled` carries the
  delay through the round that leads to a wait. Doubling a capped delay has to give the next
  capped power (`ScheduleDoubles`), for which powers of two are needed.
* **`ShutdownCloses`**: `Progress` says stage by stage what the shutdown has
  dealt with, and that a question in flight keeps the process serving.
* **`StrikesAreNearest`, `PremiumsAreBounded`, `SidesDecide`**: arithmetic of the rounding, by
  `Rounding`, `PremiumBounds` and `InTheMoney`; the invariant `AlwaysPriced` says that every
  row is the trade of a signal, and `EveryTrade` carries a fact about those to all rows.

* **Pages and summaries** (`ListingsAreComplete`, `RepeatsAreBounded`, `SummariesAddUp`).
  `Collected`, over all sets of newest trades no larger than what the client has been through,
  says that of those it began with it has seen all: a trade committed at a time of its own
  choosing pushes others down, and the set that includes them grows with it (`NewestInclude`,
  `PageFollows`). For summaries, `Consistent` takes each statement not yet made at its present
  count; a commit raises these alike (`Parts`), and only the later ones of those related.
* **`VerdictsAreEarned`**. Percentile 99 lies between two ranks of the sorted samples
  (`TheTwoRanks`, `PercentileIsBetween`), and as many samples are slow as lie above a rank:
  `PassingIsFast`, `FailingIsSlow`. `Measured` says that the slow ticks of the file are among
  the samples of the process that serves it, until a stray tick, a reset or the bound of the
  collector spoils them, and that a judgement once right remains so (`VerdictsStand`).
* **Conversations** (`CallsAreAnswered`, `LastWordIsReturned`, `GroqNeedsTwoTurns`,
  `ApplicationTypeCorrect`). `Talk` says where the loop stands: between replies every message
  is matched with its call, and while calls are carried out the last reply has as many results
  as the loop is ahead (`HalfAnswered`). A turn beyond the first follows results, and groq has
  tools on its first turn only. The process around it enters through `Progress`: no question
  is in flight while the process starts or stops.
* **`ApiTypeCorrect`** collects the type conjuncts of the invariants above.

Two things stand in for induction over data, which is out of the prover's reach. Least and
greatest elements come from the well-foundedness of the natural numbers (`WFMin` of the
library, in `Smallest` and `Largest`): the last text of a conversation, the samples at a rank.
And powers of two are the numbers of subsets (`FS_SUBSET`), which are natural numbers and
double when an element is added (`PowersDouble`).

**Only model-checked**: the liveness properties (`EveryTradeIsSettled`, `ClosesAfterRecovery`,
`OpensInOutages`, `EveryChainEnds`, `KeepsTrying`, `StopEndsTheWait`, `EveryQuestionEnds`, `StartsAndStops`),
because the prover handles neither fairness nor ENABLED. Every other property of a passing run
is stated by a theorem. The four violations of section 6 are counterexamples, which need no
proof.

## 5. Abstractions to keep in mind

* A trade that is not in the database is not a step of the task: `QueuedIsCommitted`
  shows that the branch is never reached, as no code deletes trades.
* The HTTP endpoint, Redis, Postgres, the broker and the language model are choices of
  outcomes, including a call that takes effect and whose answer is lost.
* Time is a small integer clock. The proportions that matter are kept: a window as long as
  its cooldown, a key TTL longer than the window, countdowns shorter than the reset period.
* `Lag` of `Ingestion` is an assumption: a live tick is through the pipeline before another
  window has passed. Nothing in the code enforces it.
* A history in which something failed excuses a lost signal (`SuppressionHasACause`), and any
  expiry of the claim one more message (`DuplicatesHaveACause`): the code gives nothing up to
  those points, and the properties say that there is no other loss and no other duplicate.
* The verdict of the benchmark compares exact percentiles; the code rounds them to three decimals
  (`latency.py:61`), which tells less than a microsecond apart.
* Celery's prefetching and result storage, SQLAlchemy's pools and asyncio's scheduling
  order are not modelled beyond the choices they allow.

## 6. Where the code and its documents disagree

Four disagreements have a run whose counterexample shows them.

1. **One message** (`one_message`; `tasks.py:142`). "The user never receives a duplicate
   message" (`tasks.py:99`). Any exception after the endpoint accepted the message, such as
   a late answer or a failing update of the trade, deletes the claim and retries.
   `DuplicatesHaveACause` says what remains true.
2. **Reconciliation's queue** (`compose_queues`; `docker-compose.yml:115`). "Beat
   reconciliation re-enqueues within 60 seconds of broker recovery" (`README.md:789`). The
   task is routed to `reconciliation`, and the only worker is started with
   `--queues=notifications,celery`.
3. **Cold start** (`cold_start`; `window.py:73`). "The first 60 seconds of live data
   produce no signals" (`README.md:888`). The oldest entry is returned however young.
4. **Silent feed** (`silent_feed`; `consumer.py:167`). "Reconnects after 5min"
   (`consumer.py:5`). The loop's monotonic time minus a Unix timestamp is negative. With
   comparable clocks the feed would still not be reconnected: the event is awaited only
   between connections, while a connected consumer loops at lines 131-134.

The models also contain, as ordinary behaviours without a run of their own:

* A crash after the request, followed by the key's expiry after 24 hours and a
  reconciliation round, sends a second message (`tasks.py:13` says "exactly one").
* A task redelivered after a crash between claim and request is skipped with the log line
  "already sent" although nothing was (`tasks.py:114`).
* A trade whose first chain is still retrying can be enqueued again by reconciliation;
  one chain may deliver and the other be exhausted, which leaves the trade both sent and
  failed. A trade that fails after a round read its list is enqueued in spite of
  `tasks.py:184`.
* The breaker calls itself "thread-safe (GIL-protected)" (`circuit_breaker.py:42`) and allows
  "one probe request" (line 6). Both are true of a process with one thread. With more, dropping
  `~raced` from the properties of `CircuitBreaker` gives counterexamples: an `on_failure` that
  reaches the threshold between lines 71 and 72 of an `on_success` leaves a breaker that is
  closed with the count at the threshold; its lines 78 and 79 after a whole `on_success` leave one
  that is open with no failure; a thread that reads the state between lines 78 and 79 finds the
  old `_opened_at`, makes the breaker half open and sends at once; two `_failures += 1` may count
  once. All threads that find the breaker half open send, raced or not. `ClosesAfterRecovery` and
  `OpensInOutages` hold in spite of all this.
* A request that times out after the endpoint has recovered counts as a failure and can open the
  breaker then: attempts are refused for up to a request longer than the reset period.
* A call refused by an open breaker costs the task a retry like any other exception,
  although `circuit_breaker.py:8` says the breaker prevents that; with the deployed
  schedule the first countdowns are shorter than the reset period.
* Eviction includes the boundary, so the tick exactly sixty seconds old is removed just
  before it would be read (`window.py:43`, `window.py:72`).
* A replay beside the live feed shares its window; a tick can then be compared with a price
  later than itself. `ReferenceIsEarlier` is therefore stated for one source. The reset
  of a replay deletes the window and not the cooldown, so a second replay within sixty
  seconds stays silent (`replay.py:70`).
* `stop()` does not end a connected consumer: the polling loop does not look at `_running`.
  The lifespan does not call it, and cancels the task instead.
* Shutdown cancels the consumer's loop and waits for it (`main.py:122-127`). The tasks made of its
  ticks (`consumer.py:154`) and of their signals (`pipeline.py:83`) are neither cancelled nor
  awaited, and Redis and the engine are closed (`main.py:131`, `137`) while they may use them.
* `init_engine` says "create and verify" (`engine.py:28`) and connects to nothing. Neither it nor
  `init_redis` sets a timeout for commands.
* With two API processes (`Dockerfile:48`) `GET /metrics/latency` may be answered by the one
  that did not serve the replay. Its collector can be empty, which counts as "SLA met"
  (`latency.py:52`), although `benchmark.py:5-6` calls this reading the authoritative one. The
  replay's own answer has the right statistics, but is only used when the request fails.
  `VerdictIsEarned` says when the verdict can be trusted.
* "p99 < 50 ms" (`metrics.py:26`, `latency.py:64`) is `<= 50`; `benchmark.py:24` says so.
* `ingest_tick` catches every exception, so a tick dropped by a Redis failure counts as
  `processed` in a replay and its latency as a sample; the "pipeline error" branch
  (`replay.py:187`) is reached by nothing `ingest_tick` does. The answer of a replay counts
  signals whose trades may not be committed yet, or never will be.
* A client that stops at `total` misses trades committed between that count and the page's
  rows, and one that pages on sees rows again when newer ones push them down; trades of
  the same `created_at` (two ticks of one file time) can change places between two pages.
  `NothingIsMissed` and `RepeatsHaveACause` say how far this goes.
* A summary's parts can add up to more than its total, as its statements do not share a
  snapshot (`SummaryAddsUp`).
* The repository's README says "AOF persistence is off in the default config" (`README.md:777`)
  and `docker-compose.yml:38` turns it on. Either way a restart may go back in time;
  `settled` covers both.
* `pnl` is written as zero and never updated, so the tool that ranks strikes by it ranks
  nothing.

## 7. Plan

Done, in this order: `Notifications` and its promise, with proofs; breaker and retries,
with proofs; ingestion; feed consumer; strike; assistant and lifespan; restarts of Redis and
of API processes; readers of the trades; the latency benchmark; the langchain provider.

Then the proofs of every invariant and every action property the passing runs check, and of
the safety of the notifications under restarts of Redis. Then the statements of the breaker one
by one, requests that take time, and a database that never replies.

What could follow:

1. Restarts of Redis with a worker that crashes, which needs the broker's unacknowledged
   messages as state of their own.
2. Binary rounding of premiums, now exact arithmetic.
