# Verification of boerse-dashboard-web in TLA+

boerse-dashboard-web keeps a private stock dashboard up to date: a FastAPI
backend, a Postgres database, Celery workers on a small NAS, and a web frontend.
What makes it hard is not one algorithm but the many processes that write the
same rows: workers with leases that die or lose them, planners that ask for the
same work again, full market runs that publish over what a small batch
published, notifications that are sent inside transactions, and job rows that
requests, workers and a reconciliation overwrite without locks. Beside them stand
machines that are sequential but run for years: the latch of a stop alert, the
market light over daily bars, the ledger of executions.

This directory models that core in TLA+, checks small instances with
TLC and proves the safety properties of the passing runs and both refinements for every
instance with TLAPS.

Paths below are relative to `src/`; `app/` stands for `backend/app/`.

## 1. Inventory

| Component | State it keeps | Operations | Talks to | Hard behaviour |
|---|---|---|---|---|
| **Report work queue** `app/repositories/refresh_work.py`, `app/workers/tasks/refresh_report_data.py`, `app/services/report_planner.py`, `app/services/filing_events.py`, `app/services/report_reclassification.py` | table `refresh_work_items`: one row per group and ticker with status, due date, priority, wanted revision, lease, attempts, last result | enqueue, wake_price_dependents, claim, claim_more, heartbeat, heartbeat_many, finish, reclassify_batch | planner, filing scan and market cycle ask; report workers claim; an operator starts the reclassification | unlocked read and later write of statements rows, leases lost and taken over, heartbeats from a thread, requests while running, starvation |
| **Assessment pipeline** `app/services/report_refresh.py`, `app/services/stock_screening.py`, `app/repositories/stock_assessments.py` | stored fundamentals, `stock_assessment_snapshots` with a dependency hash | refresh a report, request an assessment, change fundamentals aside (detail refresh, fundamentals job, manual edit), screen (batch, full, one ticker), publish | queue above; market cycle; detail refresh | changes without a request, reads in several transactions, publications in any order, requests lost with a dying worker |
| **Jobs** `app/services/jobs.py`, `app/repositories/jobs.py`, `app/workers/tasks/common.py` | table of jobs, Celery messages, redis locks | start, progress, finish, fail, cancel, reconcile | API, workers, scheduler | redelivery, cancelling a running job, reconciliation racing the worker |
| **Notification delivery** `app/services/notification_delivery.py` | one settings document: pending entries, ids seen, counts per day, last sent, summary slots | deliver (accept, refresh, group, cap, send, drop, summary) | position monitor, stop alerts, Pushover | sends before the commit, bounded queue, retries, grouping |
| **Stop alerts** `app/services/stop_alerts.py` | armed/triggered state per position | stop_transition, deliver_stop_alerts, rearm | delivery above | two transactions per alert, gaps in quotes, several ways to rearm |
| **Position monitor** `app/workers/tasks/position_atr_monitor.py` | monitor state per position | one run per interval | prices, delivery | long read-compute-write run |
| **Market light** `app/domain/market/ampel.py`, `regime.py` | state machine over daily bars | one step per day | market cycle | long sequences of days |
| **Trade ledger, broker import** `app/domain/portfolio/trade_ledger.py`, `app/repositories/tr_import.py` | trades, lots | import, fold trades into lots | portfolio | partial sales, corrections |
| **Portfolio** `app/services/portfolio.py`, `app/repositories/portfolio.py` | positions, cash | create, change, close, value | sell strategies | single transactions |
| **Sell strategies** `app/domain/sell/` | persisted ratchets `sell_state` | evaluate | monitor, portfolio | numeric |
| **Market data cycle** `app/workers/tasks/smart_refresh_market_data.py` | prices, run state | one phase after the other | providers, screening, queue wake-up | long sequential task |
| **Scheduler, queue health** `app/workers/scheduler.py`, `queue_health.py` | none | static timetable | all tasks | gives the fairness of the models |
| **Provider guard, data sources** `app/data_sources/` | cooldown per provider | fetch | all refreshers | external services |
| **Assessment engine** `app/domain/stocks/` | none | pure scoring | screening | floating point |
| **Settings** `app/repositories/settings.py` | documents by key | read, write whole documents | everywhere | lost update |
| **Beta access, journal, desk, workspace, 13F, industry groups, universes, API, frontend** | records | CRUD, imports, presentation | | single transactions |

What makes the modelled components correct:

* **Queue.** A result settles a row only if the row still asks for the revision
  the attempt began from; a row has at most one attempt that may settle it; a
  row whose worker died becomes claimable again; the wanted revision never goes
  back; everything asked for is checked in the end. A reclassification started by
  hand is the exception: it declares statements rows current unchecked, takes a row
  from a worker that claimed it after the page was read, and puts dates off, until
  the row is next requested or falls due.
* **Notifications.** What was reported as accepted is never lost; what was
  recorded as sent is never sent again; transitions of a line or rating never
  arrive backwards and the last one survives; daily limits hold; everything
  accepted ends as a message, in a summary or in the log.
* **Pipeline.** A settled assessment was computed from the newest fundamentals,
  except where a refresher died before its request, fundamentals were changed without
  one, or a screening that does not hold the row published over it (a
  market run, a batch that lost its lease); a matching dependency hash never hides an
  old assessment; everything published becomes current once the reports stop changing.

* **Jobs.** No job is executed twice at once, however often its message is
  redelivered; a job given up while it was queued never starts; a stock is
  refreshed once at a time; every job is over in the end, whoever died.
* **Stop alerts.** A latch opens only by a real recovery (or the day, a moved stop,
  the user); a crossing is announced once, and always; a rearm by hand is not
  undone by a cycle that was under way.
* **Market light.** A start day is earned, a rally lives above its floor, the
  negation flag tells the history of the start.
* **Ledger.** Lots behave like a queue of single shares; a sale never uses the
  purchases of another cycle and states a profit only when it is explained.

The hazards, each at its line and with the properties that cover it, are in
`PROJECT.json`.

## 2. Modules

| Module | Models |
|---|---|
| `RevisionLedger` | What the queue promises: wanted revision, revision of the attempt that counts, revision last checked |
| `RefreshWork` | The queue: every write to `refresh_work_items` while workers run, the reclassification included; leases, heartbeat threads, crashes, time |
| `AssessmentPipeline` | From stored fundamentals, requested or changed aside, to a published snapshot; uses the queue through `RevisionLedger` |
| `NotificationDelivery` | The notification dispatcher, with the position monitor and the flush task as its callers |
| `Jobs` | The rows of jobs, the requests that start, list and cancel them, the workers that run them, and the broker between them (external) |
| `StopAlerts` | The saved latch of one position and the monitor cycles that move it |
| `MarketAmpel` | The phase machine of the market light, in both logics |
| `ShareQueue` | What the ledger promises: a queue of single shares |
| `TradeLedger` | The allocation of executions to lots; refines `ShareQueue` |
| `MCRefreshWork`, `MCAssessmentPipeline`, `MCNotificationDelivery` | Definitions the `.cfg` files give to constants, symmetry sets |
| `MCMachines` | `Jobs`, `StopAlerts`, `MarketAmpel` and `TradeLedger` side by side, see the run `machines` |
| `RefreshWork_proofs`, `AssessmentPipeline_proofs`, `AssessmentPipeline_fresh`, `NotificationDelivery_proofs`, `Jobs_proofs`, `StopAlerts_proofs`, `MarketAmpel_proofs`, `TradeLedger_proofs` | Theorems and proofs |

Queue and pipeline compose through the ledger: `RefreshWork` is checked
and proved to implement `RevisionLedger`, and `AssessmentPipeline` instantiates
the same `RevisionLedger` for its queue (`Queue!Ask`, `Queue!Begin`,
`Queue!Drop`, `Queue!Settle`). Leases, tokens and clocks stay out of the pipeline.
The dispatcher and the stop alerts meet at one call: `StopAlerts` uses the
dispatcher through what `NotificationDelivery` shows of it, that its answer
(sent, queued, refused) is committed on its own and that it accepts one id once.

### RefreshWork and the code

| Model | Code |
|---|---|
| `row[k]` | a row of `refresh_work_items` (`app/db/models.py:28-45`); `status = "absent"` is no row |
| `held[w]`, `phase[w]` | the items a package worker has claimed; between `claim` and `claim_more`, or working (`refresh_report_data.py:53-87`) |
| `beat[w]` | the `keep_alive` thread of the worker lives (`:92-99`, `:157-164`) |
| `late[w]` | a `heartbeat_many` between its SELECT and its UPDATE (`refresh_work.py:176-184`) |
| `Enqueue`, `PlanBaseline`, `RequestRevision` | `enqueue` with the WHERE and SET of its upsert (`:23-46`), called with the revision `baseline` by the planner and with event revisions by the others |
| `WakeWaiting` | `wake_price_dependents` (`:49-107`) |
| `Claim`, `ClaimMore` | `claim`, `claim_more` with their ORDER BY (`:110-163`) |
| `Heartbeat`; `ReadHeartbeat`, `WriteHeartbeat` | `heartbeat` (locked), `heartbeat_many` (not locked, hence two actions) |
| `Finish` | `finish` with its token and revision checks (`:187-202`) |
| `sheet[k]` | what `reclassify_batch` has decided to write to a row between its SELECT and its commit (`report_reclassification.py:213-309`) |
| `ReadPage`, `Verdicts` | the unlocked SELECT of one page (`:232`) and what the loop may decide for a row as read (`:234-307`): nothing, only a reason, current, or a diagnosis |
| `WritePage`, `Reclassified` | the commit (`:308`): an UPDATE by primary key of the columns that changed |
| `BeatDies`, `Crash`, `Tick` | the thread returns at an exception; the process dies; time passes |

Every operation is one transaction and one action, except `heartbeat_many` and the
reclassification, which read without a lock and write later. The reclassification is no
part of the schedule: it is a Celery task for one-time maintenance
(`app/workers/tasks/reclassify_report_history.py`) and a script, started by hand while
the workers run. Its evidence (instrument types, forms, histories) is left open, so
any of its verdicts may meet any statements row that is not running as read. A
page that is not written, or is read again, is one whose process died. `declared[k]`
is history: the revision a row asked for when it was last declared current.
Abstractions:

* **Time is relative.** `due` and `lease` count ticks from now, so no clock
  grows without bound. Ages beyond the cap of the claim order only keep their
  order (`Older`): the code compares `due_at` exactly, and for rows older than
  the cap only that order has an effect. A date on a `sheet` stops at the cap (`Aged`):
  one that is written later than that comes out younger, by an order among rows
  that are all past the cap.
* **Revisions are numbers**, ordered as the code orders the strings; `baseline`
  is the smallest. Which dates the planner computes is left open: any of
  `FirstDues`.
* **SKIP LOCKED** lets a concurrent claim pass over a row another claim has
  locked. Claims are atomic here, so two of them never meet in the middle; the
  outcomes are those of some order of the two, except that a claim that skips
  may take a less urgent row while the other rolls back.
* **The outcome of a check** is a free choice of `current`, `waiting_source` and
  `error`, with the delays the code chooses for each.
* A new token is one nobody holds and no other row carries (uuid4).

### AssessmentPipeline and the code

| Model | Code |
|---|---|
| `data[t]` | version of the fundamentals of `t`; grows when `refresh_report_group` stores a changed report under the advisory lock of the ticker (`report_refresh.py:159-299`) |
| `StoreAside` | the same column changed without that lock and without a request: `refresh_fundamentals_for_ticker` (`app/services/fundamentals.py:93`, called by the detail refresh and the fundamentals job), the manual edit (`app/services/stocks.py:387`), the metadata a reclassification rewrites |
| `refresh[w]` | a worker between the write, the reading of the clock and the request (`refresh_report_data.py:118-140`) |
| `want`, `began`, `done`, `owner`, `open` | the assessment row of the queue: ledger, token holder, whether it will be claimed again |
| `screen[s]` | progress of a `screen_universe` call and what it has read so far: cached snapshots (`stock_screening.py:49-50`), revisions (`:52`), then inputs ticker by ticker |
| `snap[t]` | published snapshot: version it was computed from, version of its dependency hash |
| `Publish` | `replace_snapshots` (`stock_assessments.py:90-136`), one transaction, deletes what a full run did not score |
| `FinishBatch`, `BatchAborts` | the three outcomes and the exception path of `_run_assessment_batch` (`refresh_report_data.py:154-201`) |

Content is a version number. Prices, ratings and settings, the other inputs of
the hash, are left out; they take the same path. A batch carries one ticker,
because `screen_universe` reads and settles each ticker for itself. Two readings
of the clock differ (microseconds); a clock that is set back is not modelled.
`stray[t]` is a history variable: since the row of `t` was last claimed, a request for `t`
died with its refresher, its fundamentals were changed aside, or a screening that
does not hold the row (`Strays`) left a snapshot of something else than the present
fundamentals, or none. A detail refresh assesses what it changed, but as a screening
without the row, so it is both a `StoreAside` and a run.

### NotificationDelivery and the code

| Model | Code |
|---|---|
| `state` | the settings document `notification_dispatch_state`: `box` is `pending` and `seen`, `counts` and `window` are `counts` and `last_sent`, `lines` is `event_counts`, `slot` and `retry` are `summary_slot`, `summary_waiting`, `summary_retry_at` |
| `tx`, `work` | a `_deliver` that holds the advisory lock (`notification_delivery.py:847-890`): how far `_dispatch_state` has come, and its deep copy of the state |
| `Deliver`, `Flush` | the monitor (`position_atr_monitor.py:99-110`) or the flush task (`flush_position_notifications.py`) gets the lock; new day, new counts |
| `Accept(a)` | the loop over new entries (`:385-438`): known, off, queue full, or queued with `Superseded` replaced |
| `Plan` | the loop over pending entries (`:444-488`) |
| `SendGroup`, `FailGroup`, `SkipGroup`, `OutOfTime` | one turn of the sending loop (`:491-595`), which ends early after eight seconds |
| `Clean` | what was switched off, or is for a summary that does not include it, ends in the log (`:596-622`) |
| `NoSummary`, `SendSummary`, `FailSummary` | the daily summary (`:623-760`) |
| `Commit`, `Rollback` | `db.commit()` (`:879`) and the exception path; a killed worker |
| `Save`, `MonitorDies` | the monitor saves what was accepted (`position_atr_monitor.py:112-113`) or dies before or in between |
| `told`, `known` | `accepted_alert_ids` in the hands of the monitor; transitions in its saved state |

A dispatch is a sequence of steps because the provider may fail at every message
and the process may die at every step. Two dispatches never overlap (advisory
lock), so the steps interleave only with the monitor's own save. Abstractions:

* **Alerts** are numbered in the order of their detection. An alert keeps its id
  when it is detected again, which holds for closing prices and assessments; an
  intraday crossing that is detected again from a newer quote has a new id and
  replaces its predecessor like any newer transition.
* **Time.** A tick is a stretch of the day; hours wrap round, and intervals
  (`window`, `retry`) count down. `cut` remembers whether an entry was accepted
  before the last summary time, which is all a cutoff is compared for.
* **Urgent** alerts are stops and escalations whose bypass is on for quiet hours
  and for grouping alike.
* **Settings** change between dispatches; the code reads them shortly before it
  takes the lock. Only the mode of a route changes, not limits or times.
* Left out: summaries that repeat sent items or list unchanged ones, the
  truncation of the list of finished ids to 5000, weekends (one long day).
* `ordinary` is a history variable, the recorded messages of a monitor day, kept
  apart from the counts of the dispatcher.

### Jobs and the code

| Model | Code |
|---|---|
| `status`, `silent`, `known` | a row of `jobs`: status, age of `heartbeat_at`, whether `celery_task_id` is set |
| `Write` | `update_job` (`app/repositories/jobs.py:223-298`): an unconditional update of the row, whatever its status is by then |
| `Ask`, `Reconcile`, `CreateJob`, `SendTask`, `NoteTaskId` | `start_job` (`app/services/jobs.py:110-198`), one action per transaction; `Ask` takes the admission lock and reads the stale rows, `Reconcile` fails them (`repositories/jobs.py:306-325`) and decides |
| `Stale` | `_job_is_stale` (`repositories/jobs.py:487-490`) |
| `Cancel`, `MarkCancelled` | `cancel_job`: revoke, then `mark_cancelled` |
| `Begin`, `CheckCancelled`, `Progress`, `EndTask` | what a task does to its row (`app/workers/tasks/common.py:14-66`) |
| `CallerDies`, `WorkerLost`, `TimeOut` | processes that die, the hard time limit |
| `Deliver`, `Return`, `Restore`, `Discard` | the broker (external, as configured in `app/workers/celery_app.py:15-34`): late acknowledgement, visibility timeout, expiry |

Two kinds of jobs stand for all types: `heavy` (a pool of processes with a hard
time limit) and `detail` (the refresh of one stock on the solo worker). `done`,
`skipped` and `failed` are one status, `over`. `ended` and `dropped` are history. A
tick is far longer than the sections between two transactions of a request, so no
tick passes inside of them; ages are counted up to the largest limit that is
compared with them.

### StopAlerts and the code

| Model | Code |
|---|---|
| `saved` | the saved state of one position: `latched`, `generation`, `recovery_since`, `last_seen_at`, `retry_at` |
| `Check` | the lock, the read and `stop_transition` (`app/services/stop_alerts.py:48-95`) applied to a copy |
| `Dispatch` | `deliver_notifications` inside `deliver_stop_alerts` (`:111-163`), committed by itself |
| `Save`, `FailCycle` | the commit of the latch; the exception path, or a monitor that dies |
| `Rearm` | `rearm_stop_alerts` (`:166-196`), under the lock of the position |
| `MoveStop` | the user's update of the stop (`app/repositories/portfolio.py:447-462`), under no lock |

Instants are kept as ages. The prices are told apart as the code compares them: at
or below the stop, between it and the recovery threshold, beyond it. `period`
stands for the daily and the interval policy; when the period is over is left open.
`below`, `told`, `lost`, `asked` and `calm` are history.

### MarketAmpel and the code

`light` is the state of the loop in `app/domain/market/ampel.py:519-899`: phase,
sessions since the anchor and the start day, floor, low of the start day, negation
and the two counters. One action per phase is the branch of the loop for that
phase. A bar is its low and its close; what the code concludes from averages,
volume, distribution days and market structure is a free choice of each day, so
the properties hold whatever these indicators say. `lowest` and `closedBelow` are
history. The sessions to a start (3 close to IBD, 5 otherwise, `:726`) and
`GREEN_CONFIRMATION_DAYS` (`:14`) are the constants `Offset` and `ConfirmDays`.

### TradeLedger and the code

One step is one row of `allocate_trades` (`app/domain/portfolio/trade_ledger.py:24-91`)
for one security: a purchase, a sale, a transfer in or out, a split. A lot carries
its remaining shares and whether its cost is known; the cost itself and the profit
are abstracted to "known" and "stated". `cycle` is history.

| Model | Code |
|---|---|
| `lots`, `group`, `last` | `lots[key]`, `groups[key]`, the last element of `events` |
| `outcome` | of the last sale: `event["allocations"]` with the part of each lot, `unallocated`, whether `pnl` is stated |
| `Held(ls)` | `sum(lot["remaining"] ...)` |
| `Served(p, lot)`, `Consumption(n, ls)` | one turn, and the whole, of the loop that takes a row's shares from the lots (`:66-84`, also `:38-43`); empty lots are dropped on the way, the code drops them at the end (`:44`, `:89`) |
| `Group`, `Restated` | `:53-55`; `:45-49` |

`Held`, `Consumption` and `Units` are recursive functions, so that the proofs can speak
of them. `Units(lots)`, the shares of the lots one by one, is what the ledger shows of
itself to `ShareQueue`.

## 3. Runs

| Run | Instance | Shows |
|---|---|---|
| `queue_single` | 1 statements row, 2 workers, 3 tokens, revisions 0..2, leases of 1 tick, retry table of length 2, 1 page of a reclassification, 1 fault | type, `SettledForItsRevision`, `SingleOwner`, `OnlyOwnerEndsRun`, `RevisionsAdvance`, `ImplementsLedger`, `RequestsAreChecked` |
| `queue_batch` | 2 assessment rows, 2 workers, batches of 2, leases of 1 tick | late unlocked heartbeats: `RunningIsRecoverable`, `SingleOwner`, `OnlyOwnerEndsRun` |
| `queue_order` | a statements and an assessment row, 1 worker, 1 fault, ageing cap 1 | claim order starves neither: `RequestsAreChecked` |
| `pipeline_reports` | 1 ticker, 2 refreshers, 2 batchers, 1 runner, 2 changes (requested or aside), 2 faults of all kinds (death, lost lease, unscorable ticker, aborted batch) | type, `SettledIsFresh` |
| `pipeline_market` | 1 ticker, 1 refresher, 2 batchers, 1 runner, 2 changes, 1 fault (also a lost lease) | `MatchingHashMeansCurrent`, `EventuallyFresh` |
| `messages` | a break, a recovery (for the summary at first) and a stop of one ticker, queue of 2, 1 ordinary message per day, days of 4 hours with a quiet one and two of trading, 2 faults, 1 change of settings | type, `AcceptedIsKept`, `NoSecondMessage`, `NeverBackwards`, `LatestSurvives`, `LimitHolds` |
| `ends` | a break, a recovery no summary includes and a score, no grouping, a line limit, queue of 2, 2 faults | `PendingEnds` |
| `machines` | see below | `OneExecution`, `DroppedNeverRuns`, `OneRefreshPerStock`, `EveryJobEnds`; `RecoveryIsReal`, `OneMessagePerCrossing`, `RearmStands`, `CrossingIsAnnounced`; `FloorHolds`, `NegationIsHistory`, `StartIsEarned`; `LastEventShowsHolding`, `CyclesAreSeparate`, `ImplementsShareQueue` |
| `first_miss` | as `queue_single`, leases of 2 ticks, no reclassification, no faults | finding 1 (expected violation) |
| `reclassified` | 1 statements row, 1 worker, 1 page of a reclassification, no faults | finding 2 (expected violation) |
| `old_break` | a break and a recovery whose route is off, no faults | finding 3 (expected violation) |
| `morning_news` | a break and a recovery, quiet hours that last until the session opens, no faults | finding 4 (expected violation) |

Why the bounds are enough to be interesting: two workers and three tokens allow a
takeover and a late answer of the replaced owner; two revisions above baseline
allow a request while a request is running; a lease of one tick is renewed in time by a
living thread and runs out under a dead one, and a takeover needs no more than that
one fault; one page of a reclassification is read at any moment and written at any later
one, so it meets a claim, a takeover, a request and a finish in between; two changes of a ticker make a
first and a second version, so that an older result can meet a newer one; two
refreshers on one ticker can stamp in the wrong order, and the runner publishes beside
two batches. Tickers meet in one place, a market run that publishes several; `Assess` and
`Publish` treat each for itself, and the theorem `SettledIsFreshCorrect` covers any number
of them. In `queue_batch` no fault
is needed: a batch finishes row by row, so a row the worker has finished is
still in the hands of its late heartbeat. In `messages` three alerts meet a queue
of two, a stop shares the ticker but not the subject of the other two, one hour of
trading lies on each side of the monitor day's beginning, and two faults allow a
failed commit and a dead monitor run after it. Days are not bounded: hours wrap
round, so all states of all later days are reached.

`machines` checks four components that share no state, so it does not compose them:
a behaviour is one of a single component, chosen at the beginning, while the
variables of the others keep their initial values. Its states are the disjoint
union of the four state graphs (423,047 distinct states), each component is checked
exactly as it would be alone, and fairness is stated for each in its own behaviours.

* Jobs: two detail jobs, or one heavy job, 2 requests at once, 2 deliveries of a message, limits of 1 tick, visibility timeout of 2,
  1 fault (Redis down, a lost worker or a dead request). One fault is enough for a
  redelivery, a lock without owner or a row without message; all other races
  (cancel against progress, reconciliation against a start) need none. Two detail
  jobs are needed for a second refresh of a stock.
* Stop alerts: 2 levels of the stop, recovery of 2 ticks with gaps of 1, quotes up to
  1 tick old, 1 failed cycle, 1 change by the user. A recovery is longer than a gap,
  so a missing observation can fall into it, and a failed cycle can be followed by
  one that is not.
* Market light: prices 1 to 3, 3 sessions to a start in the logic close to IBD
  and 5 in the other, 3 confirmation days. Three prices order a floor, a start day's low
  above it and a close between; all numbers of days up to the largest one asked for
  occur, and the number of days is not bounded.
* Ledger: 5 rows of 1 or 2 shares, 6 shares held. Four rows make two lots, a sale
  across both and a transfer; the fifth opens the next cycle.

Symmetry is used only in runs without liveness properties. Deadlock is checked
everywhere except in `pipeline_reports`, where all reports may have been changed,
requested and assessed, and in `machines`, where a ledger has been read to its end.

Each checked property has a mutant in its module (`Mutant:` comments): the
operator of the code with a plausible bug, under which the same run finds the
property violated.

### Fairness

`RefreshWork!Fairness`: time passes; the dispatch of report packages runs every
60 s (`app/workers/scheduler.py:77-81`), so a due row is claimed; a claimed
package runs to its end unless it dies; heartbeat threads beat. Faults, requests
and prices are not fair: nobody has to ask. `BeatsInTime` in `Tick` says that a
lease cared for by a living thread does not run out, because the thread beats
every 30 s and a lease lasts five minutes; a thread may die at any time
(`BeatDies`) and then the lease runs out under a worker that still works. The pages of
reclassifications are finitely many (`MaxPages`: maintenance by hand); a row one of them
put off by 90 or 365 days falls due again then, which is why `RequestsAreChecked` holds.

`AssessmentPipeline!Fairness`: the same dispatch claims open rows, running tasks
go on, and the market cycle runs again and again (`scheduler.py:82-93`). A
process never has more than finitely many faults (`MaxFaults`).

`NotificationDelivery!Fairness`: a dispatch goes on until it commits; the flush
task is due every 60 s (`scheduler.py:45-49`), and a tick is long against that, so
a flush happens in every tick unless the workers are away, which costs a fault.
Fairness of `Flush` and `Tick` is strong because the monitor may take the lock
again and again in between; Postgres queues the waiting for an advisory lock, so
each of them gets its turn. Detection, faults and changes are not fair.

`JobsFairness`: again and again nobody is inside a short section (`[]<>Quiet`: API
requests are answered, workers begin what they took, pool processes are gone at
their limit), and then time passes (`Tick`). Somebody keeps looking at the list of
jobs (`ListJobs`: the frontend polls it), which is what reconciles stale rows. A
detail refresh ends (`DetailEnds`): each of its requests has a timeout. It is strong
fairness for `Tick` and `ListJobs` because sections and requests disable them
again and again. Nothing is assumed of the broker: messages may wait for ever.

`StopFairness`: the monitor goes on, cycle after cycle (`scheduler.py:155-165`), time
passes, and a dispatcher that is asked again and again does not refuse for ever
(strong, since each refusal ends the cycle). It refuses while its queue is full, and
`PendingEnds` shows that the queue empties; while Pushover is switched off, in test mode
or without credentials (`notification_delivery.py:831-841`), which is assumed not to last
for ever, since nothing is announced to anybody as long as it does; and when its
transaction fails, which is a fault.

`RequestsAreChecked` is checked for equal priorities. With priorities further
apart than the cap on ageing (20, `refresh_work.py:119-121`) a steady supply of
urgent rows may starve an unimportant one; the code says so itself.

`SettledIsFresh` needs no fairness. It is checked and proved with lost leases and market
runs, and makes three exceptions, all in `stray`. None of them is repaired by the queue: a row
that is settled is assessed again only when its fundamentals change once more. The next
market run does repair them, which is `EventuallyFresh`. The late publications among
them, of a market run or of a batch that lost its lease, are no finding: `finish` refuses a
replaced token but `replace_snapshots` compares nothing, and
`docs/refresh-operations.md:43-49` lists generations with compare-and-swap among the
things that are not finished.

## 4. Findings

1. **The first retry for missing source data is not always the shortest.**
   `docs/refresh-operations.md:13`: "Bei noch fehlenden Quelldaten: erneute
   Versuche nach 2, 8, 24, 48, 96 und maximal 168 Stunden." The delay is chosen
   by `attempts` (`refresh_report_data.py:18-19`), which every claim increases
   (`refresh_work.py:129`) and no success resets; only `enqueue` does (`:37`), for a
   newer event or a baseline plan that brings a current row forward. A row whose routine checks were complete for a while starts late in the table. Run
   `first_miss`.
2. **A row can be current without ever having been checked.**
   `docs/refresh-operations.md:31`: "`current` bedeutet zuletzt erfolgreich geprueft und
   bis zum naechsten Termin nicht faellig." `reclassify_batch` sets this status, with a date
   90 or 365 days ahead, on a row whose instrument needs no statements (or whose
   foreign issuer has all it files), whatever its status is
   (`report_reclassification.py:285-288`), and looks neither at `checked_at` nor at the
   revision. Run `reclassified`: a planned first check is declared current. For these
   instruments no check may be wanted; but the same write, from a page read before, also
   lands on a row requested or claimed meanwhile, and
   that row then stays unchecked for its new revision until the next request or date
   (the exceptions in `SettledForItsRevision`, `RunningIsRecoverable` and
   `OnlyOwnerEndsRun`). `RequestsAreChecked` holds all the same.
3. **An old break can be sent after a newer recovery was accepted.**
   `notification_delivery.py:406-407`: "Keep the latest unsent transition for one
   MA/assessment subject. Otherwise an old break could arrive after a newer
   recovery." (also `docs/notifications.md:67-68`). An alert whose route is off is
   accepted before the branch that replaces older ones (`:388-399`), so the break
   stays queued. Run `old_break`; while no route is off the rule does hold
   (`NeverBackwards` speaks of queued and sent ones only).
4. **An alert detected outside its sending window can be sent as news.**
   `docs/notifications.md:65-67` sends such alerts to the summary. `_held_reason`
   asks for quiet hours first (`:105-110`), and only the reason of the window
   makes an alert one for the summary (`:480-481`). With quiet hours that last
   into the window (quiet until 9:00, own window from 8:00) the alert stays
   immediate. Run `morning_news`; without quiet hours the property holds.

## 5. Proofs

All theorems hold for arbitrary sets of keys, tickers, workers, tokens and alerts
and for all delays, limits and bounds that satisfy the named assumptions
(`ConstantsAssumption`, `PipelineAssumption`, `DeliveryAssumption`,
`JobsAssumption`, `StopAssumption`, `AmpelAssumption`; TLC evaluates them in the runs
of the module, like `LedgerAssumption`).

**RefreshWork_proofs.** The safety properties are not inductive. A row can only be
trusted not to be settled for the wrong revision if nobody else holds its token;
tokens are only unique if a fresh one avoids those in hand as well as those in
the table; and a crash or a last finish must leave the worker empty-handed. The
invariant is `Inv == TypeOK /\ RowsGood /\ SheetGood /\ DeclaredGood /\ TokensUnique /\
IdleHoldsNothing`:

* `RowsGood`: every row is well formed for its status: a running row has a token and a
  deadline and is due, a settled row was checked for its revision, an absent row is
  empty; a row declared current for the revision it asks for need not be due, nor
  checked. The unlocked heartbeat may write a deadline on any
  row, which is why the deadlines of rows that do not run are left open.
* `SheetGood`: what a reclassification is about to write belongs to a statements row that
  exists, and is coherent (`Coherent`: a mere reason keeps the status, a declaration makes the
  row current, a diagnosis is due). Nothing is said of the status the row has by now: the
  proof of `WritePage` has to show for every status that the row stays good.
* `DeclaredGood`: only statements rows are ever declared, so the other groups have no
  exception. A request raises the revision above the declared one, which ends it.
* `TokensUnique`: two items in hand with the same token are the same item of the
  same worker; an item whose token its row carries belongs to that row.
* `IdleHoldsNothing`: an idle worker holds no item.

`Invariance` proves it inductive, one step per action. `TypeCorrect`,
`SettledCorrect`, `RunningCorrect` and `OwnerCorrect` read the invariants off it;
`RevisionsCorrect` and `OwnerEndsRunCorrect` prove the action properties from it.

`LedgerImplemented`, the refinement: `Spec => Ledger!Spec` under the
mapping wanted revision, revision of the live attempt, revision last checked. A
claim, also of a batch, maps to `Begin`; a crash to `Drop` of all keys whose live
attempt the worker held; a `Finish` to `Settle`, to `Drop` or to a stutter. It
needs `Inv` so that the live attempt of a key is unique and `BeganFrom` well
defined.

**AssessmentPipeline_proofs.** `MatchingHashCorrect`. The hash is read before the
inputs and versions only grow, so every snapshot satisfies "dependency version at
most content version, content version at most the current data". The invariant
`PipelineInv` states this for published snapshots, for those a run has cached and
for those it is about to publish, and that the revisions a run has read are not
newer than the data. Without the part about what a run holds it is not inductive.

`TypeCorrect`, of the same module, is type correctness with all bounds. The hard part is
the clock: its range `0 .. MaxData * Cardinality(Tickers)` bounds the readings by the
changes there can be, although no action compares the two. The invariant counts: the
clock plus the refreshers that have stored a change and not yet read the clock are at
most the changes stored so far (`Counted`), the sum of `data` over the tickers. A store
raises both sides, a reading moves a refresher into the clock, a dying refresher lowers
the left. The sum over a set of tickers is a `Cardinality` of pairs, so no induction
over the tickers is needed.

**AssessmentPipeline_fresh.** `SettledIsFreshCorrect`: `Spec => []SettledIsFresh`, for any
number of tickers, refreshers, batchers and runs and with all faults. The property speaks
of rows at rest, and nothing in such a row tells why it
is fresh. The invariant `FreshInv` says of every ticker at every time that it is
`Covered` (a change has still to be requested, by a refresher whose stamp is or will be
later than the wanted revision, or it is stray) or `Sure`: its row is open and
nobody works on it, or the attempt began from an older revision and will be handed
back, or its batch is on the way to a result of the present report; or the row is
settled and the published snapshot is of the present report. `Sure` looks only at the
process whose token the row carries: whatever anybody else publishes is of the present
report or makes the ticker stray (`PublishedAside`), and what others have read does not
matter. `Dated` (stamps are readings of the clock, so a later reading wins) and `Tokens` (a
batch has in hand the row whose token it holds) carry it through the steps; reusing a cached
snapshot needs `PipelineInv`.

**NotificationDelivery_proofs.** What a dispatch does to its working copy becomes
true only at the commit, and a rollback forgets it, so no property of the
committed state is inductive alone. The invariant `Inv` says of both:

* `AcceptedIsKept` itself: what was reported or saved as announced is accepted in
  the committed state.
* `DispatchContinues`: the copy continues the committed state (accepted stays
  accepted, finished stays finished), what is about to be sent is pending in it,
  and what was sent was not finished in the committed state. `NoSecondCorrect`
  reads off the last part.
* `DetectedInOrder`: a transition is offered only after the ones before it were
  saved as announced. Together with `AcceptedIsKept` this is why an older
  transition cannot enter the queue behind a newer one.
* `NewestWaits` and `HasSuccessor`, of the committed state and of the copy: the
  queue holds at most the newest transition of a subject, and what was replaced
  has an accepted successor (`NeverBackwardsCorrect`, `LatestCorrect`).

`LimitCorrect` adds `Counted`: the recorded messages of the monitor day are in the
counts of the committed state, or there are none because its counts are of
another day; while a dispatch is open the copy has also counted what it has just
sent. This is what ties the reset, which is done by the next dispatch and not by
the change of day, to the messages that are really out. The theorem covers
recorded messages: a message whose commit failed may be repeated on top.

**Jobs_proofs.** Nobody locks a row, so nothing follows from its status alone. The
invariant `JobsInv` relates rows, messages and tasks:

* `Exists`: messages, tasks and requests speak of rows that exist, and what is over now
  is in the history.
* `Sections`: while a message is being sent its row is fresh, and of one request only.
* `InTime`: a queued row has not been silent for longer than its message is under way.
  This is why `GivenUp` holds: when reconciliation gives a queued row up, its
  message has expired or is gone (both limits are `queued_expiry_seconds`), and a
  worker throws it away (`DroppedCorrect`).
* `Single`: a running heavy task holds its message, delivered when the process began;
  with `TimeLimit < Visibility` the process is gone before the message is visible
  again (`OneExecutionCorrect`).
* `Ordered`: the holder of the admission lock creates a row only when all earlier
  refreshes of the stock were over (`OneRefreshCorrect`). The lock of a dead request
  runs out when time passes, which is not while another request is in its section.

**StopAlerts_proofs.** `StopInv` relates the saved latch, the copy of a cycle and the
history: the age of a recovery is at most the calm that was recorded, plus the
age of a quote (`Waited`); a copy is closed only if the saved latch is, and
a copy opened by recovery has the calm behind it (`CopyInv`); a cycle that announces
works on an open latch (`AlertInv`); as many messages as failed cycles, or one more,
and that one only when the latch is closed or its alert is about to be recorded
(`Counted`).

**MarketAmpel_proofs.** `AmpelInv` has three parts. `Shaped`: which of anchor, floor and
start day exist in which phase. `Floored`: no low since the anchor was under the
floor wherever such a low would have ended the attempt. `Told`: the negation flag is
the history of closes. Every day ends in `Becomes`, so one lemma says which next lights
keep the invariant, and each phase only shows that it ends in such a light.
`StartCorrect` proves the action property from it.

**TradeLedger_proofs.** `LedgerIsAQueue`: `LedgerSpec => Shares!QueueSpec`, every row is
one step of the queue of single shares, for any number of rows and shares. The state
invariant is small (`LedgerInv`: lots have at least one share and belong to the current
group or to none; the last event shows what is held) and gives `HoldingShown` and
`CyclesSeparated`; `HoldingIsQueue` adds that the last event shows the length of the
queue. The work is in the operators, which are recursive functions over sequences:

* The library states induction with a formula as parameter, which the provers cannot
  instantiate. `NatInd` and `SeqInd` state it with a *set*: one that contains `<< >>` and
  is closed under `Append` contains every sequence. They follow from the
  well-foundedness of `<` on the naturals.
* `Folded` is what a recursive function over a sequence computes: it exists
  (`FoldExists`), any function that follows the steps ends with it (`FoldIs`), and one
  more element is one more step (`FoldAppend`). `Held`, `Units` and `Consumption` are
  shown to be folds.
* On the queue's side, taking, leaving, forgetting, doubling and halving are worked out
  for one queue behind another (`OldestConcat`, `LeftConcat`, ...). One induction then
  gives what a row takes (`ConsumptionUnits`: the rest of the row at a lot is what the
  lots before it could not serve) and one what changes all lots alike
  (`MirroredUnits`), used for transfers and both kinds of splits.
* A split in half is only a step when each lot comes out whole; that the lots are then
  even is `HalveShare`. A sale states a profit exactly when all shares it took are
  known (`KnownUnits`): it relates the flags of the lots with those of the shares.

Only model-checked is liveness under fairness, which TLAPS does not do:
`RequestsAreChecked`, `EventuallyFresh`, `PendingEnds`, `EveryJobEnds`,
`CrossingIsAnnounced`. The four properties of the runs with an expected violation do
not hold and are findings.

## 6. Not modelled

Of the modelled components:

* Queue: the migrations `0017_report_source_gaps` and `0018_nonperiod_filing_checks`, which
  rewrite rows once before the workers start; the evidence a reclassification decides
  by; several reclassifications at the same time.
* Jobs: messages of the scheduler, whose row the worker creates; pruning of the
  history; the memory fallback without a database; the two heavy types that join an
  active job instead of being refused. Two requests, served by threads of one process,
  may both find no heavy job and both start one, although `README.md:424` of the
  repository allows one: the model has this race (both between `Reconcile` and
  `CreateJob`), but the run has one heavy row and no property forbids it.
* Delivery: latest observations and summaries that list unchanged or sent items, the
  truncation of the list of finished ids to 5000, changes of limits and of the
  summary's time. A confirmed close is exempt from the regular session
  (`notification_delivery.py:114-115`, `:126-142`); a custom window, which knows no exemption,
  is what `OutOfSession` stands for. `now` is read before the advisory lock is
  taken (`:828`, `:849`) and the models read it under the lock: monitor and flush share a
  worker that runs one task at a time, so no time of another dispatch falls in between.
* Pipeline: content of reports and scores, prices, ratings and settings as inputs; a
  clock that is set back; a price that arrives while a dependent item is running.
* Stop alerts: monitors without preferences; other positions of the same cycle, which
  have latches of their own.
* Market light: the powertrend machine, which no phase of the light reads, and the
  numeric indicators.
* Ledger: transfer rows of zero quantity, which only mark lots as unknown
  (`trade_ledger.py:25-29`); amounts of cost, fees and profit, fractional shares, the import and matching
  of the broker's rows.

Components that are not modelled:

* Numbers: the assessment engine, sell strategies, relative strength and regime
  compute floating-point values over long series. There is no state to interleave,
  and TLC has no reals.
* External services: data sources and the provider guard. The models let every
  check of a source succeed, find nothing or fail.
* Single transactions of a single user: portfolio, settings, journal, desk, workspace,
  beta access, universes. Their hazard is a lost update between two HTTP requests,
  which is the whole behaviour (`PROJECT.json` lists it).
* Long sequential tasks without competing writers of their own: market data
  cycle, 13F import, industry groups. Where they meet the others (the wake-up of
  waiting work, the full screening run) they are actions of the models.
* The scheduler is a static timetable; it justifies the fairness.
* Wording and layout of messages, routing, frontend.

## 7. Order of the work

1. `RefreshWork`, `RevisionLedger`: the queue, its proofs and its refinement.
2. `AssessmentPipeline` on top of the ledger, first the hash, then freshness.
3. `NotificationDelivery`: the dispatcher and its callers.
4. `StopAlerts` against the contract of the dispatcher, with proofs.
5. `Jobs`: API, redelivery, reconciliation, with proofs.
6. `MarketAmpel` with proofs; `TradeLedger` and its refinement of `ShareQueue`, proved by
   induction over sequences.

What could follow: the prices an attempt has seen, to cover the wake-up of an item that
is just being settled as waiting; jobs whose rows are created by the worker; the
broker import in front of the ledger.
