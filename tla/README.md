# A TLA+ model of strunk

strunk is a Rust library that keeps a durable task queue and a log of state
events in PostgreSQL.  Everything it remembers is a row; everything it does is
a SQL statement run by one of a few background loops or by the application.
This directory holds TLA+ models of those rows, statements and loops, the TLC
configurations that check small instances of them, and proofs checked by TLAPS
that hold for every instance.

Paths below are relative to the repository (`src/task_queue.rs` is the file of
that name in the crate).

## 1. Inventory

| component | state it keeps | operations | what makes it correct |
|---|---|---|---|
| outbox task rows (`migrate.rs`, `types.rs`) | one row per task: status, attempts, visible_at, delivered_at, dedup_key, priority, max_retries | `submit`, `submit_batch`, `claim`, `complete`, `fail`, `heartbeat`, `retry_dead` | a row is delivered only after its work was done, is in one hand at a time, is buried only when its retries are spent, and two active rows never share a key |
| worker loops (`task_queue.rs`, `Worker::spawn`) | where the loop is, the task it holds, the copy of `attempts` its claim returned | claim, inbox check, handler, inbox mark, complete or fail, wait | no task lost or stranded, every task settles, a cancelled loop finishes what it has claimed and stops |
| consumer inbox (`strunk_inbox`) | (consumer, message) pairs and processed_at | `inbox_contains`, `inbox_mark`, the reaper's sweep | a processed task is not processed again |
| reaper (`reaper.rs`) | none but its loop | batches of deletes, the inbox sweep | deletes only what is finished and old |
| events (`events.rs`) | event rows, snapshots, one cursor per subscriber | `publish`, `snapshot`, subscriber loop, `replay_subscriber`, `reset_subscriber` | no committed event is skipped, events arrive in order, the snapshot is the last published state |
| relay (`relay.rs`) | none but its loop | `poll_pending`, handler | each pending event is handed to one handler |
| scheduler (`scheduler.rs`) | strunk_schedules: enabled, next_fire, last_fired | `register`, `enable`, `disable`, `remove`, `tick` | one task per due time, no schedule forgotten |
| schema registry (`schema.rs`) | versions of an entity type in memory, strunk_schemas | `register`, `validate`, `persist` | a later version accepts what an earlier one accepted, Ok of `persist` means the rows are there |
| client calls, results and progress (`lib.rs`, `task_queue.rs`) | the task an application holds, strunk_results, the column progress | `claim`, `complete`, `complete_with_result`, `fail`, `heartbeat`, `set_progress` | the result and the progress shown are those of the run that counts |
| operator commands (`bin/cli.rs`) | the rows a command has listed | retry, retry-all, purge, replay, reset | act on the rows they name, report what they did |
| stats and health (`stats.rs`, `health.rs`) | none | aggregate queries | figures that agree with the rows |
| migration (`migrate.rs`) | the schema of the database | `migrate` | idempotent |

The components share nothing but the database and one cancellation token.  A
statement run on the pool commits by itself; `submit`, `submit_batch` and
`publish` run in a transaction of the application.  What is hard about them:
any process may run between two statements of a loop; a lease (`visible_at`)
may expire under a running handler; a statement may fail, or commit and lose
its answer; a loop may die between two statements; the clock runs meanwhile.

## 2. Plan

The order follows what users of the library rely on most: that no task is lost,
then that no event is, then that schedules fire.

| step | module | state |
|---|---|---|
| 1 | `TaskTable`, `TaskQueue`: rows, worker loops, inbox, reaper | done, proved |
| 2 | `EventLog`, `EventFeed`: transactions that publish, subscriber loops, replay, relays | done, proved |
| 3 | `Scheduler`: register, enable, disable, remove, tick | done, proved |
| 4 | `LeasedQueue`, what the task queue promises, and `TaskQueue` shown to implement it; `OrderedFeed`, what a subscriber is promised, and `EventFeed` shown to implement it | done, proved |
| 5 | `SchemaRegistry`: register, validate, persist, the comparison of versions | done, proved |
| 6 | `ClientQueue`: results, progress, client calls, retry-all and purge over `TaskTable` | done, proved |
| 7 | the backoff at its real width (`2_i64.pow`) with the interval the database accepts; the lag and health reports against a definition of what they should show | open |

`TaskQueue` and `EventFeed` share a table, but no statement of one touches rows
of the other (`kind = 'task'` and `kind = 'event'` split it) except the
reaper's delete and the token, which are in both; they are checked side by side
rather than composed.  `Scheduler` feeds `TaskQueue` through one insert and
reads nothing back but the deduplication key, so it is composed with a queue
that finishes tasks at any moment.  `ClientQueue` is a second set of processes
over the rows and statements of `TaskTable`; beside the loops of `TaskQueue` it
would only multiply their states, since a loop differs from a client in nothing
the rows can see.

## 3. The modules

| module | what it models |
|---|---|
| `TaskTable` | the task rows and each SQL statement on them as one operator |
| `TaskQueue` | worker loops, inbox, reaper, applications, clock, faults over `TaskTable` |
| `EventLog` | the event rows, the id sequence, transactions that publish, snapshots |
| `EventFeed` | subscriber loops, relays, the reaper on event rows, replays over `EventLog` |
| `Scheduler` | schedule rows, ticks, the applications that change schedules |
| `ClientQueue` | applications and handlers that claim, report and complete, the operator's commands, over `TaskTable` |
| `SchemaRegistry` | the registries of several processes and the table they persist to |
| `LeasedQueue` | abstract: open tasks, hands, and who is late; implemented by `TaskQueue` |
| `OrderedFeed` | abstract: what is posted, excused and delivered; implemented by `EventFeed` |
| `MCTaskQueue`, `MCEventFeed`, `MCScheduler`, `MCClientQueue`, `MCSchemaRegistry` | constants of the instances TLC checks |
| `TaskTableProofs` | lemmas on the statements, shared by the queue's and the clients' proofs |
| `TaskQueueProofs`, `LeasedQueueProofs`, `EventFeedProofs`, `OrderedFeedProofs`, `SchedulerProofs`, `ClientQueueProofs`, `SchemaRegistryProofs` | theorems and proofs |

A definition marked "(A mistake ...)" is a plausible bug of the definition
below it, kept to show that the properties notice it; nothing uses it.

### Conventions

* **One statement, one action.**  The database runs a statement atomically, so
  each `await` on the pool is one action and the local variables of the loop
  are its state in between (`pc`, `held`, `token`; `base`, `todo`; `since`,
  `hand`; `listed`).  What a loop does after an answer and before its next statement is
  in the action of the answer.
* **SKIP LOCKED.**  A claim (`task_queue.rs:227`) or a SELECT of the scheduler
  (`scheduler.rs:133`) takes effect at the moment it locks a row.  It may pass
  over any row another loop has in hand, because a statement of that loop may
  hold the lock: `MaybeLocked`.  An empty answer is allowed only when all rows
  left are such rows.
* **A failing statement** did nothing, or committed and lost its answer.  Where
  the code ignores the answer (`complete`, `fail`), the second case is the
  plain action.
* **Crash** stands for a panic of a handler, which ends the spawned loop, and
  for the end of a process; the local variables are lost.  The library never
  restarts a loop: **Restart** is the supervisor of the process.
* **Time** in `TaskTable` is kept as what is left until a timestamp passes,
  because every statement compares a timestamp with `now()` only; `keepFor`
  stands for `delivered_at` with the retention of the row's kind.  `Scheduler`
  keeps a clock, because its key is a minute of it; a loop reads the clock at
  any moment since its last statement.  In `EventFeed` nothing compares
  timestamps but the reaper, whose retention is "any time".
* **History variables** (`okRuns`, `handled`, `late`, `served`, `crashes`, ...)
  are written and never looked at by the program's own actions; the counters of
  faults and commands bound the runs through the constants `Max...`.

### TaskTable and TaskQueue

A row is `status`, `attempts`, `visibleIn` (visible_at) and `keepFor`; its
queue, priority, retries, delay and key never change and are constants.
`InsertRows` is a transaction that submits tasks (`elapsed` is how long it was
open: `now()` is its start); `KeyFree` is the partial unique index of
`migrate.rs`; `ClaimRow`, `MarkDelivered`, `MarkFailed`, `Heartbeat`,
`RetryDead`, `DeleteRows` are the statements of `task_queue.rs`, `relay.rs`,
`lib.rs` and `reaper.rs`.  `MarkDelivered` and `MarkFailed` match the id alone,
as the SQL does.

A loop goes `top`, `polling`, then `waiting` or (`checking`) `handling`
(`marking`) `completing`/`failing` and back; the parts in brackets are for
loops with an inbox.  The token is looked at at the top and in the wait only
(`task_queue.rs:427`).  Middleware and tracing observe and are left out; a
notification only ends a wait early, which `Wake` may do at any time.  The
jitter of the backoff is the range `Backoff`, without the width of the integer:
the code has no cap, and an overflow needs more than 63 retries (step 7 of the
plan).

### EventLog and EventFeed

An id is drawn at the INSERT (`nextId`) and the row seen at the commit
(`status`).  Snapshots become visible with the commit; the upsert waits for
transactions that wrote the same row (`Locked`).  `late` records events that
committed behind a larger id of their type; nothing else lets readers go wrong,
and the properties name it.  A loop reads its cursor (`base`), polls a batch
(`todo`), and for each row runs the handler and sets the cursor
(`events.rs:285-330`).  The batch is the set of its rows, taken by id.  Of an
event only the entity is kept.  `relaying` is what a relay's `poll_pending` returned and its
handler has not seen.  A subscriber's type and the type of an entity are equal
or not: the code matches the key with LIKE, and a `_` or `%` in a type name,
which would match other types, is left out.

### Scheduler

`state`, `cron` and `nextFire` are the row; last_fired, payload, queue and
priority are left out, as nothing reads them back.  An expression is a sequence
of words and `Duration` the parser of durations, so `ParseSimpleInterval` and
`NextFireFromCron` keep the order of the code's tests, the guard on the number
of words first.  Of the tasks inserted only the deduplication key is kept
(`active` while the task is pending or claimed), and a task is finished at any
moment; a dead task of a schedule that an operator revives is left out.
`Register` reads the clock and inserts at one moment.  Intervals are assumed
positive (the parser does not check it, see the hazards).  One clock is shared
by all computers.

### ClientQueue

A client (`held`, `token`) is whoever calls `claim`: an application that drives
the queue itself, or a handler, which a worker loop runs and whose task the
loop completes or fails once more (`returning`).  `complete_with_result` is
`StoreResult` and `Finish`, two statements; a stored result is the number of
the run that stored it (`run`, `runs`).  `progress` is the column, which a
report clamps and no claim resets; `said` is what the run under way reported
last.  retry-all is `ListDead`, then one `RetryListed` per row until the unique
index refuses one; `asleep` are the rows it listed that have been dead ever
since.  Purge takes any status the operator names, and the reaper forgets no
result.  Which rows `dead_letters` lists when there are more than its limit is
left open: it goes by created_at.  Shutdown, inbox and worker loops are in
`TaskQueue`.

### SchemaRegistry

One entity type; each process has a registry of its own, which ends with it.  A
version is the sequence of its parts between the dots, `NotANumber` for those
`version_cmp` drops, so that versions may tie, and `Latest` is any of those
nothing exceeds.  A schema maps the declared fields to a type and a flag, as
`from_json` leaves them; a payload maps the fields present to what
`json_type_name` says of them.  `persist` writes version after version in the
order of a HashMap; it borrows the registry, so `register` waits for it.
`ordered` says that a process has registered its versions in ascending order:
the code does not ask for it, and a version registered late is compared with
the newest one, whatever its neighbours are.

### LeasedQueue and OrderedFeed

`TaskQueue!Promised` maps a row to its place (`pending` and `claimed` are both
open), a loop to the task in its hand, `okRuns` to the tasks worked on and the
first overrun lease to `late`.  Leases, attempts, timestamps, the inbox and a
claim whose answer is lost are invisible there.  `EventFeed!Ordered` maps the
visible rows of a type to `posted`, those not reaped to `kept`, and what is
late or was jumped over by a replay to `excused`; cursors, batches, snapshots,
relays and transactions are invisible.  The abstract modules state in a page
each what the README of the library promises, with the exceptions the code
makes.

## 4. The runs

Every passing run explores its whole state space.  The bounds are on what the
environment does (faults, commands, ids, ticks), never on what a loop does.

| run | instance | properties | shows |
|---|---|---|---|
| `lease` | 1 task with 2 retries, 2 loops with an inbox, 1 crash, 1 failed statement, 1 overrun, 1 `retry_dead`; heartbeats shorter and longer than the timeout | `TypeOK` `AtLeastOnce` `Lease` `AttemptsBounded` `DeadOnlyWhenExhausted` `RepeatsNeedFaults` `InboxShields` `DeliveredIsFinalInTime` `KeepsPromises` | what a claim guarantees its holder, what each fault can break, and the refinement of `LeasedQueue` |
| `settle` | 1 delayed task with 2 retries, 2 loops (one with inbox), every fault once, a transaction that stays open, shutdown at any moment, fair | `OrphansNeedFaults` `Settles` `ShutdownCompletes` | nothing stays pending, backed off or claimed for ever; a shutdown ends, and strands a task per fault at most |
| `feed` | 2 transactions, 3 ids, 2 entities of 2 types, 2 loops on one cursor, batches of 2, a crash, a refusal, a replay | `TypeOK` `NoSkip` `InOrder` `QuietReplayHonoured` `SnapshotAgrees` `KeepsOrder` | what a cursor may pass, in which order handlers see events, when a snapshot is the last state, and the refinement of `OrderedFeed` |
| `arrive` | 1 loop, 2 relays, every fault once with lost answers, shutdown at any moment, fair | `RedeliveryHasCause` `RelayedOnce` `RelayKeeps` `Arrives` `ShutdownCompletes` | each event reaches its subscriber, again only for a cause (there is no replay here: that part rests on the proof); one relay handler per event, and a batch lost per fault at most |
| `schedule` | 2 loops, 2 schedules of half a minute, 2 minutes, 3 commands, a fault, shutdown, fair | `TypeOK` `RepeatsNeedContention` `PassedWithTask` `DisabledRunsOut` `DueFires` | what may fire twice, what may not be dropped, that no due time stands for ever |
| `clients` | 2 tasks of one key, one of them retried once and less urgent, 1 client and 1 handler, reports out of range, 1 fault, 1 command | `TypeOK` `DedupUnique` `OneRunPerKey` `ResultCurrent` `ResultEarned` `ProgressCurrent` `RetryAllTruthful` | that submissions, late failures and retry-all never give a key two active rows, whose result and progress the rows show, and what retry-all may say |
| `registry` | 2 processes, versions 1.9, 1.10 and 1.11.rc, 1 field, 3 registrations, 1 event, 1 fault | `TypeOK` `StepsCompatible` `EventsStayReadable` `PersistTruthful` | which versions read which events, and what Ok of persist means |
| `inbox_crash` | 1 task, 2 loops with an inbox, a crash and nothing else | `InboxSkipsHandled` violated | see the findings |
| `id_gap` | 2 transactions, 1 loop, no fault | `NothingSkipped` violated | see the findings |
| `relay_stop` | 1 event, 1 relay, a crash | `RelayLosesNothing` violated | see the findings |
| `double_fire` | 2 loops, no fault | `NoDoubleFire` violated | see the findings |
| `schema_flip` | 1 process, 2 registrations | `BackwardCompatible` violated | see the findings |

Why the bounds are enough.  The hard cases of the queue need two loops, one row
and one fault of a kind in each order; the second retry makes the difference
between a claim that can fail and one that buries.  A lease of two ticks lets a
heartbeat both shorten and prolong it.  The hard cases of the feed need two
overlapping transactions and one more id than a batch holds, so that a cursor
can stand between events and a batch can be cut.  The scheduler needs a tick
that ends a minute, because its key changes with the minute; `double_fire` has
another tick within it, and the invariants of `schedule` are proved for any
clock.  The hard cases of the clients need two tasks of one key, so that one
can take the place of the other, and one fault or command between any two
statements; a handler and a client of its own cover the two ways a task ends;
one of the tasks is buried when it fails, so that retry-all has work, and the
other is retried, so that a handler's late failure can reopen a row it had
delivered while the other task has taken the key.
`inbox_crash` keeps inbox rows longer than any lease and allows one crash and no
other fault, so that the trace shows the case the README speaks of.
The registry needs three versions whose order as text is another than their
order as numbers, the last with a part that is not a number, and two processes
that persist to one table.  Symmetry is used over interchangeable loops,
transactions and processes, in runs without liveness only.  Deadlock is not
checked where everything may stop: after a shutdown (`settle`, `arrive`,
`schedule`), when all rows are gone (`clients`), when the bounded calls are used
up (`registry`, `schema_flip`).

### Fairness

`WF` on the steps of each loop: the runtime polls a task whose future is ready,
the database answers, a handler returns.  `WF` on `Restart`: a supervisor
restarts a process that ended (nothing in the library does; without it a queue
whose only loop panicked rests for good, which the README of the library does
not mention).  `WF` on the reaper and on time in `TaskQueue`.  Nobody is
assumed to submit, publish, commit, heartbeat, replay, register, retry or shut
down, and no fault is assumed to happen.

`Settles` exempts a cancelled library: a shutdown leaves pending rows for the
next process.  `Arrives` exempts events that are late, deleted by the reaper or
jumped over by a replay, and subscribers whose loops have all returned (a
failing first statement makes a loop return, `events.rs:264`).  `DueFires`
exempts schedules that are disabled or removed, and a cancelled library; the
clock need not run, since a due time is due already.

## 5. Findings

* **The inbox lets a crash repeat a task** (run `inbox_crash`).  A loop writes
  its inbox row by a statement of its own after the handler has returned Ok
  (`src/task_queue.rs:483-486`).  If it crashes in between there is no row, and
  the loop that reclaims the task runs the handler again; README.md:116-118 says
  of just this crash, after processing and before marking complete, that "with
  an inbox, the worker checks whether it already handled that task and skips the
  duplicate."  `RepeatsNeedFaults` is what holds: one more run for each crash,
  failed statement or overrun lease.  Past the row, `InboxShields` is the promise.
* **A relay that stops loses what it had polled** (run `relay_stop`).
  `poll_pending` marks a batch delivered in the statement that reads it
  (`src/relay.rs:37`) and only pending rows are polled, so the part of the batch
  its handler has not seen by then never reaches one; README.md:58 says "If it
  stops, event delivery stalls but no data is lost."  `RelayKeeps` is what holds:
  a batch for each stop or lost answer at most.  The rows themselves stay until
  the reaper takes them, and subscribers, which do not look at the status, still
  read them.
* **Events can be skipped** (run `id_gap`).  A transaction that draws a smaller
  id and commits later is behind the cursor by then and never read
  (`src/events.rs:226`); README.md:50 says "No events are skipped."  `NoSkip`
  is what holds: nothing else is skipped, whatever fails.
* **A schedule can fire twice** (run `double_fire`).  The lock of
  `SELECT ... FOR UPDATE SKIP LOCKED` ends with the statement, and the
  deduplication key of a task only holds while that task is unfinished and for
  the minute of the INSERT (`src/scheduler.rs:142`).  README.md:62 says that
  deduplication prevents this.  `RepeatsNeedContention` is what holds.
* **A field may become required** (run `schema_flip`).
  `check_backward_compatible` refuses a required field only when the previous
  version did not have it at all (`src/schema.rs:74`), so an optional field may
  become required, and what was valid under the old version no longer is;
  README.md:182 says "Backward compatibility enforced automatically."
  `StepsCompatible` and `EventsStayReadable` are what holds.

One more disagreement was read off the code while modelling it, and no run is
spent on it because a single call shows it: `@hourly`, `@daily` and `@weekly` are
refused.  `next_fire_from_cron` wants two words before it looks at the shorthands
(`src/scheduler.rs:230`); README.md:248 lists them and `tests/features.rs:145`
registers one.  `NextFireFromCron` keeps the order of the two tests, and the
instance of `schedule` registers `@hourly` to meet `RegisterRefused`.

Behaviours the models show that no line of the documentation denies:

* a loop that outlived its lease and then fails reopens a row another loop has
  delivered (`relay.rs:117` matches the id alone).  `DeliveredIsFinalInTime`
  is the promise while leases hold;
* `claim` does not look at `max_retries`, so a task that crashes its loop is
  claimed once more per crash (`AttemptsBounded`);
* a replay while a loop is inside a batch is overwritten by the loop's next
  `advance_cursor` (`events.rs:210`).  `QuietReplayHonoured` is the promise for
  a replay at a quiet moment;
* a handler that completes its task with a result and then returns Err "to skip
  the default complete", as `tests/features.rs:284` does, is failed by its loop:
  the delivered row is pending again, the task runs once more, and `get_result`
  shows the result meanwhile.  `ResultCurrent` and `OneRunPerKey` hold all the
  same;
* a purge of claimed rows frees their key at once, so that two tasks of one key
  may run together (`OneRunPerKey` asks for no purge);
* a field that is dropped in one version may come back with another type in a
  later one, because only the latest version is consulted
  (`EventsStayReadable` asks that no step drops a field), and a restart forgets
  all versions: nothing reads strunk_schemas back;
* a slow UPDATE of a tick moves next_fire back over a later one, and a task may
  stand for two due times when its key is still active; `PassedWithTask` says
  that no due time goes without a task.

## 6. Proofs

The theorems hold for all values of the constants that satisfy the named
assumptions: any number of tasks, loops, transactions, relays and schedules,
and any bounds on the faults.

**TaskQueueProofs** (assumptions `TaskAssumption`, `RowAssumption`,
`DurationAssumption`, `LoopAssumption`, `BoundAssumption`).

| theorem | inductive invariant, and why it is needed |
|---|---|
| `TypeCorrect` | `TypeOK`; the clause that ties `pc` to `held` is what the others stand on |
| `DedupCorrect` | `DedupUnique` is inductive: each way to an active status asks for `KeyFree` |
| `AtLeastOnceCorrect` | `Evidence`: also the inbox and the loops about to complete have an Ok run behind them |
| `LeaseCorrect` | `Lease`, split into `Leased` and `OneHand` |
| `DeliveredCorrect` | an action property, from `Lease`: who reports on a row in time finds it claimed |
| `OverlapCorrect` | `HandsInv`: the hands a task is in, and the one a claim could put it in now, are not more than overrun leases and one |
| `AttemptsCorrect` | `AttemptsInv`: the claims a row has had, those its holders can still hand back (`Young`: a copy of attempts below the limit) and the one to come fit into the bound |
| `RepeatsCorrect` | `RepeatsInv`: the same account for Ok runs, with the holders whose handler has not answered (`Undecided`) |
| `OrphansCorrect` | `OrphansNeedFaults` with `DedupUnique` and the finiteness of `Orphans`: only a fault makes a claimed row one that nobody holds, and it makes one |
| `HiddenCorrect` | `HiddenBounded` with `Counted`: the copy of attempts a report sends counts its own claim, and below max_retries only it is a backoff |
| `ShutdownCorrect` | an action property with `Distance`, the steps a place is from the end, as its variant |
| `ExhaustedCorrect` | `ExhaustedInv`: a loop's copy of attempts never exceeds the row's before a `retry_dead` |
| `ShieldCorrect` | `InboxShields` with `Lease` |

**TaskTableProofs** holds what every caller of the statements needs
(`StatementType`, `StatementKeys`) and the theorem `ClaimFinds`: the order of
`claim` is total, so a claim that finds claimable rows it may lock takes one,
and has no choice which.

The bounds on hands, claims, Ok runs and orphans have no premise: a fault or an
overrun lease is not excluded but counted, and adds one.  So do the events a
relay loses (one batch a fault) and the schedules that fire twice (one a fault).

**LeasedQueueProofs** proves `PromisesKept`: `Spec => KeepsPromises`.  A loop's
step maps to taking, working, settling or letting go, everything else to a
submission, a deletion, a revival, the first lateness or a stutter.  The
simulation needs three of the invariants above: `TypeOK` (which loops have a
hand), `Lease` (while nobody is late a task in hand is open and in one hand) and
`Evidence` (who delivers has worked).

**EventFeedProofs** (assumptions `LogAssumption`, `FeedAssumption`).  `Ids`
(rows of open transactions are unseen and below nextId) and `Growth` (what a
step may do to the log; what becomes visible behind a published event of its
type is late) are proved once and used by all readers.

| theorem | inductive invariant, and why it is needed |
|---|---|
| `NoSkipCorrect`, `InOrderCorrect` | `FeedInv`: everything before a cursor, a cursor read, a row of a batch or a handled event is `Settled`: handled, excused, or not of the feed for good.  `NoSkip` alone says nothing of the loop that will write the cursor next |
| `ReplayCorrect` | `ReplayInv`: the cursors read and the batches polled since the replay leave out nothing of what it asked for |
| `SnapshotCorrect` | `SnapshotInv`, from `Growth`: a commit that could put an older state into the snapshot makes an event of the entity late |
| `RelayedOnceCorrect` | `RelayInv`: what a relay holds is delivered, not handled before, and in no other hand |
| `RelayKeepsCorrect` | `RelayKeeps` with `RelayBatches`: each step keeps the set of lost events or is a fault and adds one batch (`Counted`) |
| `StepsBoundedCorrect`, `ReadersDescendCorrect` | `SmallBatches` and `RelayBatches`: no batch is longer than its limit; the rows left of it and the place give the steps to the end (`LoopSteps`, `RelaySteps`) |
| `TypeCorrect` | `TypeOK` |

**OrderedFeedProofs** proves three more.  `RedeliveryCorrect` and
`CursorForwardCorrect` rest on `LoneInv`: the loop of a subscriber with one loop
reads and polls from the cursor itself, its batch leaves out nothing between the
cursor and its rows, and no row lies between the cursor and what was handled but
may come again (`Doubt`), late ones apart: that is one event at most, and only
the row about to be acknowledged while no fault happened.  `raced` excepts replays in
the middle of a batch only, so quiet replays are covered.
`OrderKept` is `Spec => KeepsOrder`: a commit maps to a post, the
reaper to a deletion, a replay to a skip, a handler's Ok to a delivery and
everything else to a stutter.  It needs `FeedInv` (what is before a row of a
batch is settled), `LateInv` (only visible events are late) and `BatchPosted`
(a batch holds visible rows of its feed).

**SchedulerProofs** (assumptions `ScheduleAssumption`, `ClockAssumption`,
`BoundAssumption`, `NoneAssumption`).  `HandInv` says what a loop has in hand:
a schedule at most once, selected no earlier than its due time.

| theorem | inductive invariant, and why it is needed |
|---|---|
| `PassedCorrect` | `PassedInv`: a row in hand for the UPDATE is covered by a task already |
| `DisabledCorrect` | `DisabledInv`: who inserted for a disabled schedule has no row of it left |
| `NeverEarlyCorrect` | `NeverEarly` with `HandInv`: a row in hand was due when it was selected, and the clock does not go back |
| `RepeatsCorrect` | `RepeatInv`: a schedule no two loops had in hand is `Orderly` (no due time served twice, a row that waits is for a time not served, and next_fire is after every served time unless a loop has yet to move it), but for one schedule per fault (`Disorderly`; `FaultsPay` is the step) |
| `StepsBoundedCorrect`, `TicksRunOutCorrect` | `TickInv`: a tick has no more rows than the LIMIT, the one in hand included |
| `TypeCorrect` | `TypeOK` |

**ClientQueueProofs** (assumptions `TaskAssumption`, `RowAssumption`,
`DurationAssumption`, `ClientAssumption`).  Each step is one `Statement` on the
rows, so types and keys come from `TaskTableProofs`.

| theorem | inductive invariant, and why it is needed |
|---|---|
| `RunsCorrect`, `ResultCorrect`, `ProgressCorrect` | `CoreInv`: while no lease is overrun a task is in one hand (`Alone`); its row is claimed and hidden, unless a purge deleted it or its own handler has answered, its run is the last one, and what it stored and said is in the row (`Mine`); a delivery is credited to the last run with its result (`Credited`).  The properties say nothing of a client between its two statements, who decides them |
| `EarnedCorrect` | `ResultEarned` with `CoreInv`: the second statement delivers the run whose result is stored |
| `RetryCorrect` | `RetryInv`: what is asleep is still listed |
| `DedupCorrect`, `TypeCorrect` | `DedupUnique`, `TypeOK` |

**SchemaRegistryProofs** (assumption `SchemaAssumption`).

| theorem | inductive invariant, and why it is needed |
|---|---|
| `StepsCorrect`, `EventsCorrect` | `ReaderInv`: versions registered in ascending order form a chain in which each step reads what was written under the one before, unless it tightens or drops a field, and events were accepted by their version.  A new version is compared with the last link only; `ExtendKeepsChain` carries that over the whole chain |
| `PersistCorrect` | `SavedInv`: a version that is not to do any more has its row |
| `LatestCorrect` | `FiniteInv` with `LatestExists`: `version_cmp` is transitive (`PrecedesTransitive`), so a finite set of versions has one nothing exceeds, ties and parts that are not numbers included |
| `TypeCorrect` | `TypeOK` |

Only model-checked: `Settles`, `ShutdownCompletes`, `Arrives` and `DueFires`,
which are liveness properties under fairness and beyond TLAPS.  Of
`ShutdownCompletes` the part that is not about fairness is proved: once the
token is cancelled each loop has a variant (`Distance`) that all its steps and
faults lower and nobody raises, so it comes to rest after seven steps (a worker),
two for each row of a batch and two (a subscriber, a scheduler) or one for each
row and two (a relay); the reaper goes on while it deletes full batches.  What
fairness adds is that it takes those steps.

Where a proof needs a least or a last element of a finite set it goes by
well-founded induction over a given order (`WFMin` of WellFoundedInduction) in
place of the induction theorems that take an operator: `LeastExists`,
`GreatestExists`, `LatestExists`, `ClaimFinds`.

## 7. Not modelled

* **Statistics and health** are aggregate queries that change nothing and that
  nothing else reads; no line of the repository says what their figures promise
  while rows change between two of their queries.
* **Migration** is a list of idempotent DDL statements whose defaults and index
  appear as `RowsInit`, `LogInit` and `KeyFree`.
* **The facade, configuration, typed wrappers, middleware and listener** hold no
  state of their own or only shorten a wait.
* **Widths and settings nothing checks**: the backoff is `2_i64.pow` of the
  attempts without a cap, a duration of a schedule may be negative, a batch size
  of the reaper may be 0.  The assumptions of the modules exclude them and the
  hazards list them.
* **PostgreSQL** and the connection pool are taken to do what their
  documentation says at READ COMMITTED; LIKE patterns in type names and the text
  of payloads are left out.
