# Verification of the post-trade reconciliation pipeline

TLA+ models of the pipeline in `src/`, the TLC runs that check them on small
instances, and TLAPS proofs of what holds for every instance. Paths below are
relative to the repository's `src/posttrade` unless they say otherwise.

## 1. The system

| Part | Code | State it keeps | Operations | Talks to |
|---|---|---|---|---|
| Ingestor | `ingest/async_ingestor.py` | per-symbol sequence counters (memory), backoff, attempts | connect, subscribe, normalise, publish, reconnect | exchange WebSocket in, Redis stream out, a raw-message callback |
| Tick stream | `queue/redis_stream.py` | stream entries, consumer groups, pending entries lists (in Redis) | XADD / publish_batch, group creation, XREADGROUP, XACK, XPENDING, XAUTOCLAIM | ingestor, workers, simulator, load harness |
| Worker, worker pool | `workers/worker.py`, `worker_pool.py` | loop locals `processed`, `idle_reads`, `running`, the batch | read, cap, COPY, acknowledge, idle stop, signal | tick stream in, ticks table out |
| Tick store | `storage/timeseries_store.py` | the `ticks` table (no unique key) | COPY of a batch, delete sequences, windowed read | workers, simulator, reconciler |
| Trade book simulator | `simulate/trade_book_simulator.py` | true position, fill counter, recent sequences (memory) | read, acknowledge, fill, position, plant anomaly | its own consumer group in; fills, positions, planted_anomalies and deletions in ticks out |
| Book store | `storage/book_store.py` | `fills`, `positions`, `planted_anomalies` | insert rows, windowed reads | simulator, reconciler, report |
| Reconciler, report | `reconcile/reconciler.py`, `report/report.py` | none (three data frames) | three queries, three break computations | both stores in, breaks out |
| Bronze writer | `src/dataeng/bronze/` | line buffers (memory), objects (S3) | append, flush by size / age / at exit | the ingestor's callback in, object store out |
| Silver transform | `src/dataeng/silver/` | parquet files of a (symbol, date) partition | list, read, dedupe, normalise, clear, write | bronze in, silver out |
| Orchestration | `src/dataeng/orchestration/`, `discovery.py` | the sensor's cursor | sensor, assets, backfill, schedules | bronze listing, silver transform, dbt, report |
| Gold, expectations | `dbt/`, `src/dataeng/quality/` | gold tables | dbt build and tests, uniqueness and range checks | silver |
| Load harness | `loadtest/load_harness.py` | list of worker processes, lag samples | ramp of load steps, `caught_up` | tick stream, workers |
| Scale tests, models, configuration, metrics | the rest | none that steps change | | |

Hard behaviours: several worker processes on one consumer group that die
between any two calls; acknowledgement *after* the work in the workers and
*before* it in the simulator; limits (`max_messages`, `max_fills`) that cut a
batch already pending; signals during a blocking read; writers and readers of
the book tables without transactions; ground truth logged apart from the
anomaly; counters that live in memory and restart at 1; rebuilds of silver
that overlap. `PROJECT.json` lists each under `hazards` with its line.

What makes each part correct:

* *stream + workers*: no delivered tick is lost, none is stored twice unless
  it was reclaimed, limits are exact, a pool that stops by itself has drained its backlog but for
  what a worker that died has left;
* *simulator*: at most one fill per tick, and a ground truth that names
  everything planted and nothing else;
* *reconciler + report*: breaks are caused by planted anomalies, whatever the
  simulator does between two queries, and everything planted is found once it has ended;
* *load harness*: a step is judged on its own entries, the results add up to the
  stream, the ramp ends, and what the workers hold when it ends is still stored;
* *ingestor + bronze*: a received line is in the bucket or in memory, is lost only with
  the memory of a process, lands once, and does not wait for ever; the sequences of one process have no holes;
* *silver + orchestration*: a rebuild that no other overtakes replaces what was there; one that
  fails before it has looked for the old files leaves them, while one that fails
  later may leave none or a truncated one; a landed date with ticks gets its file once the
  sensor sees only days that are over and nothing fails; gold is built from one complete file, and
  its key would be unique if dates did not share their numbers.

## 2. Modules

| Module | Models | Notes |
|---|---|---|
| `ConsumerGroup` | one Redis stream and one group on it | operators the other modules build their actions from: `XAdd`, `CreateGroup`, `ReadGroup`, `ReadNone`, `XAck`, `XAutoClaim`. An entry is its position in the stream |
| `TickWorkers` | `run_worker` in several processes, the pool, and callers of `claim_stale` | EXTENDS `ConsumerGroup` |
| `TickDelivery` | what stream and workers promise | abstract: store, settle, publish |
| `TickWorkersProofs` | theorems about `TickWorkers` | EXTENDS `SumProofs` |
| `LoadRamp` | the load harness: ramp, publishers, lag samples, shutdown | EXTENDS `TickWorkers` |
| `BookTables` | the tables of both stores, one operator per statement | shared by the next three |
| `TradeBook` | the simulator | EXTENDS `ConsumerGroup`, `BookTables` |
| `Reconciler` | three queries and three break computations | EXTENDS `BookTables` |
| `BreakReport` | the report: simulator and reconciler on the same tables, and the score | EXTENDS `TradeBook`, INSTANCE `Reconciler` |
| `BronzeWriter` | the buffers, the flushes and the bucket | operators `AppendLine`, `FlushDue`, `FlushAll` and their failing forms |
| `Ingestor` | the ingest program: the receiving task and the flush task | EXTENDS `BronzeWriter` |
| `RawLog` | what the bronze layer promises of a received line | abstract: capture, flush, end |
| `SilverRebuild` | sensor, asset runs, backfill, rebuild steps, gold build | the bucket fills by `Land` |
| `LoadRampProofs` | theorems about `LoadRamp` | EXTENDS `TickWorkersProofs` |
| `TradeBookProofs`, `BreakReportProofs` | theorems about `TradeBook`, `BreakReport` | the second EXTENDS the first and `SumProofs` |
| `IngestorProofs`, `SilverRebuildProofs` | theorems about `Ingestor`, `SilverRebuild` | |
| `SumProofs` | lemmas on sums over finite sets | shared by the counts of the pool and the positions of the book |
| `MC...` | names and constants for TLC | |

### TickWorkers and the code

`phase[w]` is where the process is in the loop of `run_worker`: `"read"` before
`consumer.read` (line 73), `"write"` before `write_ticks_batch` (90), `"ack"`
before `ack_batch` (91). Each call to Redis or to the store is one action, so
any other process may act between two of them. `Read` does everything up to the
COPY (the cut of line 86 included), `Ack` everything after it (the counter, the
log line that reads `batch[0]`, the cap, the loop condition). `running` is
looked at only at the top of the loop; `Signal` clears it at any time. `Crash`
is the death of the process or an exception of one of the calls: there is no
handler, so both end it the same way, and its entries stay pending. A worker
is started again under the same name. `rows[m]` counts the rows of a tick, for
the table has no key.

`Recoverers` are callers of `claim_stale`. Nothing under `src/` is one (only
the integration tests call it), so the deployed system is `Recoverers = {}`.
`ClaimLive = TRUE` is `min_idle_ms = 0`, as the test passes it: the batch of a
live worker can be claimed. With `ClaimLive = FALSE` only entries that no
process works on are idle for long enough. `run_worker_pool` starts each worker once
(29-45), and that is all the fairness asks of `Start`; a second start is somebody running the pool
again, which may or may not happen.

### LoadRamp and the code

`ramp` is where `run_ramp` is: `"begin"` before a step, `"produce"` while the loop of
`_produce` polls its publishers (203), `"grace"` in the loop of line 230, `"judge"` before the
query of line 238, `"stop"` in `stop_workers`. `SendBatch` is a turn of the
loop of a publisher process, `Report` its last line, `PublisherDies` an exception or
the death of the process, whose count is then missing from the queue. `Judge` is the
separate query after the grace loop, the result, and the decision of line
268. `StepRaises` is a query of the harness that raises: the finally block stops the workers,
while the publishers, which nobody ends, go on. `Terminate` is SIGTERM: the handler of
`run_worker` clears `running`, and a process that has not yet installed it dies. The
workers are the actions of `TickWorkers`, without limits, started once each; the harness does not
restart them. `Lag` is `published - cursor`, the lag Redis reports for a stream from
which nothing is deleted. Rates and times are choices: a publisher may send any number of
batches, a sample may be taken at any moment, and the grace period may end after any poll.

### BookTables, TradeBook, Reconciler, BreakReport and the code

One symbol, as every dictionary and every query of this code is per symbol. The
simulator acknowledges a message before anything else (`Acknowledge`, line
73), then skips or trades; the statements it sends are steps of their own:
`WriteFill` (118), `LogAnomaly` (123, 138), `WritePosition` (171),
`DeleteTicks` (179), `LogGap` (181). The local computation between two
statements belongs to the step before. The decision to trade, the size and the
anomaly type are choices; a price appears only through the side it
decides. `Start` with `StoredFirst = TRUE` is the order of `run_pipeline.sh`
(workers drain the stream, then simulator, then report); with FALSE the workers
(`Persist`) are still at work. The crash of the simulator loses its memory, and the
tables keep what was written.

`BookTables` has one operator per statement of the two stores: `InsertFill` with ON CONFLICT DO
NOTHING, `Returned` for the rows a deletion really removed, and the reads with their
closed intervals.

The reconciler's queries `ReadFills`, `ReadTicks`, `ReadPositions` are three steps
(lines 31-33, no transaction), and the simulator may write between them. `start` is
chosen with the first query: the report takes "six hours ago", which may lie inside the
session. `Score` is the report's fourth query, of the whole ground truth (`report.py` 111), and
`FalsePositives` and `FalseNegatives` are its counts (134-141).
`UnmatchedFills`, `PositionDrift` and `SequenceGaps` are the three functions as
operators over what was read: nearest tick within the window, running sum in
sequence order against the recorded quantity, neighbours that are not consecutive.

### BronzeWriter, Ingestor and the code

The program is one event loop, so what runs between two awaits is one action:
`Connect` (`async_ingestor.py` 73), `Subscribe` (93), a message up to the publish
(`ReceiveTick`, or `ReceiveRejected` when normalize returns None or raises),
`Publish` (161), `Sleep` (81). The bronze append and the PUT of a buffer it fills are
synchronous calls inside the message's action; when the PUT raises, the
exception leaves `run` (`ReceiveUnlanded`), as a failed XADD does (`PublishFails`)
and a handshake that is refused. `Disconnect` is the two exceptions `run` catches,
`CleanClose` the iteration that just ends. `FlushPeriod` is one turn of
`_periodic_flush`; its first exception ends that task only. `Exit` is the finally block
of `main`, and `Kill` a process that never gets there. A failed PUT may
have stored its object. One symbol; a line is the number of its message, and
age is counted in turns of the flush task. `hour` is the partition of `append`.
`attempts` is counted only if there is a limit (the program passes none).

`RawLog` knows lines that wait and lines that landed, and nothing of partitions, limits or
errors. The refinement mapping takes `received` for `captured`, the lines in a buffer and in no
object for `waiting`, and the lines of all objects for `landed`. A failing PUT that the store has taken is a
`Flush` there, a failing one that it has not a stutter; the end of the program, by whatever way, is
`End`, the one step that may lose lines, and it loses all that it does not land.

### SilverRebuild and the code

`step[r]` is where run `r` is in `transform_symbol_date`: `List` reads every object of the
date, drops repeated lines and numbers the ticks in the order of the listing
(objects never change, so listing and reading are one step), `Glob` takes the list of old
files, `Remove` deletes one of them. `pq.write_table` (149) has no temporary name, so
the write is two steps: `OpenFile` makes a part-file without rows under its final name, which
globs, removals and gold builds see, and `CloseFile` completes it, if another run has
not removed it in the meantime. A `Crash` between them, a death of the process or an exception, leaves the
file as it is or removes it (`write_table` tries to when it raises). Without a tick `WriteNothing`
ends the rebuild. Nothing locks the partition, so other runs act between any two steps. A
line in `Unreadable` makes normalize raise (its `time` does not parse; only JSON errors
are caught), which ends an asset run, or a backfill with all the dates it still
had. `RemoveFails` is the FileNotFoundError after another run's removal; an exception
anywhere else is a `Crash`.

`Sense` is the sensor: `available - seen` is requested and the cursor set to
`available`. The keys of its requests are looked up in `silver_partitions`: the symbols of the
settings, which the ingestor has too, and the days before `today` (`Ended`; a
DailyPartitionsDefinition ends with the last day that is over). If one of them is not there the whole
evaluation fails, nothing is requested and the cursor stays (`SenseFails`). `Launch` is Dagster
taking a request from its queue. The backfill asks discovery and not the partitions, so it
rebuilds the running day too.

Rows are pairs of a line and its sequence. The gold build reads all part-files (`sources.yml`):
without any, or with one that is not complete, it ends with a read error; otherwise `fct_ticks` has
a row per row, and the unique test on its key decides.

## 3. Runs

| Run | Instance | Shows |
|---|---|---|
| `workers_pool` | 2 workers, 3 entries, batches of 2, idle limit 2, 2 crashes, 2 starts each, signals; weak fairness | `TypeOK`, `DeliveryInv`, `CopiesInv`, `OnlyCrashOrCapStrands`, `TotalsAgree`, and `BacklogDrained`: the pool comes to its end, with what was published before it stored and settled, unless a worker died with it in hand, or every worker died or was signalled before it had read it |
| `workers_reclaim` | 2 workers, 3 entries, a cap of 2, 1 crash, 2 starts each, and a recoverer that claims live batches 4 times; weak fairness | `CapKept`, `NothingLost`, `CopiesBounded`, and that the pool implements `TickDelivery`; every delivered entry is settled in the end, given a process that goes on claiming, which the deployed system lacks |
| `workers_crash` (violation) | deployed pool, one crash, one restart | "must not be lost" fails: nobody looks at the pending entries again |
| `load_ramp` | 2 workers, 2 publishers, 2 steps, 2 entries, 2 failures of any kind; weak fairness | steps do not run into each other, results add up, what is in hand at the shutdown is stored, the ramp ends whatever dies, a signalled worker stops |
| `book_life` | 4 ticks, 3 trades, all anomalies, racing workers, 1 crash, 2 starts, cap 2 | one fill per tick, exact cap, complete ground truth, a crash costs one row of it |
| `report_breaks` | 5 ticks, 3 trades, all anomalies, 1 crash, a report at any moment over the session or its later part | drift breaks are exact; unmatched fills and missing runs go back to something planted; a race with the simulator miscounts one fill at most; after its end everything is found |
| `gap_found` (violation) | 6 ticks, the code's own limits | a gap planted at the head of the table cannot be found |
| `drift_restart` (violation) | 2 passes over the same tables, nothing planted, nobody dies | correct positions are reported as drifted |
| `landing` | 2 hours, 3 messages, flush at 2 lines or 2 periods, 1 reconnect, 1 failed PUT, 1 kill, 2 starts | without failures every line is kept; with them the program implements `RawLog`; lines land once, and land at all while the flush task lives; no buffer stays full; sequences without holes |
| `landing_quiet` (violation) | 1 failed PUT, no kill | a line of a quiet feed is never flushed |
| `silver_runs` | 2 dates, one with 2 ticks and an unreadable line and one with a rejected line, 2 objects of up to 2 lines, 2 runs at a time, 1 backfill, 1 crash; weak fairness | only an overlap leaves two part-files; complete files are exact; a failed listing keeps the old file; a landed date gets its file; a gold build passes on one complete file only |
| `gold_key` (violation) | 1 run at a time, no failure | two dates of a symbol share their tick keys |

Every passing run visits the cases its properties are about; for each property
`PROJECT.json` names a plausible slip in the code (a mutant: acknowledging
nothing or too much, recreating the group, no cut, logging nothing, sorting by time)
with which TLC finds it violated.

*Bounds.* Two workers suffice for every race of two holders of one entry; the
recoverer adds the third party of a claim. Three entries with batches of two are
a batch for each worker, and a further one for either of them; they are also one less than two full
batches, so a cursor that ran ahead of the stream would show; with a cap of 2 and batches of 2 a worker that has
stored one entry has its next batch cut in the middle. Two starts are a restart. The simulator's limits
(6 tracked sequences, gaps of up to 3, batches of 20) are constants, made smaller
in `book_life` and `report_breaks` so that gaps are planted in the first few
messages; `gap_found` uses the code's. Three trades are enough for a gap, a drift
and a normal fill after them; `Shift` and `MatchWindow` keep the proportions of
15 minutes and 5 seconds to the distance of ticks, and `Shift = 7` moves a fill out of the session
or next to another tick of it. One start of a report lies before the session and one inside. `Quantities` and `Drifts` hold
one magnitude with both signs. Three messages and a limit of two lines fill one
buffer and leave a line behind in this hour or the next; one failing PUT and one kill are each
met before, between and after them. Two objects and two runs are every overlap of two
rebuilds with an object landing in between: an object of two ticks is numbered 1 and 2, and a line may be
in both objects. One crash is met at every step, the two halves of the write included, and its rest by
the rebuilds after it. A backfill takes both dates, so it can fail on one with another to do. Part-files of
two dates at once are the business of `gold_key`, where the second date has ticks, and of the theorem. In `load_ramp` two entries are one
per step, or two of one step with the lag between them; two failures are enough for all workers to
die, or all publishers. All bounds are CONSTANTS named `Max...` or
`...Batch`, listed with their meaning in each module. CHECK_DEADLOCK is off where the
processes of the instance may all have stopped.

*Fairness.* `FairSpec` asks weak fairness of each call of a started worker, of
its first start, and of the recoverer's calls: the operating system schedules each
process, and Redis and the database answer. `BacklogDrained` is checked without a
recoverer and owes nothing to a second start. Publishing, signals and crashes are never
fair. Reading and an idle read are fair together, since which of the two happens is
Redis's answer. In
`LoadRamp` the harness, the end of a publisher's time and the workers are fair; sending, sampling and
failing are not. In `Ingestor` the flush task takes its turns and the final block completes; nothing
obliges the exchange to send or the program to end. In `SilverRebuild` the sensor is evaluated, the
queue is served when a run slot is free, and the processes of the runs make progress;
objects, backfills, crashes and the calendar are free. That an evaluation succeeds is not assumed:
`LandedIsRebuilt` has as its premise that from some time on every day that landed is over, and
promises nothing while the running day's objects are in the bucket.

## 4. Proofs

Every invariant and every action property of the passing runs, and the refinements of both abstract
modules, are theorems: they hold for every value of the constants that the ASSUMEs allow, not only for
the instances of section 3. `PROJECT.json` lists each with its property.

| Module | Theorems |
|---|---|
| `TickWorkersProofs` | `TypeCorrect`, `DeliveryIsConsistent`, `CopiesAreAccounted`, `DeliveredIsKept` (`NothingLost`), `CopiesAreBounded`, `CapIsKept`, `NothingElseStrands` (`OnlyCrashOrCapStrands`), `CountsAddUp` (`TotalsAgree`), `WorkersImplementDelivery` |
| `LoadRampProofs` | `RampTypeCorrect`, `StepsDoNotOverlap` (`StepsAreApart`), `ResultsAreComplete` (`ResultsAddUp`), `ShutdownStoresAll` (`StoppedIsStored`), `HarnessImplementsDelivery` |
| `TradeBookProofs` | `TypeCorrect`, `OneFillPerTick` (`AtMostOneFill`), `MaxFillsIsKept`, `CrashCostsOneRow` (`CrashLosesOneRow`), `GroundTruthHolds` (`GroundTruthIsComplete`) |
| `BreakReportProofs` | `DriftsAreExact` (`DriftIsExact`), `UnmatchedGoesBack` (`UnmatchedIsExplained`), `GapsGoBack` (`GapsAreExplained`), `ScanIsExact`, `RaceIsOneRow` (`RaceCostsOneRow`), `DetectionIsPerfect` (`PlantedIsFound`) |
| `IngestorProofs` | `TypeCorrect`, `LinesAreKept` (`EveryLineIsKept`), `MemoryIsBounded` (`BuffersStayBelowLimit`), `LinesLandOnce` (`LandedOnce`), `NoHolesInSequences` (`SequencesHaveNoHoles`), `IngestorImplementsRawLog` |
| `SilverRebuildProofs` | `TypeCorrect`, `RerunsReplace`, `FailuresKeepPartitions`, `DatesAreRequestedOnce`, `FilesHoldWholeObjects` (`FilesAreExact`), `GoldPassesOnOneFile` (`GoldNeedsOneFile`) |

*Arguments.* Few of the properties are inductive; each module states what has to be added.

* **Workers.** A settled entry has a row only because `Write` comes before `Ack`, so
  `NothingLost` needs `DeliveryInv` (a batch in phase `"ack"` is stored; nothing beyond the
  cursor is pending, held or stored) and `CopiesInv` (a batch on its way to the table counts as
  copies that are there). The refinement maps `Publish` to `Publish`, `Write` to `Store`, the two
  acknowledgements to `Settle` and all else to a stutter. `CapIsKept` needs that what a worker
  has in hand fits below its cap (`CapInv`). `CountsAddUp` needs that the
  rows of the table are those the workers stored (`TotalsInv`), and that a worker which was never started has done
  nothing (`StartInv`).
* **Load harness.** The workers under the ramp keep their own invariants (`PoolInv`). `StageInv` says
  what each stage knows of the group, the publishers and the counts; `CleanInv`, for runs without a
  failure, that what the publishers sent is what the step added to the stream and that the results
  account for the rest. The refinement of `TickDelivery` is the one of the workers: what the harness
  adds publishes one tick or changes none of the mapped variables.
* **Simulator.** `TakenInv`: the batch is pending, and the tick of the fill in hand is not and has no row
  yet. `IdInv`: an id is a process and a number it gives once. `CountInv`: `emitted` counts the fills
  of the run, and the limit is looked at before the next one begins. `RowsInv` and `GapInv`: what the
  ground truth names, or is about to name with the fill or the gap in hand, is what was planted.
* **Report.** A step of the report leaves the simulator's variables alone and the other way round
  (`Sides`), so the simulator's invariants hold beside it; what is new relates what a query *returned* to
  what the tables hold *now*. *Unmatched*: a tick in the window that was not returned has been deleted, and
  stays deleted because every tick was stored before (`MissedInv`, `StoredInv`). *Gaps*: what is deleted is a
  run of neighbours of the stream (`RecentInv`), so the whole of a planted range is missing
  (`RangesInv`); each run of missing sequences begins where a range begins, and no two with the same
  one (`RunsBeginWithRanges`), so there are no more runs than ranges. *Drift*: with one process, the sequence
  numbers are the order of writing (`RunInv`), so the running sum up to a fill is the true position when its
  snapshot was written, whatever has been written since (`ExpectedIsTrue`, `PositionsInv`); a window that
  covers the session cuts off no earlier fill although the table grows (`OrderInv`). *Races*: a drift is
  named before its row is written, an unmatched fill after (`PositionsInv`, `NamedInv`). *Detection*: once
  the simulator has ended the three queries see one state (`QuietInv`), and there is a tick behind
  each range because the newest tracked sequence is never chosen (`TailInv`). The gap scan itself, which
  looks at neighbours only, is compared with what it is meant to find: a sequence is inside a break if and
  only if it was not read and lies between two that were (`ScanIsExact`).
* **Ingest.** A line is in one buffer at most, and in none and no object before it was received (`LinesInv`); the copies of a line,
  with the one in memory, are bounded by the PUTs that failed (`OnceInv`); the counter is ahead of the
  stream by the tick in hand (`StreamInv`). The refinement of `RawLog` uses the first.
* **Silver.** *Files*: a run has a file open exactly while it writes one, with rows to put into it, and no date
  has a name twice (`WriteInv`), so the end of a write completes one file at most.
  *Reruns*: what a run has still to remove includes every file of its date, unless it was overtaken, and a date with
  two files was opened by such a run (`ReplaceInv`). *Exactness*: what a run carries from its listing to its write are
  the rows of whole objects of its date, objects only become more, and a file without rows is in
  somebody's hands or a run has died (`ExactInv`). `RequestInv`: the cursor holds only dates that are there.
  *Gold*: the lines of an object are of one date and gold has finitely many rows (`GoldInv`). A complete
  file is numbered from 1 without repetition, so two complete files share the number 1 in rows that differ in
  their file, and one file shares none (`OneFilePasses`). `GoldPassesOnOneFile` is thus the exact condition
  of what `gold_key` shows in one behaviour: the build passes while one date has one file, and
  fails from the second on; with none, or with what a death inside the write has left, it cannot read.

*Sums.* The library folds a set in the order of a CHOOSE, and an induction theorem cannot be
instantiated here. `SumProofs` proves by a set of subsets for which the claim holds
that the chosen fold exists, is unique and may take its elements in any order; the running sum of the
reconciler is one of these sums (`TotalIsASum`), and so are the counts of the pool.

*Assumptions.* The ASSUMEs of the modules give the types of the constants, and TLC evaluates them on each run. Those that
say more: `Dates` is not empty; `MaxGap < MinRecent` (the simulator's 3 and 6); and `WindowAssumption`, that
the end of a report lies behind every tick and every shifted fill (`minutes_forward` is 30 minutes,
the shift 15). Two kinds of hypothesis stand in the theorems themselves. `CountsAddUp` asks for at least one worker.
`GapsGoBack` and `DetectionIsPerfect` ask for `TimesInOrder`: the exchange's
times grow with the sequences. The ingestor numbers messages as they arrive, so this is a property of the
feed; without it a tick in the middle of the stream can lie outside the window and is
reported missing although nobody deleted it.

*Only model-checked:* the liveness properties (`DeliveredIsSettled`, `BacklogDrained`, `RampEnds`,
`SignalStops`, `BufferedLands`, `LandedIsRebuilt`), as fairness and ENABLED are beyond the prover. The inductive
invariants of the report were checked by TLC as well, on the instance of `report_breaks`. That the sensor requests no
date twice (`DatesAreRequestedOnce`) is proved only.

## 5. What disagrees with the sources' own words

* A batch whose worker dies before the COPY is never stored, because no process
  calls `claim_stale` (`workers_crash`; the top-level README calls the
  pending list "a real fault-tolerance mechanism in this project").
* A planted gap is not always "something genuine to find" (`gap_found`).
* Fills of two passes over the same tables share their sequences, "the true per-symbol execution
  order", so the drift check reports correct positions (`drift_restart`).
* One failed PUT ends the flush task, and a low-volume symbol then does "sit
  buffered in memory indefinitely" (`landing_quiet`).
* "Surrogate key: symbol || '-' || sequence" is not unique once silver holds two dates of
  a symbol: each date is numbered from 1 (`gold_key`;
  `GoldPassesOnOneFile` says when).

Seen in the code and not kept as runs: a planted drift does not "stay
drifted" (`trade_book_simulator.py:29-30`), as `_write_position` changes one row and not
`_true_position`; a report whose window cuts off earlier fills calls every later position drifted
(`DriftIsExact` leaves such windows out). What also follows from the code without contradicting a document: an object that
lands after the first rebuild of its date requests no further one; two overlapping rebuilds
can leave two part-files (`raced` in `RerunReplaces`), or an older listing replace a newer one; a death inside
`pq.write_table` leaves a file on which every gold build fails until the date is rebuilt. And while the ingestor is at
work the running day's key makes the sensor's evaluations fail, those of the days before it as well, except
from midnight to the new day's first flush (`SenseFails`); the sensor's docstring ("whenever a
(symbol, date) partition shows up in bronze that hasn't been seen before, request a materialization") has no such
condition.

## 6. Not modelled

Prices, decimals and timestamps beyond their order; report rendering, plots,
metrics and logging; what `ProcessPoolExecutor` does with a killed child; the DuckDB fallback
(same interface, one process); the benchmark scripts; the Great Expectations suite
(stateless checks of one set of rows; the one that relates rows is the key of `gold_key`); gold models
other than `fct_ticks`, which are projections. The dbt test that sequences are contiguous per hour
needs two hours and three objects of a date, more than the instance of `silver_runs` holds. One
report scores what one reconciliation found; that the ground truth is read without a window, so
that planted rows older than six hours count as missed, is left out by the premise
`SessionCovered`.

## 7. Plan

Items 1 to 8 are done.

1. `ConsumerGroup`, `TickWorkers`, `TickDelivery` and their proofs.
2. `BookTables`, `TradeBook`, `Reconciler`, `BreakReport`.
3. `BronzeWriter` and `Ingestor`.
4. `SilverRebuild` with the sensor, the backfill and the gold key.
5. `RawLog`, and that `Ingestor` implements it.
6. `LoadRamp` over `TickWorkers`.
7. `BreakReport` with the score, and with a window that starts inside the session.
8. Proofs, one module per component, of every safety property the runs check.
9. Hours in `SilverRebuild` and the contiguity test of the gold tables.
