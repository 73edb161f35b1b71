# MarketMind: TLA+ specifications

MarketMind (`src/`) is a research platform for trading strategies: it acquires
and cleans market data, builds features, trains and backtests models, and keeps
every product in a content-addressed registry. Most of its 90,000 lines of Python
compute on data frames. What a test hardly reaches is the part around the
numbers: files shared by processes, tasks and queues, caches, retries, stores
that must survive a kill, and the rules that keep the future out of the training
data. Those parts are what these modules specify.

Paths below are relative to `src/pysrc/`.

## 1. Inventory

| Component | State it keeps | Operations | Hard behaviour | What makes it correct |
|---|---|---|---|---|
| Run index `artifact_registry/run_registry.py` | `runs_index.json` and the trial counters, a dictionary in memory per process | begin, add_artifact, finalize, delete, record_trial; each loads a file, changes it and writes it back | several processes, kills, I/O errors that are logged and swallowed | a run is begun once, bound only while REGISTERING, finalized once, immutable after, deleted as a whole; a trial number is given once |
| Artifact registry `artifact_registry/registry.py`, `cas.py` | blob directory, `attest_index.json` (read once per process), `runs/<id>/products`, `pinned/` | begin_run, register_payload, complete_run, fail_run, resolve, cleanup | four effects per registration and three per removal, any of which a kill separates; concurrent cleanups | no reference to a deleted blob, every artifact of a COMPLETE run resolves, retention respected, no garbage |
| Streaming pipeline `pipeline/execution/streaming.py` | two bounded queues, a batch, two tasks, a generator | produce, batch, apply steps, yield, cancel | backpressure, batch timeout, an exception in either task, early close | items once and in order, no truncated stream that looks complete, bounded memory, run ends |
| Multi-tier cache `ops/multi_tier_cache.py`, `caching.py` | L1 dictionary, L2 files, L3 Redis, L4 files, in-flight calls | get, set, compute_or_get, invalidate, do, do_async | concurrent misses, promotion racing with invalidation, two threads on an L1 without a lock, Redis errors that are swallowed, an exception or cancellation of the leader | one execution per key in flight, every waiter released, an invalidation that nothing disturbed leaves nothing older, L1 keeps its bound |
| Data preparation `pipeline/dataprep_runtime.py` | memory of earlier searches, cached artifacts, manifests | run: fetch, clean, search, materialize, manifest | runs that overlap, data or grids that change, a kill or an error half way | memory never worsens the answer, a manifest says what happened, cached data are the run's own |
| Model matrix `pipeline/panel/train_model_matrix.py` | scratch files, fragments, status files, the prediction panel and its report | a parent starts one worker process per model and fold and joins their fragments | worker or parent killed, a second attempt in the same directory, the canonical panel replaced meanwhile | a published panel is complete and of one source; an attempt whose except clause ran leaves none; no worker outlives its attempt |
| Day-aggregates loader `pipeline/stages/market_data/sources/massive_day_aggs_loader.py` | one Parquet file per date, a manifest per load | download with a pool of threads, convert, rename | kill and resume, two loads at once, one task raising | a file that is there is whole, the manifest is true of the files, the pool ends |
| Backtest orchestrator `pipeline/orchestrator.py`, `products.py` | products of one run | a fixed product sequence | failure of one product | COMPLETE only if all required products are registered |
| Indicator panel `pipeline/materializers/indicator_panel.py` | `panel.parquet`, manifest, report | materialize | a kill between the three files | a manifest never names a panel it does not describe |
| Other stages, panels, candidate portfolios | data frames | transformations | numeric edge cases | no look-ahead |
| Splits `preprocessor/splits.py`, `backtesting/validation/statistical/cpcv.py`, the gate in `cli/gate.py` | none | walk-forward, purged k-fold and combinatorial splits; two checks for leakage | off-by-one at a boundary, several rows on one day | test rows keep their distance from training rows; the checks refuse what they should and no more |
| Data views `data/dataview.py`, `universe.py` | an append-only store, an append-only event log | register_source, as_of, register, delist, members_as_of | corrections, late knowledge, several events on one day | what becomes known later changes no earlier answer |
| Command line `cli/` | none of its own | begin, register, complete, clean | no lock, no error path that fails the run | as the registry |
| Tuning orchestration and live loop `tuning/` | job state, budget, orders, positions | submit, retry, consume, reconcile, kill switch | little: one process, one thread, in sequence | budget respected, no order after the switch |
| Task registry `meta/task_registry.py` | list in memory and a file | append | memory changed before the file | what was returned is on disk |
| Ledger, engines `backtesting/` | cash, positions, average price | apply fills | crossing zero | value conserved |
| Broker adapter `infra/brokers` | cached history | read, await, write | a second fetch during the await | no bar lost |
| Observability `ops/observability.py` | breaker state, bounded queue | record, drop, open, probe | threads, limits | the breaker probes once, drops are counted |
| Hashing, core, contracts, models, meta-learning, strategies, analytics, desktop client | little or none | pure or numeric code, views | none of concurrency | out of the scope of these modules |

Interactions. A command (`cli/marketmind.py`, `strategies/momentum`) opens an
`ArtifactRegistry`, which owns one `RunRegistry` and one `LocalCAS`; runs and
blobs meet in the references `role -> hash` of the index and in the copies under
`runs/<id>/products`. Processes share nothing else, and the program itself takes
no lock: the `RunRegistry` docstring asks its users for one. The streaming
pipeline stands alone between an asynchronous source and the caller of `run`.
Data preparation calls the cache through an adapter and knows of it only that
what it stored may be gone. The indicator materializer replaces the canonical
panel that the model matrix reads; they share no lock, and the training checks
the file's size and time when it ends. The folds of a training come from
`walk_forward_folds`, which the model matrix calls.

## 2. Modules

| Module | Models | State and actions |
|---|---|---|
| `RunRecords` | the records of the index and what each method does to the dictionary | pure operators |
| `RunLifecycle` | abstract: the life of runs | `runs`, `used`; Begin, Bind, Finalize, Delete in one step each, and Misbegin for an id whose record was not written |
| `RunRegistry` | `run_registry.py`: every public method is `_load`, a change in memory, `_flush` | `index` and `counters` are the files, `mem[p]` and `tally[p]` what process p read; Load and LoadTrialCounters, one action per mutating method that includes its write, Leave for a method that returns or raises without writing, or a kill. `acked`, `deleted` and `recorded` are histories of what callers were told |
| `ArtifactRegistry` | `registry.py` over `cas.py` and the index | one action per durable effect: BeginRun, MakeRunDir, then PutBlob, RecordAlias, AddArtifact, Materialize for register_payload, then FinalizeRun; PlanCleanup, RemoveRunDir, DropRun, DeleteBlob, EndCleanup for cleanup; Open, Exit and Kill for the process; PinRun for the operator; `...Raises` for the error paths. `orphans` and `removed` are histories |
| `OrderedStream` | abstract: what `run` promises | items drawn and delivered, and how the stream ended |
| `StreamingPipeline` | `streaming.py` | `in_q`, `out_q`, the producer (Draw, PutItem, SourceEnds, SourceRaises, PutSentinel), the consumer (GetItem, GetSentinel, Timeout, ApplySteps, PutResult), the generator (Check, Yield, Stop, Resume, Close) |
| `Singleflight` | `Singleflight` of `ops/multi_tier_cache.py`, both methods | `calls` is `_calls`, `future[n]` the future of call n, `lock` a waiter inside `_async_lock`; a call enters with Start (or Nest, made by another execution), then Lead, Settle, Pop or Join, Awake; Cancel for a task cancelled where it awaits. `over`, `forsaken`, `seen` and `got` are histories |
| `LocalCache` | `EnhancedCacheManager` of `ops/caching.py` | pure operators from one L1 cache to the next: look up, admit, make room, put, move to the end, delete, unlist, clean up. Entries and LRU order are two parts that can come apart, as in the code |
| `CacheTiers` | `MultiTierClient` and its listener | `l1` and `l2meta` per process, `l2tmp` and `l2file`, `l3`, `l4`, a `queue` of messages per process; an operation lists the accesses it has yet to make, one action per access: PutL1, StoreL1, ListL1 and DropL1, DeleteL1, UnlistL1 for what is done to the two dictionaries of L1; ReadMeta, ReadFile, Adopt, WriteTmp, Replace, RecordMeta, Forget, Look, Unlink for L2; DropL3 and Publish, which a faulty Redis may fail; GetRaises, PutRaises, DeleteRaises, UnlinkRaises for what two threads or processes do to each other. Hear and Disconnect for the listener, Change and Expire... for the source and the clock. `floor`, `spoiled` and `unsent` are histories of invalidations |
| `WalkForward` | `walk_forward_folds` and what a fold trains on | pure operators |
| `ModelMatrix` | the low-memory training | the `parent` from Begin over Scan, Spawn, Join or TimesOut or ExceedsMemory, AppendFragment, Verify, Publish, WriteReport, Diagnose to Sweep, with BeginRaises for an error before the `try`, CloseWriter, Withdraw, Release, RemoveScratch and Discard for its except and finally clauses and WithdrawRaises when these fail; the worker of each attempt from Open over Fit, Predict, Rename to ReportOk, with WorkerRaises, Unlink and ReportFailed; Killed, Interrupt, WorkerDies and WritePanel (the materializer) |
| `DayAggsLoader` | the loader of daily data | `object` at the vendor, the files `tmp` and `out` of a date, `load`, `task`, `manifest`; Take, Get, Open, Write, Replace, ConversionFails and Raise for a task, Begin, EndRun, WriteManifest and Kill for a load, Publish for the vendor |
| `DateChunks` | `_iter_date_chunks` and the cleaning in chunks | pure operators |
| `DataPrep` | `DataPrepOrchestrator.run` with a preset and a grid | Fetch, Clean, Load, Search, Materialize, Finish, Raise, Handle for a run; Kill, Evict (the cache forgets) and Publish (the source changes) |
| `PurgedSplits`, `CombinatorialSplits` | the three splitters, `validate_no_leakage`, and the gate on a manifest | pure operators |
| `PointInTime` | `DataView` and `Universe` | pure operators on a store and on a log of events |
| `..._proofs` | theorems about the module of that name (`ModelMatrix_proofs` also about `WalkForward`, `PurgedSplits`, `CombinatorialSplits` and `PointInTime`, `CacheTiers_proofs` also about `LocalCache`) | |
| `MC...` | instances for TLC | |

`ArtifactRegistry` composes the stores: it takes a `RunRegistry` method as one
step, which `RunRegistry` justifies for methods under the lock its docstring
demands, also when flushes fail (`ImplementsLifecycle`); every scenario of
`ArtifactRegistry` has at least that lock. The command line takes no lock at all,
and for it nothing is claimed once two commands run at the same time: a process
that loaded the index before a change writes its old copy back, and with it drops
any run, pinned and newest ones included, or brings a deleted one back. `CacheTiers` composes the L1 operators of `LocalCache`
with the other tiers, `ModelMatrix` the folds of `WalkForward` with processes
and files, `DataPrep` the chunks of `DateChunks` with the search.

The circumstances a component is used under are data of its module: a constant
`Scenarios`, `Setups` or `Configs` is a set of records (what a lock covers, what
may fail, how many kills there are, which grid each run has), and a variable
that Init draws from it and nothing changes says which of them this behaviour is
in. So one run checks a property in all the circumstances it is claimed for, and
says in the property which those are. `ExternalLock`, `FlushMayFail`,
`ReadMayFail`, `KillMayHappen`, `SourceMayFail`, `StepMayFail` and
`CallerMayClose` are plain switches.

### Faithfulness and abstraction

Registry.
* A blob, its `cas` and its `attest` are digests of one canonical byte string and
  become one hash; the alias of a blob carries the blob's name.
* Metadata keeps what cleanup reads: `pinned` and the creation time. Two runs do
  not begin at the same instant; then cleanup's sort by `created_at` is total.
* `PutBlob` is atomic: `cas.py` writes a temporary file and renames it. The
  temporary file is shared by name between writers of one blob, which is left out.
* `Flush` and `Load` are atomic: the index is replaced by rename.
* A trial counter keeps its count; families are model values.

Streaming and singleflight.
* In the streaming pipeline a task switches only where it awaits. `put` on a
  queue with room does not suspend in asyncio; modelling it as a separate step
  adds interleavings and removes none.
* Results are the items they were made from: the steps' effect on data is left out.
* A stage or source that swallows cancellation for over a second, or raises
  `CancelledError` itself, is left out (lines 289-297 are then never reached).
  With the latter, `run` would wait forever: neither a sentinel nor a result comes.
* In `Singleflight` a caller of `do_async` keeps the lock between two steps only
  while it awaits a future; everything else it does under the lock is one step.
  The result of an execution is the call it belongs to; the clock (`start_time`,
  never read) and `is_async` (never read) are left out. `do` and `do_async` share
  `_calls`, but no caller in the repository mixes them on one instance while both
  are in flight, so an instance uses one of them (`mode`).

Cache.
* A value is the version of the source it was computed from; an expiry is a step
  of the clock, since only its order with other steps matters.
* L1 takes no lock. What a caller does to its two dictionaries is split where a
  deletion by the listener may fall in between: `set` makes room, stores and
  lists, `invalidate` looks, deletes and unlists. A deletion that falls into a
  step makes it raise, for instance a loop over the dictionary ("changed size
  during iteration"), and leaves what was done so far (`Torn`, GetRaises,
  PutRaises). One operation of a dictionary (a lookup, `del`, `move_to_end`) is
  atomic, which the interpreter's lock provides; the listener never inserts.
* A faulty Redis (`faulty`) may fail any request. The client swallows the error
  and goes on (425-429, 436-442); a listener's loop ends (569-570).
* The L1 circuit breaker never opens, since no caller reports a failure to it,
  and the version of an entry is constant for a client: both are left out. So
  are Plasma, compression, `close()` and a Redis that is not there.
* In each process one thread calls and one listens. More callers add no access
  that these two do not make.

Model matrix.
* The canonical panel has one row per date; its version stands for the size and
  the modification time that `assert_canonical_source_unchanged` compares.
* Fit does not depend on the scratch files (they are mapped and stay readable);
  a worker that outlives its parent may read another attempt's group files, and
  the attempts that run beside such a worker are marked `haunted`.
* The in-memory mode (no workers, no scratch) is left out. It differs in one
  rule: no eligible rows abort the low-memory mode and are skipped there.
* `KeyboardInterrupt` in the parent (Interrupt) bypasses `except Exception`.
* Scratch is removed in two steps, its files and then the directory, since
  `rmtree(ignore_errors=True)` (2317-2318) is neither atomic nor certain: a file may
  resist (`faulty`), and a worker that is alive may put one back, so that the directory
  stays. In the except clause closing the writer may raise (CloseWriter) and, with
  `faulty`, an unlink too (WithdrawRaises).

Loader and data preparation.
* An object is the version the vendor published, a file the version it was
  written from and whether it is whole or torn. Dates are independent but for
  the pool and the manifest.
* A frame is the set of its dates, a trial its parameters: `_search_best_params`
  evaluates remembered trials again, so scores are never stale. Ties between
  scores are broken by the order of a Python set, here in any way. The best five
  trials are remembered where the code keeps ten: with six combinations ten would
  never cut one off.
* The cache under `DataPrep` may lose any artifact at any time (Evict), which
  covers eviction, expiry and a failed write.
* Raise stands for a failure of fetching, cleaning, fitting or the indicator
  panel. Runs without a search, the parsing of input files and
  `preprocess_multi_symbol` are left out, and so is `_stage_with_guard` with
  `_call_with_timeout`, which only tests call.

Splits and views.
* Timestamps and windows are numbers of one unit; a frame is the function from
  rows to timestamps. The theorems assume what the constructors check (positive
  numbers of folds) and what they do not but document (sorted rows for
  `PurgedKFold`, windows that are not negative).
* A store is a set of rows with the position at which each was registered: the
  stable sort of a frame only keeps the order of rows with equal times.
* `policy[f]` is the result of `resolve_field_config`; the lookup by name and glob
  is left out. So is the difference between a symbol and its stripped form: the
  latter is seeded, the former is asked for.

## 3. Runs

| Run | Question | Instance and bounds |
|---|---|---|
| `RegistryLocked` | Under the docstring's lock, does what callers were told stay true, of runs and of trial numbers, do deleted runs stay away, is the file always one lawful step further? | two processes, two runs, one role, two blobs, one metadata bag, one family and two trials. Two processes are enough for a lost update, two runs for a write that carries another run along, two blobs for a rebinding |
| `Registry` | Do COMPLETE runs resolve, do their files agree with the index, does the index ever refer to a deleted blob, what is garbage, what does cleanup keep? | two processes, kills between any two effects, three scenarios. `Turns` (one process at a time; three runs: one kept, one removed, one under way, sharing two blobs) adds `SessionsResolve`; `Calls` (a lock around each call, two runs, pins) is where calls of two processes interleave; `Methods` (only the methods of the run index exclude each other; failing writes, one blob) is where two cleanups with different snapshots race, and only `RetentionRespected` is claimed |
| `RegistryStaleAliases` (violation) | Is the external lock enough for resolve? | scenario `Calls`. No: `LocalCAS` reads the alias index once per process and writes its own copy back whole |
| `Streaming` | Order, conservation, backpressure, no truncated success, progress | seven items; queues of one, two and unbounded places, batches of 0, 2 and 3, with and without timeout; source, any step, the caller may break off. Seven items exceed the six that a queue of one and batches of two can hold, so backpressure is met |
| `StreamingStepError` (violation) | Does a step's exception reach the caller? | four items. No: `run` cancels the producer and then asks the cancelled task for its exception, which raises `CancelledError` |
| `Singleflight` | One execution per key, fresh outcomes, and does every call return as long as no leader is cancelled? | three callers of two keys, three calls: a leader, a waiter and a latecomer, or an execution that asks for the other key while a waiter of the first stands by. Both methods; results and exceptions; in threads executions nest, tasks are cancelled wherever they await |
| `SingleflightCancel` (violation) | Does every call return, leaders cancelled or not? | two callers, no nesting. No: a waiter holds the lock while it awaits the leader's future; a cancelled leader never settles it and its cleanup waits for the lock. From then on every call, for any key, hangs |
| `Cache` | Once the threads rest after an invalidation, is an older copy left in L2, in L3 or in the L1 of a process that heard of it? Does L1 keep its bound, whatever the two threads do to it? | two processes and one key (`TwoProcesses`: three calls, a miss, an invalidation and a promotion that races with it); the same with a Redis that fails requests (`Faulty`); one process with L4 (`Persistent`); two keys that share one place in L1, under a listener that deletes beside the caller (`Listening`) or used often enough for one to push the other out (`Competing`, five calls). Up to two expiries, one change of the source. 1.2 million states |
| `CacheListener` (violation) | Does the listener survive? | the first of these setups. No: `invalidate` of L1 tests for the entry and deletes it, that of L2 tests for the file and unlinks it; when the caller, or for the file another process, does so in between, the listener's `KeyError` or `FileNotFoundError` leaves its loop |
| `DataPrep` | Does the memory of earlier searches ever cost the best answer? Are manifests honest, and are cached data those of their run? | three runs of a grid of two names and six combinations: repeated with one run_id each, beside each other (`Beside`), on data that change with a narrower grid in between and a kill (`Changing`), with an empty grid or frame (`Odd`) |
| `Loader` | Are the files that later loads trust whole, is the manifest true of them, does the pool end? | two loads of two dates; two threads with a kill and a correction or a new object (`Resumed`), one thread with overwriting (`Overwritten`), two loads at once with a kill (`Together`). Two dates are enough for one task to fail while the other goes on |
| `ModelMatrix` | Is what is published complete and of one source, and does what remains agree with how the attempt ended? | two attempts; one model with two folds, a killed parent and a panel written anew (`Restarted`), two models, another number of dates and files that resist their removal (`Rewritten`), a worker that may hang without a timeout (`Kept1`), fewer dates than folds or than the horizon (`Short`) |

Each property of a passing run has a faulty variant of a modelled definition
(`PROJECT.json`, "mutants") that breaks it. The faulty variants stand before the
definition they spoil ("As if ...", "Faulty variant") and are used by no
specification.

Symmetry of processes, runs and blobs is used where no definition orders them and
no liveness is checked. CHECK_DEADLOCK FALSE stands where the bounds on calls,
items or attempts let a behaviour end.

The modules of pure operators have no run of their own: `LocalCache`,
`WalkForward` and `DateChunks` are exercised by the runs of the modules that use
them, and what `PurgedSplits`, `CombinatorialSplits` and `PointInTime` say is
proved for every input (section 4).

### Fairness

The registry, cache and data preparation specifications are safety only: a process
may stop anywhere, and nothing in the code makes one go on.
`StreamingPipeline` assumes weak fairness of producer, consumer, timer and
generator: the event loop runs a task whose awaited future is done, steps return,
an armed timer fires, the caller keeps asking. It assumes nothing of the source:
Draw, SourceEnds and SourceRaises are unfair, so `DrawnIsDelivered` also speaks of
a source that stalls, and `RunEnds` starts from a source that has ended.
`Singleflight` assumes weak fairness of each caller's steps: threads are scheduled,
executions end, `threading.Lock` is granted in the end and `asyncio.Lock` is first
come, first served. New calls and cancellations are unfair. The number of calls is
bounded (`MaxStarts`), so a caller cannot starve behind an endless stream of them;
asyncio's lock excludes that in the code.
`DayAggsLoader` assumes weak fairness of the tasks of a load that runs and of the
load itself: the client's requests time out and are retried a bounded number of
times. `ModelMatrix` assumes weak fairness of the parent's steps only, among them
the timeout it enforces; a worker may stop anywhere and hang for ever, and
`AttemptsEnd` is claimed where a timeout is configured. With a timeout of 0 a
hanging worker hangs the training.

### Disagreements that have no run

They are visible in the models, need no interleaving to be seen, or lie in what the
models abstract from.

Registry.
* With `ReadMayFail`, `_load` takes an unreadable index for an empty one and the
  next `begin_run` writes that back: finalized runs are gone, against "After
  finalization, the run becomes immutable".
* A run left REGISTERING by a dead process has its directory removed by cleanup
  before `delete_run` raises "Cannot delete registering run", and the exception
  also aborts the deletion of blobs of runs that are already gone.
* With `FlushMayFail`, `finalize_run` returns while the file still holds a
  REGISTERING run, cleanup deletes blobs that the index on disk still references
  (`delete_run` only logged that it could not write), and `record_trial` hands one
  number out twice.
* When the write of the alias index fails (`Methods`), a COMPLETE run cannot be
  resolved after a restart.

Singleflight.
* In `do_async` an execution that asks for another key deadlocks with a waiter for
  its own, since the waiter holds the lock that all keys share (so the runs nest
  executions in `do` only).
* A cancelled waiter cancels the future it shares with the others: they get
  `CancelledError`, and the leader's own call raises `InvalidStateError` although
  its execution succeeded.
* A leader cancelled while its `finally` waits for the lock leaves its call
  registered, so that later callers get that outcome for good; `FreshOutcome`
  exempts the calls in `forsaken` for this reason.

Cache.
* A full L1 whose admission test fails drops the `set` of a key it holds, and the
  next `get` serves the old value, against "Always write to L1" (line 744).
* An L2 file without a known expiry is adopted for good, also one that had expired
  in the process that wrote it.
* `invalidate` ("across all tiers", line 817) leaves L4, from which the next `get`
  restores the value; `invalidate_pattern` clears only the L1 of its own process.
* After a Redis error `invalidate` returns as if nothing had happened, while L3 keeps
  the copy (425-429) or no other process hears of it (436-442); a listener that meets
  one ends for good (569-570). `InvalidationCleans` exempts such keys (`spoiled`,
  `unsent`) and such processes.
* A value found before an invalidation and promoted after it (684) stays until the
  next undisturbed invalidation: keys used meanwhile are `spoiled`.
* When the listener deletes beside the caller, entries and order of L1 come apart.
  A key that is held and not listed makes every `get` of it raise in `move_to_end`;
  a key that is listed first and not held makes every `set` on a full cache raise
  `KeyError`. `L1Bounded` holds all the same.

Data preparation.
* When the data change, the grid stays as narrow as the remembered trials of the
  old data made it; `SameAnswer` is claimed for data that do not change.
* The context of the memory (1944-1966) holds the names of the grid's parameters
  and not their values, so a combination that the configured grid does not contain
  may be tried and chosen.
* A manifest may say `success` and carry an error: the status is set before the
  write whose `OSError` reaches the handler (2477). `ManifestHonest` therefore
  counts the error.
* A run_id has a resolution of one second: two runs of one second share it and
  their manifest. The indicator panel is replaced before the manifest is written.
* A chunk of "0D" or a negative one makes `_iter_date_chunks` (1701-1707) loop for
  ever, and rows without a date are dropped when the cleaning is chunked. The
  theorems assume a positive chunk and dated rows.
* `_call_with_timeout` leaves its `with ThreadPoolExecutor` only when the late call
  has ended: the timeout does not bound the wait.

Model matrix.
* The worker of a killed parent runs on and replaces or unlinks, by path, the
  fragment of the next attempt: the panel of a haunted attempt may mix two
  sources although its last check passed. `PublishedFromSource` exempts it.
* A diagnostic that raises after the publication deletes the panel and leaves the
  report; an attempt whose except clause runs also deletes the panel an earlier one
  published, while one that is refused before the `try` (2073-2099, 2343-2369) leaves it.
* When `writer.close()` raises in the except clause (2308-2309), draft and panel are
  not withdrawn. `OutcomeMatchesFiles` tells these endings apart (`refused`, `broken`,
  `failed`).
* Scratch is leaked when its preparation fails half way (`scratch` is still None,
  2317), when a worker that is still alive puts a file back, and when a file resists:
  the errors of the removal are ignored (2317-2318). Status files are never deleted.
* The manifest is loaded before the panel and never compared with it
  (`canonical_data.py:158`); the materializer writes three files one after the
  other through fixed temporary names (`indicator_panel.py:113-145`); the sanity
  report reads the canonical panel after the check that it is unchanged
  (2267-2273).

Loader.
* Two loads that overlap share `X.parquet.tmp`: one renames it while the other
  writes, and after a kill a torn file stays published, against "4. Write
  atomically (.tmp -> rename)". `PublishedWhole` is claimed for loads that do not
  overlap.
* `knowledge_time` is taken before the download (486) while the manifest says
  "utc_vendor_retrieval_time"; skipped files have no hash in the manifest although
  line 17 promises "per-file content hashes"; missing dates are `missing`, not
  "logged as failures" (243-245); there is no manifest when a task raises, since
  only `ParquetConversionError` is caught, and none after a kill.

Splits and views.
* `min_train_size` is compared with the rows before the purge: a fold may train on
  fewer rows, or on none, which both checks let pass (`GateAgrees`), against
  "Minimum rows required for training". With a purge window of 0, rows of one day
  stand on both sides.
* `validate_no_leakage` refuses every k-fold fold that trains after its test rows
  (`KFoldRefused`), so its check of the embargo never decides; the gate of the
  command line lets every such fold pass unseen, against "Embargo window on both
  sides for k-fold".
* CPCV: with as many test groups as groups that hold rows `np.concatenate([])`
  raises, and `n_splits_total` ("total number of valid splits") also counts splits
  that are skipped.
* Seeding makes a symbol a member from the first day its rows speak of, also when
  they became known later (`SeedIsBackdated`): of the two front doors only `as_of`
  is a function of what was known. Of two corrections known on one day the first
  counts for good, if it lacks no field that is asked for (`SameDayCorrectionUnseen`).

## 4. Proofs

`RunRegistry_proofs` proves, for any processes, runs, roles, blobs, metadata and
families:

* `TypeCorrect`: `Spec => []TypeOK`, with or without the lock and whatever fails.
* `RegistryImplementsLifecycle`: under the lock and with readable files, the
  protocol implements `RunLifecycle`, flush errors and kills included. The
  inductive invariant says that a process inside a method holds the lock and that
  its dictionary equals the file (`Snapshot`): then a whole-file write changes one
  run, and each action maps to one abstract step or, if its write failed, to a
  stutter or a Misbegin.
* `RegistryDurable`: with no write error either, `AckedDurable` (runs and trial
  numbers) and, stated again by `DeletedNeverReturns`, `DeletedStaysDeleted`. The
  strengthening adds that the record acknowledged last and the file agree on the
  run's status and never disagree on a binding, that ids in the index or
  acknowledged are used ids, and that the counters a process read are those of the
  file.

These rest on `ExternalLock` being kept by all writers and on the assumptions
stated in `RunRecords` and `RunRegistry` (the absent run is not a record, the
absent blob no blob).

Both registry proofs begin with what beginning, binding, finalizing and deleting a
run do to its record (`BegunType`, `BoundType`, ...); `ArtifactRegistry_proofs` adds
what they do to the blobs the dictionary refers to (`CasForBegun`, ...).

`ArtifactRegistry_proofs` proves, for any processes, runs, roles, blobs, retention
and scenarios, kills included, each property of the `Registry` run:

* `TypeCorrect`: `TypeOK`, with what a process knows in each phase (`InCall`: inside
  a call it has a run, a role or a blob at hand).
* `RetentionHolds`: `RetentionRespected`, as long as the methods of the run
  index exclude each other. `PlansHold` says that a
  run a cleanup planned to remove stays expendable, which is not obvious when
  another cleanup removes one of the newer runs it was counted against: but then
  that run has itself enough newer ones, and these are newer than the planned run
  too (`NewerChain`, `ExpendableStays`).
* With a lock around each call at most one process is inside one (`Exclusive`,
  `OnlyOneCalls`). `NoDanglingHolds` then follows from `Stored`: every blob the
  index names, and the one a registration is about to name, is in the store, and a
  cleanup's doomed blobs are named by no run that is kept.
* `MaterializedHolds`: a run that has not been removed is the business of the one
  process that began it (`Owned`), and its file agrees with its record except
  inside that process's registration (`Agreed`).
* `NoGarbageHolds`: every stored blob is named by the index, left behind by a
  killed or refused call, or in the hands of the running one (`Tidy`).
* `SessionsResolveHolds`: for processes that take turns, with no write
  failing, an open process's copy of the aliases holds those of every run (`Aliased`).

`NoDanglingHolds`, `MaterializedHolds` and `NoGarbageHolds` rest on the lock their
scenarios name. Blob sets grow and shrink by one in each action, so no induction
over data is needed; only `RetentionHolds` counts, with the cardinality lemmas of
the library.

`Singleflight_proofs` proves, for any callers, keys, nesting and number of calls:

* `OneExecutionAlways` and `FreshOutcomeAlways`: `Spec => []OneExecution` and
  `Spec => []FreshOutcome`. Neither is inductive. The strengthening says that a
  leader's call is the one registered for its key (`Registered`, `OneLeader`, so
  dropping a key drops nobody else's call), that a registered call is over only
  if its leader was cancelled (`InFlight`), that what a waiter waits for was not
  over when it asked (`Waiting`, `History`), and that an execution that asked for
  another key waits for exactly one caller (`Nesting`, so a return resumes only
  an execution that waits).
* `TypeCorrect`: between two steps the shared lock is held by nobody or, in
  `do_async`, by a caller that awaits a future.

They assume that `NoCaller` is no caller and that `MaxStarts` is a number.

`DataPrep_proofs` proves, for any grids, scores, data, run_ids and chunks:

* `ManifestsHonest`: `Spec => []ManifestHonest`, and `ArtifactsMatch`:
  `Spec => []ArtifactMatches`. The second needs an invariant on what is in the
  cache (`DataInv`: an artifact was computed from the rows and the parameters its
  key names, and a run that reports a key has put it together from its own rows)
  and the types of a run. That cleaning in chunks loses no row is `ChunksWhole`:
  every dated row lies in exactly one chunk (`RowInOneSpan`). It needs that every non-empty frame has
  a first and a last date (`HasEnds`, part of `SetupAssumption`).
* `TypeCorrect` (`TypeOK`, with at most `Top` trials remembered), `NeverForgetsHolds`
  (`NeverForgets`) and `SameAnswerHolds` (`SameAnswer`). `Recalls` is the invariant:
  a run works on a version of the source and what it chose has a score on it
  (`Searched`); the trials that a run saved hold one as good as what it chose, in the
  memory and in what other runs took from it (`Remembers`); and with one version and
  one grid, trials that are not empty hold one with the lowest score of the whole grid
  (`Answers`). The lemma in the middle is `LowestFacts`: the k best of some trials are
  at most k and have one of the best of all, also when several have the score at which
  the list is cut off. From it follow what a search finds (`SearchFacts`): nothing worse
  than any trial it evaluated, and if no remembered trial fits, the best of the whole
  grid, so that the induction is on the searches and not on the values that are left.
  Every step goes on, takes what is remembered, or has searched (`StepKinds`).
  `ScoreAssumption` says that the grid is finite and that a score is a number, an
  exception that drops a remembered trial or one that ends the run. Trials are counted
  by the places they take in a list (`Size`), whose cardinality the finite-set theorems
  speak of; `BagCardinality` is a recursive sum they cannot unfold.

`ModelMatrix_proofs`, for any dates, folds, jobs, kills, attempts and rounds:

* About the folds (`WalkForward`): `AllFoldsBuilt`, `WindowsWithinDates`,
  `WindowsDisjoint` and `NoLookAhead`: the test windows are disjoint and inside the
  dates, and no fold is trained on a label whose horizon reaches into its window.
* `TypeCorrect`, and `NoWorkerLeft` (`WorkersReaped`): outside the polling loop an
  attempt has a live worker only if it was interrupted (`Reaped`).
* `NoScratchLeft` (`ScratchReleased`): the scratch files are gone before the fragments
  are (`Released`), if the attempt is not haunted and no file resists. The removal
  succeeds only when no worker is alive to write into the directory, so this needs that
  the attempt's own worker is gone by then (`Reaped`) and that there is no other (`Alone`).
* `FilesMatchOutcome` (`OutcomeMatchesFiles`): the strengthening says when the panel and
  the report are those of the attempt that runs, that one whose except clause ran has
  withdrawn the panel before it cleans up (`FilesFollow`), and that a panel that is there
  was published by an attempt that did not fail afterwards (`PanelOwner`), also when
  later attempts were refused before they could withdraw it.
* `PanelsAreFromSource` (`PublishedFromSource`) and `PanelsAreComplete`
  (`PanelComplete`), both from `PanelInv`: no other worker runs beside an attempt that
  is not haunted (`Alone`); the scratch files are of a version between the one opened
  and the one there now (`SourceKnown`), and the worker waited for reads them for the
  cell waited for (`AtWork`); the fragments of the cells done, and the draft, which
  grows by one cell at a time (`DraftGrows`), are of this attempt (`Sourced`), and so
  is a published panel (`PanelSourced`).
  `PanelComplete` claims only which cells there are when the worker of a killed attempt
  was still running (`haunted`). Two such workers, of other versions, can write too few
  rows for one fold and too many for another so that the totals agree, and the code
  compares only totals: dates 9, 3 and 6 in the three versions, two folds, three
  attempts and two kills show it. So a form of the property without the condition is
  false, though the instance of the run is too small to tell.

`StreamingPipeline_proofs`, for any source, steps, queue sizes and faults:
`TypeCorrect` (`TypeOK`), `ItemsConserved` (`Conservation`: whatever the pipeline
drew is delivered, in a queue or in hand, once and in order), `DrawnAheadBounded`
(`Backpressure`: the source is never more than the two queues and the two hands
ahead of the caller) and `PipelineImplementsStream`
(`ImplementsOrderedStream`: the refinement of `OrderedStream`, safety part). The inductive
invariant (`StreamInv`) describes the items in flight as three adjacent intervals of
positions, `OutAt` in the output queue, `HeldAt` in the consumer's hand, `InAt` in the
input queue and the producer's hand, which follow the interval that was delivered; `Backpressure` is carried
along with it because the queue bounds close the argument. `Conservation` filters
the sentinels out of the input queue with `FlattenSeq`, which the provers can unfold
(`SelectSeq` they cannot).

`DayAggsLoader_proofs`, for any finite range of dates and any number of loads,
threads, kills and publications: `TypeCorrect` (with the bound on busy threads, by the cardinality lemmas), `FilesAreWhole`
(`PublishedWhole`), `ManifestsMatch` (`ManifestMatches`) and `ResumingKeeps`
(`ResumeKeeps`). None of the last three is inductive. `DirectoryInv` adds, as long as
no two loads overlapped, that loads begin in order and one at a time (`InOrder`), that a
temporary file is open only in the hands of the one task at "write" and is whole and of the
task's version at "replace" (`TmpOwned`), that the tasks of the last load are true of the
directory (`TasksTrue`), which is what its manifest copies (`Reported`), and that without
overwriting a task under way has no file yet (`Resuming`). The range must be finite,
as it is in the code: a list of dates.

`ModelMatrix_proofs` ends with what else must be safe in time before a model is
trained. For every sorted frame: what each splitter tests
(`ForwardTestsFollow`, `KFoldTestsOnce`, `GroupsPartition`), that training rows
keep their distance (`ForwardNoLookAhead`, `KFoldClear`, `CombinatorialGap`) and
what the two checks say of the folds (`ForwardAccepted`, `KFoldRefused`,
`GateAgrees`). The arguments are arithmetic on positions; that a non-empty set of
rows has a last one comes from the well-foundedness of the natural numbers.
And for every store, log, policy and day: later knowledge and
later events change no earlier answer (`PastUnchanged`, `LaterEventsIgnored`),
values come from what was known and fresh (`NothingFromTheFuture`), snapshots do
not go back (`SnapshotsAdvance`), delisting holds until a later listing
(`DelistedStaysOut`), and what seeding and same-day corrections do (`SeedCounts`,
`SeedIsBackdated`, `SameDayCorrectionUnseen`). The lemma they rest on is that the
visible rows of a day have a newest one (`FirstExists`), since valid and knowledge
days are bounded by that day and positions by zero.

`CacheTiers_proofs`, for any processes, keys, capacity of L1, versions of the source and
setups:

* `TypeCorrect` (`TypeOK`) and `BoundedHolds` (`L1Bounded`), whatever the two threads
  of a process do to its dictionary. Nothing is known of the order, which may lack keys
  or name ones that are gone. The argument is that only the step that stores an entry
  brings a value into a dictionary (`L1Step`): every other one keeps a value or drops
  it, also when it raises half way (`Shrinks`, `TornShrinks`, `LookedShrinks`,
  `RoomShrinks`). And where a caller is about to store there is room (`HasRoom`), which
  stays, since the listener only deletes (`RoomStep`). `Doing` says what a thread may
  have left to do: one of the ends of an invalidation's list, or puts and look-ups in
  which the temporary file is renamed after it was written (`Whole`) and an entry is
  stored right after room was made (`StoreTodo`).
* `CleansHolds` (`InvalidationCleans`). The property is about a moment of rest, so the
  invariant (`KeyKept`) has to say what every key keeps to on the way there. While
  nobody invalidates the key, no copy in L2, L3, a temporary file or a thread's hands is
  older than the floor, nor is one in the L1 of a process that hears (`Fresh`, `Hears`:
  its listener is alive and the last message was sent). While a caller invalidates it,
  it is the only one that does, and a tier it has passed stays empty (`Alone`): nobody
  uses the key then, and Redis failed nothing, or it is spoiled. An entry that was seen
  is still there when it is deleted, so no such invalidation raises. After
  the publication only the dictionary of a process that has yet to drop the key may
  hold it (`Spread`, `Told`), so when the last listener is done no copy is left in
  those that hear. A listener that ends takes its process out of those (`DeathKept`).
  Two facts hold of spoiled keys as well, and make a later undisturbed
  invalidation mend them: a temporary file belongs to a thread about to rename it
  (`TmpOwned`), and a floor is a version the source had (`Known`). `Outside` says that
  processes that call nothing have nothing to drop, since nothing is published to them.
  A step leaves every other key as it was (`StepFrame`, `CallFrame`, `HearFrame`), which
  keeps what holds of that key (`FrameKept`); what remains is one thread at its own key:
  one that uses it (`UserKept`), one that invalidates it (`DropKept`), one that calls
  (`CallsKept`) or hears of it (`HearKept`).

They assume that the absent entry is no entry and no value, that values are the versions
0 to `MaxVersion`, and that `NoKey` is no key. That an invalidated value may come back
with L4, in a race or after a Redis error is not proved away: the property exempts
these by name.

Only model-checked: all liveness, which is out of the prover's reach, as is induction
over data and anything about RECURSIVE operators (no module here has any), and the
properties of the four runs that expect a violation: they do not hold.

## 5. Plan

1. done: run index with its abstract lifecycle and trial counters, artifact
   registry, streaming pipeline, `Singleflight`, cache tiers, data preparation,
   loader, model matrix, splits, point-in-time views.
2. done: the proofs of section 4.
3. later candidates: writers that share a temporary name (`_atomic.py`, `cas.py`);
   the broker's history cache (read, await, write); the circuit breaker and the
   bounded queue of `ops/observability.py`.

## 6. Not modelled

* Numeric code: indicators, models, statistics, the ledger's arithmetic,
  portfolio construction, meta-learning. It is pure, sequential and over floats.
* Tuning orchestration, the paper loop and the task registry: bookkeeping of one
  process in sequence, with several files that only raise `NotImplementedError`.
* The backtest orchestrator: a fixed sequence of products. Its `BundleWriter`
  stores, copies and binds each product itself, the copy before the binding, into a
  directory the caller chooses; the registry sessions modelled are those of
  `ArtifactRegistry`'s own methods.
* Hashing as bytes, schemas, command line parsing and reports, logging, the
  desktop client.
