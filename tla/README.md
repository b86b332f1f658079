# Formal models of the sentra-lab engine

This directory holds TLA+ models of the Rust engine in
`src/packages/engine/src`, the TLC configurations that model-check them and
the TLAPS proofs about them. `PROJECT.json` lists every component, run,
mutant, finding, hazard and theorem, and maps every modelling definition to
the source lines it translates.

## The system and its parts

The engine runs untrusted agent code in interpreter child processes,
intercepts the HTTP calls they make and records every event.

| Part | Source | Model |
|---|---|---|
| Agent pool: a semaphore plus a `Vec` of idle `PooledAgent`s | `runtime/agent_pool.rs` | `AgentPool`, proofs in `AgentPoolProofs` |
| Agent runtime: one child, its stdin/stdout pipes, `execute`, `reset`, `health_check`, `shutdown` | `runtime/agent_runtime.rs` | `AgentRuntime`, proofs in `AgentRuntimeProofs` |
| Process manager: finding the interpreter and spawning it | `runtime/process_manager.rs` | `SpawnChild` in `AgentRuntime` |
| Work-stealing scheduler: injector, worker deques, one `Notify` | `runtime/work_stealing.rs` | `Scheduler` |
| Event queue: a bounded crossbeam `ArrayQueue` with push/pop/drop counters | `recording/event_queue.rs` | `EventQueue` |
| Event storage: batch files plus a SQLite index, ids from an in-memory counter | `recording/storage.rs` | `BlobStore` |
| Event recorder: `record`, the background drain task, `flush`, `shutdown` | `recording/recorder.rs` | `Recorder`, composing `EventQueue` and `BlobStore` |
| Compressor | `recording/compressor.rs` | the `Compress`/`CompressFail` steps of `Recorder` |
| Routing table and the HTTP interceptor's request handling | `interception/routing_table.rs`, `interception/http_interceptor.rs` | `Routing` |
| Memory-mapped writer: a file, its mapping, `write`/`grow`/`flush` | `recording/mmap_writer.rs` | `MmapWriter`, refining `AppendLog`; proofs in `MmapWriterProofs` |
| Sandbox: the cgroup directories and knobs `apply_limits` writes for a child | `runtime/sandbox.rs` | `Sandbox`, proofs in `SandboxProofs` |
| Resource limiter: `ResourceLimits`, its presets, `validate`, `aggregate_limits` | `runtime/resource_limiter.rs` | operators of `Sandbox`, proofs in `SandboxProofs` |
| Exporter, TLS handler, syscall shims, entry points | various | not modelled (see the end) |

`RecordedEvents` declares the set of events shared by the queue and the store.

The parts interact in three clusters:

- **Execution.** The pool owns runtimes; `release` calls the runtime's
  `reset`. A runtime owns one child that it talks to over pipes. The pool is
  modelled with a reset that succeeds or fails; the runtime is modelled with
  its child. The scheduler hands tasks to workers, whose callers are not in
  the repository.
- **Recording.** Producers call `record(e)`, which pushes `e` into the queue
  (a full queue drops it). One drain task, spawned by `start()`, waits in
  `select!` for an interval tick or a flush notification, flushes the batch
  it holds, pops the queue into the batch and flushes whenever the batch
  reaches `batch_size`. A flush serialises and compresses the batch and calls
  `EventStorage::write_batch`, which allocates the next id, writes
  `batch_<id>.zst` and inserts an index row. Errors are logged and the batch
  kept. `shutdown()` notifies the task, sleeps 50 ms and aborts it.
- **Interception.** The interceptor's accept loop spawns `handle_request` per
  connection; it looks the host up in the routing table, which admin calls
  change concurrently, and forwards to the mock service or answers 502.

## Modules and their correspondence to the code

### AgentPool

- **State:** the `available` Vec (a sequence of agent ids; `push` and `pop`
  work at its end), the semaphore's `permits`, each caller's phase `pc`, the
  agent it `held`, the `retired` agents, the agents' `execCount`, and each
  caller's last `result`.
- **Actions**, split at the await points of `acquire` and `release`:
  `AcquirePermit` (`semaphore.acquire().await`); `CancelAcquire` (the future
  is dropped while waiting for the mutex, and the permit guard returns its
  permit); `AcquireTake` or `AcquireExhausted` (`pop()` returns an agent or
  `None`); `Execute`; `Release` (`reset()` starts); `ResetOk` or `ResetFail`
  (its outcome, with the `add_permits(1)` of both paths).
- **Constants:** `PoolSize`, `NumTypes`, the `Callers`, and the bound
  `MaxExec`. The number of agents is `(PoolSize \div NumTypes) * NumTypes`,
  as in `initialize_pool`.

### AgentRuntime

- **State:** the child (`alive`, `dead` meaning exited but not reaped, or
  `none`); the requests written to stdin and not yet read (`inPipe`); the
  lines the child still has to print (`childOut`) and has printed but the
  runtime has not read (`outPipe`); whether the runtime holds stdin; where
  the `ChildStdout` is (`process` in the `Child`, taken by the `reader`,
  `lost` with a dropped reader, or `none`); the caller's place; the current
  request, the collected output and the last result; two bounded counters.
- **Caller actions** (`execute` and `reset` take `&mut self`, so they never
  overlap): `Execute` (write code and marker, or fail with no stdin or
  `EPIPE`; take stdout or fail with "Failed to capture stdout");
  `ReadLine` (a line; on `__END__`, stdout goes back through
  `BufReader::into_inner`, which drops what the reader had buffered past the
  terminator); `ReadEOF`; `Timeout` (the timeout elapses or `read_line`
  fails: the `read_response` future is dropped with stdout, and the pipe's
  read end is closed); `Reset`, which is `Shutdown` (kill, reap, drop stdin:
  the pipes go with the child) followed by `SpawnChild`
  (`ProcessManager::spawn` with the cached interpreter path, which succeeds
  or fails; `apply_limits` only logs).
- **Child actions**, from spec 4.8 because the interpreter program is not in
  the repository: `ChildRead` (read a request, compute its response),
  `ChildPrint` (print a line; with the read end closed, the line is lost),
  `ChildExit` (exit at any point).
- `MarkerRequests` are requests whose own output contains a `__END__` line.
  The runs take it empty; with a marker request, `NoCrossTalk` fails at
  once by the in-band framing, which is listed as a hazard.

### Scheduler

- **State:** the injector, each worker's place in `get_task` (`check`,
  `park` between the empty steal and the first poll of `notified()`,
  `waiting` as a registered waiter, `busy`, `exited`), the task each worker
  runs, the `Notify`'s single stored permit, the `notify_one` calls a
  `submit_batch` still has to make, and the tasks not yet submitted.
- No code pushes into a worker deque, so the local pop and
  `steal_from_others` always fail: they are folded into `FindEmpty`.
- **Actions:** `Submit`; `SubmitBatch` then one `SubmitNotify` per
  `notify_one` of its loop; `StealGlobal`; `FindEmpty`; `PollNotified`
  (take the stored permit, or register); and, from spec 4.5, the worker's
  caller running the task and calling `get_task` again (`Finish`) or
  stopping (`Exit`, only workers in `Exiting`).

### EventQueue, BlobStore and Recorder

`EventQueue` and `BlobStore` hold the operations of the queue (`QueuePush`,
`QueueDrop`, `QueuePop`) and the store (`AllocateId`, `WriteFile`,
`InsertRow`, `StoreReopen`), which `Recorder` uses as parts of its actions.
A batch file's bytes are represented by the events they encode (compression
is injective), and a file name or `batch_id` by the counter value it is
formatted from.

The drain task's places are its await points:

| Place | Code |
|---|---|
| `Select` | `select!` |
| `Drain` | the `try_pop` loop |
| `Flush` | entry of `flush_batch` |
| `Alloc` | the counter lock |
| `Write` | `fs::write` |
| `Insert` | the db lock and the INSERT |
| `Stopped` | the task has been aborted |

Failures are modelled at each step: serialisation or compression
(`CompressFail`), the file write (`WriteFail`, leaving the file unchanged or
truncated) and the INSERT (`InsertFail`). `ShutdownAbort` is enabled only at
await points, where `abort()` takes effect; `ShutdownNoTask` is a
`shutdown()` before `start()`, when `writer_handle` is `None` and nothing is
aborted. `Restart` is a process crash
followed by `EventRecorder::new` on the same directory: memory is lost, a
write in progress may leave a truncated file, and the counter starts again
from 0. The history variables `accepted` (events accepted since the process
started) and `sessionStart` (index rows when it started) support the
properties.

### Routing

- A domain is the sequence of its characters over a small alphabet listed in
  byte order, so Rust's `String` order is the lexicographic order.
- The table is a function from the domains present to their routes.
  `CodeLookup` translates `lookup`: an exact key, else every wildcard
  `*.S` whose `S` is a suffix of the host (`ends_with`). It returns the set
  of routes it may return, because which matching wildcard the `HashMap`
  iteration meets first depends on the hasher's random seed.
- `SpecLookup` is the reference lookup of spec 4.10 and I5: exact match,
  else dot-bounded wildcards by priority, suffix length, then name.
- **Actions:** `AddRoute`, `RemoveRoute` (Ok or "not found"), `ClearRoutes`
  and `Intercept`, the accept loop running `HandleRequest` for any host:
  lookup, then "No mock service configured" or `forward_to_mock`, which
  succeeds or fails (`ForwardOutcomes`). `served` records the last answer
  beside the route `SpecLookup` picks from the same table.
- `CodeLookup` and `SpecLookup` also disagree on which route serves a host
  (`ends_with` has no dot boundary, so `*.a` serves `a` itself, and the
  `HashMap` order rather than priority picks among matching wildcards). No
  run checks that choice; `routing_lookup` checks only that the code never
  answers "no route" where the spec finds one.

### MmapWriter and AppendLog

State: `file` (the file's bytes; its length is the file's length),
`position`, `capacity`, `mapped` (`self.mmap.is_some()`), `synced` (the
position at the last successful flush) and `result`. `Init` is a successful
`new`: the file is opened without truncation, so any old bytes survive up to
`capacity`. `write` is five actions, one per path through `write` and
`grow`: `WriteInPlace` (fits, mapped: `CopyAt` and advance), `WriteNoMap`
(fits but an earlier grow left `mmap` None: the "Memory map not available"
error), `GrowSetLenFails` (the mapping is dropped at line 93, then `set_len`
fails), `GrowRemapFails` (`set_len` extended the file with zero bytes —
`SetLen` — then `map_mut` fails, so the file is longer than `capacity`) and
`WriteGrown`. `Flush` succeeds or fails; `Drop` is a flush.

`AppendLog` is what a log writer promises: the accepted bytes only grow at
their end. `MmapWriter` instantiates it with `log <- Log`, the first
`position` bytes of the file, and `AppendOnly == AL!Spec` is the
refinement. Byte values are a small set; usize overflow is not modelled (the
capacity doubles, so it would take 2^63 bytes).

### Sandbox (with the resource limiter)

`ResourceLimits` is a record whose `Option` fields are sets (`{}` for None).
`Validate`, the four presets and `AggregateLimits` translate
`resource_limiter.rs`; `SandboxLimits` is `Sandbox::new` (no validation),
`QuotaValue` and `LimitBytes` the values written to `cpu.cfs_quota_us` and
`memory.limit_in_bytes`. Every u64 product goes through `MulU64`, which
yields the exact product, or, when it overflows, both the wrapped value
(release build) and `Overflow` (a debug-build panic). The widths `U32` and
`U64` are constants: TLC's integers are 32 bits, so TLC can only evaluate a
scaled-down width, and the proofs assume the real ones.

State: the running children `live` and, per group `<<controller, pid>>`,
whether its directory exists, the value last written to its knob and its
`cgroup.procs`. `Spawn(p)` is `AgentRuntime::spawn` followed by
`apply_limits(p)`: for each controller with a limit, `create_dir_all`, the
knob write and the attach, each of which may fail and is swallowed. `Exit(p)`
is the kernel removing the exited child from its groups; the directories
stay, because nothing calls `cleanup`.

## Runs

| Run | Expect | What it shows |
|---|---|---|
| `pool_safety` | pass | With 3 callers and 2 agents, under cancellation and failed resets: `PermitAccounting` (permits plus callers inside the protocol equal `pool_size`), `ExclusiveOwnership` (every agent is available once, owned by one caller, or retired) `ResetBeforeReuse` (an agent re-enters the Vec only through a successful reset) and `ExhaustedOnlyAfterLoss` (a caller holding a permit finds the Vec empty only if the type division left permits without agents or a failed reset retired one). |
| `pool_remainder` | violation | `pool_size` 4 with 3 types gives 3 agents behind 4 permits, so `acquire` returns `PoolExhausted` while holding a permit. |
| `recorder_pipeline` | pass | Producers, ticks, flushes, failures at every step of `write_batch`, a crash with reopen, shutdown: `StreamIntegrity` holds (the batches of the current process read back as a prefix of the accepted events, and until shutdown the stored batches, the drain batch and the queue hold exactly the accepted events in order) and `SessionFilesIntact` (every row inserted since the process started names a file holding exactly its batch). |
| `recorder_shutdown_loss` | violation | After `start()`, events queued before `shutdown()` are not stored even when the drain task wakes on the notification before the abort (`ShutdownFlushesAll`): the notified branch flushes only the old batch, then drains the queue into a new batch that `abort()` drops. |
| `recorder_batch_growth` | violation | After a failed flush of a full batch the drain loop keeps popping into the same batch, which grows past `batch_size` (`BatchWithinSize`, spec 4.4). |
| `recorder_reopen` | violation | After a restart the counter restarts at 0; the new process overwrites `batch_00000001.zst` and the old index row no longer describes its file (spec I3). |
| `scheduler_safety` | pass | With 2 workers (one of which may stop) and 3 tasks submitted singly or in batches: `TaskAccounting` (every task is in the injector once, or run by exactly one worker, and a worker runs a task exactly when it is busy). |
| `scheduler_liveness` | pass | With workers that never stop, every task in the injector is eventually taken (`TaskEventuallyTaken`), despite the single-permit `Notify`. |
| `scheduler_lost_wakeup` | violation | When one worker stops, a `notify_one` collapsed into the single permit leaves the other asleep with a task queued. |
| `runtime_no_crosstalk` | pass | Across timeouts, read errors, child exits mid-answer and failed respawns, a successful `execute` returns only lines printed for the code it sent (`NoCrossTalk`). |
| `runtime_timeout` | violation | A timed-out read drops the taken stdout; the child lives on and `health_check` reports it healthy, but every later `execute` fails until `reset`. |
| `routing_lookup` | pass | Over every table built from three domains (exact, `*.a`, `*.b.a`) and five hosts, in every iteration order, `handle_request` answers "No mock service configured" only when the spec's lookup finds no route either (`NoFalseNoRoute`). |

Every property of a passing run has a mutant in `PROJECT.json`: a plausible
bug in one mapped definition that TLC catches under the run's own
configuration (for example a timeout that puts stdout back, a lookup that
gives up at the first non-matching wildcard, a batch notify loop that calls
`notify_one` once more or less).

### Bounds

- **Agent pool.** 3 callers against 2 agents reach every contention case (a
  caller waiting for a permit, one holding a permit while another pops, a
  release racing an acquire). `MaxExec` 1 lets `Execute` fire; the violation
  run uses 0 to keep traces short. Symmetry over callers is sound: no
  action names a particular caller.
- **Agent runtime.** 2 requests, 3 executes and 2 resets reach a timeout
  followed by a later execute and by a reset, a child exit mid-answer, and a
  failed respawn followed by an execute.
- **Scheduler.** 2 workers and 3 tasks let a batch of 2 race a single
  submit, and both workers sit in the `park` window together, which is what
  the lost wake-up needs.
- **Recorder.** 3 events with queue capacity 2 and batch size 2 give an
  overflow drop, a full batch flushed from the drain loop, a partial batch
  flushed by a tick or a notification, and a second batch. `MaxBatchId` 3
  lets storage fail before and after a success; `MaxRestarts` 1 lets a crash
  happen at every place of the drain task.
- **Routing.** The domains `b.a`, `*.a`, `*.b.a` and the hosts `a`, `ba`,
  `b.a`, `a.a`, `a.b.a` cover an exact match, nested wildcards, a bare
  domain under its wildcard and a suffix without a dot boundary.

### Deadlock

Runs that stop for a reason the code has use `CHECK_DEADLOCK FALSE`, with
the reason in the cfg: the recorder is dropped after `shutdown()`; the
runtime's caller stops when its execute and reset budgets are spent; the
scheduler's workers all wait on the `Notify` once every task is taken. The
pool and routing runs check deadlock.

### Fairness

Only the scheduler has a liveness property. Its specification assumes weak
fairness of `SubmitNotify` (the submitting client finishes its notify
loop), of each worker's `StealGlobal`, `FindEmpty` and `PollNotified` (the
tokio runtime keeps polling a task that is ready) and of `Finish \/ Exit`
(a worker's caller returns from the task it runs). A worker registered as a
waiter has no enabled step: only a `notify_one` can wake it, which is the
behaviour under test.

## Proofs

`AgentPoolProofs` proves, for every `PoolSize`, `NumTypes`, `MaxExec` and
finite set of `Callers`:

- `TypeCorrect`: `Spec => []TypeOK`;
- `PermitsConserved`: `Spec => []PermitAccounting`.

Neither invariant is inductive alone. `ResetOk` pushes `held[c]` onto the Vec
and `Execute` indexes `execCount` by it, which stay well typed only because
a caller that is borrowing or resetting owns an agent (`OwnerHolds`); the
permit count stays non-negative only because of the accounting equation. So
the inductive invariant is `TypeOK /\ OwnerHolds /\ PermitAccounting`. The
cardinality steps use `FS_AddElement` and `FS_RemoveElement` on the finite
set of permit holders.

`AgentRuntimeProofs` proves `NoCrossTalkHolds`: when no request's output
contains the terminator, `Spec => []NoCrossTalk`, for every set of requests
and every bound. The invariant is not inductive: a step that ends a read
with `ok` must know what is in the pipes. The strengthening `IInv` says:

- while a read is in progress, stdout is with the reader, the child is not
  `none`, and the pipes and `got` are one of the stages of the current
  request's exchange (`ReadStage`: the request still in stdin; or its
  answer line and terminator split between `childOut`, `outPipe` and `got`);
- every collected line belongs to the current request;
- a lost or absent stdout means an empty `outPipe`, and an absent stdout
  means no child;
- between calls, with stdout in the `Child`, `outPipe` is empty, and with a
  live child so are `inPipe` and `childOut`.

The last conjunct is where the proof rests on the code: only a normal end
of the read loop puts stdout back, and it does so only after the terminator,
so a stale answer can never be in the pipe when stdout is readable; a
timeout leaves stdout `lost`, and the late answer is discarded by the closed
pipe. `InitIInv` and `NextIInv` (one case per action, split on the branches
of `Execute`, `ReadLine` and `Reset`) establish it; `AppendOne` is the
sequence fact `Append(<<a>>, b) = <<a, b>>`.

`MmapWriterProofs` proves, assuming `Zero \in Bytes`, `Data \subseteq
Seq(Bytes)` and `Capacities \subseteq Nat`:

- `WriterWithinMap`: `Spec => []WithinMap` — `position <= capacity <=
  Len(file)`, a live mapping covers exactly the file, and `synced <=
  position`. This is what keeps the slice in `write` in bounds after a grow
  whose remap failed. The inductive invariant is `TypeOK /\ WithinMap`;
  `GrowRoom` shows `NewCapacity(Len(d))` makes room for `d`.
- `WriterRefinesLog`: `Spec => AppendOnly`. Under `IInv`, every step maps to
  an `Accept(d)` or a stutter of `Log`: `SetLenKeepsPrefix` shows that
  extending the file keeps its first `position` bytes, `CopyAtAppends` that
  copying `d` at `position` yields `Log \o d` as the new prefix.

`SandboxProofs` proves, assuming the real widths 2^32 and 2^64:

- `ValidLimitsReachKnobs`: for a config whose limits validate, the quota
  written is `q * 1000` (1000 to 400000) and the byte limit exactly
  `m * 2^20`;
- `SandboxAcceptsWrappingLimit`: every config with `memory_limit_mb` in
  [2^44, 2^54) is a valid `SandboxConfig`, fails `validate`, and
  `Sandbox::new` still gives it a byte limit that wraps to a smaller value
  (or panics) — `new` never validates;
- `OwnChildOnly`: `Spec => []GroupsHoldOwnChild`; a group holds at most its
  own pid, and only while it runs, although stale directories of exited
  children are reused by recycled pids. The inductive invariant is
  `TypeOK /\ GroupsHoldOwnChild`.

The arithmetic proofs state the big values symbolically (`m` in a range,
`ManyAgents` a named constant): tlapm folds products of numerals in 63-bit
integers, so a literal product past 2^62 must never appear in an
obligation.

The writer and the sandbox have no TLC run of their own (the project's run
budget is spent on the concurrent components); both models were
model-checked on small instances while they were written, and their
properties are proved for every value of the constants.

`AgentPoolProofs` also proves, from the same assumptions:

- `OwnershipExclusive`: `Spec => []ExclusiveOwnership`. The inductive
  invariant adds `ExclusiveOwnership` to the one above: the Vec has no
  duplicates, its agents are not held, two owners hold different agents,
  and retired agents are neither in the Vec nor held. `AcquireTake` keeps
  it by `PopLastDistinct` (popping the last element of a duplicate-free
  sequence removes exactly that element), `ResetOk` by `PushDistinct`.
- `AgentsResetBeforeReuse`: `Spec => ResetBeforeReuse`, the action
  property, from `OwnInv /\ [Next]_vars => [ReuseStep]_vars`.
- `ExhaustionNeedsLoss`: `Spec => []ExhaustedOnlyAfterLoss`, through
  `AgentAccounting`: the length of the Vec, the number of owners and the
  number of retired agents add up to the agents spawned. With
  `PermitAccounting`, a caller that holds a permit and finds the Vec empty
  means fewer agents than permits, so either `pool_size` is not a multiple
  of the number of types or an agent was retired.

`DistinctSeqs` holds the sequence lemmas these proofs and the scheduler's
share: push, pop of the last or the first element, and concatenation of
duplicate-free sequences, with what each does to `ToSet`.

`SchedulerProofs` proves, for every finite set of workers and tasks,
`TasksAccounted` (`Spec => []TaskAccounting`) and `SchedulerTypeCorrect`
(`Spec => []TypeOK`). `TaskAccounting` is not inductive: `submit` and
`submit_batch` push onto the injector, which stays duplicate-free and
disjoint from the running tasks only because a task not yet submitted is
neither queued nor running (`Submitted`). The inductive invariant is
`TypeOK /\ TaskAccounting /\ Submitted`; `NotifyOneKeepsBusy` shows a
`notify_one` never touches a busy worker.

`RoutingProofs` proves `NoRouteOnlyWhenUnrouted`: `Spec =>
[]NoFalseNoRoute` for every alphabet, set of hosts and sequence of table
updates. The invariant holds of every well-formed table (`TableOK`), so
the inductive invariant is `TypeOK /\ NoFalseNoRoute` and the argument is
the lemma `NoRouteSound`: when the code's scan of the table answers
NoRoute, no exact route equals the host and no wildcard's suffix ends it.
`SuffixAt` characterises `IsSuffix` by positions, and `WildcardSuffix`
shows that the code's `ends_with` of the pattern without `*` implies the
spec's test without `*.`. `AddRoute` writes the HashMap insert as an
explicit function over the old domain and the new key rather than with
TLC's `:>` and `@@`, which the prover cannot expand; `BlobStore.WriteFile`
and `Recorder.Restart` do the same for the same reason.

`RecorderProofs` proves, for every set of events, queue capacity, batch
size and bound on failures and crashes:

- `RecorderTypeCorrect`: `Spec => []TypeOK`;
- `SessionFilesKept`: `Spec => []SessionFilesIntact`;
- `StreamIntegrityHolds`: `Spec => []StreamIntegrity`.

`SessionFilesIntact` is not inductive: a failed or aborted `fs::write`
replaces the file of the id `write_batch` allocated, and that file is named
by no row of this process only because the ids of one lifetime increase.
`IdsFresh` says so: between the counter lock and the `INSERT` the task uses
the last id handed out, which is non-zero, and every row of this process
has a smaller id. `Written` says that between `fs::write` and the `INSERT`
the file holds the batch. `TypeOK` needs `IdsFresh` too, because a crash
in the middle of a write truncates a file whose id must be non-zero. The
inductive invariant is `RecInv == TypeOK /\ IdsFresh /\ Written /\
SessionFilesIntact`, checked by TLC on the `recorder_pipeline`
configuration before it was proved.

`StreamIntegrity` is about what the files of this process's rows hold,
concatenated (`FlattenSeq`). Under `SessionFilesIntact` that is the
concatenation of the batches recorded in the rows, `SessionData`
(`StreamIsData`). `StreamInv` states the invariant of those: they are a
prefix of the accepted events, until shutdown they, the drain batch and
the queue concatenate to exactly the accepted events, and once
`shutdown()` has returned the drain task has stopped or was never started
(without this, a drain step after shutdown could not be excluded). `RecInv /\ StreamInv`
was checked by TLC on the `recorder_pipeline` configuration before it was
proved. Each action preserves it: a push appends the event to the queue
and to `accepted`, a pop moves the head of the queue to the end of the
batch, an `INSERT` moves the batch to the end of `SessionData` and empties
it, an abort keeps only the prefix, a restart empties everything. The
`INSERT` step needs `FlattenAppend`, that concatenating one more batch
appends it to the concatenation. `FlattenSeq` is a recursive function
defined in a `LET`, which tlapm reads as a `CHOOSE`; the lemmas
`FlatExists`, `FlatUnique` and `FlatFnRec` show that the `CHOOSE` satisfies
the recursion. They need induction over the index, and the provers cannot
instantiate the library's induction theorems, whose predicate is an
operator parameter; they argue instead by the least-number principle
(`MinNat`, from the well-foundedness of `<` on `Nat` in
`WellFoundedInduction`): a least counterexample cannot exist.

What stays with TLC, and why:

- `ShutdownFlushesAll` and `BatchWithinSize` are violated by the code (the
  abort drops the batch drained after the notification; a failing flush
  lets the batch grow); TLC's traces are the result.
- `TaskEventuallyTaken` is a liveness property under fairness, out of the
  prover's reach.
- `HealthyMeansReadable`, `NoPoolExhausted` and
  `IndexedFilesIntact` are also violated by the code; TLC's traces are the
  result.

## Not modelled, and why

- **Exporter:** pure text formatting of an event slice; nothing in the engine
  calls it.
- **Sandbox `cleanup`, the non-Linux build, and the filesystem and network
  options:** `cleanup` has no caller; the non-Linux `apply_limits` is a
  no-op; `restrict_filesystem`, `isolate_network`, `read_paths` and
  `write_paths` are configured but nothing applies them, although the
  module's documentation promises filesystem restrictions. There is no
  behaviour to model.
- **`ResourceLimiter::limits`:** a getter; nothing in the engine creates a
  `ResourceLimiter`.
- **TLS handler, syscall shims, entry points:** placeholders or OS calls
  with no internal state machine.
- **`RecorderStats`, `PoolStats`, `SchedulerStats`, `QueueStats`:** counters
  read only by `stats()`.
- **A second `start()`** of the recorder and the `block_on` read lock in
  `lookup`: listed as hazards.
