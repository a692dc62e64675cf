# TLA+ verification of loginom-dock (OpenViking context database)

This directory models the parts of the server whose correctness depends on the order in which
concurrent steps happen: the path locks that keep writers apart and their handoff through the queue,
the life of a background task, the bottom-up summarisation of a directory tree and the freshness of
its sidecars, the two-phase commit of a session, and the watches that follow resources when these
are moved. TLC checks the models on small instances; TLAPS proves the safety properties of every
component, and that the summarisation implements its abstract specification, for every instance. Paths below are relative to the repository root.

## 1. The system

The repository packages OpenViking, a context database for agents, with a Loginom client. A
Python server (`openviking/`) keeps a file tree of resources, memories and sessions on a Rust
virtual file system (`crates/ragfs`), indexes it in a vector database and does slow work (parsing,
summarising, embedding, memory extraction) in the background, through durable queues.

| component | state | operations | hard behaviour |
|---|---|---|---|
| **Path lock** (`crates/ragfs/src/lock/`) | lock files with owner tokens in the file tree, a registry of leases in memory | `acquire_batch`, `release`, nested leases of one owner (reuse, upgrade, downgrade), removal of stale tokens, refresh, handoff and adoption | no lock protects the lock files: checks, creation and verification are separate store calls; the file tree changes under the locks; owners die |
| **Task tracker** (`openviking/service/task_tracker.py`, `task_store.py`) | the persisted record of a task, a bounded cache of records, one asyncio lock per task | create, start, complete, fail, cancel, finalize, evict, delete | an update is prepared, stored and published in separate steps; the cache drops unfinished tasks |
| **Task work index** (`task_work_index.py`) | which queue messages each task owns, which handlers are active, the first error of a descendant; memory only | register, discard, register_active, prepare_ack, rollback_ack, cancel_active, rebuild | decides which ack is the last one and so who finalises the task; rebuilt from the queue after a restart |
| **Queues and workers** (`openviking/storage/queuefs/`) | messages in QueueFS (pending, processing), worker coroutines, counters | enqueue, dequeue, process, ack, recovery at start | redelivery after a crash; cancellation that reaches a coroutine at any await |
| **Add-resource job** (`add_resource_processor.py`, `resource_service.py`) | the root message and what it enqueues | produce, run on the service loop, wait for descendants, report | the worker and the job's coroutine live on two event loops; lock leases are handed over through the queue |
| **QueueFS backends** (`crates/ragfs/src/plugins/queuefs/`) | rows of messages with a status | enqueue, dequeue, ack, `recover_stale` | crash between dequeue and ack |
| **Session commit** (`openviking/session/`, `session_commit_processor.py`) | the live conversation, archive directories with a meta file and markers, durable messages | append, Phase 1 (split, archive, queue, rewrite), Phase 2 (recover, wait, summarise, extract, mark) | a crash between any two writes; a client that repeats a delivery; eight workers on one session's archives |
| **Semantic DAG and processor** (`semantic_dag.py`, `semantic_processor.py`, `abstract_overview.py`) | per-directory completion counters, a shared pool of workers, pending-change counts in the sidecars, coalesce versions | bottom-up summaries; counting, consuming and refreshing | a parent may be completed early or never; work that outlives its caller; a change that is neither shown nor counted |
| **URI mutation coordinator** (`uri_mutation_coordinator.py`) | active accesses and mutations with their URIs | access, mutate | starvation; circular waits |
| **Circuit breaker** (`openviking/utils/circuit_breaker.py`) | state, failure count, time of the trip | check, record success or failure | late answers of calls admitted before the trip |
| **Resource watches** (`openviking/resource/`, `fs_service.py`) | table of watches, index by URI, a file with a backup | run, create, update, delete; move and remove of resources | a target read before a wait and used after it; a failed save in the middle of a move; a crash in the middle of a save |
| **ragfs wrappers** (locks, cache, mirroring, git snapshots) | cached reads, primary and secondary trees | file system calls | stale reads, one of two writes failing |
| VikingFS, vector database, retrieval, parsers, model clients, ingest, HTTP and MCP endpoints, SDKs, Loginom client, bots, web studio, CLI | | | request routing, pure computation, network calls, user interfaces |

**How they interact.** A request that adds a resource takes a path lease, creates a task record,
registers the root message in the work index, enqueues it and hands its lease over. A worker
dequeues the message, checks for cancellation, registers as active and runs the job on the service
loop; the job adopts the lease, writes files, enqueues descendants (semantic and embedding work),
waits until they have left the index, and reports its outcome. The last ack finalises the task
before the message is deleted. `cancel` marks the record, which makes `register` refuse new work,
and interrupts the active handlers. After a crash the queue delivers every unacknowledged message
again and the index is rebuilt from it.

**What correctness means.** Path lock: two live owners never hold overlapping leases; a failed or
released batch leaves no token; nobody removes a live owner's token; a dead owner's tokens do not
block for ever. Tasks: a terminal record is final; it is stored before the last message that could
recover the task goes; completed and failed mean that the work has settled; errors of descendants
are not lost; a cancelling task gets no new work; a job ends. Handoff: a lease that travels through the
queue is backed by its token, has one holder, and is adopted. Semantic DAG: entries are finished
bottom-up and once, nothing is written after the call has returned, the call returns; an accepted
change is shown or stays counted. Session commit: no message is lost, none is extracted twice, the
reader sees all of them, archives end. Watches: a watch names the place where its resource is, a
resource is not moved under a run, a save is atomic, runs end. The hazards behind these, with their
lines, are listed in `PROJECT.json`.

## 2. Modules

| module | models |
|---|---|
| `PathLock` | `PathLockManager::acquire_batch` and `release` over the two token providers, the file tree under them, death of owners |
| `MCPathLock` | paths, batches and trees for TLC |
| `PathLockProofs` | type correctness, mutual exclusion, preservation of tokens, tokens that match the leases, for all instances |
| `TaskWork` | one task: record, cache, queue messages, work index, workers, job, canceller, restart |
| `MCTaskWork` | messages for TLC |
| `TaskWorkProofs` | type correctness, finality of terminal records and the effect of cancellation, for all instances |
| `TaskOutcomeProofs` | what the end of a task means: after the work, before the last ack, with the errors; a cancelled task is quiet |
| `LockHandoff` | `handoff`, `adopt`, `release` and the registry of leases, composed with the add-resource and semantic messages, cancellation and a restart |
| `LockHandoffProofs` | type correctness, leases backed by tokens, one holder |
| `BottomUp` | abstract: what a run over a directory tree promises its caller |
| `SemanticDag`, `MCSemanticDag` | `SemanticDagExecutor` and its node scheduler; implements `BottomUp` |
| `SemanticDagProofs` | type correctness, exact counters and statistics, the refinement of `BottomUp` |
| `SemanticRefresh`, `MCSemanticRefresh` | content writes against refreshes of one directory's sidecars |
| `SemanticRefreshProofs` | type correctness, and that no accepted change is forgotten |
| `SessionCommit` | appends, Phase 1 and Phase 2 of one session's commits |
| `SessionCommitProofs` | type correctness, nothing lost, nothing extracted while live or twice, complete context |
| `ResourceWatch`, `MCResourceWatch` | `WatchManager`, `WatchScheduler`, `UriMutationCoordinator`, `FSService.mv` and `rm` |
| `ResourceWatchProofs` | type correctness, the index, watches that follow their resources, undisturbed runs, atomic saves |

The `map` of `PROJECT.json` gives the source lines of every definition. Definitions keep the names
of the functions they model; a definition marked "Wrong variant" is a plausible bug, used only to
show that a property would notice it.

### 2.1 PathLock

A request names a path, EXACT or TREE. Lock files are `<path>/.path.ovlock` (form `path`) or the
sidecar in the parent directory (form `exact`); `resolve_lock_path` chooses between them by what
the file tree holds when it is asked. An attempt (`try_acquire_batch_once`) goes through its
requests in the order of `normalize_requests` twice. In the `acquire` pass it reads every lock file
that could conflict (`CheckLock`: ancestors, the path's own two files, and for TREE everything
below), makes the directory (`ensure_lock_dir`), reuses or upgrades the owner's own token
(`TryReuse`), reads the file (`TryRead`), takes a stale token over (`TakeOver`, `Unlink`) and creates
the token (`try_create_token`, `WriteToken`). In the `verify` pass it reads everything again, then
grants. A conflict leads to `rollback_acquisitions`, one claim at a time, and to `ReadConflict`,
`Cleanup` of a stale conflicting token, `Retry` or `Timeout`. `release_lease_paths` gives back one
claim at a time, keeping or weakening a token other leases need. Each action is one call of the
token store; owners interleave at all of them.

Abstractions:

- Time is one fact per owner: whether its tokens are older than `lock_expire`. `is_stale` compares
  with the clock at the read; leases are refreshed every `lock_expire`/3, so only a dead owner's
  tokens expire. That an attempt is shorter than `lock_expire` is assumed (its tokens enter the
  refresh loop only when it is granted).
- The descendants' lock files are listed and then read; in the model each is read once, in any order
  within its stage. A file that the listing missed is a file read when the listing was made, so the
  code's behaviours are among the model's. The path's own file, which a TREE request reads in two
  stages, is read once.
- The filesystem provider creates a token file and writes it in two steps, and its forced removal
  compares and unlinks in two steps. The memory provider does each in one. An upgrade, and the
  removal of an owner's own token, are single steps on both: they touch a file whose token names a
  live owner, which others leave alone except in the race that `path_lock_stale_race` already shows.
- An owner has one operation at a time (the owner mutex). In the code another operation of the same
  owner may run between two attempts of a waiting one, which holds nothing then; that is left out.
- `Crash` is the death of a process or the drop of the future of an owner's first acquisition. A
  dropped nested acquisition is not modelled (its hazard is listed).
- Calls of the token store answer as its state says and do not fail. A removal that raises in the
  rollback (`manager.rs:1047`, `1084`) or in a release (`manager.rs:1543`) would leave a token of a live
  owner behind, which `TokensMatchLeases` excludes; `discard_lost_path_refs`, which a release runs when
  it finds another owner's token in its place, is left out with it.
- `CreateFile`, `RemoveFile` and `Mkdir` are what the locked file system wrapper does; a deletion
  needs a lease covering the path.

### 2.2 TaskWork

Tasks share no state of these components, so the model has one. `Works` are its queue messages,
`Root` the first. The actors are the producer, the canceller, a worker coroutine per message and the
body of the root's handler on the service loop; each await of the code is a step, and any other actor
may run there. An update of the record takes the task's lock (`Update`), writes the store (`Persist`)
and publishes to the cache (`Publish`); `StoreFails` replaces the write. `_record_outcome` is
`complete` and `fail`; `_finalize_task` is the finalisation that both they and the last ack attempt.
`prepare_ack`, `ack`, `rollback_ack` are `NamedQueue.ack` around `TaskWorkIndex.prepare_ack`;
`InterruptHandler` and `InterruptAck` are a `Task.cancel()` that reaches a worker in its handler or
later. `BodyCheck` to `BodyUnwound` follow `AddResourceProcessor._process` through its early returns,
its exception handlers and its `finally`. `Restart` forgets everything in memory, turns `processing`
messages back into `pending`, rebuilds the index from them and caches the record if there are any.

Abstractions:

- Results and errors are Booleans; `update_stage`, which changes only a text, is left out.
- The write of a cancelled enqueue goes on in its thread: the message may land (`pending`) or not
  (`gone`), and its index entry is discarded at once.
- Workers are those of a queue with more than one worker; the sequential loop differs in that it
  does not note the error of a raising handler and that a `CancelledError` in the ack ends its thread.
- `_evict_expired` may drop the record at any time when `CacheOverflows`.
- An enqueue that raises has stored nothing. In the code the call may raise although its message
  landed (`resource_service.py:610`): the producer then fails the task (`resource_service.py:623`) while
  its message is delivered.
- Not modelled: `get_task_auth` and `_merge_loaded_tasks`, which fill the cache from stored records
  for credentials and listings (an evicted record comes back only with an update here); the requeue
  after a failed lock adoption, deletion of expired records, `create_if_no_running`, completion counters,
  draining at shutdown, tasks without queue messages.

### 2.3 LockHandoff

One lease on a resource's tree goes from the request (`RequestAcquires` to `RequestParks`) to the
add-resource job and from there to the semantic job. The registry (`leases`) and the references
already consumed live in memory; the token, whether it has expired, and the queue messages outlive a
`Restart`. `Adopt` follows `PathLockManager::adopt`: a registered lease is taken over only when it is
parked, under a new reference (`Rotate`); one that is not registered is adopted by the owner id in the
token, in two steps (`Adopt`, `AdoptRefresh`) that other actors can come between, except those that
need the owner's mutex (`Locked`). `Reacquire`, `Requeue` with the retry limit, `BreakerOpen`, `JobWork` to
`JobEnds`, `SemanticWork`, `ReleaseAfter` and `Ack` are the two processors; a job that has nothing to
queue, or whose call of `handoff` fails, releases its lease before it stores its result. `Interrupt` is a cancelled
handler, whose call of the lock manager may go on in its thread. Acquisition is one step here (its
own steps are the subject of `PathLock`); references and owner ids, unique in the code, are reused
when nothing names them any more.

### 2.4 SemanticDag and BottomUp

A work is a directory to list, a file to summarise or an overview to write; `stage` says at which
await its worker is. `Take` is `SemanticNodeScheduler`'s worker with the early returns of the task it
starts; `Listed` and `ListFails` are the two ends of `_dispatch_dir`; `Summarised`, `Vectorised`,
`Generated`, `Written`, `DirVectorised` are the awaits of `_file_summary_task` and `_overview_task`
with their exceptions; `Report` and `RootReport` are the reports to the parent, which schedule its
overview when the counter reaches zero. `Submit` includes `_ensure_workers`, and `WorkerExits` the
idle timeout. `RootWakes`, `Drained` and `Cancel` are `run()` with its except and finally clauses. The
statistics (`DagStats`) are kept with their clamping at zero. The queue's order is left open.

`BottomUp` has two variables: what is finished and how the call ended. `Implements` is
`INSTANCE BottomUp` with the entries directly below each directory that the executor schedules, and
with the outcome of `run()` once it is over; TLC checks it as a property of `SemanticDag`, and
`SemanticDagProofs` proves it.

### 2.5 SemanticRefresh

Writers write a file, take the exact lease on the two sidecars, count the change (`PlanAcquire`,
`Count`, `CountBoth`) and, when the count has reached the threshold, take a coalesce version and store
a message (`Coalesce`, `Store`); a failure rolls the file back. The handler lists, takes a snapshot of
the count, reads the files one by one, and writes overview and abstract, each step under the lease
where the code has it; a lease that is taken is not waited for. A file's content is the writer that
wrote it; a body is what its generation read. `Requeue` is the circuit breaker or a failed
vectorisation. `AcceptedCounted` is about files that existed before, none of whose writes was rolled
back: a rollback restores the content that its writer found, and with it what a later writer of the
same file may have written. The
model is about narrow directories: a directory wide enough that its entries are sampled
(`semantic_dag.py:412`, `757`) does not read every file a change is counted for, and only the larger
`Threshold` of such a directory is represented. The sidecars exist: the path for a directory without
a baseline (`abstract_overview.py:516`), which refreshes at once, is left out.

### 2.6 SessionCommit

`root` is `messages.jsonl`; an archive is its two id lists and `phase1` state in `.meta.json`, its raw
file, its overview and its markers. `BeginCommit` to `PublishReady` are the writes of Phase 1 in their
order, under the session's lock, the directory and its `.meta.json` (`WriteIntent`) being two of them;
`FailCommit` and `FailUnmarked` are its error path. Each queue message of an archive is a slot with its
handler: `Dequeue`, `Verify` (`_ensure_phase1_ready`), `Gate` and `VerifyPrev` (`_can_run_archive`, which
waits for a predecessor without `phase1`), `Requeue`, `StartExtract`, the two concurrent steps, `Gathered`,
`WriteDone`. The summary writes an overview or, when it comes out empty, none (`Summarize`, `blank`).
The memory step writes user memories (`ExtractMemories`) and records itself at its end
(`RecordMemories`); an attempt that raises in between may be repeated from the beginning
(`MemoryRetried`, counted per message in `redone`) or be the last one (`MemoryFails`); the same goes for
the summary (`SummaryFails`). `Misread` is the read of an archive's `.meta.json` that fails and is
answered with an empty record: the archive then counts as one of an older version (`MisreadHead`), as
failed (`MisreadVerify`, `MisreadPrev`), its recorded step is not seen (`MisreadRecord`), or a merge
writes the file without what it could not read (`MisreadMerge`, `MisreadPublish`). `Cancel` interrupts the
handlers, whose coroutine writes its marker later (`Unwind`); `Raise` is an exception that leaves the
handler; `Crash` restarts the process and delivers unacknowledged messages again. Appends, recovery
and the merge of the metadata hold the lock for one step. Memories are counted per message; their
content, the token statistics and the session's own meta file are left out.

Assumptions and omissions:

- **Every write of the store is atomic.** The local file system truncates a file and then writes it
  (`crates/ragfs/src/plugins/localfs/mod.rs:1002-1033`), and `append_file` reads and rewrites the whole
  file (`openviking/storage/viking_fs/_ops.py:1290-1310`). A restart within the rewrite or the append of
  `messages.jsonl` can therefore leave a truncated conversation, which `NothingLost` does not cover;
  the same holds for a torn `.meta.json`. (`PathLock` and `ResourceWatch` do model torn writes.) An error
  of a write leaves the file as it was or as it should be.
- Retention is by count. In the opt-in `turn_budget` mode the anchor of a turn is archived and stays
  live on purpose, so that `ExtractedNotLive` and `ArchivesDisjoint` would have to be stated otherwise.
- A merge of `.meta.json` is one step: it is serialised by a lock of its own; the ready marker's second
  read is part of it.
- Not modelled: failing existence checks of the markers, failing reads of overviews, checkpoints,
  archives of older versions. A delivery that is repeated while an archive has no raw file raises in
  the code; in the model it is not possible then.

### 2.7 ResourceWatch

The table, its index and the manager's lock are `WatchManager`. `Change` starts a save: the temporary
file is written and the old backup removed (`SaveTmp`), the file is moved to the backup and the
temporary file over it. `VikingFS.mv` is a copy that overwrites, an update of the vector store and a
removal of the source, so the first move is `SaveBackup` and `SaveDrop`, the second `SavePublish` and
`SaveEnds`. `SaveSlips` are the errors that `_save_tasks` swallows: the old backup stays; the rotation
fails before its copy, in the update of the vector store, after which `mv` removes its copy, or in the
removal. `SaveFails` are those it raises: at the temporary file or in its move, which then may remove
the new file again; only a prefix rewrite restores table and index. `stored` is what the file held when the
save began, or `None` once there is nothing to fall back on. `Crash` may tear the copy under way,
may find file or backup unreadable, and starts a save when it loaded the backup.

`held` is the coordinator's set of accesses and mutations; `HasBlocker` is its overlap test. A run
(`WatchScheduler`) reads its target, waits for an access, confirms the target, looks whether it exists,
submits a refresh and records the execution. Edits read the target, wait and read again. `BeginMove` to
`EndMove` is `FSService.mv` with its transaction: the files move as a whole, merging into what is at the
target, or not at all, or the removal of the source raises half way (`MoveFiles`); after a failed save
they move back, together with what was at the target before, or that raises too (`UndoMove`). `halves`
counts the moves that ended half way. `MoveOut` is a move out of the resource scope, without lease and
rewrite. `RemoveFiles` to `EndRemove` is `rm`, which does not mind a missing resource. `home` is a history
variable: where the watched resource really is, `None` once it left the scope. Times and intervals are
left out, so a run may start whenever its watch is there; the scheduler's semaphore is `Concurrency`.

Not modelled: the job that `refresh_resource` submits, which works after the run has given its access
back; moves into the resource scope or of the manager's own files, which take no lease either; moves of
a directory into itself (`MoveAssumption`); permissions, and the errors of `_update_task_unlocked`
after the target was set (`watch_manager.py:566`, `593`), which no caller can reach.

## 3. What TLC checks

| run | instance | result |
|---|---|---|
| `path_lock_nested` | memory provider; two owners that nest two leases each, one of which may be dropped; EXACT and TREE on `/a`, EXACT on `/a/b` | `TypeOK`, `MutualExclusion`, `TokensMatchLeases`, `OthersTokensKept` hold |
| `path_lock_fs` | filesystem provider; two owners, one may die; several initial trees; EXACT on `/a/b`, TREE on `/a` and a batch of three requests; the file may be deleted; fairness | `MutualExclusion`, `TokensMatchLeases`, `DeadLocksYield` hold |
| `path_lock_stale_race` | filesystem provider; three owners, one dies | `MutualExclusion` is **violated** |
| `task_job` | root and two descendants, two restarts, one fault, overflowing cache; fairness | `TypeOK`, `FailureKept`, `TerminalBeforeLastAck`, `OutcomeIsSettled`, `TaskEnds` hold |
| `task_cancel` | root and two descendants, one restart, any number of cancellations; symmetry over the descendants | `CancelledRunsNothing`, `NoNewWork`, `TerminalIsFinal` hold |
| `lock_handoff` | three message slots, one retry, one restart, cancellation, another request for the path; fairness | `TypeOK`, `LeaseBacked`, `OneHolderUntilRestart`, `ParkedAdopted` hold |
| `semantic_dag` | a root with a file and two directories of one file each, three workers, one cancellation; fairness | `TypeOK`, `CountsExact`, `StatsExact`, `Implements`, `RunReturns` hold |
| `semantic_refresh` | three writers of one user, two of one file, the third creating another; one fault, threshold 1; symmetry | `TypeOK`, `AcceptedCounted` hold |
| `semantic_refresh_two_users` | two writers of different users | `AcceptedCounted` is **violated** |
| `session_commit` | two messages, two commits, two slots per archive, keeping 0 or 1 message, one repeated attempt, two troubles; fairness | `TypeOK`, `NothingLost`, `ExtractedNotLive`, `ExtractedOnce`, `ContextComplete`, `QueuedEnds` hold |
| `session_commit_overlap` | one message, two commits, one restart | `ArchivesDisjoint` is **violated** |
| `resource_watch` | a watched file in a directory that is moved, removed, watched, unwatched, deleted or exported (two requests), one trouble; fairness | `TypeOK`, `IndexExact`, `WatchFollows`, `RunUndisturbed`, `SaveAtomic`, `RunEnds` hold |

Why the bounds are enough to be interesting. Two nested paths give every relation two requests can
have (same, ancestor, descendant); a third owner is what a race about a dead owner's token needs;
two leases per owner reach reuse, upgrade, undone upgrade and downgrade; a batch of three requests on
two paths reaches normalisation and rollback half way. Two descendants let one be acknowledged while
the other is enqueued; two restarts let a message be redelivered and be interrupted again; one fault
at any write or handler reaches every rollback. In the handoff, three slots hold the job's message, a
requeued copy and the semantic message at once. In the DAG, two sibling directories report in any
order next to a file, and three workers are fewer than the works. Three writers are one more than the
race between a snapshot, a count and a consuming write needs. Two archives give one predecessor, two
slots a message together with its requeued copy, and two troubles combine every pair of a restart, an
error, a swallowed read, an empty summary and a cancellation. In the watch model four URIs give a
directory and a file before and after a move, so that a move may merge with a watched file; two requests
overlap with each other and with a run, and one trouble at any store call reaches every error path of a
save, of a move and of a start. The theorems below lift the bounds for the properties
they state.

Fairness. `PathLock`: an operation under way keeps running (its steps wait for nothing but the store)
and time passes; nothing forces a caller to call, to time out or to release. `TaskWork`: every
coroutine that can go on does, handlers end, the queue is polled; none is assumed for cancellation,
eviction, faults, enqueues of descendants or restarts. `TaskEnds` excuses behaviours with a failed
write or a raising handler: such a message is not acknowledged, and the root waits for it, until the
next restart. `LockHandoff`, `SemanticDag`, `SessionCommit`: coroutines that can go on do, model calls
and store calls end, queues are polled, and (handoff) another holder of the path releases it and an
open circuit breaker, which lets calls through again after its timeout, does not meet every delivery
(strong fairness of `Adopt`); nothing is assumed of requests, cancellations, errors and restarts. `ResourceWatch`: a save goes on; runs, and
moves that have their lease, get strong fairness, because `asyncio.Lock` and `asyncio.Semaphore` hand
on in the order of arrival and there are finitely many mutations; nothing is assumed of the wait for a
mutation lease, which new accesses may keep away for ever. Deadlock checking is off for all modules but
`PathLock`: their instances come to an end when tasks, writes, commits or requests are used up.

### Disagreements between code and documentation

- **Stale takeover on the filesystem provider** (`path_lock_stale_race`). Two contenders read the
  token of a dead owner. One unlinks it, creates its own and verifies; the other, which had compared
  before, unlinks by name, and so removes the new token. Both are granted. The documented step
  "Verify lock file ownership (fencing token matches)" does not exist in the code, which never reads
  its own token back.
- **Two refreshes consume one count twice** (`semantic_refresh_two_users`). Coalesce keys include the
  user, so refreshes of one directory for two users do not outdate each other. Both have the first
  change in their snapshots; the second subtracts it again, and with it a change counted since. The
  comment in `abstract_overview.py` says that changes arriving during generation remain pending.
- **Two archives with the same messages** (`session_commit_overlap`). A restart between the enqueue and
  the rewrite of a commit, and a second commit before the first message is processed: the second one
  removes the messages from the root, and recovery takes that as proof that the first one did.

### Limits that the properties state

Some guarantees hold only under the conditions in their definitions; these are what the code gives:

- An error of an acknowledged descendant survives as long as the process does (`FailureKept`: `rebuild`
  empties `_failures`), and a cancelling task is refused new work as long as the cache holds it
  (`CancelStopsWork` assumes `~CacheOverflows`: `is_cancellation_requested` reads the cache only).
- A `Task.cancel` that arrives in a worker's ack leaves the task `cancelling` until a restart; a task
  is `cancelled` before its coroutine on the service loop has stopped; with cancellation, the last ack
  can meet an enqueue in progress and delete the message without a terminal record. The properties of
  `task_job` therefore have no cancellation.
- A TREE lease on a file has its token in the parent's sidecar, which no request below the path reads:
  once the holder deletes the file, a child path can be locked (`SafeInstance` excludes it).
- The handler lists a directory before it takes the snapshot of the pending count. A file that is
  created and counted between the two is consumed without having been read, and a refresh of its own
  may end on the leased sidecars (`AcceptedCounted` is about files that existed before).
- `cancelled` excludes running handlers as long as the cache does not overflow (`CancelledRunsNothing`).
- After a restart the jobs of a message and of its requeued copy may both adopt the token they find
  (`OneHolderUntilRestart`); what a cancelled handler's adoption gets, nobody releases.
- A second cancellation leaves the drain of `run()` before the workers are idle (`MaxCancels` is 1).
- A restart between the writing of memories and the record of that step extracts them again, an
  attempt that raises after it wrote them writes them again when it is repeated, and a swallowed read of
  `.meta.json` can hide the record (`ExtractedOnce`).
- The messages of an archive that failed after the root rewrite are in its raw file only and not in the
  context; nor are those of an archive completed with an empty summary: `.done` is written without an
  overview, and the reader stops at it (`ContextComplete`).
- A restart between the directory of an archive and its `.meta.json`, or a merge after a failing read,
  leaves an archive without `phase1`. Once it has no message, nobody ends it, and the archives after it are requeued
  for ever (`QueuedEnds`, `Abandoned`).
- Watches and resources part when a restart interrupts a move, when the removal of the source or the
  rollback raises, when the rollback of a merge carries away what was at the target, and when a
  resource leaves the scope, which a run that has confirmed it does not prevent (`WatchFollows`,
  `RunUndisturbed`). The next run deactivates such a watch.
- A save without a file to begin with, after a failed one or after a start from the backup, removes
  the backup first; after a swallowed rotation error the only copy is overwritten in place, and a failing
  update of the vector store then removes it (`SaveAtomic` requires `stored`).

## 4. What TLAPS proves

All theorems are for arbitrary sets of owners, paths, batches, messages and arbitrary bounds.

**PathLockProofs**, for instances that satisfy `SafeInstance`: stale tokens are removed atomically
(memory provider) or nobody dies, and no TREE request names a deletable file. The violation run shows
that the first part is needed; the second is the limit described above.

- `TypeCorrect`: `Spec => []TypeOK`.
- `Exclusion`: `Spec => []MutualExclusion`.
- `OwnersKeepTokens`: `Spec => OthersTokensKept`.
- `TokensExact`: `Spec => []TokensMatchLeases`.

`MutualExclusion` is not inductive: what keeps two leases apart is the tokens and what the other side
has read. The invariant `Inv` (theorem `Invariance`) adds: who is dead and whose tokens may be stale
(`DeadInv`); the local state of an operation (`ControlInv`); the empty file between the two halves of
a creation (`WriteInv`); each claim lies in one of the two lock files of its path and belongs to a
granted lease or the operation under way (`ClaimInv`); each claim is backed by its owner's token, at
least as strong (`BackedInv`); undoing an upgrade leaves what the other leases need (`UndoInv`); lock
files lie in existing directories, and a TREE token in a sidecar is of a file that stays one, so that
nothing can be locked below it (`SiteInv`); and the heart, `ExclusionInv`: of two conflicting claims of different owners, at
least one owner's verify pass has yet to read the other's token. Lemma `Geometry` says that a request reads
every lock file where a conflicting claim may lie; `PassedCheck`, that a read file held no blocking
token. The grant then finds every file verified on both sides, which is a contradiction. `TokensExact` needs
the converse of `BackedInv`: a live owner's token is being written or is needed by a claim as strong
as itself (`OwnedInv`); and, so that undoing a reuse or an upgrade leaves no token without a claim, that what an
attempt reused belongs to a lease granted before it (`ReusedInv`).

**TaskWorkProofs**

- `TypeCorrect`: `Spec => []TypeOK`.
- `TerminalStays`: `Spec => TerminalIsFinal`, with cancellation, eviction, faults and restarts.
- `CancelStopsWork`: `~CacheOverflows` implies `Spec => NoNewWork`.

For `TerminalStays` the invariant is `RecordInv`: between updates the cache is empty or equal to the
store, while an update is not stored yet the stored record is not terminal, and once it is stored it equals
the store. For `CancelStopsWork` it is joined by
`ControlInv` (where an actor may resume, that the producer has the root message to itself until it is
written, that the job runs only for a root taken from the queue, where each write stands) and `CacheInv`: when the cache has no record, either none is stored or
no actor can enqueue (`Quiet`). Then every enqueue meets a cached record, which shows the cancellation.

**TaskOutcomeProofs**. The first three assume `~Cancellable` (nobody asks for cancellation; the limits
above say why), the last `~CacheOverflows`; restarts, faults and eviction of the cache are otherwise
unbounded.

- `TerminalBeforeAck`: `Spec => []TerminalBeforeLastAck`.
- `OutcomeAfterWork`: `Spec => OutcomeIsSettled`, an action property with its persistence.
- `FailuresReachRecord`: `Spec => []FailureKept`.
- `CancelledIsQuiet`: `Spec => []CancelledRunsNothing`.

To `RecordInv` and `ControlInv` the first three add where each actor and each update of the record can
stand (`PlaceInv`, `UpdateInv`), that the work index is exactly the set of messages that are queued or
in a handler (`IndexInv`), and that the job leaves an outcome in the record before its message is
acknowledged (`OutcomeInv`). On this `LastInv` says that an index without work means a terminal record
or a worker that is about to write one; `DoneInv`, that whoever prepares a terminal record has seen the
work settled; `FailInv`, that an error reported to the index is in `_failures` or in the record. For
cancellation, `CancelInv` says that a cancelled task runs no handler and that the admission in
`register_active` sees it, because the cache shows it or because, after a restart that found no
message, nobody can ask (`Quiet`).

**LockHandoffProofs**, for any number of message slots, ids, retries and restarts

- `TypeCorrect`; `LeasesAreBacked`: `Spec => []LeaseBacked`; `OneHolder`: `Spec => []OneHolderUntilRestart`.

`OneHolderUntilRestart` needs to know that before the first restart there is one lease, and that a
message in the queue with the token's owner names a registered lease or a consumed reference
(`Single`), so that an adoption never falls back on the token; `CapInv` says that what an actor
believes to own is registered, not parked and its alone, and `StaleInv` that an expired token has no
lease.

**SemanticDagProofs**, for any finite tree, any number of workers and all modes

- `TypeCorrect`; `CountsCorrect`: `Spec => []CountsExact`; `StatsCorrect`: `Spec => []StatsExact`.
- `Refinement`: `MaxCancels <= 1 => (Spec => Implements)`.

`Shape` relates the stage of each work to its entry: what has begun and not reported has all directories
above it waiting (`AncInv`), an overview that is queued or under way belongs to a directory whose
entries have all reported (`OverviewInv`), a directory that is not listed yet has no work below it
(`DirInv`), and a counter is the number of missing reports (`CountInv`). From it every end of a work is
the last step of its entry (`Last`), so a report meets a waiting parent and nothing below is under way.
`RunInv` adds how the caller's steps depend on the workers; with it each step of the executor is a step
of `BottomUp` or a stutter. A second cancellation leaves the drain, hence the hypothesis. `StatsExact`
is preserved by comparing what each step adds to and takes from the queued works, the busy works and
the waiting directories; it implies that the clamped decrements never clamp while the executor is open.

**SemanticRefreshProofs**, for narrow directories (2.5), any files, writers, threshold and faults

- `TypeCorrect`: `Spec => []TypeOK`.
- `NoChangeForgotten`: if all messages have one coalesce key (`OneKey`), `Spec => []AcceptedCounted`.

The run with two users shows that `OneKey` is needed. The argument: versions are unique, so only the
newest message may write (`Versions`) and one snapshot is consumed at a time; a generation that may
still be written has read, or has yet to read, every change that its snapshot counts, or more is
pending than it will consume (`ReadInv`); between the two sidecar writes the remaining count is what the
overview says (`HalfInv`, `CountInv`).

**SessionCommitProofs**, for any number of messages, commits, queue messages, errors, cancellations and
restarts

- `TypeCorrect`; `NoMessageLost`: `NothingLost`; `ReadyIsSettled`: `ExtractedNotLive`;
  `ExtractedAtMostOnce`: `ExtractedOnce`; `ContextIsComplete`: `ContextComplete`; each as `Spec => []...`.

`BaseInv` says what root and newest archive hold at each step of Phase 1 (`CommitInv`), that an archive
that is ready has its raw file and nothing in the root (`ArchInv`), and that a queue message has an
archive with a raw file (`SlotInv`). `OnceInv`, for behaviours without restart and swallowed error, adds that
every archive but the one being committed is ready or failed (`Settled`), that ready archives are
disjoint, that an archive has one handler before the memory step, and that a message whose memories were
written more often than attempts repeated them is in a ready archive with no handler still ahead of its
memory step (`TakenOnce`, `Consumed`). `ChainInv`, as long as no archive is marked failed and no summary came out
empty (`Clean`), says that the overview of a completed archive covers all archives up to its own and that a handler past
its gate has a predecessor that is done.

**ResourceWatchProofs**, for any URIs, watches, requests, failures and restarts

- `TypeCorrect`; `IndexIsExact`: `IndexExact`; `WatchesFollow`: `WatchFollows`; `RunsUndisturbed`:
  `RunUndisturbed`; each as `Spec => []...`; `SavesAreAtomic`: `Spec => SaveAtomic`, an action property.

The invariant has five parts: arguments that each request and run has at each step (`Typed`); leases of
those who rely on them, a mutation overlapping no other (`LeaseInv`); the index of the table and of the
copy a rollback restores (`IndexInv`); while a save has something to fall back on (`stored`), which of
file and backup hold it after each store call (`FileInv`); and, without restarts and half-way moves, where
the resources are while a move has moved the files and not yet the watches (`FollowInv`, `Displaced`).
`SavesAreAtomic` follows from `FileInv` by asking of each action whether it writes the two files
(`Writes`, `CrashFacts`). The lemmas about prefixes (`Under`, `Rewrite`) carry `FollowInv`.

What the proofs changed in the models. `ContextComplete` had to exclude archives with a failed
marker even when a done marker lies beside it: the next archive may have started from the overview before. A move remembers which
resources it moved (`plan`): a rollback that moves more than those has undone a merge. `AcceptedCounted` held on the smaller instance only
because nobody created a file there. Distinctness of special values from the model's sets, which TLC's
model values give for free, became named assumptions.

**Only model-checked.** The liveness properties `DeadLocksYield`, `TaskEnds`, `ParkedAdopted`,
`RunReturns`, `QueuedEnds` and `RunEnds`: fairness is outside the prover's reach. Every invariant and
action property of a passing run is also proved, under the hypotheses named above.

## 5. Plan

Proofs: the limits of the theorems could be narrowed: `TerminalBeforeAck` and `OutcomeAfterWork` with
cancellation that does not meet an enqueue, and
`OneHolder` after a restart without a requeued copy.

Models: the QueueFS backends and the completion counters of the queue manager, with the abstract
promise that a message is delivered until it is acknowledged; the circuit breaker; cache invalidation
and mirroring of the file system wrappers.

**Not modelled.** The vector engine, retrieval scoring, parsers, prompts, model clients, HTTP routing,
SDKs, the Loginom client, the bots and the user interfaces. They compute, format or call out; their
state is elsewhere. They are most of the repository's lines, so the share of it that the map covers
stays small although the coordination code is covered closely. `PROJECT.json` gives the reason for each
component.
