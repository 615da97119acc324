# A TLA+ development of the cocoindex-code daemon

`cocoindex-code` (`src/src/cocoindex_code`) is a code-search daemon. One
long-lived process keeps a vector index of each project up to date with an
incremental indexing engine, answers searches and greps over a local socket and
over MCP, throttles itself on memory pressure, and runs a daily workflow that
pulls the working clones and re-indexes them. A thin client starts, stops and
replaces the daemon.

Everything inside the daemon runs on one asyncio event loop, with threads for
`rg`, `git`, socket reads and sizing. The models take the code between two
suspension points as one step; what interleaves is tasks, callbacks, threads
and cancellations.

Contents: 1 inventory, 2 modules and how they follow the code, 3 runs, 4 bounds,
5 fairness, 6 proofs, 7 what the development found, 8 what is not modelled,
9 plan.

## 1. Inventory

| component | state | operations | interacts with | what makes it correct |
|---|---|---|---|---|
| memory gate (`memory.py` `_Gate`) | capacity, floor, maximum, permits in use, queue depth, a condition | `slot`, `set_capacity`, `resize` | governor, indexer, grep | no permit lost or doubled, no lost wake-up, shrinks honoured |
| memory governor (`memory.py` `MemoryGovernor`) | an index gate, a scan gate, a monitor task | `calibrate`, `slot`, `scan_slot`, monitor tick | indexer, `Project.ripgrep`, branch scans | capacities stay in range and recover; queued work is served; scans are bounded |
| memory budget (`memory.py` functions) | none | limit of the machine, cap on files in flight, scan budget, second embedder | governor, daemon start | what is handed out fits the limit beside the idle footprint |
| index coordination (`project.py` `Project`) | `_index_lock`, `_indexing_scheduled`, `_initial_index_done`, `_indexing_stats` | stream, refresh, ensure, wait, search, status, compact, direct pass | every request path; the scheduled workflow | one writer; a pending pass is visible; every request is answered; refresh is fresh |
| project lifetime (`daemon.py` `ProjectRegistry`, `Project.create/close`) | map of loaded projects, load lock; what still refers to a project | get, remove, close all | dispatch, passes in the background, workflow, shutdown | one environment per directory |
| request dispatch (`daemon.py`) | connections, handler tasks, executor threads | handshake, `_dispatch`, search with wait, doctor, pull, stop | client, registry, project | every client that speaks is answered, or told |
| scheduled workflow (`daemon.py`, `schedule.py`) | last run date | choose projects, pull, index, push | git, project, metrics | once a day, every day; never a second pass beside a running one |
| daemon process (`daemon.py` `run_daemon`, `client.py`) | PID file, socket, settings mtime | start, stop, wait, restart, clean up | client, container supervisor | one reachable daemon, with the current settings |
| branch search (`branch_search.py`, `git_ops.py`) | the clone's refs, refresh lock and stamp | refresh, resolve, diff, two-section search | git, grep, project, workflow | the branch view is base plus diff of one commit, as fresh as the interval |
| text search (`ripgrep.py`, `lexical.py`) | none | run `rg`, batch blobs, limit, rank | scan gate | batching does not change the answer; what is missing is flagged; memory is bounded |
| embedding pacing (`litellm_embedder.py`, `run_daemon`) | two embedders or one for all, each with a request lock and a next permitted time | paced call with retries | index passes, searches | spacing holds per embedder, the lock is released on failure |
| metrics (`metrics.py`) | snapshot rows in a database | write one snapshot, push status | index pass, workflow | a snapshot is whole or absent |
| path mappings (`settings.py`) | none | display, input and database paths | client, CLI, registry | a path survives the way out and in |
| vector store, index definition, query, MCP wording, CLI, YAML settings, embedder configuration, protocol encoding | see `PROJECT.json` | | | |

Hard behaviour, by kind (the full list, each at its line, is `hazards` in
`PROJECT.json`):

- *interleaving*: a permit that wakes one waiter may be taken by another; passes,
  compactions and waiting searches hand one lock over to each other while tasks
  that have been created but not started are known only through a flag;
- *cancellation*: a handler task is cancelled while queued, while its thread
  runs, or while it awaits another task, and each has another effect;
- *stale state*: decisions taken on `locked()`, on a row count or on a commit
  and acted on after a suspension;
- *a world that moves*: a remote is pushed to, a workflow resets the clone and an
  index pass rebuilds the table between two git commands of one search;
- *limits*: executor threads, batches, match limits, deadlines and intervals;
- *process lifecycle*: PID file, socket and settings mtime shared by daemons
  that overlap while one stops and another starts.

## 2. Modules

```
MemoryGate  <--INSTANCE (x2, refinement)--  MemoryGovernor
    |                                          |
MCMemoryGate, MemoryGateProofs     MCMemoryGovernor, MemoryGovernorProofs

IndexTurns  <--INSTANCE (refinement)--  ProjectIndex
                                          |
                             MCProjectIndex, ProjectIndexProofs

DaemonLifecycle  <--  MCDaemonLifecycle, DaemonLifecycleProofs

BranchView  <--EXTENDS--  MCSearch  --EXTENDS-->  BranchScan
    |                                                 |
BranchViewProofs                              BranchScanProofs

RequestServer  <--EXTENDS--  DaemonService  --INSTANCE-->  DailyWorkflow, EmbeddingPacing,
                              |         |                  MetricsPush, MemoryBudget, PathMapping
                         MCService   DaemonServiceProofs  --INSTANCE-->  MetricsPushProofs
```

`MC*` modules give TLC its constants. `*Proofs` modules hold the theorems.
Operators introduced by "Mutant", "Mutant of" or "A bug to catch" are plausible bugs of
the definition that follows them and are part of no specification: they
document what each property guards against (`mutants` in `PROJECT.json`).

### MemoryGate: `class _Gate`

A caller is one use of `async with gate.slot()`. `caller[c]` says where it is:
`outside`, `waiting` in `cond.wait()`, `notified` (woken, has not re-evaluated the
predicate), `holding`, `left`. The critical sections of the condition contain no
other `await`, so each is one action:

| code | action |
|---|---|
| `slot()`, room at once | `Acquire` |
| `slot()`, full: `_waiting += 1`, sleep | `Enqueue` |
| `wait_for` re-evaluated | `Admit` (room) or `SleepAgain` |
| cancelled in `wait_for`, `finally: _waiting -= 1` | `CancelWait` |
| leaving the body, `notify_all` | `Release` |
| `set_capacity(n)`, clamping, `notify_all` on growth | `SetCapacity` |

`resize()` runs during calibration, before any caller, and is the initial state.

### MemoryGovernor: `MemoryGovernor`, and the scans it bounds

Two instances of `MemoryGate` over the governor's own variables, the monitor
(`Tick`), the memory pressure as an environment variable with the four bands the
thresholds make, and the set `threads` of `rg` threads alive. A scan takes its
permit and hands the thread to the executor in one step; `ScanAbandoned` is the
cancellation of its handler, at which `await asyncio.to_thread` raises at once
and the permit goes back while the thread keeps running. `GatesAreGates`, the
two gate specifications, is the abstract specification the governor implements.

### ProjectIndex: `Project` and the request paths that drive it

A *job* is one claim on `_index_lock`: an index pass (from `stream_index`,
`ensure_indexing_started`, `refresh_index` or the workflow's direct `run_index`),
a compaction, or the `async with lock: pass` of a waiting search. `job[j]` is
`none`, `created` (task made, not yet run), `queued`, `running`, `finalizing` or
ended.

| code | model |
|---|---|
| `asyncio.Lock`: first come first served, `locked()` FALSE between release and the woken waiter's step | `holder`, `queue`; `Contends`, `Takes`, `Releases`, `Withdraws` |
| `_indexing_scheduled`, `_clear` | `scheduled`, `callbacks`; `Spawn`, `Clear` |
| `_initial_index_done`, `_indexing_stats` | `initial_done`, `stats` |
| the table | `rows` (holds a row), `indexed` (tree version it reflects) |
| the file system | `tree`; `Edit`, `WorkflowPulls` |
| `_run_index_inner`, `_finalize_index` | `JobStarts`, `JobGranted`, `PassCommits`, `PassIndexed`, `PassFinishes` |
| `stream_index`; client gone (`GeneratorExit`) | `StreamIndex`, `StreamEnds`, `StreamDropped` |
| search and status: `ensure_indexing_started`, `refresh_index`, `has_indexed_rows`, `wait_for_indexing_done`, query | `Arrives`, `EnsureResumes`, `RefreshResumes`, `CountRows`, `CountDecides`, `WaitDone`, `WaitGranted`, `Answers` |
| cancellation of a handler task | `SearchCancelled` |
| `compact` | `Compact`, `CompactEnds` |
| the workflow over this project | `WorkflowPulls`, `WorkflowIndexes`, `WorkflowEnds` |

Two details of asyncio carry weight. First, `Lock.release()` schedules the
oldest waiter, and a finished task schedules its done callbacks afterwards, so
when a pass ends the waiter it woke runs *before* `_clear` of that pass: `waker`
remembers that order. Second, cancelling a task that awaits another *task* cancels that one; awaiting
an event or a lock does not reach further.

`IndexTurns` is the abstract specification of this: the jobs that work are the writers, the queue
is the line they stand in, and `indexed` is the version of the index. A writer asks, enters
when nobody writes and it is the oldest in the line, raises the version or not, and leaves; a waiting
search passes when its turn comes, and whoever is cancelled steps out of the line. `ProjectIndex`
implements it (`TakesTurns`).

`PassCommits` lets the table gain or lose its rows at any point of a pass,
because the engine commits as it goes; a search that counts rows meanwhile may see
either.

### DaemonLifecycle: `run_daemon`, `client.py`, the supervisor

Processes, not tasks, interleave here: an action is one access to a shared file or
to another process. The shared state is `socket` (the daemon whose `bind` made
the path), `pid_file` (the daemon named in it) and `settings` (the version of
`global_settings.yml`, of which its mtime is the image). `phase[d]` is how far daemon
`d` is in `run_daemon`; `recorded[d]` is the mtime it reports in a handshake, `loaded[d]`
the version it really works with. `pc[c]` is how far client `c` is.

| code | action |
|---|---|
| `run_daemon`, start: mtime, settings and models, PID file, unlink, bind | `NotesMtime`, `LoadsSettings`, `WritesPid`, `ClearsSocket`, `Binds` |
| `run_daemon`, `finally`: `listener.close`, drain, unlink; read the PID file, unlink it | `ClosesListener`, `Releases`, `UnlinksSocket`, `Exits`, `RemovesPid` |
| the process is killed, or ends after an aborted clean-up | `Perishes` |
| `_connect_and_handshake` | `Calls`, `Connects`, `Retries`, `Completes` |
| `stop_daemon`: PID, StopRequest, wait, SIGTERM, wait, SIGKILL, clean-up | `ReadsPid`, `AsksToStop`, `SeesPidGone`, `StopWaitExpires`, `Terminates`, `Kills` |
| `_cleanup_stale_files`: the socket; the PID file, read and unlinked | `CleansUp`, `ChecksPid`, `UnlinksPid` |
| `start_daemon`, `_wait_for_daemon` | `Starts`, `WaitsForSupervisor`, `SeesSocket`, `GivesUp` |
| `ccc daemon stop`, `ccc daemon restart` | `Commands`, `Stopped`, `Starts` |
| `docker/entrypoint.sh` | `Respawns` |

What a SIGTERM does depends on the phase (`AfterTerm`): before the handlers are
installed and after `loop.close()` it is the default action; while serving it stops
the loop; during the clean-up it stops the loop again, which makes the
`run_until_complete` under way raise (`aborted`) or is lost. `listener.close()` unlinks the
socket path and raises where somebody has already removed it, so the rest of the clean-up is
skipped (`aborted` too: such a process ends when its executor threads do).
Deadlines may pass at any moment at which their condition is unmet.

### BranchView: `BranchSearch` and the git commands it runs

A remote has a base branch and a feature branch, and both move. A commit is the number of its
push; its tree gives each file a content. `tracking`, `upstream` and `head` are the clone's
refs, `indexed` is the base commit the table was built from, and `search[s]` holds the local
variables of search `s` between two git commands.

| code | action |
|---|---|
| developers push; an index pass ends; the clock | `PushBranch`, `PushBase`, `IndexPass`, `Tick` |
| `_refresh_clone`: lock, interval, stamp | `TakeRefresh`, `StampRefresh` |
| `_refresh_clone_sync`: `fetch_all`, or the reset of the workflow | `RefreshFetch`, `RefreshReset`, `RefreshFails` |
| `resolve_commit`: local, fetch, look again | `ResolveLocal`, `FetchRef`, `RevParse`, `FetchRefused`, `FetchUnreachable`, `Recheck` |
| `branch_diff`, `_filter` | `Diff` |
| base half: the table without the shadowed paths, or the working tree for a grep | `QueryBase` |
| branch half: `read_blob`, one command each | `ReadBlob`, `Answer` |

A fetch is refused when another one has written the ref since it began: that is git's ref
lock, which `resolve_commit` answers with its second look.

### BranchScan: `blob_batches`, the `rg` run, and the two ways to use it

One scan of the changed files, as a grep (`search_branch`) or as a ranking
(`_scan_diff_sync` over `lexical_search`). A match is a path and a line; blobs have sizes, lines have scores,
and `rg` may report in any order, be killed by its watchdog or be unusable.

| code | action |
|---|---|
| `blob_sizes`, `blob_batches` | `NextPath`, `DropBlob`, `KeepBlob`, `Yield` |
| `search_tree`, `search_blobs`: start `rg` | `StartTree`, `StartBatch` |
| `_consume`, `_Collector`; the watchdog | `Consume`, `Watchdog` |
| `search_branch`: collect, lower the limit, stop at it, merge | `EndTree`, `EndBatch`, `Exhausted`, `Merge` |
| `lexical_search`, and the running top of `_scan_diff_sync` | `RankBatch` |
| `rg` missing: a grep fails, a ranking falls back to Python | `Unusable` |

Ordering is stated by places: a hit stands behind all those before it, by the sort key of the code or, where
neither is before the other, by where it stood (`Stably`: Python's sort is stable). What a batch holds is
the set of its bytes, so that sums are cardinalities. Neither needs recursion, which keeps the
module within reach of the prover.

The scan reads its commit by SHA, so nothing of the moving clone reaches it; that is why the two
modules share no state. What `OneCommit` proves of `BranchView` is what makes this true.

### RequestServer: connections, dispatch and the project registry

| code | action |
|---|---|
| `_spawn_handler`; a client that says hello, or never does | `Connect` |
| `handle_connection`: two reads in executor threads, handshake, request | `TakesThread`, `Greets`, `Requested` |
| `_run_scheduled_workflow` comes due | `Wakes` |
| `get_project`: first look, lock, second look, load, failing load | `Looks`, `LooksAgain`, `Loads`, `LoadFails` |
| `remove_project` | `Remove` |
| `stream_index`: notice, pass, progress; nobody reads any more | `StreamsIndex`, `Progress`, `Disconnected` |
| `ensure_indexing_started`; `refresh_index` | `Ensures`, `Started`; `Refreshes`, `Refreshed` |
| `should_wait_for_indexing`, `wait_for_indexing_done`, or rows to answer from | `Waits`, `Waited`, `Proceeds` |
| `compact` | `Compacts`, `Compacted` |
| `_run_scheduled_workflow_for`: `is_indexing`, `run_index` | `WorkflowIndexes`, `WorkflowIndexed` |
| `run_index`: the lock, the end | `Granted`, `PassEnds` |
| results of a search, grep, status, push or stream | `Finishes` |
| `_handle_doctor` and its checks | `Doctor`, `CheckModel`, `CheckMetrics`, `CheckFileWalk`, `CheckIndexStatus`, `CheckGit`, `CheckRaises` |
| `_handle_pull`; requests without a project | `Pull`, `Answers` |
| `on_shutdown`, and the drain of `run_daemon` | `Stop` |
| client: handshake, read loops, end of file, an interrupt | `Greeted`, `Receives`, `ReceivesResult`, `Loses`, `HangsUp` |

A pass is a task of its own: `claim[c]` is the project whose index lock the pass that request `c` began
has or waits for, and it stays after the handler has ended (`project[c]` is then `NoProject`). No pass exists that no task began:
a search that finds the lock of a compaction starts none (`Ensures`). `ProjectIndex` says what a pass does, in which
order passes get the lock and what cancels them; here they get it in any order, and the lowering of the flag
is one step with the end of the pass.

The engine's environment is external: a load of a root whose environment is still open raises, and it
is open while the registry, a handler, a pass or the workflow refers to a project of the root (`EnvironmentOpen`, `InUse`).

### DailyWorkflow, EmbeddingPacing, MetricsPush

`DailyWorkflow` is `_scheduled_workflow_loop`: `Look` (how long to sleep, at most the cap), `Wake`
(is it due), `Targets` (`_scheduled_target_projects`), `WorkflowStep` (pull, index, push of one target after
the other, each failing on its own) and `EndWorkflow` (which records the date on which the run
*began*). The wall clock moves while the loop sleeps or works, jumps when the host is
suspended and may be stepped back.

`EmbeddingPacing` is `run_embedding_request`: `Request`, `Acquire`, `Send`, `Answered`,
`RateLimited`, `Retry`, `Raises`, `Cancel`. `run_daemon` makes an embedder for what is indexed and one for queries, each with
its lock and its pace, and shares the first where memory is short: `Uses(c)` is the one a caller takes, and all state is kept per
embedder. Times are counted down, so the clock has no bound.

`MetricsPush` is one push from `_push_metrics` or `push_metrics_now` to `_write_snapshot`: `Begin`,
`Gather` (`get_status`), `Connect`, `Insert`, `Commit`, `CommitReplyLost`, `Fails`, `Close`, `Exit`.

### DaemonService

`run_daemon` around them: sizes (`calibrate`) and path mappings (`_parse_path_mapping`) are fixed once, then one event loop interleaves connections, the
workflow, calls to the embedders and metrics pushes (`DaemonNext`). The sizing decides whether searches have an embedder
of their own (`LoadsModels`). These tasks share no state of their modules; what they do share is inside one: the registry and the references to a
project in `RequestServer`, the order of passes in `ProjectIndex`. `PacingParameters`, `WorkflowParameters`,
`SizingParameters`, `Machine` and `Deployment` say what the parameters are; `MCService` assumes them of its instance, so
TLC evaluates what the theorems rest on.

### MemoryBudget and PathMapping

Pure functions as operators. `MemoryBudget`: `DetectLimit`, `RecommendMaxInflight`,
`RecommendBatch`, `SecondEmbedderFits`, over integers, with percentages scaled by 100.
`PathMapping`: `ApplyMapping` with what uses it (`FormatForDisplay`, `NormalizeInput`,
`ResolveDbDir`), over paths as sequences of names.

## 3. Runs

| run | question | result |
|---|---|---|
| `gate_safety` | do permits, depth and wake-ups survive every interleaving of five callers, cancellations and capacity moves, and does a shrink only drain? | holds |
| `governor` | is each gate still a gate under the governor; is every queued file and scan served; do both capacities recover? | holds |
| `scans_bounded` | are at most `max_concurrent` `rg` threads alive? | violated (section 7) |
| `index_safety` | one writer, and turns in the order of asking, after which the index is never older; progress shown exactly while a pass works; a first pass always visible; one initial pass; refreshed searches fresh | holds |
| `index_live` | with a stream, a refreshing search that may be cancelled, a status and the workflow, is everyone answered, and does a waiting search always have a pass to wait for? | holds |
| `index_stranded` | the same promise, with a compaction taking part | violated (section 7) |
| `refresh_aborted` | does a running pass survive the client that asked for a refresh? | violated (section 7) |
| `lifecycle` | with a request, a `ccc daemon restart`, an edit of the settings, crashes and a supervisor or none: is the request served from current settings, is there one daemon under a supervisor, does a daemon going down, under a supervisor and before any restart, leave its successor's PID file alone, and does everything end? | holds |
| `stop_graceful` | is a daemon that answers asked to stop before it is signalled? | violated (section 7) |
| `two_servers` | does the second of two daemons started together give way? | violated (section 7) |
| `search` | branch searches while pushes, merges, refreshes, failing git commands and index passes interleave: does an answer belong to one commit, is it free of replaced copies, where fetching is on as fresh as the interval promises, undisturbed by parallel searches; and does a scan in batches lose nothing silently, rank exactly and stay in its budget? | holds |
| `service` | each by itself: is the environment opened once unless a project was removed in use, does every client end, is the workflow run once on every day, are the calls of each embedder paced and callers served, are snapshots whole, do the sizes fit the machine, do mapped paths come back? | holds |

`search` and `service` put parts that share no state into one run: a behaviour runs one part while
the others rest in an initial state, so the state space is the sum of the parts and not
their product, and nothing is lost, as no step of one part can read another: the proofs
carry the properties over to `DaemonSpec`, where the parts interleave.

`CHECK_DEADLOCK FALSE` stands in the `MCProject*` and `MCDaemon*` configurations because each
request is made once and daemon processes are bounded: when all are answered, nothing
changes any more and the last daemon serves or is dead, the system rests. It stands in `MCSearch`
and `MCService` for the same reason: a scan, a push or a bounded clock comes to its end, and a
sampled machine or mapping takes no step at all.

## 4. Bounds

- *Gate*: five callers and capacities 1..3. Capacity can fall two below the permits
  out while two callers still queue, which every property needs; callers are
  interchangeable, so they are a symmetry set (no liveness is checked there).
- *Governor*: two files, three scans, maxima 2. A third scan is the one that
  queues, or is admitted beside an abandoned thread. A calibrated maximum of 2 makes
  halving, shedding one and the clamp at 1 all happen.
- *Index*: one request of each kind that takes part, and in `index_safety` two
  searches, one of which refreshes and may be cancelled. That gives up to four
  claims on the lock in one queue (stream, ensure or refresh, wait, compact).
  `MaxEdits` bounds the versions of the tree; two edits are enough for one
  before and one after a pass began its walk. The safety properties are also
  proved for any number of requests and edits.
- *Lifecycle*: two daemons can be started (`MaxDaemons`), and a daemon 0 that has run before may
  have left its socket or PID file. Two are what overlap needs: one that goes down, or
  still starts, beside its successor. One request and one restart give two clients that stop
  and start at once; the request begins with `_daemon_ensured` set or not.
  One edit (`MaxEdits`), and no settings file or one, put the
  edit anywhere between mtime, load, handshake and restart. When the last daemon has been used,
  a client that would start one is answered as if `Popen` had failed. The safety properties are proved
  for any number of clients, daemons and edits.
- *Branch search*: two searches (a symmetry set), which is what a ref lock, a refresh lock and a blob read
  between two fetches need; two pushes of the branch, one of the base, which merges the first, and
  three ticks with an interval and a fetch timeout of one: a push, an interval, and a
  search after it. One git command fails (`MaxFailures`). Four deployments: pull and fetch, fetch
  only, neither, a stale local branch of the searched name. The branch changes, deletes and adds
  files, one of which the index does not include. The safety properties are
  also proved for any number of all of these.
- *Scan*: three paths, two lines whose snippets begin at the same line, limits 1 and 2, a file
  cap of 2 and batches of 3 or of 1, less than a file, so that blobs are below, at and above the cap, unreadable, share a batch
  or are alone in one; two orders of the diff; and a working tree that matches in a shadowed and in
  a free path.
- *Requests*: three connections, or two and the workflow, in nine combinations of requests, two executor threads of
  which one may be held by a silent client. A pass in the background, a removal and the load that meets it need three:
  an index or a search whose pass runs on, a removal, and one more request. Two would show what the code has no answer to: with as many
  silent connections as threads, everyone waits.
- *Workflow*: a day of four slots, run times 1 and 3, a cap of 2, workflows up to 3 slots, fifteen
  slots in all: four dates, wakes before and after the run time and runs over midnight.
- *Pacing*: a pass and two searches, on a machine with room for a second embedder and on one without, two attempts, an
  interval of 2, a back-off of 1, no bound on time.
- *Metrics*: one push of each kind, which share the database and an exit of the daemon.
- *Samples*: machines with and without each of override, cgroup v2, cgroup v1 (also its "unlimited"
  value), host, baseline and overrides of the caps, 3 x 3 x 3 x 3 x 4 x 2 x 4 x 3 in all; mappings of at most two
  entries and paths of at most two names over `a` and `ab`, one a textual prefix of the other.

## 5. Fairness

Weak fairness is assumed of: the resumption of a ready task, the end of a file's
or a scan's body and of an `rg` thread, the monitor's next wake, every step of a
job once enabled (the engine, the executor and the database eventually answer,
if only with an error) and the next step of a request that is already under way.
The event loop runs all ready callbacks in every iteration, which justifies it; weak
fairness suffices because no ready task is un-readied by another, with one
exception that needs no more: a notified gate waiter that finds no room sleeps
again, and is notified again by each later release. Nothing is assumed of
arrivals, cancellations, disconnects, edits, commits by the engine or of the
memory pressure. `Recovers` is conditional on the pressure eventually staying
low.

In `DaemonLifecycle` weak fairness of each process's next step says that processes run
and that deadlines pass, which covers `_wait_for_daemon`, whose `GivesUp` is always
enabled while it waits. A request, a command, an edit and a
crash are owed by nobody, nor is the end of a daemon whose clean-up was aborted.

In `RequestServer` weak fairness of each client's read loop and of each handler says that the
loop runs what is ready and that the executor hands a free thread to whoever is queued, and of each pass
(`PassStep`) that whatever claims the index lock gets it when it is free, and ends. No pass is owed to anybody: it ends only if some
request began it, so `EveryClientEnds` leaves out a search that meets a compaction, which may wait for a first pass nobody
began (`index_stranded`). No client has to connect, to say hello or to hang up, and no check has to raise. In `EmbeddingPacing` time passes and the service returns, if only with an error (litellm
has a timeout); nobody has to call or to be cancelled. `BranchView`, `BranchScan`, `DailyWorkflow` and
`MetricsPush` state no fairness: their properties are about what may never happen, and
`EveryDayServed` says by when something must have happened.

## 6. Proofs

tlapm proves every obligation of the eight `*Proofs` modules, and every invariant that a passing run
checks is a theorem. The assumptions are
those of the constants (`GateAssumption`, `GovernorAssumption`,
`IndexAssumption`, `LifecycleAssumption`, `BranchAssumption`, `ScanAssumption`, `RequestAssumption`): finite
sets of callers, positive maxima and floors, and, for the
index, that a request is of one kind and `NoJob` is no job; for the lifecycle, that a client is of one
kind and `NoDaemon` is no daemon; for a scan, that paths and lines are numbers, sizes and scores natural, and a
diff lists every path once. Hypotheses of single theorems stand in their statements.

*Gate.* The inductive invariant is types, permits conserved, depth conserved and
no lost wake-up together: `in_use = Cardinality(Holders)` alone does not bound
`in_use` by the maximum, and the type bound alone does not survive a release.
The cardinality lemmas say what moving one caller between places, or waking all the sleepers,
does to the three counted sets. Theorems: `TypeCorrect`, `PermitsAreConserved`,
`DepthIsConserved`, `NoWakeupIsLost`, `ShrinkIsHonoured`.

*Governor.* Each step of the governor is a step or a stutter of each gate
(`GovernorImplementsGates`); the gate's invariants are then inherited through
`INSTANCE MemoryGateProofs` instead of being proved again
(`PermitsAndWakeupsAreKept`, `TypeCorrect`).

*Index.* Four layers of inductive invariant.

- `LockInv`: the holder is the one job that works; whoever stands in the queue has asked; a request makes
  each of its jobs once; progress is up exactly while a pass holds the lock. `OneWriter` is not inductive by itself: nothing in it
  keeps a second job from being granted while `holder` and `job` disagree. It
  gives `TypeCorrect`, `WritersExclude`, `StatsAreHonest`.
- `FreshInv`: what a pass walked is at least what was asked for when it was
  spawned, and versions only grow. It gives `RefreshedSearchesAreFresh`.
- `FlagInv`: before the first pass has completed no `_clear` has
  run, so the flag is still up for every spawned pass, and the one initial pass is the
  only one started that way. It gives `FirstPassIsVisible`, `EnsureStartsOnePass`,
  and, under `Compactors = {}`, `NobodyIsStranded`; `index_stranded` shows that
  this last assumption is needed.

- `InLine`, with `AtLock`: the queue holds each job that waits, once, and no other; a search whose job
  waits is where it asked for the lock. With the two layers below, every step is a step of
  `IndexTurns` or a stutter: one lemma for each thing that can happen to the lock (taken, queued for, released,
  withdrawn from), and one step of the proof per action. Whoever has the turn may raise the version, a compaction as well as a pass, as
far as `IndexTurns` is concerned; that only a pass does is in `ProjectIndex`. The order of the line is kept because
  a cancelled waiter is *removed* (`LeftBehind`); that the version only grows needs `FreshInv`. It gives
  `IndexTakesTurns`.

*Lifecycle.* `TypeOK` with three parts.

- `DaemonsFresh`: a daemon that has loaded its settings has `recorded <= loaded`, because the
  mtime is read *before* the settings. `ServedFresh` alone says nothing of a daemon nobody is
  connected to.
- `ClientsFresh`: a client was asked no later than now, and if it is connected its daemon had loaded
  its settings, from a version no older than that. A handshake accepts only
  `recorded = settings`, which is where the two parts meet. It gives `RequestsAreServedFresh`.
- `OnlyChild`: under a supervisor, and until somebody restarts, a live daemon is the
  supervisor's child. It gives `OneDaemonUnderSupervision`: no client
  starts one, and the supervisor starts none while its child lives.

`SuccessorsKeepTheirPid` is a theorem about steps: of those that leave the clients where they are, only
`RemovesPid` removes the PID file, whoever is named in it by then. By `OnlyChild` the daemon that takes this step is the only one
alive, so it is its own; without a supervisor, or after a restart command, it need not be (section 7).

*Branch search.* `RefInv` is types, with: the lock is held by the one search between `TakeRefresh`
and `StampRefresh`; a refresh in progress began at least an interval after the last stamp
(`Throttling`); and a ref in the clone is a commit the remote has (`RefsExist`). It gives
`TypeCorrect` and `Throttles`: the count of refreshes is bounded by the clock only because each one
that began has moved the earliest moment of the next.
`OneCommitSearched` needs what a search reads (`Reading`). `NoForkCopyShown` assumes `MergesTakeOver`, which says what
a merge is: from the base commit on that merged the branch, a file of the base that still
has its version of the fork has it in all that was merged.
`SeeInv` carries a push from the moment it is `Past` to the refresh that fetched it (`Knowing`) and through a
fetch that others race with (`Fetching`): it gives `PushesAreSeen` and `ParallelResolves`.

*Scan.* `ScanInv` has six parts. `InputOK` is types. `PathsOK`: a path of the diff is still to be looked at, being read, in the
batch, or done with, never two of these; what is in a batch is readable and not too large. `HeldOK` bounds the text
of the batch: the blob that starts one may be as large as the cap, every other one has been made to fit.
`RunOK` ties an `rg` run to what it was started on: what is pending and what has been collected make up the
matches of the batch (or of the tree without the shadowed paths), unless it was cut short. `GrepOK`: what has been
kept are matches, and without the flag all of those in the tree and in the paths taken so far. `RankOK`: the hits kept are the
winners among all matches in the paths taken so far. None of the three properties is inductive alone: each speaks of the
end, or of a sum that only the rules of the batch keep small.

The last one carries `BatchedRanking` (for *any* scores, limits and batches) on an argument about orders that the module proves
first: a set with a strict linear order has each place taken once (`Places`), a list is sorted by it in one way
(`OneList`), and the first `k` of the union of two sets are the first `k` of the first `k` of each (`TopOfTops`). A stable sort by the
sort key of matches sorted by path and line is the sort by one linear order (`LinesAreOrdered`, `LexicalIsTop`): two matches of the same
line range stay in the order of their lines. So the merge of two winners' lists is that of the union (`MergeTops`).
`ScanInvariant` gives `GrepHonest`, `BatchedRanking` and `ScanBounded`.

*Requests.* `LoaderAlone`: whoever loads holds the creation lock, and then nothing is cached;
`UsesCached`: unless a project was removed in use, what a handler uses and what a pass claims is the cached one. Together they
leave no environment a load could find open (`EnvironmentsAreOne`).

*Workflow.* `Clocks` are types; `Ordered`: until the clock is stepped back, no workflow has begun on a
date after the last recorded one, or after the date of the one that runs. A run over midnight is why the latter is a
case of its own. It gives `WorkflowOnceADay` for any day length of at least one slot.

`WorkflowEveryDay` is about an undisturbed clock, for any day length, run time, cap on sleeping, and workflow that takes
less than a day (`WorkflowParameters`). Its invariant `DaysInv` says of every place of the loop that no run has been missed: a sleep ends no later
than the run of any date not served yet (`DelayReachesNoFurther`, the arithmetic of
`seconds_until_next_run`), a look finds that run still ahead, and a workflow began exactly at its run time, so that it is over
before the next.

*Pacing, metrics.* `PacingInv`, for each embedder: whoever holds its lock is the one whose request is paced or in flight there, and the time since
its last answer makes up what is left to cool (`PacingParameters`: the interval and bounds are numbers). Nothing is said across the
two embedders.
`SnapshotsAreWhole` needs what a session has written at each point (for the two tables the code
has).

*Composition.* A step of `DaemonNext` is a step or a stutter of each task (`StepOfEach`), so what is inductive for a task is for
`DaemonSpec`: `CallsArePaced`, `WorkflowOnceADay` and `WorkflowEveryDay` are stated of it, and `SnapshotsStayWhole` is inherited
through `INSTANCE MetricsPushProofs`.

*Sizes.* `CalibrationFits` and `CalibrationIsLegal` are about the operators of `MemoryBudget` for every
machine, under `SizingParameters`; `SizesFit` says it of a daemon as long as it runs. Legality is why what
`GovernorAssumption` asks of the initial gates holds after `calibrate`.

*Path mappings.* `MappedComesBack` is about the operators of `PathMapping` for all mappings and paths: two prefixes of one path are prefixes of each
other (`PrefixesOfOne`), so where no target lies in another only the mapping that was used on the way out
can match on the way back, and it undoes it (`RebaseBack`). `MappingsOfDaemonInvert` says it, under the same condition, of a daemon as long as it runs.

Only model-checked: `EveryoneServed`, `Recovers`, `EveryoneAnswered`, `CallsEnd`, `EveryClientEnds` and
`EveryCallerServed`, since liveness under fairness and ENABLED are outside what tlapm's installed
backends prove. The five runs that expect a violation show single behaviours, which is TLC's side of the work.

## 7. What the development found

1. **A search can wait for a pass nobody started** (`index_stranded`).
   `ensure_indexing_started` (`project.py:318`) takes a held lock for a running pass. If it is
   `compact()` that holds it, on a project loaded but not yet indexed, no pass is
   spawned. The search finds no rows, waits for `_initial_index_done`, and only a pass
   sets that event. Another search or status request, or `ccc index`, frees it.
2. **A disconnect does abort a refresh** (`refresh_aborted`). `refresh_index`
   (`project.py:306`) awaits the spawned task itself; cancelling the awaiting handler
   cancels the task, which is what the docstring says spawning avoids.
   `stream_index` and `ensure_indexing_started` await an event or poll, and do
   survive. The model shows which: `SearchCancelled` reaches the pass only in
   `refreshing`.
3. **The scan budget does not bound `rg` threads** (`scans_bounded`). A cancelled handler
   returns its permit at once, its thread goes on (`project.py:482`, `486`).
4. **A stale daemon is never asked to stop** (`stop_graceful`). `stop_daemon`
   sends StopRequest over the handshake that raises on a stale daemon
   (`client.py:591`), and swallows the error. The
   supervisor's comment (`docker/entrypoint.sh:4`) takes the settings mismatch as *the* case of
   StopRequest; it is the one in which none is sent. The daemon ends by SIGTERM after the three
   seconds' wait.
5. **The second daemon takes the socket over** (`two_servers`).
   `run_daemon` unlinks the path before it binds (`daemon.py:1284`), so it does
   not fail on a socket in use, as `_wait_for_daemon` (`client.py:656`) expects: both serve,
   one of them unreachable, each with its own schedule and its own writers. `ccc
   daemon restart` under a supervisor (`cli.py:1283`) leads there.

Behaviour that is as coded, worth knowing, and not reported as a flaw:

- `is_indexing` is `locked() or scheduled`. With three passes in line the first
  `_clear` lowers the flag while the third is queued, so at the hand-over from the
  second to the third both terms are FALSE for a moment
  (`project.py:284-293`). The cost is one redundant pass. Likewise the workflow's
  *direct* pass never raises the flag: woken behind a compaction it is invisible
  for that moment, which is why `FirstPassVisible` speaks of spawned passes.
- A compaction makes `is_indexing` TRUE, so a search that asks for a refresh is
  answered from the index as it stands.
- A first pass that fails sets `_initial_index_done` too: the search is answered,
  from whatever rows there are. A refresh that fails ends its search with an error.
- `_cleanup_stale_files` unlinks the socket path whoever has bound it, and the PID file whoever
  is named in it when no PID had been read (`client.py:622`); the last unlink of a daemon
  going down does the same to its successor's socket. That is why `SuccessorKeepsPid`
  excludes steps of clients and says nothing of the socket.
- The check of the PID file does not protect a successor by itself: a daemon going down reads it
  (`daemon.py:1375`), and unlinks whatever is there a moment later (`daemon.py:1377`); `_cleanup_stale_files` does the same
  (`client.py:632`, `634`). A successor that writes its own in between (`daemon.py:1251`) runs on without one. Without a
  supervisor, or with a restart command, two daemons overlap and TLC finds this; the promise of `SuccessorKeepsPid`
  is that of a supervised system before any restart.
- Forbidding the fetch does not keep a branch search off the network. `git_ops.py:148` says to set
  `COCOINDEX_CODE_BRANCH_FETCH_ENABLED` "to a falsy value in deployments where the query path must never touch the network", and
  `docs/branch-search.md:216` (likewise the repository's `README.md:242`) that this restricts "search to refs already in the clone". It is asked only where a ref is missing
  (`branch_search.py:166`); the refresh before every search fetches, or pulls, whatever it says (`branch_search.py:351-353`). In
  `BranchView` this is `RefreshFetch` with `fetching = FALSE`. What a search sees there is more than promised, so
  `SeesPushed` speaks of deployments that fetch and promises nothing of the others.
- The socket file of a crashed daemon satisfies `_wait_for_daemon` at once. The request
  then depends on its ten retries, and may end with an error though a daemon is on its way.
- A second SIGTERM while handlers are drained aborts the clean-up and leaves both files behind.
- A branch search is as fresh as the interval *plus* the fetch: the stamp is taken when the refresh ends
  (`branch_search.py:238`), and a push may arrive while it runs. `SeesPushed` fails with the interval alone.
- When the base has merged the branch and was pulled but not indexed, the diff is against the new
  base and the rows are of the old one: a file shows its version of the fork. It is the staleness window of
  `docs/branch-search.md`, and the condition of `NoForkCopy`.
- A file both the branch and the base have added since the fork is shown twice, as `shadow` leaves out what the
  branch added (`git_ops.py:83`).
- A scan may hold more than its batch. With little memory the batch is 8 MiB (`memory.py:101`) and the
  cap of one file 16 MiB, so a file alone exceeds it and a second one is read beside it, although
  `memory.py:307` calls the batch the peak text one scan may hold and `ripgrep.py:423` the
  cap a fraction of it. `ScanIsBounded` states the bound that does hold, where git reported the
  size before the read.
- The cap on files in flight and the scan budget are each cut from the whole headroom (`memory.py:254`,
  `memory.py:332`): each fits, their sum need not.
- A ranking whose `rg` was killed by the watchdog ranks what was found and does not say so; a grep does.
- A client that connects and says nothing occupies an executor thread until it leaves
  (`daemon.py:307`). As many of them as there are threads stop handshakes, git, `rg` and the doctor.
- `remove_project` (`daemon.py:255`) closes a project whoever uses it: a handler, a pass that outlives the request that began it
  (`project.py:259`, `323`), or the workflow. The next request for the root then finds its environment open and fails, until
  the last user is done: the one exception of `OneEnvironment`. Nothing in the code prevents it.
- The two embedders of a daemon know nothing of one another: the service may see two requests at once, and sooner after one another than
  the interval (`shared.py:37-43` and `tests/test_embedder_isolation.py` want it so).
- The workflow counts the day of the daemon's start as done (`daemon.py:1137`), by design; a clock that is
  stepped back over midnight makes it run twice on a date.
- A commit whose reply is lost is reported as a failed push although the snapshot is stored.

## 8. Not modelled

The engine, the vector table, the embedding models, `git`, `rg` and the metrics database
appear only as what the code awaits: they answer or fail. Message wording,
progress numbers, logging and result contents are left out. In `ProjectIndex` the metrics push inside
`_finalize_index` is best effort and changes no state; it is part of
`PassIndexed`/`PassFinishes`, and what it does is `MetricsPush`. `ProjectIndex` takes the project as loaded; resolution by the
registry, removal and shutdown are in `RequestServer`, which has a pass's claim, grant and end: that a pass
that goes on in a removed project writes beside one of its successor is in neither. `RequestServer` grants the index lock in any order and lowers the
flag of a pass with its end; order, cancellation and the moment before the done-callback are in `ProjectIndex`. Search requests over the socket
are cancelled only at shutdown; for the index it is any moment
(`Cancellable`). One search per client identity is made, so that a second
request by the same client is another member of `Searchers`.

`DaemonLifecycle` leaves out named pipes, a binary replaced under a running daemon (the
version half of the handshake, which behaves as the mtime half does), reuse of PIDs, a
PID file seen empty while `write_text` is under way (it reads as no PID) and the container's own
shutdown (the trap in `entrypoint.sh`). Requests other than StopRequest only occupy a connection.

`BranchView` leaves out a remote branch that is deleted (and pruned), a hard reset seen file by file,
a refresh whose search is cancelled, credentials and more than one remote. `BranchScan` leaves out
`rg`'s arguments, context lines and the text of snippets. `RequestServer` takes the environment, memory and daemon status requests as one kind, those without an await; it leaves out a
connection that is accepted but never handled at shutdown, a client that closes early other than an interrupted `ccc index`, the in-process
MCP server, and the mode without settings, in which no project can be loaded.

Not modelled at all: the vector store's index upkeep and the index definition (calls into the
engine), ignore rules (`.gitignore` patterns, a library), the embedder configuration (static tables),
the MCP servers and the command line beyond stop and restart (wording over the same requests), YAML settings and
protocol encoding (a library's). Their state is either none or another component's.

## 9. Plan

What is left, in order:

1. **Project lifetime with its passes**: two `Project` objects of one directory in `ProjectIndex`,
   to say what a removal under a running pass does to `OneWriter`, and whether `IndexTurns` survives it.
2. **An abstract registry**: what `get_project` promises (one project of a root at a time, handed to all who ask) as a
   specification that `RequestServer` implements.
3. **An abstract scan**: the unbatched scan as a specification that `BranchScan` implements, from `ScanInv`.
4. **Refs that go away**: pruned branches and cancelled refreshes in `BranchView`.
5. **The upkeep of the vector index** (`lancedb_store.py`), if its decisions grow beyond calls into the store.
