---------------------------- MODULE ProjectIndex ----------------------------
(***************************************************************************)
(* How one loaded project coordinates its index: class Project of          *)
(* cocoindex_code/project.py with the request paths of daemon.py that      *)
(* drive it (stream_index, search with refresh, project status, compact,   *)
(* the scheduled workflow).                                                *)
(*                                                                         *)
(* Everything runs on one asyncio event loop, so an action is the code     *)
(* between two suspension points.  A job is one claim on _index_lock,      *)
(* named by the request that made it and the place it was made; asyncio's  *)
(* Lock is first come first served: release() wakes the oldest waiter,     *)
(* locked() is FALSE until that waiter runs, and nobody overtakes it.      *)
(*                                                                         *)
(* Left out: the content of progress messages and of results, the metrics  *)
(* push (best effort, changes nothing here), and resolution of the project *)
(* by the registry.                                                        *)
(***************************************************************************)
EXTENDS Naturals, Sequences, SequencesExt

CONSTANTS
  Indexers,      (* IndexRequest: stream_index                             *)
  Searchers,     (* SearchRequest over the socket, or search_project (MCP) *)
  Refreshers,    (* the searches that ask for refresh                      *)
  Cancellable,   (* the searches whose handler task may be cancelled       *)
  Statuses,      (* ProjectStatusRequest                                   *)
  Compactors,    (* CompactRequest                                         *)
  Workflows,     (* runs of the scheduled workflow over this project       *)
  MaxEdits,      (* bound: how often the working tree changes              *)
  NoJob

Requests == Indexers \cup Searchers \cup Statuses \cup Compactors \cup Workflows

(* Where a job comes from.  Passes are the index passes; the first three   *)
(* are tasks created by _spawn_index, "direct" is the workflow's run_index.*)
Askers  == Searchers \cup Statuses
Spawned == (Indexers \X {"stream"}) \cup (Askers \X {"ensure"}) \cup (Refreshers \X {"refresh"})
Passes  == Spawned \cup (Workflows \X {"direct"})
Jobs    == Passes \cup (Compactors \X {"compact"}) \cup (Searchers \X {"wait"})

ASSUME IndexAssumption ==
  /\ Refreshers \subseteq Searchers
  /\ Cancellable \subseteq Searchers
  /\ \A r \in Searchers : r \notin Indexers \cup Statuses \cup Compactors \cup Workflows
  /\ \A r \in Compactors : r \notin Indexers \cup Statuses \cup Workflows
  /\ \A r \in Statuses : r \notin Indexers \cup Workflows
  /\ Indexers \cap Workflows = {}
  /\ MaxEdits \in Nat
  /\ NoJob \notin Jobs

VARIABLES
  holder,        (* the job that holds _index_lock, or NoJob               *)
  queue,         (* the jobs waiting for it, oldest first                  *)
  waker,         (* the pass whose release woke Head(queue), while that    *)
                 (* wake-up is pending                                     *)
  job,           (* what each job is doing                                 *)
  callbacks,     (* finished spawned tasks whose _clear has not run        *)
  scheduled,     (* _indexing_scheduled                                    *)
  initial_done,  (* _initial_index_done is set                             *)
  stats,         (* _indexing_stats is not None                            *)
  rows,          (* the table exists and holds a row                       *)
  tree,          (* version of the working tree                            *)
  scan,          (* the version the running pass walks                     *)
  indexed,       (* the version the index reflects                         *)
  pc,            (* where each request is                                  *)
  need           (* the version a refreshing search must be answered from  *)

lock_vars    == <<holder, queue, waker, job>>
flag_vars    == <<callbacks, scheduled, initial_done, stats>>
data_vars    == <<rows, tree, scan, indexed>>
request_vars == <<pc, need>>
vars         == <<lock_vars, flag_vars, data_vars, request_vars>>

Phases == {"none", "created", "queued", "running", "finalizing", "ok", "failed", "cancelled"}
Points == {"new", "streaming", "starting", "refreshing", "counting", "saw_rows", "saw_none",
           "wait_done", "wait_lock", "query", "gathering", "compacting", "pulled", "indexing",
           "done"}

Locked     == holder # NoJob
IsIndexing == Locked \/ scheduled
Working(j) == job[j] \in {"running", "finalizing"}
Pending(j) == job[j] \in {"created", "queued", "running", "finalizing"}
Ended(j)   == job[j] \in {"ok", "failed", "cancelled"}

(* A project just created by get_project, perhaps over a database that an  *)
(* earlier daemon filled; the tree has changed since.                      *)
Init ==
  /\ holder = NoJob /\ queue = <<>> /\ waker = NoJob
  /\ job = [j \in Jobs |-> "none"]
  /\ callbacks = {} /\ scheduled = FALSE /\ initial_done = FALSE /\ stats = FALSE
  /\ rows \in BOOLEAN
  /\ tree = 1 /\ scan = 0 /\ indexed = 0
  /\ pc = [r \in Requests |-> "new"]
  /\ need = [r \in Requests |-> 0]

Refreshing(r)  == r \in Refreshers /\ pc[r] = "refreshing"
Goto(r, point) == pc' = [pc EXCEPT ![r] = point]

-----------------------------------------------------------------------------
(* The lock.                                                               *)

(* job j becomes the holder; an index pass publishes zeroed stats and      *)
(* starts walking the tree as it is now.                                   *)
Takes(j) ==
  /\ holder' = j
  /\ waker' = NoJob
  /\ job' = [job EXCEPT ![j] = "running"]
  /\ IF j \in Passes THEN stats' = TRUE /\ scan' = tree ELSE UNCHANGED <<stats, scan>>

(* Mutant of Contends: a free lock is taken whoever has been woken for it. *)
ContendsOvertaking(j) ==
  IF ~Locked
  THEN Takes(j) /\ UNCHANGED queue
  ELSE /\ queue' = Append(queue, j)
       /\ job' = [job EXCEPT ![j] = "queued"]
       /\ UNCHANGED <<holder, waker, stats, scan>>

(* `async with _index_lock`: taken at once only if free and nobody waits.  *)
Contends(j) ==
  IF ~Locked /\ queue = <<>>
  THEN Takes(j) /\ UNCHANGED queue
  ELSE /\ queue' = Append(queue, j)
       /\ job' = [job EXCEPT ![j] = "queued"]
       /\ UNCHANGED <<holder, waker, stats, scan>>

(* Mutant of Releases: acquire() and release() instead of `async with`, so *)
(* that a pass that fails keeps the lock.                                  *)
ReleasesOnSuccess(j, outcome) ==
  /\ holder' = IF outcome = "ok" THEN NoJob ELSE holder
  /\ waker' = IF queue # <<>> /\ j \in Spawned THEN j ELSE NoJob
  /\ job' = [job EXCEPT ![j] = outcome]
  /\ UNCHANGED queue

(* release(): the oldest waiter is woken and will run before the done      *)
(* callbacks of the task that released.                                    *)
Releases(j, outcome) ==
  /\ holder' = NoJob
  /\ waker' = IF queue # <<>> /\ j \in Spawned THEN j ELSE NoJob
  /\ job' = [job EXCEPT ![j] = outcome]
  /\ UNCHANGED queue

(* A waiter that is cancelled leaves the queue; if it had been woken, the  *)
(* next one is.                                                            *)
Withdraws(j, outcome) ==
  /\ \E i \in 1..Len(queue) : queue[i] = j /\ queue' = RemoveAt(queue, i)
  /\ waker' = IF ~Locked /\ Head(queue) = j THEN NoJob ELSE waker
  /\ job' = [job EXCEPT ![j] = outcome]
  /\ UNCHANGED holder

-----------------------------------------------------------------------------
(* Index passes and compactions.                                           *)

(* Mutant of Spawn: the flag is left for the task itself to raise.         *)
SpawnUnmarked(j) ==
  /\ job' = [job EXCEPT ![j] = "created"]
  /\ UNCHANGED scheduled

(* _spawn_index: the flag goes up before the task runs.                    *)
Spawn(j) ==
  /\ job' = [job EXCEPT ![j] = "created"]
  /\ scheduled' = TRUE

JobStarts(j) ==
  /\ job[j] = "created"
  /\ Contends(j)
  /\ UNCHANGED <<callbacks, scheduled, initial_done, rows, tree, indexed, request_vars>>

JobGranted(j) ==
  /\ ~Locked /\ queue # <<>> /\ Head(queue) = j
  /\ j[2] # "wait"
  /\ queue' = Tail(queue)
  /\ Takes(j)
  /\ UNCHANGED <<callbacks, scheduled, initial_done, rows, tree, indexed, request_vars>>

(* The engine commits rows (or deletions) while the pass runs.             *)
PassCommits(j) ==
  /\ j \in Passes /\ job[j] = "running"
  /\ rows' = ~rows
  /\ UNCHANGED <<lock_vars, flag_vars, tree, scan, indexed, request_vars>>

PassIndexed(j) ==
  /\ j \in Passes /\ job[j] = "running"
  /\ job' = [job EXCEPT ![j] = "finalizing"]
  /\ indexed' = scan
  /\ UNCHANGED <<holder, queue, waker, flag_vars, rows, tree, scan, request_vars>>

(* Mutant of PassEnds: the `finally` block written after the try instead.  *)
PassEndsWithoutFinally(j, outcome) ==
  /\ Releases(j, outcome)
  /\ initial_done' = (outcome = "ok" \/ initial_done)
  /\ stats' = (outcome # "ok" /\ stats)
  /\ callbacks' = IF j \in Spawned THEN callbacks \cup {j} ELSE callbacks
  /\ UNCHANGED scheduled

(* The `finally` of _run_index_inner and the end of the task.              *)
PassEnds(j, outcome) ==
  /\ Releases(j, outcome)
  /\ initial_done' = TRUE
  /\ stats' = FALSE
  /\ callbacks' = IF j \in Spawned THEN callbacks \cup {j} ELSE callbacks
  /\ UNCHANGED scheduled

PassFinishes(j) ==
  /\ j \in Passes
  /\ \/ job[j] = "finalizing" /\ PassEnds(j, "ok")
     \/ job[j] = "running" /\ PassEnds(j, "failed")
  /\ UNCHANGED <<data_vars, request_vars>>

Clear(j) ==
  /\ j \in callbacks /\ waker # j
  /\ callbacks' = callbacks \ {j}
  /\ scheduled' = FALSE
  /\ UNCHANGED <<lock_vars, initial_done, stats, data_vars, request_vars>>

-----------------------------------------------------------------------------
(* ccc index: stream_index.                                                *)

StreamIndex(r) ==
  /\ r \in Indexers /\ pc[r] = "new"
  /\ Spawn(<<r, "stream">>)
  /\ Goto(r, "streaming")
  /\ UNCHANGED <<holder, queue, waker, callbacks, initial_done, stats, data_vars, need>>

(* The poll sees the task done; or the client went away (GeneratorExit).   *)
StreamEnds(r) ==
  /\ r \in Indexers /\ pc[r] = "streaming" /\ Ended(<<r, "stream">>)
  /\ Goto(r, "done")
  /\ UNCHANGED <<lock_vars, flag_vars, data_vars, need>>

StreamDropped(r) ==
  /\ r \in Indexers /\ pc[r] = "streaming"
  /\ Goto(r, "done")
  /\ UNCHANGED <<lock_vars, flag_vars, data_vars, need>>

-----------------------------------------------------------------------------
(* Searches and status requests.                                           *)

(* Mutant of NeedsFirstPass: a scheduled pass is not looked for.           *)
NeedsFirstPassUnscheduled == ~initial_done /\ ~Locked

NeedsFirstPass == ~initial_done /\ ~Locked /\ ~scheduled

(* What follows ensure_indexing_started, up to the next suspension: start  *)
(* a refresh if the index is idle, else read the table or look at it.      *)
Proceeds(r) ==
  IF r \in Refreshers /\ ~IsIndexing
  THEN /\ Spawn(<<r, "refresh">>)
       /\ need' = [need EXCEPT ![r] = tree]
       /\ Goto(r, "refreshing")
  ELSE /\ Goto(r, CASE r \in Statuses -> "gathering"
                    [] r \in Searchers /\ initial_done -> "query"
                    [] OTHER -> "counting")
       /\ UNCHANGED <<job, scheduled, need>>

Arrives(r) ==
  /\ r \in Askers /\ pc[r] = "new"
  /\ IF NeedsFirstPass
     THEN Spawn(<<r, "ensure">>) /\ Goto(r, "starting") /\ UNCHANGED need
     ELSE Proceeds(r)
  /\ UNCHANGED <<holder, queue, waker, callbacks, initial_done, stats, data_vars>>

(* `await started.wait()` returns.                                         *)
EnsureResumes(r) ==
  /\ r \in Askers /\ pc[r] = "starting"
  /\ job[<<r, "ensure">>] \notin {"created", "queued"}
  /\ Proceeds(r)
  /\ UNCHANGED <<holder, queue, waker, callbacks, initial_done, stats, data_vars>>

(* Mutant of RefreshResumes: the search waits for the refresh to start.    *)
RefreshResumesAtStart(r) ==
  LET j == <<r, "refresh">> IN
  /\ Refreshing(r) /\ (Working(j) \/ Ended(j))
  /\ Goto(r, IF job[j] = "failed" THEN "done" ELSE IF initial_done THEN "query" ELSE "counting")
  /\ UNCHANGED <<lock_vars, flag_vars, data_vars, need>>

(* `await self._spawn_index()` returns, or raises the pass's exception.    *)
RefreshResumes(r) ==
  LET j == <<r, "refresh">> IN
  /\ Refreshing(r) /\ Ended(j) /\ j \notin callbacks
  /\ Goto(r, IF job[j] # "ok" THEN "done" ELSE IF initial_done THEN "query" ELSE "counting")
  /\ UNCHANGED <<lock_vars, flag_vars, data_vars, need>>

(* has_indexed_rows counts; the search acts on the count afterwards.       *)
CountRows(r) ==
  /\ r \in Searchers /\ pc[r] = "counting"
  /\ Goto(r, IF rows THEN "saw_rows" ELSE "saw_none")
  /\ UNCHANGED <<lock_vars, flag_vars, data_vars, need>>

CountDecides(r) ==
  /\ r \in Searchers /\ pc[r] \in {"saw_rows", "saw_none"}
  /\ Goto(r, IF pc[r] = "saw_rows" THEN "query" ELSE "wait_done")
  /\ UNCHANGED <<lock_vars, flag_vars, data_vars, need>>

(* wait_for_indexing_done: the event, then the lock if it is held.         *)
WaitDone(r) ==
  /\ r \in Searchers /\ pc[r] = "wait_done" /\ initial_done
  /\ IF Locked
     THEN Goto(r, "wait_lock") /\ Contends(<<r, "wait">>)
     ELSE Goto(r, "query") /\ UNCHANGED <<lock_vars, stats, scan>>
  /\ UNCHANGED <<callbacks, scheduled, initial_done, rows, tree, indexed, need>>

(* The lock is taken and released in one step: `async with ...: pass`.     *)
WaitGranted(r) ==
  /\ r \in Searchers /\ pc[r] = "wait_lock"
  /\ ~Locked /\ queue # <<>> /\ Head(queue) = <<r, "wait">>
  /\ queue' = Tail(queue)
  /\ waker' = NoJob
  /\ job' = [job EXCEPT ![<<r, "wait">>] = "ok"]
  /\ Goto(r, "query")
  /\ UNCHANGED <<holder, flag_vars, data_vars, need>>

Answers(r) ==
  /\ r \in Askers /\ pc[r] \in {"query", "gathering"}
  /\ Goto(r, "done")
  /\ UNCHANGED <<lock_vars, flag_vars, data_vars, need>>

(* The search's handler task is cancelled.  Cancelling a task that awaits  *)
(* another task cancels that one: a refresh pass ends with the search.     *)
SearchCancelled(r) ==
  LET refresh == <<r, "refresh">> IN
  /\ r \in Cancellable /\ pc[r] \notin {"new", "done"}
  /\ Goto(r, "done")
  /\ \/ /\ Refreshing(r) /\ job[refresh] = "created"
        /\ job' = [job EXCEPT ![refresh] = "cancelled"]
        /\ callbacks' = callbacks \cup {refresh}
        /\ UNCHANGED <<holder, queue, waker, scheduled, initial_done, stats>>
     \/ /\ Refreshing(r) /\ job[refresh] = "queued"
        /\ Withdraws(refresh, "cancelled")
        /\ callbacks' = callbacks \cup {refresh}
        /\ UNCHANGED <<scheduled, initial_done, stats>>
     \/ /\ Refreshing(r) /\ Working(refresh)
        /\ PassEnds(refresh, "cancelled")
     \/ /\ pc[r] = "wait_lock"
        /\ Withdraws(<<r, "wait">>, "cancelled")
        /\ UNCHANGED flag_vars
     \/ /\ Refreshing(r) => Ended(refresh)
        /\ pc[r] # "wait_lock"
        /\ UNCHANGED <<lock_vars, flag_vars>>
  /\ UNCHANGED <<data_vars, need>>

-----------------------------------------------------------------------------
(* ccc compact: the directory is measured off the loop, then the lock is   *)
(* held for the prune.                                                     *)

(* Mutant of Compact: the prune does not take the lock.                    *)
CompactWithoutLock(r) ==
  /\ r \in Compactors /\ pc[r] = "new"
  /\ job' = [job EXCEPT ![<<r, "compact">>] = "running"]
  /\ Goto(r, "compacting")
  /\ UNCHANGED <<holder, queue, waker, flag_vars, data_vars, need>>

Compact(r) ==
  /\ r \in Compactors /\ pc[r] = "new"
  /\ job' = [job EXCEPT ![<<r, "compact">>] = "created"]
  /\ Goto(r, "compacting")
  /\ UNCHANGED <<holder, queue, waker, flag_vars, data_vars, need>>

(* Mutant of CompactEnds: the compaction is given _spawn_index's callback. *)
CompactEndsWithCallback(r) ==
  /\ r \in Compactors /\ job[<<r, "compact">>] = "running"
  /\ Releases(<<r, "compact">>, "ok")
  /\ callbacks' = callbacks \cup {<<r, "compact">>}
  /\ Goto(r, "done")
  /\ UNCHANGED <<scheduled, initial_done, stats, data_vars, need>>

CompactEnds(r) ==
  /\ r \in Compactors /\ job[<<r, "compact">>] = "running"
  /\ Releases(<<r, "compact">>, "ok")
  /\ Goto(r, "done")
  /\ UNCHANGED <<flag_vars, data_vars, need>>

-----------------------------------------------------------------------------
(* The scheduled workflow: git pull, then an index pass unless one is      *)
(* already in flight.                                                      *)

WorkflowPulls(r) ==
  /\ r \in Workflows /\ pc[r] = "new"
  /\ Goto(r, "pulled")
  /\ tree' \in {tree, tree + 1} /\ tree' <= MaxEdits
  /\ UNCHANGED <<lock_vars, flag_vars, rows, scan, indexed, need>>

WorkflowIndexes(r) ==
  /\ r \in Workflows /\ pc[r] = "pulled"
  /\ IF IsIndexing
     THEN Goto(r, "done") /\ UNCHANGED <<lock_vars, stats, scan>>
     ELSE Goto(r, "indexing") /\ Contends(<<r, "direct">>)
  /\ UNCHANGED <<callbacks, scheduled, initial_done, rows, tree, indexed, need>>

WorkflowEnds(r) ==
  /\ r \in Workflows /\ pc[r] = "indexing" /\ Ended(<<r, "direct">>)
  /\ Goto(r, "done")
  /\ UNCHANGED <<lock_vars, flag_vars, data_vars, need>>

(* Somebody edits a file of the project.                                   *)
Edit ==
  /\ tree < MaxEdits
  /\ tree' = tree + 1
  /\ UNCHANGED <<lock_vars, flag_vars, rows, scan, indexed, request_vars>>

-----------------------------------------------------------------------------
JobStep(j) == JobStarts(j) \/ JobGranted(j) \/ PassIndexed(j) \/ PassFinishes(j) \/ Clear(j)

RequestStep(r) ==
  \/ StreamEnds(r)
  \/ EnsureResumes(r) \/ RefreshResumes(r)
  \/ CountRows(r) \/ CountDecides(r) \/ WaitDone(r) \/ WaitGranted(r) \/ Answers(r)
  \/ CompactEnds(r)
  \/ WorkflowIndexes(r) \/ WorkflowEnds(r)

(* What the clients, the engine and the users choose to do.                *)
Environment ==
  \/ \E r \in Requests : \/ StreamIndex(r) \/ Arrives(r) \/ Compact(r) \/ WorkflowPulls(r)
                         \/ StreamDropped(r) \/ SearchCancelled(r)
  \/ \E j \in Jobs : PassCommits(j)
  \/ Edit

Next ==
  \/ \E j \in Jobs : JobStep(j)
  \/ \E r \in Requests : RequestStep(r)
  \/ Environment

(* The loop runs every ready task and callback; the engine, the executor   *)
(* and the database answer.                                                *)
Fairness ==
  /\ \A j \in Jobs : WF_vars(JobStep(j))
  /\ \A r \in Requests : WF_vars(RequestStep(r))

Spec == Init /\ [][Next]_vars /\ Fairness

-----------------------------------------------------------------------------
TypeOK ==
  /\ holder \in Jobs \cup {NoJob}
  /\ queue \in Seq(Jobs)
  /\ waker \in Jobs \cup {NoJob}
  /\ job \in [Jobs -> Phases]
  /\ callbacks \in SUBSET Spawned
  /\ scheduled \in BOOLEAN /\ initial_done \in BOOLEAN /\ stats \in BOOLEAN /\ rows \in BOOLEAN
  /\ tree \in Nat /\ scan \in Nat /\ indexed \in Nat
  /\ pc \in [Requests -> Points]
  /\ need \in [Requests -> Nat]

(* "Holds the index lock for the duration so no index pass writes          *)
(* concurrently" (project.py:578): of all passes and compactions, however  *)
(* they were started, queued, woken or cancelled, at most one works.       *)
OneWriter == \A i, j \in Jobs : Working(i) /\ Working(j) => i = j

(* Progress is published exactly while a pass works, so a status answer    *)
(* never shows the progress of a pass that is over.                        *)
StatsTrackPass == stats <=> \E p \in Passes : Working(p)

(* "so concurrent callers observe a pending index immediately"             *)
(* (project.py:255): until the first pass has completed, a spawned pass    *)
(* that is created, queued or running is visible to is_indexing.           *)
FirstPassVisible == ~initial_done /\ (\E p \in Spawned : Pending(p)) => IsIndexing

(* "only the first call spawns a task" (project.py:312): all searches and  *)
(* status requests together start at most one initial pass.                *)
OneEnsurePass ==
  \A q, r \in Askers : job[<<q, "ensure">>] # "none" /\ job[<<r, "ensure">>] # "none" => q = r

(* A search that refreshed is answered from an index at least as new as    *)
(* the tree was when it found the index idle.                              *)
RefreshIsFresh == \A r \in Searchers : pc[r] = "query" => indexed >= need[r]

(* "Kick off background indexing and wait until it has actually started"   *)
(* (project.py:309): a search that waits for the first pass has a pass to  *)
(* wait for.  It holds while nothing but passes takes the lock.            *)
NobodyStranded ==
  (\E r \in Searchers : pc[r] = "wait_done") /\ ~initial_done => \E p \in Passes : Pending(p)

(* Every request that arrives is answered.                                 *)
EveryoneAnswered == \A r \in Requests : pc[r] # "new" ~> pc[r] = "done"

(* The abstract specification: whatever starts them and however they end,  *)
(* passes and compactions take turns at the index in the order in which    *)
(* they asked for the lock, and no pass replaces the index by one of an    *)
(* older working tree.                                                     *)
Writing == {j \in Jobs : Working(j)}
Turns == INSTANCE IndexTurns
           WITH Writer <- Jobs, writing <- Writing, line <- queue, version <- indexed

TakesTurns == Turns!Spec

(* "so a client disconnect cancelling the request handler does not abort   *)
(* the indexing mid-write" (project.py:298).                               *)
PassesSurvive == [][\A p \in Passes : Working(p) => job'[p] # "cancelled"]_vars
=============================================================================
