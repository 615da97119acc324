---------------------------- MODULE RequestServer ----------------------------
(***************************************************************************)
(* Connections, requests and the project registry of one daemon            *)
(* (daemon.py: handle_connection, _dispatch, ProjectRegistry, the shutdown *)
(* of run_daemon) with the clients that wait for answers (client.py).      *)
(*                                                                         *)
(* A handler reads two messages in threads of the default executor, may    *)
(* load the project of the request's root under the creation lock, streams *)
(* its messages and closes.  The daily workflow resolves its project in    *)
(* the same way; it is a client without a connection.  One root is enough: *)
(* roots share the creation lock and the threads only.                     *)
(*                                                                         *)
(* An index pass is a task of its own and may outlive the request that     *)
(* began it.  Who starts passes and waits for them is here, what they do,  *)
(* their order and their cancellation in ProjectIndex.                     *)
(*                                                                         *)
(* The cocoindex Environment is external: a process may have one open for  *)
(* a root, and one closes when nothing references its project any more.    *)
(***************************************************************************)
EXTENDS Naturals, Sequences, FiniteSets

CONSTANTS
    Client,         \* the connections, and the workflow's run
    Kinds,          \* the kinds of request
    Mixes,          \* the combinations of requests explored: functions over Client
    Slots,          \* threads of the default executor
    MaxMute,        \* how many connections may never send anything
    NoProject,      \* no project object
    NoClient        \* nobody holds the lock

ASSUME RequestAssumption == NoClient \notin Client /\ NoProject \notin Nat

\* Requests that resolve the project of their root first.
ProjectKinds ==
    {"index", "search", "ripgrep", "project_status", "compact", "push_metrics", "workflow"}

VARIABLES
    up,             \* the loop serves
    client,         \* client[c]: where the client is
    kind,           \* kind[c]: its request
    handler,        \* handler[c]: where its handler is
    chan,           \* chan[c]: messages sent and not read by the client
    closed,         \* closed[c]: the daemon's end is closed
    cached,         \* the project in the registry, or NoProject
    createLock,     \* holder of _create_lock
    project,        \* project[c]: the project handler c uses, or NoProject
    made,           \* how many projects were made; their names
    claim,          \* claim[c]: the project whose index lock c's pass, or its
                    \*   compaction, has or waits for, or NoProject
    holds,          \* whose pass or compaction has the index lock
    scheduled,      \* the projects with _indexing_scheduled set
    initialDone,    \* the projects with _initial_index_done set
    removedInUse,   \* a project was removed while a task used it (history)
    clash           \* a load found an environment of the root open (history)

wire == <<client, kind, chan, closed>>
creation == <<cached, createLock, made>>
passes == <<claim, holds, scheduled, initialDone>>
history == <<removedInUse, clash>>
registry == <<creation, project, passes, history>>
vars == <<up, wire, handler, registry>>

ClientAt == {"idle", "mute", "hello", "waiting", "greeted", "asked", "answered", "failed"}
CheckAt == {"model", "metrics", "walk", "status", "git"}
HandlerAt == {"none", "queued1", "recv1", "queued2", "recv2", "dispatch", "lock", "loading", "work",
              "starting", "ensured", "refreshing", "refreshed", "waitindex", "stream", "locked",
              "last", "end"} \cup CheckAt
Message == {"greeting", "notice", "progress", "answer", "error"}

TypeOK ==
    /\ up \in BOOLEAN
    /\ client \in [Client -> ClientAt]
    /\ kind \in [Client -> Kinds]
    /\ handler \in [Client -> HandlerAt]
    /\ chan \in [Client -> Seq(Message)]
    /\ closed \in [Client -> BOOLEAN]
    /\ made \in Nat
    /\ cached \in (1..made) \cup {NoProject}
    /\ createLock \in Client \cup {NoClient}
    /\ project \in [Client -> (1..made) \cup {NoProject}]
    /\ claim \in [Client -> (1..made) \cup {NoProject}]
    /\ holds \subseteq Client /\ scheduled \subseteq 1..made /\ initialDone \subseteq 1..made
    /\ removedInUse \in BOOLEAN /\ clash \in BOOLEAN

Init ==
    /\ up = TRUE
    /\ client = [c \in Client |-> "idle"]
    /\ kind \in Mixes
    /\ handler = [c \in Client |-> "none"]
    /\ chan = [c \in Client |-> <<>>]
    /\ closed = [c \in Client |-> FALSE]
    /\ cached = NoProject /\ createLock = NoClient /\ made = 0
    /\ project = [c \in Client |-> NoProject]
    /\ claim = [c \in Client |-> NoProject]
    /\ holds = {} /\ scheduled = {} /\ initialDone = {}
    /\ removedInUse = FALSE /\ clash = FALSE

-----------------------------------------------------------------------------
Threads == {c \in Client : handler[c] \in {"recv1", "recv2"}}
ThreadFree == Cardinality(Threads) < Slots

At(c, pc) == handler' = [handler EXCEPT ![c] = pc]
Sends(c, m) == chan' = [chan EXCEPT ![c] = Append(@, m)]
\* The handler returns, and lets go of its project.
Leaves(c) == At(c, "end") /\ project' = [project EXCEPT ![c] = NoProject]
\* The last message of a request, then the finally of handle_connection; a
\* workflow has nobody to tell.
Ends(c, m) ==
    /\ Leaves(c)
    /\ IF kind[c] = "workflow" THEN UNCHANGED <<chan, closed>>
       ELSE Sends(c, m) /\ closed' = [closed EXCEPT ![c] = TRUE]

(***************************************************************************)
(* Clients.                                                                *)
(***************************************************************************)
\* A connection arrives; its client says hello at once or never.
Connect(c) ==
    /\ up /\ client[c] = "idle" /\ kind[c] # "workflow"
    /\ \/ client' = [client EXCEPT ![c] = "hello"]
       \/ /\ Cardinality({d \in Client : client[d] = "mute"}) < MaxMute
          /\ client' = [client EXCEPT ![c] = "mute"]
    /\ At(c, "queued1")
    /\ UNCHANGED <<up, kind, chan, closed, registry>>

Greeted(c) ==
    /\ client[c] = "waiting" /\ chan[c] # <<>>
    /\ client' = [client EXCEPT ![c] = "greeted"]
    /\ chan' = [chan EXCEPT ![c] = Tail(@)]
    /\ UNCHANGED <<up, kind, closed, handler, registry>>

\* The read loops of client.index, search and _send: notices and progress are
\* consumed, an answer or an error ends the loop.
Receives(c) ==
    /\ client[c] = "asked" /\ chan[c] # <<>> /\ kind[c] # "doctor"
    /\ chan' = [chan EXCEPT ![c] = Tail(@)]
    /\ client' = [client EXCEPT ![c] = CASE Head(chan[c]) = "answer" -> "answered"
                                         [] Head(chan[c]) = "error" -> "failed"
                                         [] OTHER -> "asked"]
    /\ UNCHANGED <<up, kind, closed, handler, registry>>

\* The read loop of client.doctor: it ends with the result flagged as final.
ReceivesResult(c) ==
    /\ client[c] = "asked" /\ chan[c] # <<>> /\ kind[c] = "doctor"
    /\ chan' = [chan EXCEPT ![c] = Tail(@)]
    /\ \/ Head(chan[c]) = "progress" /\ UNCHANGED client
       \/ Head(chan[c]) = "answer" /\ client' = [client EXCEPT ![c] = "answered"]
       \/ Head(chan[c]) = "error" /\ client' = [client EXCEPT ![c] = "failed"]
    /\ UNCHANGED <<up, kind, closed, handler, registry>>

\* The user interrupts a pass that is shown.
HangsUp(c) ==
    /\ client[c] = "asked" /\ kind[c] = "index"
    /\ client' = [client EXCEPT ![c] = "failed"]
    /\ UNCHANGED <<up, kind, chan, closed, handler, registry>>

\* End of file before the answer: "Connection to daemon lost".
Loses(c) ==
    /\ client[c] \in {"hello", "waiting", "greeted", "asked"} /\ chan[c] = <<>> /\ closed[c]
    /\ client' = [client EXCEPT ![c] = "failed"]
    /\ UNCHANGED <<up, kind, chan, closed, handler, registry>>

(***************************************************************************)
(* handle_connection.                                                      *)
(***************************************************************************)
\* recv_bytes is given to the executor and gets a thread.
TakesThread(c) ==
    /\ up /\ handler[c] \in {"queued1", "queued2"} /\ ThreadFree
    /\ At(c, IF handler[c] = "queued1" THEN "recv1" ELSE "recv2")
    /\ UNCHANGED <<up, wire, registry>>

\* The handshake arrives and is answered.
Greets(c) ==
    /\ up /\ handler[c] = "recv1" /\ client[c] = "hello"
    /\ client' = [client EXCEPT ![c] = "waiting"]
    /\ Sends(c, "greeting") /\ At(c, "queued2")
    /\ UNCHANGED <<up, kind, closed, registry>>

\* The request arrives.
Requested(c) ==
    /\ up /\ handler[c] = "recv2" /\ client[c] = "greeted"
    /\ client' = [client EXCEPT ![c] = "asked"]
    /\ At(c, "dispatch")
    /\ UNCHANGED <<up, kind, chan, closed, registry>>

\* Requests served without a project and without an await.
Answers(c) ==
    /\ up /\ handler[c] = "dispatch" /\ kind[c] \notin ProjectKinds \cup {"remove", "stop", "doctor", "pull"}
    /\ Ends(c, "answer")
    /\ UNCHANGED <<up, client, kind, creation, passes, history>>

\* Doctor runs its global checks or those of a project, one after the other.
Doctor(c) ==
    /\ up /\ handler[c] = "dispatch" /\ kind[c] = "doctor"
    /\ \E first \in {"model", "walk"} : At(c, first)
    /\ UNCHANGED <<up, wire, registry>>

\* git fetches and resets in a thread, and no project is loaded.
Pull(c) ==
    /\ up /\ handler[c] = "dispatch" /\ kind[c] = "pull" /\ ThreadFree
    /\ \E m \in {"answer", "error"} : Ends(c, m)
    /\ UNCHANGED <<up, client, kind, creation, passes, history>>

\* StopRequest: on_shutdown stops the loop after this handler has answered;
\* then every handler and the workflow are cancelled, every connection is
\* closed, and no pass goes on.
Stop(c) ==
    /\ up /\ handler[c] = "dispatch" /\ kind[c] = "stop"
    /\ Sends(c, "answer")
    /\ up' = FALSE
    /\ closed' = [d \in Client |-> TRUE]
    /\ handler' = [d \in Client |-> IF handler[d] = "none" THEN "none" ELSE "end"]
    /\ project' = [d \in Client |-> NoProject]
    /\ claim' = [d \in Client |-> NoProject] /\ holds' = {}
    /\ cached' = NoProject /\ createLock' = NoClient
    /\ UNCHANGED <<client, kind, made, scheduled, initialDone, history>>

(***************************************************************************)
(* ProjectRegistry.                                                        *)
(***************************************************************************)
\* The workflow wakes up and asks for the project of its workspace.
Wakes(c) ==
    /\ up /\ handler[c] = "none" /\ kind[c] = "workflow"
    /\ At(c, "dispatch")
    /\ UNCHANGED <<up, wire, registry>>

\* A grep and a push of metrics have one thing to do, whatever is indexed.
Uses(c, p) ==
    /\ project' = [project EXCEPT ![c] = p]
    /\ At(c, IF kind[c] \in {"ripgrep", "push_metrics"} THEN "last" ELSE "work")

\* get_project, first look.
Looks(c) ==
    /\ up /\ handler[c] = "dispatch" /\ kind[c] \in ProjectKinds
    /\ IF cached # NoProject THEN Uses(c, cached) ELSE At(c, "lock") /\ UNCHANGED project
    /\ UNCHANGED <<up, wire, creation, passes, history>>

\* Mutant: the lock without the second look.
LoadsAnyway(c) ==
    /\ up /\ handler[c] = "lock" /\ createLock = NoClient
    /\ At(c, "loading") /\ createLock' = c
    /\ UNCHANGED <<up, wire, cached, made, project, passes, history>>

\* Inside the lock it looks again, and loads when nothing came.
LooksAgain(c) ==
    /\ up /\ handler[c] = "lock" /\ createLock = NoClient
    /\ IF cached # NoProject THEN Uses(c, cached) /\ UNCHANGED createLock
       ELSE At(c, "loading") /\ createLock' = c /\ UNCHANGED project
    /\ UNCHANGED <<up, wire, cached, made, passes, history>>

\* A handler, the workflow, or a task of a pass refers to a project.
InUse(p) == \E c \in Client : project[c] = p \/ claim[c] = p

\* An environment stays open while anything refers to its project.
EnvironmentOpen == cached # NoProject \/ \E p \in 1..made : InUse(p)

\* A new project knows of no pass, whatever rows are in its store.
Loads(c) ==
    /\ up /\ handler[c] = "loading" /\ ~EnvironmentOpen
    /\ made' = made + 1
    /\ cached' = made + 1 /\ createLock' = NoClient
    /\ Uses(c, made + 1)
    /\ UNCHANGED <<up, wire, passes, history>>

\* Mutant: the lock is not left on the way out.
LoadFailsLocked(c) ==
    /\ up /\ handler[c] = "loading"
    /\ clash' = (clash \/ EnvironmentOpen)
    /\ Ends(c, "error")
    /\ UNCHANGED <<up, client, kind, creation, passes, removedInUse>>

\* Invalid settings, a chunker that does not import, or an open environment:
\* the exception leaves the lock and becomes the answer; nothing is cached.
LoadFails(c) ==
    /\ up /\ handler[c] = "loading"
    /\ clash' = (clash \/ EnvironmentOpen)
    /\ createLock' = NoClient
    /\ Ends(c, "error")
    /\ UNCHANGED <<up, client, kind, cached, made, passes, removedInUse>>

\* remove_project: out of the registry and closed, whoever still uses it.
Remove(c) ==
    /\ up /\ handler[c] = "dispatch" /\ kind[c] = "remove"
    /\ removedInUse' = (removedInUse \/ (cached # NoProject /\ InUse(cached)))
    /\ cached' = NoProject
    /\ Ends(c, "answer")
    /\ UNCHANGED <<up, client, kind, createLock, made, passes, clash>>

(***************************************************************************)
(* Index passes.  A cancelled or failed pass ends like any other.          *)
(***************************************************************************)
LockHeld(p) == \E c \in holds : claim[c] = p
Indexing(p) == LockHeld(p) \/ p \in scheduled      \* is_indexing

Claims(c) == claim' = [claim EXCEPT ![c] = project[c]] /\ UNCHANGED <<holds, initialDone>>
\* _spawn_index: the flag goes up with the task, before it asks for the lock.
Spawns(c) == Claims(c) /\ scheduled' = scheduled \cup {project[c]}

Granted(c) ==
    /\ up /\ claim[c] # NoProject /\ ~LockHeld(claim[c])
    /\ holds' = holds \cup {c}
    /\ UNCHANGED <<up, wire, handler, creation, project, claim, scheduled, initialDone, history>>

Releases(c) == holds' = holds \ {c} /\ claim' = [claim EXCEPT ![c] = NoProject]

\* The first pass of a project to end sets its event, and the end of a
\* spawned task takes the flag down.
PassEnds(c) ==
    /\ up /\ c \in holds /\ kind[c] # "compact"
    /\ Releases(c)
    /\ initialDone' = initialDone \cup {claim[c]}
    /\ scheduled' = IF kind[c] = "workflow" THEN scheduled ELSE scheduled \ {claim[c]}
    /\ UNCHANGED <<up, wire, handler, creation, project, history>>

(***************************************************************************)
(* What a request does with its project.                                   *)
(***************************************************************************)
Becomes(c, pc) == At(c, pc) /\ UNCHANGED <<up, wire, creation, project, history>>

\* stream_index: a notice if it has to wait, and a pass in any case.
StreamsIndex(c) ==
    /\ up /\ handler[c] = "work" /\ kind[c] = "index"
    /\ Spawns(c) /\ At(c, "stream")
    /\ IF LockHeld(project[c]) THEN Sends(c, "notice") ELSE UNCHANGED chan
    /\ UNCHANGED <<up, client, kind, closed, creation, project, history>>

\* The progress of the pass.
Progress(c) ==
    /\ up /\ handler[c] = "stream" /\ c \in holds
    /\ chan[c] = <<>>
    /\ Sends(c, "progress")
    /\ UNCHANGED <<up, client, kind, closed, handler, registry>>

\* Nobody is there to read it: the stream ends, the pass goes on.
Disconnected(c) ==
    /\ up /\ handler[c] = "stream" /\ c \in holds /\ client[c] = "failed"
    /\ Leaves(c) /\ closed' = [closed EXCEPT ![c] = TRUE]
    /\ UNCHANGED <<up, client, kind, chan, creation, passes, history>>

\* ensure_indexing_started.
Ensures(c) ==
    /\ up /\ handler[c] = "work" /\ kind[c] \in {"search", "project_status"}
    /\ IF project[c] \in initialDone \/ Indexing(project[c])
       THEN Becomes(c, "ensured") /\ UNCHANGED passes
       ELSE Becomes(c, "starting") /\ Spawns(c)

\* Its pass has the lock, or had it.
Started(c) ==
    /\ up /\ handler[c] = "starting" /\ (c \in holds \/ claim[c] = NoProject)
    /\ Becomes(c, "ensured") /\ UNCHANGED passes

\* A search that asks for it refreshes an index at rest, and awaits the pass.
Refreshes(c) ==
    /\ up /\ handler[c] = "ensured" /\ kind[c] = "search" /\ ~Indexing(project[c])
    /\ Becomes(c, "refreshing") /\ Spawns(c)

Refreshed(c) ==
    /\ up /\ handler[c] = "refreshing" /\ claim[c] = NoProject
    /\ \/ At(c, "refreshed") /\ UNCHANGED <<chan, closed, project>>
       \/ Ends(c, "error")
    /\ UNCHANGED <<up, client, kind, creation, passes, history>>

\* It waits for the first pass only while there is no row to find.
Waits(c) ==
    /\ up /\ handler[c] \in {"ensured", "refreshed"} /\ kind[c] = "search"
    /\ project[c] \notin initialDone
    /\ Sends(c, "notice") /\ At(c, "waitindex")
    /\ UNCHANGED <<up, client, kind, closed, registry>>

\* wait_for_indexing_done: the first pass has ended, and no other runs.
Waited(c) ==
    /\ up /\ handler[c] = "waitindex" /\ project[c] \in initialDone /\ ~LockHeld(project[c])
    /\ Becomes(c, "last") /\ UNCHANGED passes

Proceeds(c) ==
    /\ up /\ handler[c] \in {"ensured", "refreshed"}
    /\ Becomes(c, "last") /\ UNCHANGED passes

\* compact measures the store and asks for the lock.
Compacts(c) ==
    /\ up /\ handler[c] = "work" /\ kind[c] = "compact" /\ ThreadFree
    /\ Becomes(c, "locked") /\ Claims(c) /\ UNCHANGED scheduled

\* It has pruned and measures again; without a table, or on an error, it
\* answers at once.
Compacted(c) ==
    /\ up /\ c \in holds /\ kind[c] = "compact"
    /\ Releases(c)
    /\ \/ At(c, "last") /\ UNCHANGED <<chan, closed, project>>
       \/ Ends(c, "answer")
    /\ UNCHANGED <<up, client, kind, creation, scheduled, initialDone, history>>

\* The workflow pulls in a thread, awaits a pass of its own unless one is
\* under way, and pushes.
WorkflowIndexes(c) ==
    /\ up /\ handler[c] = "work" /\ kind[c] = "workflow" /\ ThreadFree
    /\ IF Indexing(project[c]) THEN Becomes(c, "last") /\ UNCHANGED passes
       ELSE Becomes(c, "locked") /\ Claims(c) /\ UNCHANGED scheduled

WorkflowIndexed(c) ==
    /\ up /\ handler[c] = "locked" /\ kind[c] = "workflow" /\ claim[c] = NoProject
    /\ Becomes(c, "last") /\ UNCHANGED passes

\* The checks of doctor: each sends one result, good or bad (those of both
\* models and of the memory count as one).  The metrics probe, the walk and
\* git ls-remote work in a thread; git is asked only when the workflow pulls.
Checks(c, check, then) ==
    /\ up /\ handler[c] = check
    /\ Sends(c, "progress") /\ At(c, then)
    /\ UNCHANGED <<up, client, kind, closed, registry>>

CheckModel(c) == Checks(c, "model", "metrics")
CheckMetrics(c) == ThreadFree /\ Checks(c, "metrics", "last")
CheckFileWalk(c) == ThreadFree /\ Checks(c, "walk", "status")
CheckIndexStatus(c) == \E next \in {"git", "last"} : Checks(c, "status", next)
CheckGit(c) == ThreadFree /\ Checks(c, "git", "last")

\* What a check does not report as a result ends the stream.
CheckRaises(c) ==
    /\ up /\ handler[c] \in CheckAt
    /\ Ends(c, "error")
    /\ UNCHANGED <<up, client, kind, creation, passes, history>>

\* The request ends with its result or its error, doctor with the final
\* marker.  git, rg, blob reads, measures and pushes need a thread.
Finishes(c) ==
    /\ up
    /\ \/ handler[c] = "last" /\ (kind[c] \notin {"doctor", "project_status"} => ThreadFree)
       \/ handler[c] = "stream" /\ claim[c] = NoProject
    /\ \E m \in {"answer", "error"} : (kind[c] = "doctor" => m = "answer") /\ Ends(c, m)
    /\ UNCHANGED <<up, client, kind, creation, passes, history>>

-----------------------------------------------------------------------------
ClientStep(c) == Greeted(c) \/ Receives(c) \/ ReceivesResult(c) \/ Loses(c)
CheckStep(c) ==
    CheckModel(c) \/ CheckMetrics(c) \/ CheckFileWalk(c) \/ CheckIndexStatus(c) \/ CheckGit(c)
ProjectStep(c) ==
    \/ StreamsIndex(c) \/ Disconnected(c)
    \/ Ensures(c) \/ Started(c) \/ Refreshes(c) \/ Refreshed(c) \/ Waits(c) \/ Waited(c) \/ Proceeds(c)
    \/ Compacts(c) \/ Compacted(c) \/ WorkflowIndexes(c) \/ WorkflowIndexed(c)
HandlerStep(c) ==
    \/ TakesThread(c) \/ Greets(c) \/ Requested(c)
    \/ Answers(c) \/ Doctor(c) \/ Pull(c) \/ Stop(c) \/ Remove(c) \/ CheckStep(c)
    \/ Looks(c) \/ LooksAgain(c) \/ Loads(c) \/ LoadFails(c)
    \/ ProjectStep(c) \/ Finishes(c)
PassStep(c) == Granted(c) \/ PassEnds(c)

Next == \E c \in Client :
    \/ Connect(c) \/ Wakes(c) \/ HangsUp(c) \/ ClientStep(c)
    \/ Progress(c) \/ CheckRaises(c) \/ HandlerStep(c)
    \/ PassStep(c)

\* The loop runs every task that can run, a client that sent its hello reads
\* and writes, and what has the index lock gives it back.  Nobody has to
\* connect or to send, and no pass begins unless a task began it.
Fairness == \A c \in Client :
    /\ WF_vars(ClientStep(c)) /\ WF_vars(HandlerStep(c)) /\ WF_vars(Finishes(c))
    /\ WF_vars(PassStep(c))

Spec == Init /\ [][Next]_vars /\ Fairness

-----------------------------------------------------------------------------
(***************************************************************************)
(* A load finds the root's environment open only after the project was     *)
(* removed while a handler, a pass in the background or the workflow used  *)
(* it: first requests that arrive together never open it twice (the        *)
(* double-checked lock of get_project).                                    *)
(***************************************************************************)
OneEnvironment == clash => removedInUse

(***************************************************************************)
(* Every client that says hello gets an answer or an error: also when a    *)
(* load fails, the stream raises, its project is removed or the daemon is  *)
(* stopped by another client, as long as fewer connections than executor   *)
(* threads stay silent (handle_connection reads in those threads).  A      *)
(* search that meets a compaction is left out: it may wait for a first     *)
(* pass that nobody starts (ensure_indexing_started; NobodyStranded of     *)
(* ProjectIndex).                                                          *)
(***************************************************************************)
EveryClientEnds ==
    \A c \in Client :
        client[c] = "hello" /\ ~(kind[c] = "search" /\ \E d \in Client : kind[d] = "compact")
            ~> client[c] \in {"answered", "failed"}
=============================================================================
