------------------------- MODULE DaemonServiceProofs -------------------------
(***************************************************************************)
(* Proofs about the tasks of a daemon: its requests, for every set of      *)
(* clients, combination of requests and number of threads; its metrics     *)
(* pushes; the pacing of embedding requests, for every number of callers   *)
(* and interval; its daily workflow, for every length of the day and of    *)
(* the workflow; the sizing of its memory, on every machine; and its path  *)
(* mappings, for all of them and all paths.                                *)
(***************************************************************************)
EXTENDS DaemonService, FiniteSetTheorems, WellFoundedInduction, TLAPS

\* A loader holds the creation lock, and then nothing is cached.
LoaderAlone ==
    \A c \in Client : handler[c] = "loading" => createLock = c /\ cached = NoProject

\* Unless one was removed in use, whatever a handler or a pass refers to is
\* the cached one.
UsesCached ==
    ~removedInUse => \A c \in Client : {project[c], claim[c]} \subseteq {NoProject, cached}

\* OneEnvironment is not inductive: that a load finds no environment is a
\* matter of who holds the lock and of what is still in use.
IInv ==
    /\ handler \in [Client -> HandlerAt] /\ DOMAIN project = Client /\ DOMAIN claim = Client
    /\ LoaderAlone /\ UsesCached /\ OneEnvironment

LEMMA InitEstablishes == Init => IInv
BY DEF Init, IInv, HandlerAt, LoaderAlone, UsesCached, OneEnvironment

(* Steps that leave the registry alone, begin no load, and let a task      *)
(* refer to what it refers to, or to nothing.                              *)
LEMMA Elsewhere ==
  ASSUME IInv, handler' \in [Client -> HandlerAt], UNCHANGED <<creation, history>>,
         \A c \in Client : handler'[c] = "loading" => handler[c] = "loading",
         DOMAIN project' = Client, DOMAIN claim' = Client,
         \A c \in Client : {project'[c], claim'[c]} \subseteq {project[c], claim[c], NoProject}
  PROVE  IInv'
BY DEF IInv, creation, history, LoaderAlone, UsesCached, OneEnvironment

(* A handler moves on, or ends; a pass begins or ends.                     *)
LEMMA Moves ==
  ASSUME IInv, NEW c \in Client, NEW pc \in HandlerAt \ {"loading"}, UNCHANGED <<creation, history>>,
         handler' = handler \/ At(c, pc),
         \/ UNCHANGED project
         \/ project' = [project EXCEPT ![c] = NoProject],
         \/ UNCHANGED claim
         \/ claim' = [claim EXCEPT ![c] = project[c]]
         \/ claim' = [claim EXCEPT ![c] = NoProject]
  PROVE  IInv'
<1>1. handler' \in [Client -> HandlerAt] /\ \A d \in Client : handler'[d] = "loading" => handler[d] = "loading"
  BY DEF IInv, At
<1>2. DOMAIN project' = Client /\ \A d \in Client : project'[d] \in {project[d], NoProject}
  BY DEF IInv
<1>3. DOMAIN claim' = Client /\ \A d \in Client : claim'[d] \in {claim[d], project[d], NoProject}
  BY DEF IInv
<1>4. QED
  BY <1>1, <1>2, <1>3, Elsewhere

LEMMA StepPreserves == IInv /\ [Next]_vars => IInv'
<1> SUFFICES ASSUME IInv, [Next]_vars PROVE IInv'
  OBVIOUS
<1>1. ASSUME NEW c \in Client,
             Connect(c) \/ Wakes(c) \/ HangsUp(c) \/ ClientStep(c) \/ Progress(c) \/ TakesThread(c)
             \/ Greets(c) \/ Requested(c) \/ Doctor(c) \/ CheckStep(c) \/ Waits(c)
      PROVE  IInv'
  <2>1. /\ UNCHANGED <<creation, history, project, claim>>
        /\ handler' = handler \/ \E pc \in HandlerAt \ {"loading"} : At(c, pc)
    BY <1>1 DEF Connect, Wakes, HangsUp, ClientStep, Greeted, Receives, ReceivesResult, Loses, Progress,
           TakesThread, Greets, Requested, Doctor, CheckStep, Checks, CheckModel, CheckMetrics,
           CheckFileWalk, CheckIndexStatus, CheckGit, Waits, At, HandlerAt, CheckAt, registry, passes
  <2>2. "end" \in HandlerAt \ {"loading"}
    BY DEF HandlerAt
  <2>3. QED
    BY <2>1, <2>2, Moves
<1>2. ASSUME NEW c \in Client,
             Answers(c) \/ Pull(c) \/ CheckRaises(c) \/ Finishes(c) \/ Disconnected(c) \/ Refreshed(c)
      PROVE  IInv'
  <2>1. /\ UNCHANGED <<creation, history, claim>>
        /\ At(c, "end") \/ At(c, "refreshed")
        /\ UNCHANGED project \/ project' = [project EXCEPT ![c] = NoProject]
    BY <1>2 DEF Answers, Pull, CheckRaises, Finishes, Disconnected, Refreshed, Ends, Leaves, passes
  <2>2. {"end", "refreshed"} \subseteq HandlerAt \ {"loading"}
    BY DEF HandlerAt
  <2>3. QED
    BY <2>1, <2>2, Moves
<1>3. ASSUME NEW c \in Client,
             Ensures(c) \/ Started(c) \/ Refreshes(c) \/ Waited(c) \/ Proceeds(c) \/ Compacts(c)
             \/ WorkflowIndexes(c) \/ WorkflowIndexed(c) \/ StreamsIndex(c)
      PROVE  IInv'
  <2>1. /\ UNCHANGED <<creation, history, project>>
        /\ \E pc \in {"ensured", "starting", "refreshing", "last", "locked", "stream"} : At(c, pc)
        /\ UNCHANGED claim \/ claim' = [claim EXCEPT ![c] = project[c]]
    BY <1>3 DEF Ensures, Started, Refreshes, Waited, Proceeds, Compacts, WorkflowIndexes, WorkflowIndexed,
           StreamsIndex, Becomes, Spawns, Claims, passes
  <2>2. {"ensured", "starting", "refreshing", "last", "locked", "stream"} \subseteq HandlerAt \ {"loading"}
    BY DEF HandlerAt
  <2>3. QED
    BY <2>1, <2>2, Moves
<1>4. ASSUME NEW c \in Client, PassStep(c) \/ Compacted(c) PROVE IInv'
  <2>1. /\ UNCHANGED <<creation, history>>
        /\ handler' = handler \/ At(c, "last") \/ At(c, "end")
        /\ UNCHANGED project \/ project' = [project EXCEPT ![c] = NoProject]
        /\ UNCHANGED claim \/ claim' = [claim EXCEPT ![c] = NoProject]
    BY <1>4 DEF PassStep, Granted, PassEnds, Compacted, Releases, Ends, Leaves
  <2>2. {"last", "end"} \subseteq HandlerAt \ {"loading"}
    BY DEF HandlerAt
  <2>3. QED
    BY <2>1, <2>2, Moves
<1>5. ASSUME NEW c \in Client, Stop(c) PROVE IInv'
  BY <1>5 DEF Stop, IInv, HandlerAt, history, LoaderAlone, UsesCached, OneEnvironment
<1>6. ASSUME NEW c \in Client, Remove(c) PROVE IInv'
  <2>1. UsesCached'
    BY <1>6 DEF Remove, Ends, Leaves, InUse, passes, IInv, UsesCached
  <2>2. QED
    BY <1>6, <2>1 DEF Remove, Ends, Leaves, At, passes, IInv, HandlerAt, LoaderAlone, OneEnvironment
<1>7. ASSUME NEW c \in Client, Looks(c) PROVE IInv'
  BY <1>7 DEF Looks, Uses, At, creation, passes, history, IInv, HandlerAt, LoaderAlone, UsesCached,
         OneEnvironment
<1>8. ASSUME NEW c \in Client, LooksAgain(c) PROVE IInv'
  <2>1. CASE cached # NoProject
    BY <1>8, <2>1 DEF LooksAgain, Uses, At, passes, history, IInv, HandlerAt, LoaderAlone, UsesCached,
           OneEnvironment
  <2>2. CASE cached = NoProject
    <3>1. \A d \in Client : handler[d] = "loading" => d = c
      BY <1>8, RequestAssumption DEF LooksAgain, IInv, LoaderAlone
    <3>2. QED
      BY <1>8, <2>2, <3>1
      DEF LooksAgain, At, passes, history, IInv, HandlerAt, LoaderAlone, UsesCached, OneEnvironment
  <2>3. QED
    BY <2>1, <2>2
<1>9. ASSUME NEW c \in Client, Loads(c) PROVE IInv'
  <2>1. \A d \in Client : handler[d] = "loading" => d = c
    BY <1>9 DEF Loads, IInv, LoaderAlone
  <2>2. LoaderAlone'
    BY <1>9, <2>1 DEF Loads, Uses, At, IInv, LoaderAlone
  <2>3. cached = NoProject
    BY <1>9 DEF Loads, EnvironmentOpen
  <2>4. UsesCached'
    BY <1>9, <2>3 DEF Loads, Uses, passes, history, IInv, UsesCached
  <2>5. QED
    BY <1>9, <2>2, <2>4 DEF Loads, Uses, At, passes, history, IInv, HandlerAt, OneEnvironment
<1>10. ASSUME NEW c \in Client, LoadFails(c) PROVE IInv'
  <2>1. ~removedInUse => ~EnvironmentOpen
    BY <1>10, RequestAssumption DEF LoadFails, IInv, LoaderAlone, UsesCached, EnvironmentOpen, InUse
  <2>2. OneEnvironment'
    BY <1>10, <2>1 DEF LoadFails, IInv, OneEnvironment
  <2>3. LoaderAlone'
    BY <1>10 DEF LoadFails, Ends, Leaves, At, IInv, LoaderAlone
  <2>4. QED
    BY <1>10, <2>2, <2>3 DEF LoadFails, Ends, Leaves, At, passes, IInv, HandlerAt, UsesCached
<1>11. CASE UNCHANGED vars
  BY <1>11, Elsewhere DEF vars, registry, passes, IInv
<1>12. QED
  BY <1>1, <1>2, <1>3, <1>4, <1>5, <1>6, <1>7, <1>8, <1>9, <1>10, <1>11
  DEF Next, HandlerStep, ProjectStep

(* First requests that arrive together never open the environment of their *)
(* root twice: a load finds one open only after a project was removed      *)
(* while a handler, a pass in the background or the workflow used it       *)
(* (get_project and remove_project of ProjectRegistry).                    *)
THEOREM EnvironmentsAreOne == Spec => []OneEnvironment
<1>1. IInv => OneEnvironment
  BY DEF IInv
<1>2. QED
  BY <1>1, InitEstablishes, StepPreserves, PTL DEF Spec

-----------------------------------------------------------------------------
(* The composition.  What MetricsPushProofs proves of pushes holds of      *)
(* those of the daemon.                                                    *)
Pushed == INSTANCE MetricsPushProofs WITH pc <- pusher

LEMMA SameMetrics ==
  /\ Metrics!Init => Pushed!Init
  /\ Metrics!Next => Pushed!Next
  /\ UNCHANGED metricsVars => UNCHANGED Pushed!vars
BY DEF
    Metrics!Init, Pushed!Init, Metrics!Next, Pushed!Next, metricsVars, Pushed!vars,
    Metrics!Go, Pushed!Go, Metrics!Tell, Pushed!Tell, Metrics!Begin, Pushed!Begin,
    Metrics!GetStatus, Pushed!GetStatus, Metrics!Gather, Pushed!Gather,
    Metrics!Connect, Pushed!Connect, Metrics!Insert, Pushed!Insert,
    Metrics!Commit, Pushed!Commit, Metrics!CommitReplyLost, Pushed!CommitReplyLost,
    Metrics!Fails, Pushed!Fails, Metrics!Close, Pushed!Close, Metrics!Exit, Pushed!Exit

(* A step of the daemon is a step or a stutter of each of its tasks.       *)
LEMMA StepOfEach ==
  ASSUME [DaemonNext]_allVars
  PROVE  /\ [Next]_vars
         /\ [Workflow!Next]_(Workflow!vars)
         /\ [Pacing!Next]_(Pacing!vars)
         /\ [Pushed!Next]_(Pushed!vars)
<1>1. UNCHANGED workflowVars => UNCHANGED Workflow!vars
  BY DEF workflowVars, Workflow!vars, Workflow!clock, Workflow!scheduler, Workflow!work
<1>2. UNCHANGED pacingVars => UNCHANGED Pacing!vars
  BY DEF pacingVars, Pacing!vars
<1>3. QED
  BY <1>1, <1>2, SameMetrics DEF DaemonNext, allVars

(* Whatever fails and whenever the daemon exits, a snapshot is visible     *)
(* whole or not at all (_write_snapshot).                                  *)
THEOREM SnapshotsStayWhole ==
  ASSUME Table = {"repo", "language"} PROVE DaemonSpec => []SnapshotsWhole
<1>1. DaemonInit => Pushed!IInv
  BY Pushed!InitEstablishes, SameMetrics DEF DaemonInit
<1>2. Pushed!IInv /\ [DaemonNext]_allVars => Pushed!IInv'
  BY Pushed!StepPreserves, StepOfEach
<1>3. Pushed!IInv => SnapshotsWhole
  BY DEF Pushed!IInv, Pushed!SnapshotsWhole, SnapshotsWhole, Metrics!SnapshotsWhole
<1>4. QED
  BY <1>1, <1>2, <1>3, PTL DEF DaemonSpec

-----------------------------------------------------------------------------
(* The pacing of embedding requests.                                       *)
\* The holder of an embedder's lock is the one whose request is paced or in
\* flight there.
HolderInFlight ==
    /\ \A c \in Caller :
           embedding[c] \in {"pacing", "calling", "backoff"} <=> lock[Pacing!Uses(c)] = c
    /\ \A e \in Pacing!Embedder : lock[e] # Nobody => Pacing!Uses(lock[e]) = e

\* What is left to wait and what has passed since the last answer make the
\* interval.
CoolsWithTime == \A e \in Pacing!Embedder : cool[e] + sinceAnswer[e] = Interval

\* From its first attempt to its end a request finds nothing left to wait,
\* and one that sleeps has an attempt left.
SentCooled ==
    \A c \in Caller :
        /\ embedding[c] \in {"calling", "backoff"} =>
               cool[Pacing!Uses(c)] = 0 /\ gap[Pacing!Uses(c)] = Interval
        /\ embedding[c] = "backoff" => attempt[Pacing!Uses(c)] < MaxAttempts

PacingInv == Pacing!PacingTypeOK /\ HolderInFlight /\ CoolsWithTime /\ SentCooled

LEMMA UsesOne == \A c \in Caller : Pacing!Uses(c) \in Pacing!Embedder
BY DEF Pacing!Uses, Pacing!Embedder

(* Whom a caller uses is settled when the daemon starts.                   *)
LEMMA UsesFixed == UNCHANGED shared => \A c \in Caller : Pacing!Uses(c)' = Pacing!Uses(c)
BY DEF Pacing!Uses

LEMMA PacingInit == ASSUME PacingParameters PROVE Pacing!Init => PacingInv
BY UsesOne
DEF PacingParameters, Pacing!Init, PacingInv, Pacing!PacingTypeOK, HolderInFlight, CoolsWithTime,
    SentCooled

LEMMA TimePreserves == ASSUME PacingParameters, PacingInv, Pacing!Tick PROVE PacingInv'
<1> USE UsesOne, UsesFixed DEF PacingParameters, Pacing!Tick, PacingInv
<1>1. Pacing!PacingTypeOK'
  BY DEF Pacing!PacingTypeOK, Pacing!Down, CoolsWithTime
<1>2. HolderInFlight'
  BY DEF Pacing!PacingTypeOK, HolderInFlight
<1>3. CoolsWithTime'
  BY DEF Pacing!PacingTypeOK, Pacing!Down, CoolsWithTime
<1>4. SentCooled'
  BY DEF Pacing!PacingTypeOK, Pacing!Down, SentCooled
<1>5. QED
  BY <1>1, <1>2, <1>3, <1>4

LEMMA CallerPreserves ==
  ASSUME PacingParameters, PacingInv, NEW c \in Caller,
         Pacing!Request(c) \/ Pacing!Serve(c) \/ Pacing!Cancel(c)
  PROVE  PacingInv'
<1> USE UsesOne, UsesFixed DEF PacingParameters, PacingInv, Pacing!PacingTypeOK
<1>1. CASE Pacing!Request(c)
  <2>1. Pacing!PacingTypeOK'
    BY <1>1 DEF Pacing!Request, Pacing!Go, SentCooled
  <2>2. HolderInFlight'
    BY <1>1 DEF Pacing!Request, Pacing!Go, HolderInFlight
  <2>3. CoolsWithTime'
    BY <1>1 DEF Pacing!Request, Pacing!Go, CoolsWithTime
  <2>4. SentCooled'
    BY <1>1 DEF Pacing!Request, Pacing!Go, HolderInFlight, CoolsWithTime, SentCooled
  <2>5. QED
    BY <2>1, <2>2, <2>3, <2>4
<1>2. CASE Pacing!Acquire(c)
  <2>1. Pacing!PacingTypeOK'
    BY <1>2 DEF Pacing!Acquire, Pacing!Go, SentCooled
  <2>2. HolderInFlight'
    BY <1>2 DEF Pacing!Acquire, Pacing!Go, HolderInFlight
  <2>3. CoolsWithTime'
    BY <1>2 DEF Pacing!Acquire, Pacing!Go, CoolsWithTime
  <2>4. SentCooled'
    BY <1>2 DEF Pacing!Acquire, Pacing!Go, HolderInFlight, CoolsWithTime, SentCooled
  <2>5. QED
    BY <2>1, <2>2, <2>3, <2>4
<1>3. CASE Pacing!Send(c)
  <2>1. Pacing!PacingTypeOK'
    BY <1>3 DEF Pacing!Send, Pacing!Go, Pacing!Sends, SentCooled
  <2>2. HolderInFlight'
    BY <1>3 DEF Pacing!Send, Pacing!Go, Pacing!Sends, HolderInFlight
  <2>3. CoolsWithTime'
    BY <1>3 DEF Pacing!Send, Pacing!Go, Pacing!Sends, CoolsWithTime
  <2>4. SentCooled'
    BY <1>3 DEF Pacing!Send, Pacing!Go, Pacing!Sends, HolderInFlight, CoolsWithTime, SentCooled
  <2>5. QED
    BY <2>1, <2>2, <2>3, <2>4
<1>4. CASE Pacing!Answered(c)
  <2>1. Pacing!PacingTypeOK'
    BY <1>4 DEF Pacing!Answered, Pacing!Go, Pacing!Frees, SentCooled
  <2>2. HolderInFlight'
    BY <1>4 DEF Pacing!Answered, Pacing!Go, Pacing!Frees, HolderInFlight
  <2>3. CoolsWithTime'
    BY <1>4 DEF Pacing!Answered, Pacing!Go, Pacing!Frees, CoolsWithTime
  <2>4. SentCooled'
    BY <1>4 DEF Pacing!Answered, Pacing!Go, Pacing!Frees, HolderInFlight, CoolsWithTime, SentCooled
  <2>5. QED
    BY <2>1, <2>2, <2>3, <2>4
<1>5. CASE Pacing!RateLimited(c)
  <2>1. Pacing!PacingTypeOK'
    BY <1>5 DEF Pacing!RateLimited, Pacing!Go, SentCooled
  <2>2. HolderInFlight'
    BY <1>5 DEF Pacing!RateLimited, Pacing!Go, HolderInFlight
  <2>3. CoolsWithTime'
    BY <1>5 DEF Pacing!RateLimited, Pacing!Go, CoolsWithTime
  <2>4. SentCooled'
    BY <1>5 DEF Pacing!RateLimited, Pacing!Go, HolderInFlight, CoolsWithTime, SentCooled
  <2>5. QED
    BY <2>1, <2>2, <2>3, <2>4
<1>6. CASE Pacing!Retry(c)
  <2>1. Pacing!PacingTypeOK'
    BY <1>6 DEF Pacing!Retry, Pacing!Go, Pacing!Sends, SentCooled
  <2>2. HolderInFlight'
    BY <1>6 DEF Pacing!Retry, Pacing!Go, Pacing!Sends, HolderInFlight
  <2>3. CoolsWithTime'
    BY <1>6 DEF Pacing!Retry, Pacing!Go, Pacing!Sends, CoolsWithTime
  <2>4. SentCooled'
    BY <1>6 DEF Pacing!Retry, Pacing!Go, Pacing!Sends, HolderInFlight, CoolsWithTime, SentCooled
  <2>5. QED
    BY <2>1, <2>2, <2>3, <2>4
<1>7. CASE Pacing!Raises(c)
  <2>1. Pacing!PacingTypeOK'
    BY <1>7 DEF Pacing!Raises, Pacing!Go, Pacing!Frees, SentCooled
  <2>2. HolderInFlight'
    BY <1>7 DEF Pacing!Raises, Pacing!Go, Pacing!Frees, HolderInFlight
  <2>3. CoolsWithTime'
    BY <1>7 DEF Pacing!Raises, Pacing!Go, Pacing!Frees, CoolsWithTime
  <2>4. SentCooled'
    BY <1>7 DEF Pacing!Raises, Pacing!Go, Pacing!Frees, HolderInFlight, CoolsWithTime, SentCooled
  <2>5. QED
    BY <2>1, <2>2, <2>3, <2>4
<1>8. CASE Pacing!Cancel(c)
  <2>1. Pacing!PacingTypeOK'
    BY <1>8 DEF Pacing!Cancel, Pacing!Go, Pacing!Frees, Pacing!Withdraws, SentCooled
  <2>2. HolderInFlight'
    BY <1>8 DEF Pacing!Cancel, Pacing!Go, Pacing!Frees, Pacing!Withdraws, HolderInFlight
  <2>3. CoolsWithTime'
    BY <1>8 DEF Pacing!Cancel, Pacing!Go, Pacing!Frees, Pacing!Withdraws, CoolsWithTime
  <2>4. SentCooled'
    BY <1>8 DEF Pacing!Cancel, Pacing!Go, Pacing!Frees, Pacing!Withdraws, HolderInFlight, CoolsWithTime, SentCooled
  <2>5. QED
    BY <2>1, <2>2, <2>3, <2>4
<1>9. QED
  BY <1>1, <1>2, <1>3, <1>4, <1>5, <1>6, <1>7, <1>8 DEF Pacing!Serve

LEMMA PacingStep == ASSUME PacingParameters PROVE PacingInv /\ [Pacing!Next]_(Pacing!vars) => PacingInv'
<1>1. PacingInv /\ UNCHANGED Pacing!vars => PacingInv'
  BY UsesOne, UsesFixed
  DEF Pacing!vars, PacingInv, Pacing!PacingTypeOK, HolderInFlight, CoolsWithTime, SentCooled
<1>2. QED
  BY <1>1, TimePreserves, CallerPreserves DEF Pacing!Next

(* Only the holder of an embedder's lock is in flight there.               *)
LEMMA HolderAlone ==
  ASSUME PacingParameters, PacingInv, NEW e \in Pacing!Embedder
  PROVE  Cardinality(Pacing!InFlight(e)) <= 1
<1>1. CASE lock[e] = Nobody
  <2>1. Pacing!InFlight(e) = {}
    BY <1>1 DEF PacingInv, HolderInFlight, Pacing!InFlight, PacingParameters
  <2>2. QED
    BY <2>1, FS_EmptySet
<1>2. CASE lock[e] # Nobody
  <2>1. Pacing!InFlight(e) = {lock[e]}
    BY <1>2 DEF PacingInv, Pacing!PacingTypeOK, HolderInFlight, Pacing!InFlight
  <2>2. Cardinality({lock[e]}) = 1
    BY FS_Singleton
  <2>3. QED
    BY <2>1, <2>2
<1>3. QED
  BY <1>1, <1>2

(* Each embedder of the daemon sends one request at a time, and none       *)
(* sooner than the interval after its last answer, whatever is cancelled,  *)
(* limited or raised in between (run_embedding_request); with two of them  *)
(* the service may see two requests at once.                               *)
THEOREM CallsArePaced == ASSUME PacingParameters PROVE DaemonSpec => []Paced
<1>1. DaemonInit => PacingInv
  BY PacingInit DEF DaemonInit, LoadsModels
<1>2. PacingInv /\ [DaemonNext]_allVars => PacingInv'
  BY PacingStep, StepOfEach
<1>3. PacingInv => Paced
  BY HolderAlone
  DEF PacingInv, SentCooled, Paced, Pacing!Paced, Pacing!InFlight, Pacing!Cardinality, Cardinality
<1>4. QED
  BY <1>1, <1>2, <1>3, PTL DEF DaemonSpec

-----------------------------------------------------------------------------
(* The daily workflow.                                                     *)
Dates == Workflow!Dates
Date(w) == Workflow!Date(w)

Clocks == wall \in Nat /\ seen \in Nat /\ lastRunDate \in Nat /\ began \in [Dates -> Nat]

\* Until the clock is stepped back, no date is ahead of it, and no workflow
\* has begun on a date after the last one recorded, or after the one that
\* runs.
Ordered ==
    ~steppedBack =>
        /\ loop # "off" => lastRunDate <= Date(wall)
        /\ loop \in {"targets", "work"} => Date(seen) <= Date(wall)
        /\ \A d \in Dates : began[d] > 0 =>
               /\ loop # "off"
               /\ IF loop \in {"targets", "work"} THEN d <= Date(seen) ELSE d <= lastRunDate

WorkflowInv == Clocks /\ Ordered /\ Workflow!OnceADay

LEMMA DateMonotone ==
  ASSUME DayLength \in Nat \ {0}, NEW v \in Nat, NEW w \in Nat, v <= w
  PROVE  Date(v) \in Nat /\ Date(w) \in Nat /\ Date(v) <= Date(w)
BY DEF Date, Workflow!Date

LEMMA WorkflowInit == ASSUME DayLength \in Nat \ {0} PROVE Workflow!Init => WorkflowInv
BY DEF Workflow!Init, WorkflowInv, Clocks, Ordered, Workflow!OnceADay, Dates

LEMMA WorkflowStep ==
  ASSUME DayLength \in Nat \ {0}, MaxWall \in Nat, WorkflowInv, [Workflow!Next]_(Workflow!vars)
  PROVE  WorkflowInv'
<1> USE DEF WorkflowInv, Clocks, Ordered, Workflow!OnceADay, Dates
<1>1. CASE Workflow!Tick \/ Workflow!Suspend
  <2>1. /\ wall' \in Nat /\ wall <= wall'
        /\ UNCHANGED <<loop, seen, lastRunDate, began, steppedBack>>
    BY <1>1 DEF Workflow!Tick, Workflow!Suspend, Workflow!scheduler
  <2>2. Date(wall) <= Date(wall') /\ Date(wall) \in Nat /\ Date(wall') \in Nat /\ Date(seen) \in Nat
    BY <2>1, DateMonotone
  <2>3. QED
    BY <2>1, <2>2 DEF Date
<1>2. CASE Workflow!StepBack
  BY <1>2 DEF Workflow!StepBack, Workflow!scheduler
<1>3. CASE Workflow!Start
  BY <1>3, DateMonotone DEF Workflow!Start, Workflow!clock, Date
<1>4. CASE Workflow!Wake
  <2>1. /\ UNCHANGED <<wall, lastRunDate, steppedBack>> /\ seen' = wall /\ loop = "sleep"
        /\ Date(wall) \in Nat
    BY <1>4, DateMonotone DEF Workflow!Wake, Workflow!clock
  <2>2. CASE Workflow!Due(wall)
    <3>1. loop' = "targets" /\ began' = [began EXCEPT ![Date(wall)] = @ + 1] /\ Date(wall) # lastRunDate
      BY <1>4, <2>2 DEF Workflow!Wake, Workflow!Due, Date
    <3>2. ~steppedBack /\ Date(wall) \in Dates => began[Date(wall)] = 0
      BY <2>1, <3>1
    <3>3. Date(seen') = Date(wall) /\ Dates' = Dates
      BY <2>1 DEF Date
    <3>4. /\ began' \in [Dates -> Nat]
          /\ \A d \in Dates : began'[d] = IF d = Date(wall) THEN began[d] + 1 ELSE began[d]
      <4> HIDE DEF Dates
      <4>1. began \in [Dates -> Nat]
        OBVIOUS
      <4>2. began' = [began EXCEPT ![Date(wall)] = @ + 1]
        BY <3>1
      <4> HIDE DEF Clocks, Ordered, Workflow!OnceADay, WorkflowInv
      <4>3. CASE Date(wall) \in Dates
        <5>1. began[Date(wall)] \in Nat /\ began[Date(wall)] + 1 \in Nat
          BY <4>1, <4>3
        <5>2. QED
          BY <4>1, <4>2, <4>3, <5>1
      <4>4. CASE Date(wall) \notin Dates
        <5>1. began' = began
          BY <4>1, <4>2, <4>4
        <5>2. QED
          BY <4>1, <4>4, <5>1
      <4>5. QED
        BY <4>3, <4>4
    <3>5. Clocks'
      BY <2>1, <3>3, <3>4
    <3>6. ~steppedBack => \A d \in Dates : began'[d] > 0 => d <= Date(wall)
      <4>1. SUFFICES ASSUME ~steppedBack, NEW d \in Dates, began'[d] > 0, d # Date(wall)
                     PROVE  d <= Date(wall)
        BY <2>1
      <4>2. began[d] > 0
        BY <3>4, <4>1
      <4>3. d <= lastRunDate /\ lastRunDate <= Date(wall) /\ d \in Nat
        BY <2>1, <4>1, <4>2 DEF Workflow!Dates, Workflow!Date
      <4>4. QED
        BY <2>1, <4>3
    <3>7. Ordered'
      <4> HIDE DEF Dates, Clocks
      <4>1. QED
        BY <2>1, <3>1, <3>3, <3>6 DEF Date
    <3>8. Workflow!OnceADay'
      BY <2>1, <3>2, <3>3, <3>4
    <3>9. QED
      BY <3>5, <3>7, <3>8
  <2>3. CASE ~Workflow!Due(wall)
    BY <1>4, <2>1, <2>3 DEF Workflow!Wake
  <2>4. QED
    BY <2>2, <2>3
<1>5. CASE Workflow!EndWorkflow
  <2>1. /\ UNCHANGED <<wall, seen, began, steppedBack>> /\ lastRunDate' = Date(seen)
        /\ loop = "work" /\ loop' = "look" /\ Date(seen) \in Nat
    BY <1>5, DateMonotone DEF Workflow!EndWorkflow, Workflow!clock, Date
  <2>2. QED
    BY <2>1 DEF Date
<1>6. CASE Workflow!Look \/ Workflow!Targets \/ Workflow!WorkflowStep \/ UNCHANGED Workflow!vars
  <2>1. CASE Workflow!Look
    BY <2>1 DEF Workflow!Look, Workflow!clock, Workflow!work
  <2>2. CASE Workflow!Targets
    BY <2>2 DEF Workflow!Targets, Workflow!clock
  <2>3. CASE Workflow!WorkflowStep
    BY <2>3 DEF Workflow!WorkflowStep, Workflow!clock, Workflow!scheduler
  <2>4. CASE UNCHANGED Workflow!vars
    BY <2>4 DEF Workflow!vars, Workflow!clock, Workflow!scheduler
  <2>5. QED
    BY <1>6, <2>1, <2>2, <2>3, <2>4
<1>7. QED
  BY <1>1, <1>2, <1>3, <1>4, <1>5, <1>6 DEF Workflow!Next

(* At most one workflow begins on a date, however the host is suspended,   *)
(* as long as the wall clock is not stepped back                           *)
(* (_scheduled_workflow_loop).                                             *)
THEOREM WorkflowOnceADay ==
  ASSUME DayLength \in Nat \ {0}, MaxWall \in Nat
  PROVE  DaemonSpec => []OnceADay
<1>1. DaemonInit => WorkflowInv
  BY WorkflowInit DEF DaemonInit
<1>2. WorkflowInv /\ [DaemonNext]_allVars => WorkflowInv'
  BY WorkflowStep, StepOfEach
<1>3. WorkflowInv => OnceADay
  BY DEF WorkflowInv, OnceADay
<1>4. QED
  BY <1>1, <1>2, <1>3, PTL DEF DaemonSpec

\* The slot at which the workflow of a date is due.
RunAt(d) == d * DayLength + runTime

DaysOK ==
    /\ wall \in 0..MaxWall /\ runTime \in 0..(DayLength - 1)
    /\ left \in Nat /\ workFor \in 0..MaxRun /\ startDate \in Nat
    /\ loop \in {"off", "look", "sleep", "targets", "work"}
    /\ undisturbed => ~steppedBack

\* Dates the loop is answerable for and has not served.
Unserved == {d \in Dates : d > startDate /\ began[d] = 0}

\* No run is missed: the sleep ends by the next one, a look finds it ahead,
\* and a workflow that began on time ends before it.
OnTime ==
    undisturbed /\ loop # "off" =>
        /\ lastRunDate >= startDate /\ lastRunDate \notin Unserved
        /\ loop = "sleep" => \A d \in Unserved : wall + left <= RunAt(d)
        /\ loop = "look" => \A d \in Unserved : wall < RunAt(d)
        /\ loop \in {"targets", "work"} =>
               /\ seen = RunAt(Date(seen)) /\ wall = seen + (IF loop = "work" THEN workFor ELSE 0)
               /\ Date(seen) >= startDate /\ \A d \in Unserved : d > Date(seen)

DaysInv == WorkflowInv /\ DaysOK /\ OnTime

LEMMA DateAndTime ==
  ASSUME DayLength \in Nat \ {0}, NEW w \in Nat
  PROVE  /\ Date(w) \in Nat /\ Workflow!TimeOfDay(w) \in 0..(DayLength - 1)
         /\ w = Date(w) * DayLength + Workflow!TimeOfDay(w)
BY DEF Date, Workflow!Date, Workflow!TimeOfDay

LEMMA DaysApart ==
  ASSUME DayLength \in Nat \ {0}, NEW d \in Nat, NEW e \in Nat, d < e
  PROVE  /\ d * DayLength \in Nat /\ e * DayLength \in Nat
         /\ d * DayLength + DayLength <= e * DayLength
<1>1. (e - d) - 1 \in Nat
  OBVIOUS
<1>2. ((e - d) - 1) * DayLength \in Nat /\ d * DayLength \in Nat
  BY <1>1
<1>3. e * DayLength = d * DayLength + DayLength + ((e - d) - 1) * DayLength
  OBVIOUS
<1>4. QED
  BY <1>2, <1>3

\* A run after a moment is after the next one that the delay waits for.
LEMMA DelayReachesNoFurther ==
  ASSUME WorkflowParameters, runTime \in 0..(DayLength - 1), NEW w \in Nat,
         NEW d \in Nat, w < RunAt(d)
  PROVE  w + Workflow!SecondsUntilNextRun(w) <= RunAt(d)
<1> DEFINE D == Date(w)
           t == Workflow!TimeOfDay(w)
<1>1. /\ D \in Nat /\ t \in 0..(DayLength - 1) /\ w = D * DayLength + t
      /\ DayLength \in Nat \ {0} /\ d * DayLength \in Nat /\ D * DayLength \in Nat
  <2>1. DayLength \in Nat \ {0}
    BY DEF WorkflowParameters
  <2>2. D \in Nat /\ t \in 0..(DayLength - 1) /\ w = D * DayLength + t
    BY <2>1, DateAndTime
  <2> HIDE DEF D, t
  <2>3. \A e \in Nat : e * DayLength \in Nat
    BY <2>1
  <2>4. QED
    BY <2>1, <2>2, <2>3
<1>2. Workflow!SecondsUntilNextRun(w) = IF t < runTime THEN runTime - t ELSE DayLength - t + runTime
  BY DEF Workflow!SecondsUntilNextRun
<1> HIDE DEF D, t
<1>3. d < D => d * DayLength + DayLength <= D * DayLength
  BY <1>1, DaysApart
<1>4. D < d => D * DayLength + DayLength <= d * DayLength
  BY <1>1, DaysApart
<1>5. d = D => d * DayLength = D * DayLength
  OBVIOUS
<1>6. d < D \/ d = D \/ D < d
  BY <1>1
<1>7. QED
  BY <1>1, <1>2, <1>3, <1>4, <1>5, <1>6 DEF RunAt

LEMMA DaysInit == ASSUME WorkflowParameters PROVE Workflow!Init => DaysInv
<1> SUFFICES ASSUME Workflow!Init PROVE DaysInv
  OBVIOUS
<1>1. WorkflowInv
  BY WorkflowInit DEF WorkflowParameters
<1>2. /\ wall \in 0..(DayLength - 1) /\ runTime \in RunTimes /\ left = 0 /\ workFor = 0
      /\ startDate = 0 /\ loop = "off" /\ steppedBack = FALSE
  BY DEF Workflow!Init
<1>3. QED
  BY <1>1, <1>2 DEF WorkflowParameters, DaysInv, DaysOK, OnTime

LEMMA DaysStep ==
  ASSUME WorkflowParameters, DaysInv, [Workflow!Next]_(Workflow!vars)
  PROVE  DaysInv'
<1> SUFFICES DaysOK' /\ OnTime'
  BY WorkflowStep DEF WorkflowParameters, DaysInv
<1>1. /\ WorkflowInv /\ DaysOK /\ OnTime
      /\ DayLength \in Nat \ {0} /\ MaxWall \in Nat /\ PollCap \in Nat /\ MaxRun \in 0..(DayLength - 1)
  BY DEF DaysInv, WorkflowParameters
<1>2. /\ wall \in 0..MaxWall /\ wall \in Nat /\ runTime \in 0..(DayLength - 1)
      /\ left \in Nat /\ workFor \in 0..MaxRun /\ startDate \in Nat
      /\ loop \in {"off", "look", "sleep", "targets", "work"} /\ (undisturbed => ~steppedBack)
      /\ seen \in Nat /\ lastRunDate \in Nat /\ began \in [Dates -> Nat] /\ Dates \subseteq Nat
  BY <1>1 DEF DaysOK, WorkflowInv, Clocks, Dates, Workflow!Dates
<1>3. \A d \in Nat : d * DayLength \in Nat
  BY <1>1
<1>4. \A w \in Nat : Date(w) \in Nat
  BY <1>1, DateAndTime
<1>5. CASE Workflow!Tick
  <2>1. /\ wall' = wall + 1 /\ wall < MaxWall
        /\ \/ loop = "sleep" /\ left > 0 /\ left' = left - 1 /\ workFor' = workFor
           \/ loop = "work" /\ workFor < MaxRun /\ workFor' = workFor + 1 /\ left' = left
        /\ UNCHANGED <<undisturbed, steppedBack, loop, seen, lastRunDate, began, startDate, runTime>>
    BY <1>5 DEF Workflow!Tick
  <2>2. DaysOK'
    BY <1>1, <1>2, <2>1 DEF DaysOK
  <2>3. Unserved' = Unserved /\ Date(seen)' = Date(seen)
    BY <2>1 DEF Unserved, Dates, Date
  <2>4. OnTime'
    BY <1>1, <1>2, <2>1, <2>3, <1>3 DEF OnTime, RunAt, Unserved
  <2>5. QED
    BY <2>2, <2>4
<1>6. CASE Workflow!Suspend \/ Workflow!StepBack
  <2>1. /\ undisturbed' = FALSE /\ wall' \in 0..MaxWall
        /\ UNCHANGED <<left, workFor, startDate, loop, runTime>>
    BY <1>1, <1>2, <1>6 DEF Workflow!Suspend, Workflow!StepBack, Workflow!scheduler, Workflow!work
  <2>2. QED
    BY <1>2, <2>1 DEF DaysOK, OnTime
<1>7. CASE Workflow!Start
  <2>1. /\ loop' = "look" /\ lastRunDate' = Date(wall) /\ startDate' = Date(wall)
        /\ UNCHANGED <<wall, undisturbed, steppedBack, left, began, runTime, workFor>>
    BY <1>7 DEF Workflow!Start, Workflow!clock, Workflow!work, Date
  <2>2. \A d \in Unserved' : d \in Nat /\ d > Date(wall)
    BY <1>2, <2>1 DEF Unserved, Dates
  <2>3. ASSUME NEW d \in Nat, d > Date(wall) PROVE wall < d * DayLength + runTime
    <3>1. Date(wall) * DayLength + DayLength <= d * DayLength
      BY <1>1, <1>2, <1>4, <2>3, DaysApart
    <3>2. /\ wall = Date(wall) * DayLength + Workflow!TimeOfDay(wall)
          /\ Workflow!TimeOfDay(wall) \in 0..(DayLength - 1)
      BY <1>1, <1>2, DateAndTime
    <3>3. QED
      BY <1>1, <1>2, <1>3, <1>4, <2>3, <3>1, <3>2
  <2>4. DaysOK'
    BY <1>2, <1>4, <2>1 DEF DaysOK
  <2>5. Date(wall) \notin Unserved'
    BY <1>2, <1>4, <2>2
  <2>6. OnTime'
    BY <1>2, <1>4, <2>1, <2>2, <2>3, <2>5 DEF OnTime, RunAt
  <2>7. QED
    BY <2>4, <2>6
<1>8. CASE Workflow!Look
  <2>1. /\ loop = "look" /\ loop' = "sleep" /\ left' = Workflow!Delay(wall)
        /\ UNCHANGED <<wall, undisturbed, steppedBack, seen, lastRunDate, began, startDate,
                       runTime, workFor>>
    BY <1>8 DEF Workflow!Look, Workflow!clock, Workflow!work
  <2>2. /\ Workflow!TimeOfDay(wall) \in 0..(DayLength - 1)
        /\ Workflow!SecondsUntilNextRun(wall) \in Nat
    <3>1. Workflow!TimeOfDay(wall) \in 0..(DayLength - 1)
      BY <1>1, <1>2, DateAndTime
    <3>2. QED
      BY <1>1, <1>2, <3>1 DEF Workflow!SecondsUntilNextRun
  <2>3. Workflow!Delay(wall) \in Nat /\ Workflow!Delay(wall) <= Workflow!SecondsUntilNextRun(wall)
    BY <1>1, <2>2 DEF Workflow!Delay
  <2>4. Unserved' = Unserved /\ Unserved \subseteq Nat
    BY <1>2, <2>1 DEF Unserved, Dates
  <2>5. ASSUME undisturbed, NEW d \in Unserved PROVE wall + left' <= d * DayLength + runTime
    <3>1. wall < RunAt(d)
      BY <1>1, <2>1, <2>5 DEF OnTime
    <3>2. wall + Workflow!SecondsUntilNextRun(wall) <= RunAt(d)
      BY <1>2, <2>4, <3>1, DelayReachesNoFurther
    <3>3. QED
      BY <1>2, <1>3, <2>1, <2>2, <2>3, <2>4, <3>2 DEF RunAt
  <2>6. DaysOK'
    BY <1>2, <2>1, <2>3 DEF DaysOK
  <2>7. OnTime'
    BY <1>1, <1>2, <2>1, <2>4, <2>5 DEF OnTime, RunAt
  <2>8. QED
    BY <2>6, <2>7
<1>9. CASE Workflow!Wake
  <2>1. /\ loop = "sleep" /\ left = 0 /\ seen' = wall
        /\ UNCHANGED <<wall, undisturbed, steppedBack, left, lastRunDate, startDate, runTime, workFor>>
    BY <1>9 DEF Workflow!Wake, Workflow!clock, Workflow!work
  <2> DEFINE D == Date(wall)
             t == Workflow!TimeOfDay(wall)
  <2>2. D \in Nat /\ t \in 0..(DayLength - 1) /\ wall = D * DayLength + t
    BY <1>1, <1>2, DateAndTime
  <2>3. D \in Dates
    BY <1>1, <1>2, DateMonotone DEF Dates, Workflow!Dates, Date
  <2>4. ASSUME undisturbed
        PROVE  /\ \A d \in Unserved : wall <= RunAt(d)
               /\ lastRunDate >= startDate /\ lastRunDate \notin Unserved /\ lastRunDate <= D
               /\ \A d \in Dates : began[d] > 0 => d <= lastRunDate
    BY <1>1, <1>2, <2>1, <2>4 DEF OnTime, WorkflowInv, Ordered
  <2>5. Workflow!Due(wall) <=> D # lastRunDate /\ t >= runTime
    BY DEF Workflow!Due, Date
  <2> HIDE DEF D, t
  <2>6. CASE ~Workflow!Due(wall)
    <3>1. loop' = "look" /\ began' = began
      BY <1>9, <2>6 DEF Workflow!Wake
    <3>2. Unserved' = Unserved
      BY <2>1, <3>1 DEF Unserved, Dates
    <3>3. ASSUME undisturbed, NEW d \in Unserved PROVE wall < d * DayLength + runTime
      <4>1. d \in Nat /\ d # lastRunDate /\ wall <= d * DayLength + runTime
        BY <1>2, <2>4, <3>3 DEF RunAt, Unserved
      <4>2. d < D => d * DayLength + DayLength <= D * DayLength
        BY <1>1, <2>2, <4>1, DaysApart
      <4>3. D < d => D * DayLength + DayLength <= d * DayLength
        BY <1>1, <2>2, <4>1, DaysApart
      <4>4. d = D => t < runTime /\ d * DayLength = D * DayLength
        BY <2>2, <2>5, <2>6, <1>2, <4>1
      <4>5. d < D \/ d = D \/ D < d
        BY <2>2, <4>1
      <4>6. QED
        BY <1>1, <1>2, <1>3, <2>2, <4>1, <4>2, <4>3, <4>4, <4>5
    <3>4. DaysOK'
      BY <1>2, <2>1, <3>1 DEF DaysOK
    <3>5. OnTime'
      BY <2>1, <2>4, <3>1, <3>2, <3>3 DEF OnTime, RunAt
    <3>6. QED
      BY <3>4, <3>5
  <2>7. CASE Workflow!Due(wall)
    <3>1. loop' = "targets" /\ began' = [began EXCEPT ![D] = @ + 1]
      BY <1>9, <2>7 DEF Workflow!Wake, Date, D
    <3>2. \A d \in Dates : began'[d] = IF d = D THEN began[d] + 1 ELSE began[d]
      BY <1>2, <3>1
    <3>3. Unserved' = Unserved \ {D}
      <4>1. \A d \in Dates : began[d] \in Nat
        BY <1>2
      <4>2. \A d \in Dates : began'[d] = 0 <=> began[d] = 0 /\ d # D
        BY <2>3, <3>2, <4>1
      <4>3. Dates' = Dates
        BY DEF Dates
      <4>4. QED
        BY <2>1, <4>2, <4>3 DEF Unserved
    <3>4. DaysOK'
      BY <1>2, <2>1, <3>1 DEF DaysOK
    <3>5. ASSUME undisturbed
          PROVE  D > startDate /\ wall = D * DayLength + runTime /\ \A d \in Unserved \ {D} : d > D
      <4>1. D > startDate /\ D \in Unserved
        <5>1. D > lastRunDate /\ began[D] = 0
          BY <1>2, <2>2, <2>3, <2>4, <2>5, <2>7, <3>5
        <5>2. QED
          BY <1>2, <2>2, <2>3, <2>4, <3>5, <5>1 DEF Unserved
      <4>2. wall <= D * DayLength + runTime
        BY <2>4, <3>5, <4>1 DEF RunAt
      <4>3. wall = D * DayLength + runTime
        BY <1>2, <1>3, <2>2, <2>5, <2>7, <4>2
      <4>4. ASSUME NEW d \in Unserved \ {D} PROVE d > D
        <5>1. d \in Nat /\ wall <= d * DayLength + runTime
          BY <1>2, <2>4, <3>5 DEF RunAt, Unserved
        <5>2. d < D => d * DayLength + DayLength <= D * DayLength
          BY <1>1, <2>2, <5>1, DaysApart
        <5>3. QED
          BY <1>1, <1>2, <1>3, <2>2, <4>3, <4>4, <5>1, <5>2
      <4>5. QED
        BY <4>1, <4>3, <4>4
    <3>6. Date(seen)' = D
      BY <2>1 DEF D, Date
    <3>7. undisturbed => lastRunDate \notin Unserved'
      BY <2>4, <3>3
    <3>8. OnTime'
      BY <1>2, <2>1, <2>2, <2>4, <3>1, <3>3, <3>5, <3>6, <3>7 DEF OnTime, RunAt
    <3>9. QED
      BY <3>4, <3>8
  <2>8. QED
    BY <2>6, <2>7
<1>10. CASE Workflow!Targets
  <2>1. /\ loop = "targets" /\ loop' = "work" /\ workFor' = 0
        /\ UNCHANGED <<wall, undisturbed, steppedBack, left, seen, lastRunDate, began, startDate, runTime>>
    BY <1>10 DEF Workflow!Targets, Workflow!clock
  <2>2. Unserved' = Unserved /\ Date(seen)' = Date(seen)
    BY <2>1 DEF Unserved, Dates, Date
  <2>3. DaysOK'
    BY <1>1, <1>2, <2>1 DEF DaysOK
  <2>4. OnTime'
    BY <1>1, <1>2, <1>3, <1>4, <2>1, <2>2 DEF OnTime, RunAt
  <2>5. QED
    BY <2>3, <2>4
<1>11. CASE Workflow!EndWorkflow
  <2>1. /\ loop = "work" /\ loop' = "look" /\ lastRunDate' = Date(seen)
        /\ UNCHANGED <<wall, undisturbed, steppedBack, left, seen, began, startDate, runTime, workFor>>
    BY <1>11 DEF Workflow!EndWorkflow, Workflow!clock, Workflow!work, Date
  <2>2. Unserved' = Unserved /\ Unserved \subseteq Nat
    BY <1>2, <2>1 DEF Unserved, Dates
  <2>3. DaysOK'
    BY <1>2, <2>1 DEF DaysOK
  <2>4. ASSUME undisturbed
        PROVE  /\ Date(seen) >= startDate /\ Date(seen) \notin Unserved
               /\ \A d \in Unserved : wall < d * DayLength + runTime
    <3>1. /\ Date(seen) \in Nat /\ Date(seen) >= startDate /\ wall = seen + workFor
          /\ seen = Date(seen) * DayLength + runTime /\ \A d \in Unserved : d > Date(seen)
      BY <1>1, <1>2, <1>4, <2>1, <2>4 DEF OnTime, RunAt
    <3>2. ASSUME NEW d \in Unserved PROVE wall < d * DayLength + runTime
      <4>1. Date(seen) * DayLength + DayLength <= d * DayLength
        BY <1>1, <2>2, <3>1, DaysApart
      <4>2. QED
        BY <1>1, <1>2, <1>3, <2>2, <3>1, <4>1
    <3>3. QED
      BY <3>1, <3>2
  <2>5. OnTime'
    BY <2>1, <2>2, <2>4 DEF OnTime, RunAt
  <2>6. QED
    BY <2>3, <2>5
<1>12. CASE Workflow!WorkflowStep \/ UNCHANGED Workflow!vars
  <2>1. UNCHANGED <<wall, undisturbed, steppedBack, loop, left, seen, lastRunDate, began, startDate,
                    runTime, workFor>>
    BY <1>12 DEF Workflow!WorkflowStep, Workflow!vars, Workflow!clock, Workflow!scheduler, Workflow!work
  <2>2. Unserved' = Unserved /\ Date(seen)' = Date(seen)
    BY <2>1 DEF Unserved, Dates, Date
  <2>3. QED
    BY <1>1, <2>1, <2>2 DEF DaysOK, OnTime, RunAt
<1>13. QED
  BY <1>5, <1>6, <1>7, <1>8, <1>9, <1>10, <1>11, <1>12 DEF Workflow!Next

(* Every date after the one on which the loop started is served, when the  *)
(* host was neither suspended nor its clock stepped: a sleep never passes  *)
(* the next run, and a workflow ends before it (_scheduled_workflow_loop,  *)
(* seconds_until_next_run).                                                *)
THEOREM WorkflowEveryDay ==
  ASSUME WorkflowParameters PROVE DaemonSpec => []EveryDayServed
<1>1. DaemonInit => DaysInv
  BY DaysInit DEF DaemonInit
<1>2. DaysInv /\ [DaemonNext]_allVars => DaysInv'
  BY DaysStep, StepOfEach
<1>3. DaysInv => EveryDayServed
  <2>1. SUFFICES ASSUME DaysInv, undisturbed, loop # "off", NEW d \in Dates,
                        d > startDate, wall > d * DayLength + runTime, ~(began[d] >= 1)
                 PROVE  FALSE
    BY DEF EveryDayServed, Workflow!EveryDayServed, Dates
  <2>2. /\ wall \in Nat /\ left \in Nat /\ workFor \in 0..MaxRun /\ runTime \in 0..(DayLength - 1)
        /\ loop \in {"look", "sleep", "targets", "work"} /\ d \in Nat /\ began[d] = 0
        /\ DayLength \in Nat \ {0} /\ MaxRun \in 0..(DayLength - 1) /\ seen \in Nat
    BY <2>1 DEF WorkflowParameters, DaysInv, DaysOK, WorkflowInv, Clocks, Dates, Workflow!Dates
  <2>3. d \in Unserved /\ d * DayLength \in Nat
    BY <2>1, <2>2 DEF Unserved
  <2>4. CASE loop \in {"look", "sleep"}
    BY <2>1, <2>2, <2>3, <2>4 DEF DaysInv, OnTime, RunAt
  <2>5. CASE loop \in {"targets", "work"}
    <3>1. /\ wall <= seen + workFor /\ seen = Date(seen) * DayLength + runTime
          /\ d > Date(seen) /\ Date(seen) \in Nat
      BY <2>1, <2>2, <2>3, <2>5, DateAndTime DEF DaysInv, OnTime, RunAt
    <3>2. Date(seen) * DayLength + DayLength <= d * DayLength /\ Date(seen) * DayLength \in Nat
      BY <2>2, <3>1, DaysApart
    <3>3. QED
      BY <2>1, <2>2, <2>3, <3>1, <3>2
  <2>6. QED
    BY <2>2, <2>4, <2>5
<1>4. QED
  BY <1>1, <1>2, <1>3, PTL DEF DaemonSpec

-----------------------------------------------------------------------------
(* The arithmetic that calibrates the two gates.                           *)
(* A variable that must be positive has its default, or is positive.       *)
LEMMA PositiveOr ==
  ASSUME SizingParameters, NEW raw \in Int \cup {Unknown}, NEW d \in Nat \ {0}
  PROVE  /\ Budget!OrElse(Budget!EnvPositive(raw), d) \in Nat \ {0}
         /\ Budget!EnvPositive(raw) # Unknown => raw \in Nat
BY DEF SizingParameters, Budget!OrElse, Budget!EnvPositive

LEMMA LimitRange ==
  ASSUME SizingParameters, NEW m \in Machine
  PROVE  /\ Budget!Limit(m) \in Nat \cup {Unknown}
         /\ m.host # Unknown /\ Budget!EnvPositive(m.override) = Unknown => Budget!Limit(m) <= m.host
<1>1. /\ m.override \in Int \cup {Unknown} /\ m.v2 \in Nat \cup {Unknown}
      /\ m.v1 \in Nat \cup {Unknown} /\ m.host \in Nat \cup {Unknown}
  BY DEF Machine
<1>2. Budget!EnvPositive(m.override) # Unknown => m.override \in Nat
  BY <1>1, PositiveOr DEF SizingParameters
<1>3. QED
  BY <1>1, <1>2 DEF SizingParameters, Budget!Limit, Budget!DetectLimit, Budget!WithinHost, Budget!Smaller

(* Whole parts of a quotient.                                              *)
LEMMA Quotient ==
  ASSUME NEW a \in Int, NEW b \in Nat \ {0}
  PROVE  a \div b \in Int /\ b * (a \div b) <= a
OBVIOUS

LEMMA InflightFits ==
  ASSUME SizingParameters, NEW limit \in Nat, NEW baseline \in Nat, NEW ceiling \in Nat \ {0}
  PROVE  LET work == limit * (100 - SafetyMargin) - 100 * baseline
             fits == work \div (100 * PerFileCost)
             n == Budget!Larger(Budget!Smaller(MinInflight, ceiling), Budget!Smaller(ceiling, fits))
         IN  /\ n \in 1..ceiling
             /\ n > MinInflight => 100 * (baseline + n * PerFileCost) <= limit * (100 - SafetyMargin)
<1> DEFINE work == limit * (100 - SafetyMargin) - 100 * baseline
           fits == work \div (100 * PerFileCost)
           n == Budget!Larger(Budget!Smaller(MinInflight, ceiling), Budget!Smaller(ceiling, fits))
<1>1. work \in Int /\ 100 * PerFileCost \in Nat \ {0} /\ PerFileCost \in Nat
  BY DEF SizingParameters
<1>2. fits \in Int /\ (100 * PerFileCost) * fits <= work
  <2> HIDE DEF work
  <2> QED
    BY <1>1, Quotient
<1> HIDE DEF fits
<1>3. n \in 1..ceiling /\ (n > MinInflight => n <= fits)
  BY <1>2 DEF SizingParameters, Budget!Larger, Budget!Smaller
<1>4. ASSUME n > MinInflight PROVE 100 * (baseline + n * PerFileCost) <= limit * (100 - SafetyMargin)
  <2> HIDE DEF n
  <2>1. n * PerFileCost <= fits * PerFileCost
    BY <1>1, <1>2, <1>3, <1>4
  <2>2. 100 * (fits * PerFileCost) <= work
    BY <1>1, <1>2
  <2>3. n * PerFileCost \in Int /\ fits * PerFileCost \in Int /\ limit * (100 - SafetyMargin) \in Int
    BY <1>1, <1>2, <1>3 DEF SizingParameters
  <2>4. QED
    BY <2>1, <2>2, <2>3
<1>5. QED
  BY <1>3, <1>4 DEF fits

LEMMA BatchFits ==
  ASSUME SizingParameters, NEW work \in Int, NEW concurrent \in Nat \ {0}
  PROVE  LET share == (Budget!Larger(0, work) * ScanShare) \div (100 * 100 * concurrent)
             n == Budget!Clamp(share, MinBatch, MaxBatch)
         IN  /\ n \in MinBatch..MaxBatch
             /\ n > MinBatch => 100 * 100 * concurrent * n <= work * ScanShare
<1> DEFINE room == Budget!Larger(0, work) * ScanShare
           share == room \div (100 * 100 * concurrent)
           n == Budget!Clamp(share, MinBatch, MaxBatch)
<1>1. room \in Nat /\ 100 * 100 * concurrent \in Nat \ {0} /\ (room > 0 => room = work * ScanShare)
  BY DEF SizingParameters, Budget!Larger
<1> HIDE DEF room
<1>2. share \in Int /\ (100 * 100 * concurrent) * share <= room
  BY <1>1, Quotient
<1> HIDE DEF share
<1>3. n \in MinBatch..MaxBatch /\ (n > MinBatch => n <= share /\ n >= 1)
  BY <1>2 DEF SizingParameters, Budget!Clamp, Budget!Larger, Budget!Smaller
<1> HIDE DEF n
<1>4. ASSUME n > MinBatch PROVE 100 * 100 * concurrent * n <= work * ScanShare
  <2>1. n \in Nat /\ n <= share /\ n >= 1
    BY <1>3, <1>4 DEF SizingParameters
  <2>2. (100 * 100 * concurrent) * n <= (100 * 100 * concurrent) * share
    BY <1>1, <1>2, <2>1
  <2>3. (100 * 100 * concurrent) * n <= room /\ (100 * 100 * concurrent) * n > 0
    BY <1>1, <1>2, <2>1, <2>2
  <2>4. QED
    BY <1>1, <2>1, <2>3
<1>5. QED
  BY <1>3, <1>4 DEF n, share, room

(* On every machine, and whatever an operator sets, the daemon gets a      *)
(* usable budget that fits (recommend_max_inflight, recommend_scan_budget, *)
(* detect_memory_limit_bytes, _second_embedder_fits).                      *)
THEOREM CalibrationFits ==
  ASSUME SizingParameters, NEW m \in Machine PROVE Budget!BudgetFits(m)
<1> DEFINE limit == Budget!Limit(m)
           baseline == Budget!OrElse(m.baseline, 0)
           ceiling == Budget!Ceiling(m.inflight)
           scans == Budget!Scans(m.scans)
<1>1. /\ limit \in Nat \cup {Unknown} /\ baseline \in Nat
      /\ ceiling \in Nat \ {0} /\ scans \in Nat \ {0}
      /\ m.baseline \in Nat \cup {Unknown} /\ m.before \in Nat \cup {Unknown}
  BY LimitRange, PositiveOr
  DEF SizingParameters, Machine, Budget!OrElse, Budget!Ceiling, Budget!Scans
<1>2. Budget!Inflight(m) \in 1..ceiling /\ Budget!Batch(m) \in MinBatch..MaxBatch
  <2>1. CASE limit = Unknown
    BY <1>1, <2>1 DEF SizingParameters, Budget!Inflight, Budget!RecommendMaxInflight,
                      Budget!Batch, Budget!RecommendBatch
  <2>2. CASE limit # Unknown
    <3>1. limit \in Nat /\ limit * (100 - SafetyMargin) - 100 * baseline \in Int
      BY <1>1, <2>2 DEF SizingParameters
    <3>2. QED
      BY <1>1, <2>2, <3>1, InflightFits, BatchFits
      DEF Budget!Inflight, Budget!RecommendMaxInflight, Budget!Batch, Budget!RecommendBatch,
          Budget!Work, Budget!Cent
  <2>3. QED
    BY <2>1, <2>2
<1>3. ASSUME limit # Unknown
      PROVE  /\ Budget!Inflight(m) > MinInflight =>
                  100 * (baseline + Budget!Inflight(m) * PerFileCost) <= limit * (100 - SafetyMargin)
             /\ Budget!Batch(m) > MinBatch =>
                  100 * 100 * scans * Budget!Batch(m)
                      <= (limit * (100 - SafetyMargin) - 100 * baseline) * ScanShare
  <2>1. limit \in Nat /\ limit * (100 - SafetyMargin) - 100 * baseline \in Int
    BY <1>1, <1>3 DEF SizingParameters
  <2>2. QED
    BY <1>1, <1>3, <2>1, InflightFits, BatchFits
    DEF Budget!Inflight, Budget!RecommendMaxInflight, Budget!Batch, Budget!RecommendBatch,
        Budget!Work, Budget!Cent
<1>4. ASSUME limit # Unknown, Unknown \notin {m.before, m.baseline},
             Budget!SecondEmbedderFits(limit, m.before, m.baseline)
      PROVE  Budget!Work(limit, m.baseline + Budget!Larger(0, m.baseline - m.before)) >= 0
  <2>1. limit \in Nat /\ m.before \in Nat /\ m.baseline \in Nat
    BY <1>1, <1>4
  <2>2. m.baseline + Budget!Larger(0, m.baseline - m.before) \in Nat
    BY <2>1 DEF Budget!Larger
  <2>3. QED
    BY <1>4, <2>1, <2>2
    DEF SizingParameters, Budget!SecondEmbedderFits, Budget!Work, Budget!OrElse, Budget!Cent
<1>5. m.host # Unknown /\ Budget!EnvPositive(m.override) = Unknown => limit <= m.host
  BY LimitRange
<1>6. QED
  BY <1>2, <1>3, <1>4, <1>5 DEF Budget!BudgetFits, Budget!Cent

(* What is calibrated is what the proofs about the gates ask of it.        *)
THEOREM CalibrationIsLegal ==
  ASSUME SizingParameters, NEW m \in Machine
  PROVE  Budget!Inflight(m) \in Nat \ {0} /\ Budget!Scans(m.scans) \in Nat \ {0}
<1>1. Budget!Ceiling(m.inflight) \in Nat \ {0} /\ Budget!Scans(m.scans) \in Nat \ {0}
  BY PositiveOr DEF SizingParameters, Machine, Budget!Ceiling, Budget!Scans
<1>2. Budget!Inflight(m) \in 1..Budget!Ceiling(m.inflight)
  BY CalibrationFits DEF Budget!BudgetFits
<1>3. QED
  BY <1>1, <1>2

(* The sizes fixed at the start of a daemon fit its machine for as long as *)
(* it runs (MemoryGovernor.calibrate).                                     *)
THEOREM SizesFit ==
  ASSUME SizingParameters, Machines \subseteq Machine PROVE DaemonSpec => []BudgetFits
<1>1. DaemonInit => machine \in Machines
  BY DEF DaemonInit
<1>2. machine \in Machines /\ [DaemonNext]_allVars => (machine \in Machines)'
  BY DEF DaemonNext, allVars
<1>3. machine \in Machines => BudgetFits
  BY CalibrationFits DEF BudgetFits
<1>4. QED
  BY <1>1, <1>2, <1>3, PTL DEF DaemonSpec

-----------------------------------------------------------------------------
(* The path mappings.                                                      *)
PrefixOf(s, t) == Len(s) <= Len(t) /\ \A i \in 1..Len(s) : s[i] = t[i]

LEMMA ElementIn == ASSUME NEW T, NEW s \in Seq(T), NEW i \in DOMAIN s PROVE s[i] \in T
OBVIOUS

LEMMA Concatenation ==
  ASSUME NEW T, NEW u \in Seq(T), NEW v \in Seq(T)
  PROVE  /\ u \o v \in Seq(T) /\ Len(u) \in Nat /\ Len(v) \in Nat
         /\ Len(u \o v) = Len(u) + Len(v)
         /\ \A i \in 1..Len(u) : (u \o v)[i] = u[i]
         /\ \A i \in 1..Len(v) : (u \o v)[Len(u) + i] = v[i]
<1>1. u \o v \in Seq(T) /\ Len(u) \in Nat /\ Len(v) \in Nat /\ Len(u \o v) = Len(u) + Len(v)
  OBVIOUS
<1>2. \A i \in 1..Len(u) : (u \o v)[i] = u[i]
  BY <1>1
<1>3. ASSUME NEW i \in 1..Len(v) PROVE (u \o v)[Len(u) + i] = v[i]
  <2>1. Len(u) + i \in 1..(Len(u) + Len(v)) /\ Len(u) + i > Len(u) /\ (Len(u) + i) - Len(u) = i
    BY <1>1
  <2>2. QED
    BY <1>1, <2>1
<1>4. QED
  BY <1>1, <1>2, <1>3

LEMMA SameElements ==
  ASSUME NEW T, NEW u \in Seq(T), NEW v \in Seq(T), Len(u) = Len(v),
         \A i \in 1..Len(u) : u[i] = v[i]
  PROVE  u = v
OBVIOUS

LEMMA PrefixElements ==
  ASSUME NEW Name, NEW s \in Seq(Name), NEW t \in Seq(Name)
  PROVE  Paths!IsPrefix(s, t) <=> PrefixOf(s, t)
<1>1. Len(s) \in Nat /\ Len(t) \in Nat
  OBVIOUS
<1>2. /\ SubSeq(s, 1, Len(s)) \in Seq(Name) /\ Len(SubSeq(s, 1, Len(s))) = Len(s)
      /\ \A i \in 1..Len(s) : SubSeq(s, 1, Len(s))[i] = s[i]
  OBVIOUS
<1>3. ASSUME Len(s) <= Len(t)
      PROVE  /\ SubSeq(t, 1, Len(s)) \in Seq(Name) /\ Len(SubSeq(t, 1, Len(s))) = Len(s)
             /\ \A i \in 1..Len(s) : SubSeq(t, 1, Len(s))[i] = t[i]
  BY <1>1, <1>3
<1>4. ASSUME Len(s) <= Len(t)
      PROVE  SubSeq(s, 1, Len(s)) = SubSeq(t, 1, Len(s)) <=> \A i \in 1..Len(s) : s[i] = t[i]
  <2> DEFINE u == SubSeq(s, 1, Len(s))
             v == SubSeq(t, 1, Len(s))
  <2>1. /\ u \in Seq(Name) /\ v \in Seq(Name) /\ Len(u) = Len(s) /\ Len(v) = Len(s)
        /\ \A i \in 1..Len(s) : u[i] = s[i] /\ v[i] = t[i]
    BY <1>2, <1>3, <1>4
  <2> HIDE DEF u, v
  <2>2. (\A i \in 1..Len(s) : s[i] = t[i]) => u = v
    BY <2>1, SameElements
  <2>3. u = v => \A i \in 1..Len(s) : s[i] = t[i]
    BY <2>1
  <2>4. QED
    BY <2>2, <2>3 DEF u, v
<1>5. QED
  BY <1>4 DEF Paths!IsPrefix, PrefixOf

LEMMA LeastElement ==
  ASSUME NEW S \in SUBSET Nat, S # {}
  PROVE  Paths!Min(S) \in S
<1>1. PICK x \in S : \A y \in S : <<y, x>> \notin OpToRel(<, Nat)
  BY WFMin, NatLessThanWellFounded
<1>2. \A y \in S : x <= y
  <2>1. SUFFICES ASSUME NEW y \in S, y < x PROVE FALSE
    OBVIOUS
  <2>2. <<y, x>> \in Nat \X Nat /\ <<y, x>>[1] < <<y, x>>[2]
    BY <2>1
  <2>3. <<y, x>> \in OpToRel(<, Nat)
    BY <2>2 DEF OpToRel
  <2>4. QED
    BY <1>1, <2>3
<1>3. QED
  BY <1>2 DEF Paths!Min

\* A position found is one that matches; none is found only where none does.
LEMMA FoundMatches ==
  ASSUME NEW T, NEW mappings \in Seq(T), NEW path, NEW reverse
  PROVE  LET i == Paths!FirstMatch(mappings, path, reverse)
         IN  /\ i # 0 => /\ i \in DOMAIN mappings
                         /\ Paths!IsPrefix(Paths!Side(mappings[i], reverse), path)
             /\ i = 0 => \A j \in DOMAIN mappings :
                             ~Paths!IsPrefix(Paths!Side(mappings[j], reverse), path)
<1> DEFINE I == {i \in 1..Len(mappings) : Paths!Under(path, Paths!Side(mappings[i], reverse))}
<1>1. Paths!FirstMatch(mappings, path, reverse) = IF I # {} THEN Paths!Min(I) ELSE 0
  BY DEF Paths!FirstMatch, Paths!SelectInSeq
<1>2. DOMAIN mappings = 1..Len(mappings) /\ Len(mappings) \in Nat /\ I \in SUBSET Nat /\ 0 \notin I
  OBVIOUS
<1>3. I # {} => Paths!Min(I) \in I
  BY <1>2, LeastElement
<1>4. QED
  BY <1>1, <1>2, <1>3 DEF Paths!Under

LEMMA PrefixesOfOne ==
  ASSUME NEW Name, NEW s \in Seq(Name), NEW t \in Seq(Name), NEW path \in Seq(Name),
         Paths!IsPrefix(s, path), Paths!IsPrefix(t, path)
  PROVE  Paths!IsPrefix(s, t) \/ Paths!IsPrefix(t, s)
<1>1. PrefixOf(s, path) /\ PrefixOf(t, path)
  BY PrefixElements
<1>2. PrefixOf(s, t) \/ PrefixOf(t, s)
  BY <1>1 DEF PrefixOf
<1>3. QED
  BY <1>2, PrefixElements

\* Moving a path to another directory puts it there, and moving it back
\* gives it.
LEMMA RebaseBack ==
  ASSUME NEW Name, NEW from \in Seq(Name), NEW to \in Seq(Name), NEW path \in Seq(Name),
         Paths!IsPrefix(from, path)
  PROVE  LET moved == Paths!Rebase(path, from, to)
         IN  moved \in Seq(Name) /\ Paths!IsPrefix(to, moved) /\ Paths!Rebase(moved, to, from) = path
<1> DEFINE rest == SubSeq(path, Len(from) + 1, Len(path))
           moved == to \o rest
           back == SubSeq(moved, Len(to) + 1, Len(moved))
<1>1. /\ Len(from) \in Nat /\ Len(to) \in Nat /\ Len(path) \in Nat /\ Len(from) <= Len(path)
      /\ \A i \in 1..Len(from) : from[i] = path[i]
  BY PrefixElements DEF PrefixOf
<1>2. /\ rest \in Seq(Name) /\ Len(rest) = Len(path) - Len(from)
      /\ \A i \in 1..(Len(path) - Len(from)) : rest[i] = path[Len(from) + i]
  <2> DEFINE a == Len(from) + 1
             b == Len(path)
  <2>1. a \in Nat /\ b \in Nat /\ a >= 1 /\ a <= b + 1
    BY <1>1
  <2>2. \A i \in 1..(b - a + 1) : a + i - 1 = Len(from) + i
    BY <1>1, <2>1
  <2>3. b - a + 1 = Len(path) - Len(from)
    BY <1>1
  <2> HIDE DEF a
  <2>4. /\ SubSeq(path, a, b) \in Seq(Name) /\ Len(SubSeq(path, a, b)) = b - a + 1
        /\ \A i \in 1..(b - a + 1) : SubSeq(path, a, b)[i] = path[a + i - 1]
    BY <2>1
  <2>5. QED
    BY <2>2, <2>3, <2>4 DEF a
<1> HIDE DEF rest
<1>3. /\ moved \in Seq(Name) /\ Len(moved) = Len(to) + Len(rest) /\ Len(rest) \in Nat
      /\ \A i \in 1..Len(to) : moved[i] = to[i]
      /\ \A i \in 1..Len(rest) : moved[Len(to) + i] = rest[i]
  <2>1. rest \in Seq(Name)
    BY <1>2
  <2>2. QED
    BY <2>1, Concatenation
<1> HIDE DEF moved
<1>4. Paths!IsPrefix(to, moved)
  <2>1. PrefixOf(to, moved)
    BY <1>1, <1>3 DEF PrefixOf
  <2>2. QED
    BY <1>3, <2>1, PrefixElements
<1>5. /\ back \in Seq(Name) /\ Len(back) = Len(rest)
      /\ \A i \in 1..Len(rest) : back[i] = moved[Len(to) + i]
  BY <1>1, <1>3
<1>6. back = rest
  BY <1>2, <1>3, <1>5
<1>7. from \o rest = path
  <2>1. from \o rest \in Seq(Name) /\ Len(from \o rest) = Len(path)
    BY <1>1, <1>2
  <2>2. ASSUME NEW i \in 1..Len(path) PROVE (from \o rest)[i] = path[i]
    <3>1. CASE i <= Len(from)
      BY <1>1, <1>2, <3>1
    <3>2. CASE i > Len(from)
      <4>1. (from \o rest)[i] = rest[i - Len(from)] /\ i - Len(from) \in 1..(Len(path) - Len(from))
        BY <1>1, <1>2, <3>2
      <4>2. rest[i - Len(from)] = path[Len(from) + (i - Len(from))]
        BY <1>2, <4>1
      <4>3. QED
        BY <1>1, <4>1, <4>2
    <3>3. i <= Len(from) \/ i > Len(from)
      BY <1>1
    <3>4. QED
      BY <3>1, <3>2, <3>3
  <2>3. QED
    BY <2>1, <2>2, SameElements
<1>8. QED
  BY <1>3, <1>4, <1>6, <1>7 DEF Paths!Rebase, moved, rest

(* Whatever the mappings of a deployment, as long as no target lies in     *)
(* another: a mapped path that is shown and given back is that path        *)
(* (format_path_for_display, normalize_input_path), and two mapped         *)
(* projects have two database directories (resolve_db_dir).                *)
THEOREM MappedComesBack ==
  ASSUME NEW Name, NEW mappings \in Seq([source : Seq(Name), target : Seq(Name)]),
         NEW p \in Seq(Name), NEW q \in Seq(Name)
  PROVE  Paths!MappingsInvert(mappings, p, q)
<1> DEFINE M(path) == Paths!FirstMatch(mappings, path, FALSE)
           shown(path) == Paths!Rebase(path, mappings[M(path)].source, mappings[M(path)].target)
<1> SUFFICES ASSUME Paths!TargetsApart(mappings)
             PROVE  /\ M(p) # 0 => Paths!NormalizeInput(mappings, Paths!FormatForDisplay(mappings, p)) = p
                    /\ p # q /\ M(p) # 0 /\ M(q) # 0 =>
                           Paths!ResolveDbDir(mappings, p) # Paths!ResolveDbDir(mappings, q)
  BY DEF Paths!MappingsInvert, Paths!Mapped
<1>1. \A i \in DOMAIN mappings : mappings[i].source \in Seq(Name) /\ mappings[i].target \in Seq(Name)
  <2>1. \A i \in DOMAIN mappings : mappings[i] \in [source : Seq(Name), target : Seq(Name)]
    BY ElementIn
  <2>2. QED
    BY <2>1
<1>2. ASSUME NEW path \in Seq(Name), M(path) # 0
      PROVE  /\ M(path) \in DOMAIN mappings /\ Paths!IsPrefix(mappings[M(path)].source, path)
             /\ shown(path) \in Seq(Name) /\ Paths!IsPrefix(mappings[M(path)].target, shown(path))
             /\ Paths!Rebase(shown(path), mappings[M(path)].target, mappings[M(path)].source) = path
  <2>1. M(path) \in DOMAIN mappings /\ Paths!IsPrefix(mappings[M(path)].source, path)
    BY <1>2, FoundMatches DEF Paths!Side
  <2> DEFINE from == mappings[M(path)].source
             to == mappings[M(path)].target
  <2>2. from \in Seq(Name) /\ to \in Seq(Name) /\ Paths!IsPrefix(from, path)
    BY <1>1, <2>1
  <2> HIDE DEF from, to
  <2>3. LET moved == Paths!Rebase(path, from, to)
        IN  moved \in Seq(Name) /\ Paths!IsPrefix(to, moved) /\ Paths!Rebase(moved, to, from) = path
    BY <2>2, RebaseBack
  <2>4. QED
    BY <2>1, <2>3 DEF from, to
\* Only one mapping can have led to a path.
<1>3. ASSUME NEW i \in DOMAIN mappings, NEW j \in DOMAIN mappings, NEW path \in Seq(Name),
             Paths!IsPrefix(mappings[i].target, path), Paths!IsPrefix(mappings[j].target, path)
      PROVE  i = j
  BY <1>1, <1>3, PrefixesOfOne DEF Paths!TargetsApart
<1>4. ASSUME M(p) # 0
      PROVE  Paths!NormalizeInput(mappings, Paths!FormatForDisplay(mappings, p)) = p
  <2> DEFINE j == Paths!FirstMatch(mappings, shown(p), TRUE)
  <2>1. Paths!FormatForDisplay(mappings, p) = shown(p)
    BY <1>4 DEF Paths!FormatForDisplay, Paths!ApplyMapping, Paths!Side
  <2>2. /\ j # 0 => j \in DOMAIN mappings /\ Paths!IsPrefix(mappings[j].target, shown(p))
        /\ j = 0 => \A k \in DOMAIN mappings : ~Paths!IsPrefix(mappings[k].target, shown(p))
    BY FoundMatches DEF Paths!Side
  <2>3. j # 0 /\ j = M(p)
    BY <1>2, <1>3, <1>4, <2>2
  <2>4. Paths!NormalizeInput(mappings, shown(p))
          = Paths!Rebase(shown(p), mappings[j].target, mappings[j].source)
    BY <2>3 DEF Paths!NormalizeInput, Paths!ApplyMapping, Paths!Side
  <2>5. QED
    BY <1>2, <1>4, <2>1, <2>3, <2>4
<1>5. ASSUME M(p) # 0, M(q) # 0, shown(p) = shown(q) PROVE p = q
  <2>1. M(p) = M(q)
    BY <1>2, <1>3, <1>5
  <2>2. QED
    BY <1>2, <1>5, <2>1
<1>6. ASSUME M(p) # 0, M(q) # 0
      PROVE  Paths!ResolveDbDir(mappings, p) = shown(p) /\ Paths!ResolveDbDir(mappings, q) = shown(q)
  BY <1>6 DEF Paths!ResolveDbDir
<1>7. QED
  BY <1>4, <1>5, <1>6

(* So it is for the mappings a daemon was given, for as long as it runs    *)
(* (_parse_path_mapping).                                                  *)
THEOREM MappingsOfDaemonInvert ==
  ASSUME NEW Name, Deployments \subseteq Deployment(Name)
  PROVE  DaemonSpec => []MappingsInvert
<1>1. DaemonInit => paths \in Deployments
  BY DEF DaemonInit
<1>2. paths \in Deployments /\ [DaemonNext]_allVars => (paths \in Deployments)'
  BY DEF DaemonNext, allVars
<1>3. paths \in Deployments => MappingsInvert
  BY MappedComesBack DEF MappingsInvert, Deployment
<1>4. QED
  BY <1>1, <1>2, <1>3, PTL DEF DaemonSpec
=============================================================================
