---------------------------- MODULE DaemonService ----------------------------
(***************************************************************************)
(* The tasks of one daemon around its index passes (daemon.run_daemon):    *)
(* connections and their requests (RequestServer), the clock of the daily  *)
(* workflow (DailyWorkflow), the embedders of passes and of searches       *)
(* (EmbeddingPacing), and metrics pushes (MetricsPush), on a machine whose *)
(* memory was sized (MemoryBudget) and whose path mappings were set        *)
(* (PathMapping) when the daemon started.  The sizing decides whether      *)
(* searches have an embedder of their own.                                 *)
(*                                                                         *)
(* The tasks interleave and share no state of these modules.  What they    *)
(* share is inside a module: the registry and the index lock in            *)
(* RequestServer, the order of passes in ProjectIndex.                     *)
(***************************************************************************)
EXTENDS RequestServer, Integers

CONSTANTS
    DayLength, RunTimes, PollCap, MaxRun, MaxWall, Workspace, LoadedProject,
    Caller, Searcher, Interval, MaxAttempts, MaxBackoff, Nobody,
    Push, Demanded, Table,
    Unknown, SafetyMargin, PerFileCost, MinInflight, EngineDefault, ScanShare,
    MinBatch, MaxBatch, DefaultBatch, DefaultScans, V1Unlimited,
    SettingsDir, Starts,
    Machines,       \* the machines a daemon may start on
    Deployments     \* the path mappings it may be given, with two paths to map

VARIABLES
    machine,        \* what can be read and what is set when the daemon starts
    paths,          \* [mappings, p, q]: its path mappings, and two paths it maps
    wall, runTime, loop, left, seen, lastRunDate, began, startDate, workFor, todo,
    undisturbed, steppedBack,
    shared, embedding, queue, lock, cool, attempt, backoff, sinceAnswer, gap,
    configured, pusher, session, stored, open, outcome

Workflow == INSTANCE DailyWorkflow
Pacing == INSTANCE EmbeddingPacing WITH pc <- embedding
Metrics == INSTANCE MetricsPush WITH pc <- pusher
Budget == INSTANCE MemoryBudget
Paths == INSTANCE PathMapping

workflowVars == <<wall, runTime, loop, left, seen, lastRunDate, began, startDate, workFor, todo,
                  undisturbed, steppedBack>>
pacingVars == <<shared, embedding, queue, lock, cool, attempt, backoff, sinceAnswer, gap>>
metricsVars == <<configured, pusher, session, stored, open, outcome>>
allVars == <<machine, paths, vars, workflowVars, pacingVars, metricsVars>>

\* The models are loaded: a second one where it fits the memory.
SharesEmbedder(m) == ~Budget!SecondEmbedderFits(Budget!Limit(m), m.before, m.baseline)
LoadsModels == Pacing!Init /\ shared = SharesEmbedder(machine)

\* Sizes and mappings are fixed before the daemon serves; then its tasks start.
DaemonInit ==
    /\ machine \in Machines /\ paths \in Deployments
    /\ Init /\ Workflow!Init /\ LoadsModels /\ Metrics!Init

\* One loop runs the tasks, one step of one of them at a time.
DaemonNext ==
    /\ UNCHANGED <<machine, paths>>
    /\ \/ Next /\ UNCHANGED <<workflowVars, pacingVars, metricsVars>>
       \/ Workflow!Next /\ UNCHANGED <<vars, pacingVars, metricsVars>>
       \/ Pacing!Next /\ UNCHANGED <<vars, workflowVars, metricsVars>>
       \/ Metrics!Next /\ UNCHANGED <<vars, workflowVars, pacingVars>>

DaemonSpec == DaemonInit /\ [][DaemonNext]_allVars /\ Fairness /\ Pacing!Fairness

-----------------------------------------------------------------------------
(* What the parameters are, where a promise depends on it.                 *)

\* What an embedder is configured with.
PacingParameters ==
    /\ Interval \in Nat /\ MaxBackoff \in Nat
    /\ MaxAttempts \in Nat \ {0}
    /\ Nobody \notin Caller

\* What the loop is configured with: a run time of the day, and workflows that
\* take less than a day; MaxWall bounds the days explored.
WorkflowParameters ==
    /\ DayLength \in Nat \ {0} /\ RunTimes \subseteq 0..(DayLength - 1)
    /\ MaxWall \in Nat /\ DayLength <= MaxWall
    /\ PollCap \in Nat /\ MaxRun \in 0..(DayLength - 1)

\* The constants of memory.py.
SizingParameters ==
    /\ Unknown \notin Nat
    /\ SafetyMargin \in 0..100 /\ ScanShare \in 0..100
    /\ PerFileCost \in Nat \ {0} /\ EngineDefault \in Nat \ {0} /\ DefaultScans \in Nat \ {0}
    /\ MinInflight \in Nat \ {0}
    /\ MinBatch \in Nat /\ DefaultBatch \in MinBatch..MaxBatch /\ MaxBatch \in Nat
    /\ V1Unlimited \in Nat

\* What the daemon may read and what may be set: any integer, or nothing.
Machine ==
    [override : Int \cup {Unknown}, v2 : Nat \cup {Unknown}, v1 : Nat \cup {Unknown},
     host : Nat \cup {Unknown}, baseline : Nat \cup {Unknown}, before : Nat \cup {Unknown},
     inflight : Int \cup {Unknown}, scans : Int \cup {Unknown}]

\* Path mappings, and paths, over some names.
Deployment(Name) ==
    [mappings : Seq([source : Seq(Name), target : Seq(Name)]), p : Seq(Name), q : Seq(Name)]

-----------------------------------------------------------------------------
\* OnceADay of DailyWorkflow: at most one workflow begins on a date.
OnceADay == Workflow!OnceADay
\* EveryDayServed of DailyWorkflow: every date has its workflow.
EveryDayServed == Workflow!EveryDayServed
\* Paced of EmbeddingPacing: one request per embedder, an interval apart.
Paced == Pacing!Paced
\* EveryCallerServed of EmbeddingPacing: whoever waits for one is served.
EveryCallerServed == Pacing!EveryCallerServed
\* SnapshotsWhole of MetricsPush: a snapshot is visible whole or not at all.
SnapshotsWhole == Metrics!SnapshotsWhole
\* BudgetFits of MemoryBudget: the sizes fit the machine of the daemon.
BudgetFits == Budget!BudgetFits(machine)
\* MappingsInvert of PathMapping: what is mapped out comes back.
MappingsInvert == Paths!MappingsInvert(paths.mappings, paths.p, paths.q)
=============================================================================
