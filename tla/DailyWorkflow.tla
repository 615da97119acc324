---------------------------- MODULE DailyWorkflow ----------------------------
(***************************************************************************)
(* The daily maintenance workflow of the daemon (daemon.py:                *)
(* _scheduled_workflow_loop, _run_scheduled_workflow and what they call;   *)
(* schedule.seconds_until_next_run).                                       *)
(*                                                                         *)
(* The wall clock is a number of slots, DayLength of them a day.  The loop *)
(* sleeps on the monotonic clock and looks at the wall clock when it       *)
(* wakes; the host may be suspended and the wall clock stepped back.       *)
(***************************************************************************)
EXTENDS Naturals, FiniteSets

CONSTANTS
    DayLength,      \* slots of a day
    RunTimes,       \* the configured run times explored, slots of a day
    PollCap,        \* _SCHEDULE_POLL_CAP_SECONDS, in slots
    MaxRun,         \* the longest workflow explored, in slots, below DayLength
    MaxWall,        \* bound of the exploration
    Workspace,      \* configured workspaces
    LoadedProject   \* projects a client has loaded

Target == Workspace \cup LoadedProject
Step == {"pull", "index", "push"}

VARIABLES
    wall,           \* datetime.now(), in slots
    runTime,        \* config.run_time
    loop,           \* "off", "look", "sleep", "targets", "work"
    left,           \* what is left of the sleep
    seen,           \* now: the wall clock read when the loop woke
    lastRunDate,    \* last_run_date
    began,          \* began[d]: how many workflows were begun on date d (history)
    startDate,      \* the date on which the loop started (history)
    workFor,        \* slots the workflow has taken
    todo,           \* the steps not made yet: pairs of a target and a step
    undisturbed,    \* neither suspended nor stepped so far (history)
    steppedBack     \* the clock was stepped back (history)

clock == <<wall, undisturbed, steppedBack>>
scheduler == <<loop, left, seen, lastRunDate, began, startDate, runTime>>
work == <<workFor, todo>>
vars == <<clock, scheduler, work>>

Date(w) == w \div DayLength
TimeOfDay(w) == w % DayLength
Dates == 0..Date(MaxWall)

Init ==
    /\ wall \in 0..(DayLength - 1) /\ runTime \in RunTimes
    /\ undisturbed = TRUE /\ steppedBack = FALSE
    /\ loop = "off" /\ left = 0 /\ seen = 0
    /\ lastRunDate = 0 /\ began = [d \in Dates |-> 0] /\ startDate = 0
    /\ workFor = 0 /\ todo = {}

(***************************************************************************)
(* The clocks.                                                             *)
(***************************************************************************)
\* A slot passes.  The loop does not sleep past its delay, takes no time to
\* look, and a workflow lasts at most MaxRun.
Tick ==
    /\ wall < MaxWall
    /\ \/ loop = "sleep" /\ left > 0 /\ left' = left - 1 /\ UNCHANGED workFor
       \/ loop = "work" /\ workFor < MaxRun /\ workFor' = workFor + 1 /\ UNCHANGED left
    /\ wall' = wall + 1
    /\ UNCHANGED <<undisturbed, steppedBack, loop, seen, lastRunDate, began, startDate, runTime,
                   todo>>

\* The host sleeps: the wall clock moves, the monotonic clock does not.
Suspend ==
    /\ loop = "sleep" /\ wall < MaxWall
    /\ wall' \in (wall + 1)..MaxWall /\ undisturbed' = FALSE
    /\ UNCHANGED <<steppedBack, scheduler, work>>

StepBack ==
    /\ loop = "sleep" /\ ~steppedBack
    /\ wall' \in 0..wall \ {wall}
    /\ undisturbed' = FALSE /\ steppedBack' = TRUE
    /\ UNCHANGED <<scheduler, work>>

(***************************************************************************)
(* The loop.                                                               *)
(***************************************************************************)
\* run_daemon starts the loop; today counts as run.
Start ==
    /\ loop = "off"
    /\ loop' = "look" /\ lastRunDate' = Date(wall) /\ startDate' = Date(wall)
    /\ UNCHANGED <<clock, left, seen, began, runTime, work>>

SecondsUntilNextRun(w) ==
    IF TimeOfDay(w) < runTime THEN runTime - TimeOfDay(w) ELSE DayLength - TimeOfDay(w) + runTime

\* One sleep never exceeds the cap.
Delay(w) == IF SecondsUntilNextRun(w) < PollCap THEN SecondsUntilNextRun(w) ELSE PollCap

Look ==
    /\ loop = "look"
    /\ left' = Delay(wall) /\ loop' = "sleep"
    /\ UNCHANGED <<clock, seen, lastRunDate, began, startDate, runTime, work>>

\* Mutant: the run time itself does not count as passed.
DueAfter(w) == Date(w) # lastRunDate /\ TimeOfDay(w) > runTime
\* A day that has not run yet, at or after the run time.
Due(w) == Date(w) # lastRunDate /\ TimeOfDay(w) >= runTime

Wake ==
    /\ loop = "sleep" /\ left = 0
    /\ seen' = wall
    /\ IF Due(wall)
       THEN loop' = "targets" /\ began' = [began EXCEPT ![Date(wall)] = @ + 1]
       ELSE loop' = "look" /\ UNCHANGED began
    /\ UNCHANGED <<clock, left, lastRunDate, startDate, runTime, work>>

\* _scheduled_target_projects: workspaces that load, and loaded projects.
Targets ==
    /\ loop = "targets"
    /\ \E loads \in SUBSET Workspace : todo' = (loads \cup LoadedProject) \X Step
    /\ workFor' = 0 /\ loop' = "work"
    /\ UNCHANGED <<clock, left, seen, lastRunDate, began, startDate, runTime>>

\* The steps of a target in their order, each guarded on its own: whatever
\* comes of one, the next is made (skipping the index pass is making it).
Earlier == [pull |-> {}, index |-> {"pull"}, push |-> {"pull", "index"}]

WorkflowStep ==
    /\ loop = "work"
    /\ \E t \in Target, step \in Step :
        /\ <<t, step>> \in todo
        /\ \A earlier \in Earlier[step] : <<t, earlier>> \notin todo
        /\ \A u \in Target : (\E x \in Step : <<u, x>> \in todo) =>
               u = t \/ \A x \in Step : <<u, x>> \in todo
        /\ todo' = todo \ {<<t, step>>}
    /\ UNCHANGED <<clock, scheduler, workFor>>

\* Mutant: the date is not recorded.
EndWorkflowUnrecorded ==
    /\ loop = "work" /\ todo = {}
    /\ loop' = "look"
    /\ UNCHANGED <<clock, left, seen, lastRunDate, began, startDate, runTime, work>>

\* The date of the run is the date on which it began.
EndWorkflow ==
    /\ loop = "work" /\ todo = {}
    /\ lastRunDate' = Date(seen) /\ loop' = "look"
    /\ UNCHANGED <<clock, left, seen, began, startDate, runTime, work>>

Next ==
    \/ Tick \/ Suspend \/ StepBack
    \/ Start \/ Look \/ Wake \/ Targets \/ WorkflowStep \/ EndWorkflow

Spec == Init /\ [][Next]_vars

-----------------------------------------------------------------------------
(***************************************************************************)
(* The workflow begins at most once a date, however the host is suspended, *)
(* as long as the wall clock is not stepped back.                          *)
(***************************************************************************)
OnceADay == ~steppedBack => \A d \in Dates : began[d] <= 1

(***************************************************************************)
(* Every date after the one the loop started on is served: once its run    *)
(* time has passed the workflow has begun on it, when the host was neither *)
(* suspended nor its clock stepped and workflows take less than a day,     *)
(* also when one runs over midnight.                                       *)
(***************************************************************************)
EveryDayServed ==
    undisturbed /\ loop # "off" => \A d \in Dates :
        d > startDate /\ wall > d * DayLength + runTime => began[d] >= 1
=============================================================================
