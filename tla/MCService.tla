------------------------------ MODULE MCService ------------------------------
(***************************************************************************)
(* Model checking of DaemonService.  The tasks share no state, so a        *)
(* behaviour runs one of them and the others rest in an initial state;     *)
(* machines and deployments are inputs of their own.                       *)
(***************************************************************************)
EXTENDS DaemonService, TLC

CONSTANTS c1, c2, c3

VARIABLE part

-----------------------------------------------------------------------------
\* Three connections, or two and the workflow: passes, searches and removals
\* that race for one root, a compaction among passes, a daemon stopped under a
\* stream, and requests without a project.
Ask(k1, k2, k3) == [c \in Client |-> CASE c = c1 -> k1 [] c = c2 -> k2 [] c = c3 -> k3]
NoRequests == Ask("status", "status", "status")
MCMixes == {Ask("index", "search", "remove"), Ask("search", "search", "compact"),
            Ask("index", "stop", "search"), Ask("search", "remove", "project_status"),
            Ask("workflow", "remove", "search"), Ask("compact", "ripgrep", "index"),
            Ask("push_metrics", "status", "search"),
            Ask("doctor", "status", "index"), Ask("doctor", "pull", "search"), NoRequests}

\* Machines with an override, cgroups or only a host, or none of them.
MCUnknown == -1
MCMachines ==
    [override : {-1, 0, 10}, v2 : {-1, 10, 60}, v1 : {-1, 40, 100}, host : {-1, 12, 64},
     baseline : {-1, 0, 5, 30}, before : {-1, 3}, inflight : {-1, 0, 2, 8}, scans : {-1, 1, 3}]
AMachine == CHOOSE m \in MCMachines : TRUE
\* One with room for a second model, one without.
Roomy == CHOOSE m \in MCMachines : Unknown \notin {m.before, m.baseline} /\ ~SharesEmbedder(m)
Tight == CHOOSE m \in MCMachines : SharesEmbedder(m)

\* Up to two mappings, whose sources and targets nest or look alike, and two
\* paths.
Names == {"a", "ab"}
PathsUpTo2 == UNION {[1..n -> Names] : n \in 0..2}
Mappings == [source : {<<>>, <<"a">>, <<"ab">>, <<"a", "a">>},
             target : {<<"a">>, <<"ab">>, <<"ab", "a">>, <<"a", "ab">>}]
MCDeployments == [mappings : UNION {[1..n -> Mappings] : n \in 0..2}, p : PathsUpTo2, q : PathsUpTo2]
ADeployment == [mappings |-> <<>>, p |-> <<>>, q |-> <<>>]
MCStarts == [n \in Names |-> IF n = "a" THEN Names ELSE {"ab"}]

\* The instance meets what the theorems assume of the parameters.
ASSUME InstanceParameters ==
    /\ PacingParameters /\ WorkflowParameters /\ SizingParameters
    /\ \A m \in Machines : m \in Machine
    /\ \A d \in Deployments : d \in Deployment(Names)

\* All start at rest; the part that runs may start in any of its states.
ServiceInit ==
    /\ \/ part \in {"requests", "workflow", "metrics"} /\ machine = AMachine /\ paths = ADeployment
       \/ part = "pacing" /\ machine \in {Roomy, Tight} /\ paths = ADeployment
       \/ part = "memory" /\ machine \in Machines /\ paths = ADeployment
       \/ part = "paths" /\ machine = AMachine /\ paths \in Deployments
    /\ Init /\ (part = "requests" <=> kind # NoRequests)
    /\ Workflow!Init /\ (part # "workflow" => wall = 0 /\ runTime = 1)
    /\ LoadsModels
    /\ Metrics!Init /\ (part # "metrics" => ~configured)

\* DaemonNext, one part at a time.
ServiceNext ==
    /\ UNCHANGED <<part, machine, paths>>
    /\ \/ part = "requests" /\ Next /\ UNCHANGED <<workflowVars, pacingVars, metricsVars>>
       \/ part = "workflow" /\ Workflow!Next /\ UNCHANGED <<vars, pacingVars, metricsVars>>
       \/ part = "pacing" /\ Pacing!Next /\ UNCHANGED <<vars, workflowVars, metricsVars>>
       \/ part = "metrics" /\ Metrics!Next /\ UNCHANGED <<vars, workflowVars, pacingVars>>

\* A part that rests enables none of the fair actions.
ServiceSpec == ServiceInit /\ [][ServiceNext]_<<part, allVars>> /\ Fairness /\ Pacing!Fairness
=============================================================================
