----------------------------- MODULE MetricsPush -----------------------------
(***************************************************************************)
(* Pushing index statistics to a MySQL database: metrics.py, and           *)
(* Project._push_metrics and push_metrics_now (project.py).                *)
(*                                                                         *)
(* A push writes one repository row and the language rows of a snapshot in *)
(* one transaction.  The database is external: rows become visible when a  *)
(* transaction commits and are dropped when its connection ends first; the *)
(* reply to a commit may be lost.                                          *)
(***************************************************************************)
EXTENDS FiniteSets

CONSTANTS
    Push,           \* the pushes
    Demanded,       \* those asked for by ccc push-metrics or the workflow
    Table           \* the tables a snapshot writes: {"repo", "language"}

VARIABLES
    configured,     \* load_config() returns a target
    pc,             \* pc[p]
    session,        \* session[p]: rows written and not committed, by table
    stored,         \* stored[p]: the tables in which the snapshot is visible
    open,           \* the pushes whose connection is open
    outcome         \* outcome[p]: what the caller is told

vars == <<configured, pc, session, stored, open, outcome>>

PushTypeOK ==
    /\ configured \in BOOLEAN
    /\ pc \in [Push -> {"idle", "gather", "connect", "repo", "language", "commit", "close", "end"}]
    /\ session \in [Push -> SUBSET Table] /\ stored \in [Push -> SUBSET Table]
    /\ open \subseteq Push
    /\ outcome \in [Push -> {"none", "skipped", "pushed", "failed", "raised"}]

Init ==
    /\ configured \in BOOLEAN
    /\ pc = [p \in Push |-> "idle"]
    /\ session = [p \in Push |-> {}] /\ stored = [p \in Push |-> {}]
    /\ open = {} /\ outcome = [p \in Push |-> "none"]

Go(p, l) == pc' = [pc EXCEPT ![p] = l]
Tell(p, o) == outcome' = [outcome EXCEPT ![p] = o]

\* Without a configured target there is nothing to do.
Begin(p) ==
    /\ pc[p] = "idle"
    /\ IF configured THEN Go(p, "gather") /\ UNCHANGED outcome
       ELSE Go(p, "end") /\ Tell(p, "skipped")
    /\ UNCHANGED <<configured, session, stored, open>>

\* What Project.get_status says of the index: its counts, that there is none,
\* or an error it does not catch.
GetStatus == {"counts", "none", "error"}

\* Nothing is pushed without an index.  A pass swallows an error of
\* get_status; a demanded push lets it out to its caller.
Gather(p) ==
    /\ pc[p] = "gather"
    /\ \E status \in GetStatus :
        \/ status = "counts" /\ Go(p, "connect") /\ UNCHANGED outcome
        \/ status = "none" /\ Go(p, "end") /\ Tell(p, "skipped")
        \/ /\ status = "error" /\ Go(p, "end")
           /\ Tell(p, IF p \in Demanded THEN "raised" ELSE "failed")
    /\ UNCHANGED <<configured, session, stored, open>>

\* The driver is missing, the database unreachable, or a connection opens.
Connect(p) ==
    /\ pc[p] = "connect"
    /\ \/ open' = open \cup {p} /\ Go(p, "repo") /\ UNCHANGED outcome
       \/ Go(p, "end") /\ Tell(p, "failed") /\ UNCHANGED open
    /\ UNCHANGED <<configured, session, stored>>

\* Mutant: the connection commits by itself.
InsertCommitting(p) ==
    /\ pc[p] \in {"repo", "language"}
    /\ stored' = [stored EXCEPT ![p] = @ \cup {pc[p]}]
    /\ Go(p, IF pc[p] = "repo" THEN "language" ELSE "commit")
    /\ UNCHANGED <<configured, session, open, outcome>>

\* The two inserts of _write_snapshot; a snapshot without languages has
\* nothing to write to the second table and counts as whole.
Insert(p) ==
    /\ pc[p] \in {"repo", "language"}
    /\ session' = [session EXCEPT ![p] = @ \cup {pc[p]}]
    /\ Go(p, IF pc[p] = "repo" THEN "language" ELSE "commit")
    /\ UNCHANGED <<configured, stored, open, outcome>>

Commit(p) ==
    /\ pc[p] = "commit"
    /\ stored' = [stored EXCEPT ![p] = @ \cup session[p]]
    /\ session' = [session EXCEPT ![p] = {}]
    /\ Go(p, "close") /\ Tell(p, "pushed")
    /\ UNCHANGED <<configured, open>>

\* The database took the commit and the reply is lost: told as a failure.
CommitReplyLost(p) ==
    /\ pc[p] = "commit"
    /\ stored' = [stored EXCEPT ![p] = @ \cup session[p]]
    /\ session' = [session EXCEPT ![p] = {}]
    /\ Go(p, "close") /\ Tell(p, "failed")
    /\ UNCHANGED <<configured, open>>

\* A statement or the commit fails.
Fails(p) ==
    /\ pc[p] \in {"repo", "language", "commit"}
    /\ Go(p, "close") /\ Tell(p, "failed")
    /\ UNCHANGED <<configured, session, stored, open>>

\* The finally of push_snapshot_sync: closing rolls back what is left.
Close(p) ==
    /\ pc[p] = "close"
    /\ open' = open \ {p} /\ session' = [session EXCEPT ![p] = {}]
    /\ Go(p, "end")
    /\ UNCHANGED <<configured, stored, outcome>>

\* The daemon exits (os._exit) while threads push: the connections end.
Exit ==
    /\ \E p \in Push : pc[p] \notin {"idle", "end"}
    /\ open' = {} /\ session' = [p \in Push |-> {}]
    /\ pc' = [p \in Push |-> "end"]
    /\ UNCHANGED <<configured, stored, outcome>>

Next ==
    \/ Exit
    \/ \E p \in Push :
        \/ Begin(p) \/ Gather(p) \/ Connect(p) \/ Insert(p)
        \/ Commit(p) \/ CommitReplyLost(p) \/ Fails(p) \/ Close(p)

Spec == Init /\ [][Next]_vars

-----------------------------------------------------------------------------
(***************************************************************************)
(* A snapshot is visible whole or not at all, whatever fails and whenever  *)
(* the daemon exits; a push told as "pushed" is visible; a push made by an *)
(* index pass never raises into it; and no connection outlives its push.   *)
(***************************************************************************)
SnapshotsWhole ==
    \A p \in Push :
        /\ stored[p] \in {{}, Table}
        /\ outcome[p] = "pushed" => stored[p] = Table
        /\ p \notin Demanded => outcome[p] # "raised"
        /\ pc[p] = "end" => p \notin open
=============================================================================
