--------------------------- MODULE DaemonLifecycle ---------------------------
(***************************************************************************)
(* How daemon processes come and go: run_daemon of                         *)
(* cocoindex_code/daemon.py from its first statement to its exit, the      *)
(* clients of client.py that connect, start, stop and restart daemons, and *)
(* the supervisor loop of docker/entrypoint.sh.  They share three files:   *)
(* the socket, the PID file and the global settings, whose modification    *)
(* time tells a client that a daemon is stale.                             *)
(*                                                                         *)
(* Processes interleave anywhere; an action is one access to what they     *)
(* share: to look at a file and to remove it are two.  A deadline may      *)
(* expire whenever its condition is still unmet.  Requests other than      *)
(* StopRequest only occupy a connection.                                   *)
(*                                                                         *)
(* Left out: named pipes (win32), replacement of the binary under a        *)
(* running daemon (version mismatch), logs, reuse of PIDs, and the moment  *)
(* in which the PID file is open for writing and still empty.              *)
(***************************************************************************)
EXTENDS Naturals, FiniteSets

CONSTANTS
  Callers,       (* requests, each sent by a client process of its own     *)
  Stoppers,      (* runs of `ccc daemon stop`                              *)
  Restarters,    (* runs of `ccc daemon restart`                           *)
  Supervision,   (* the values COCOINDEX_CODE_DAEMON_SUPERVISED may have   *)
  MaxDaemons,    (* bound: daemon processes started                        *)
  MaxEdits,      (* bound: edits of global_settings.yml                    *)
  NoDaemon

Clients == Callers \cup Stoppers \cup Restarters

(* Daemon 0 ran before: it may have left its files behind, and processes   *)
(* that still run may have reached it.                                     *)
Daemons == 0..MaxDaemons

ASSUME LifecycleAssumption ==
  /\ Callers \cap (Stoppers \cup Restarters) = {}
  /\ Stoppers \cap Restarters = {}
  /\ Supervision \subseteq BOOLEAN
  /\ MaxDaemons \in Nat /\ MaxEdits \in Nat
  /\ NoDaemon \notin Daemons

VARIABLES
  phase,         (* where each daemon process is in run_daemon             *)
  recorded,      (* settings_mtime_us of each daemon                       *)
  loaded,        (* version of the settings each daemon works with         *)
  socket,        (* the daemon whose bind made the socket path, or none    *)
  pid_file,      (* the daemon named in the PID file, or none              *)
  settings,      (* version (mtime) of global_settings.yml; 0: no file     *)
  supervised,    (* a supervisor owns respawn                              *)
  child,         (* the daemon the supervisor waits for                    *)
  pc,            (* where each client is                                   *)
  ensured,       (* _daemon_ensured                                        *)
  asked,         (* the settings version when the client's request began   *)
  peer,          (* the daemon the client's connection leads to            *)
  target         (* the PID stop_daemon has read                           *)

daemon_vars == <<phase, recorded, loaded>>
file_vars   == <<socket, pid_file>>
world_vars  == <<settings, supervised, child>>
client_vars == <<pc, ensured, asked, peer, target>>
vars        == <<daemon_vars, file_vars, world_vars, client_vars>>

Phases == {"none", "starting", "noted", "loaded", "named", "cleared", "serving", "stopping",
           "draining", "released", "unlinked", "owning", "aborted", "dead"}
Places == {"idle", "connecting", "connected", "stop_read", "stop_ask", "stop_wait", "term",
           "term_wait", "kill", "cleanup", "cleanup_pid", "cleanup_own", "stopped", "absent",
           "waiting", "retrying", "done"}

Alive(d) == phase[d] \notin {"none", "dead"}

(* The daemon that completes a handshake on the socket path.               *)
Answering(d) == socket = d /\ phase[d] = "serving"
Refused      == \A d \in Daemons : ~Answering(d)
Fresh(d)     == recorded[d] = settings

(* A connection to a daemon whose loop has just stopped is neither served  *)
(* nor refused until its listener is closed.                               *)
Settled == socket \in Daemons => phase[socket] # "stopping"

Init ==
  /\ phase = [d \in Daemons |-> IF d = 0 THEN "dead" ELSE "none"]
  /\ recorded = [d \in Daemons |-> 0]
  /\ loaded = [d \in Daemons |-> 0]
  /\ socket \in {NoDaemon, 0} /\ pid_file \in {NoDaemon, 0}
  /\ settings \in {0, 1}
  /\ supervised \in Supervision
  /\ child = NoDaemon
  /\ pc = [c \in Clients |-> "idle"]
  /\ ensured \in [Clients -> BOOLEAN] /\ \A c \in Clients \ Callers : ~ensured[c]
  /\ asked = [c \in Clients |-> 0]
  /\ peer = [c \in Clients |-> NoDaemon]
  /\ target = [c \in Clients |-> NoDaemon]

Moves(d, from, to) == phase[d] = from /\ phase' = [phase EXCEPT ![d] = to]
Goto(c, from, to)  == pc[c] = from /\ pc' = [pc EXCEPT ![c] = to]

-----------------------------------------------------------------------------
(* run_daemon: starting up.                                                *)

NotesMtime(d) ==
  /\ Moves(d, "starting", "noted")
  /\ recorded' = [recorded EXCEPT ![d] = settings]
  /\ UNCHANGED <<loaded, file_vars, world_vars, client_vars>>

(* The settings are parsed and the models built, or that fails and the     *)
(* process ends before it has touched any file.                            *)
LoadsSettings(d) ==
  /\ \/ Moves(d, "noted", "loaded") /\ loaded' = [loaded EXCEPT ![d] = settings]
     \/ Moves(d, "noted", "dead") /\ UNCHANGED loaded
  /\ UNCHANGED <<recorded, file_vars, world_vars, client_vars>>

(* Mutant of WritesPid: the mtime is read once the models are resident.    *)
WritesPidAndNotesMtime(d) ==
  /\ Moves(d, "loaded", "named")
  /\ pid_file' = d
  /\ recorded' = [recorded EXCEPT ![d] = settings]
  /\ UNCHANGED <<loaded, socket, world_vars, client_vars>>

WritesPid(d) ==
  /\ Moves(d, "loaded", "named")
  /\ pid_file' = d
  /\ UNCHANGED <<recorded, loaded, socket, world_vars, client_vars>>

(* Whatever is at the socket path is unlinked, dead or not.                *)
ClearsSocket(d) ==
  /\ Moves(d, "named", "cleared")
  /\ socket' = NoDaemon
  /\ UNCHANGED <<recorded, loaded, pid_file, world_vars, client_vars>>

(* bind() fails if another daemon has bound since.                         *)
Binds(d) ==
  /\ \/ socket = NoDaemon /\ Moves(d, "cleared", "serving") /\ socket' = d
     \/ socket # NoDaemon /\ Moves(d, "cleared", "dead") /\ UNCHANGED socket
  /\ UNCHANGED <<recorded, loaded, pid_file, world_vars, client_vars>>

-----------------------------------------------------------------------------
(* run_daemon: the `finally` block.                                        *)

(* listener.close() unlinks the socket path, whosever it is by now, and    *)
(* raises if there is none: the rest of the block is then skipped.         *)
ClosesListener(d) ==
  /\ \/ socket # NoDaemon /\ Moves(d, "stopping", "draining")
     \/ socket = NoDaemon /\ Moves(d, "stopping", "aborted")
  /\ socket' = NoDaemon
  /\ UNCHANGED <<recorded, loaded, pid_file, world_vars, client_vars>>

(* Handler tasks are cancelled and awaited, projects closed.               *)
Releases(d) ==
  /\ Moves(d, "draining", "released")
  /\ UNCHANGED <<recorded, loaded, file_vars, world_vars, client_vars>>

UnlinksSocket(d) ==
  /\ Moves(d, "released", "unlinked")
  /\ socket' = NoDaemon
  /\ UNCHANGED <<recorded, loaded, pid_file, world_vars, client_vars>>

(* The PID file is read: it is to go only if it names this daemon.         *)
Exits(d) ==
  /\ Moves(d, "unlinked", IF pid_file = d THEN "owning" ELSE "dead")
  /\ UNCHANGED <<recorded, loaded, file_vars, world_vars, client_vars>>

(* What is removed is the PID file there is by now.                        *)
RemovesPid(d) ==
  /\ Moves(d, "owning", "dead")
  /\ pid_file' = NoDaemon
  /\ UNCHANGED <<recorded, loaded, socket, world_vars, client_vars>>

(* An aborted daemon ends when its executor threads do; any daemon may be  *)
(* killed from outside (out of memory).                                    *)
Perishes(d) ==
  /\ Alive(d)
  /\ phase' = [phase EXCEPT ![d] = "dead"]
  /\ UNCHANGED <<recorded, loaded, file_vars, world_vars, client_vars>>

(* SIGTERM by phase: the default action before the handlers are installed  *)
(* and after the loop is closed; loop.stop() while serving; during the     *)
(* clean-up another loop.stop(), which breaks run_until_complete if that   *)
(* is under way and is lost otherwise.                                     *)
AfterTerm(d) ==
  CASE phase[d] \in {"starting", "noted", "loaded", "named", "cleared",
                     "released", "unlinked", "owning"} -> {"dead"}
    [] phase[d] = "serving"                            -> {"stopping"}
    [] phase[d] \in {"stopping", "draining"}           -> {phase[d], "aborted"}
    [] OTHER                                           -> {phase[d]}

-----------------------------------------------------------------------------
(* _connect_and_handshake.                                                 *)

Calls(c) ==
  /\ c \in Callers
  /\ Goto(c, "idle", "connecting")
  /\ asked' = [asked EXCEPT ![c] = settings]
  /\ UNCHANGED <<daemon_vars, file_vars, world_vars, ensured, peer, target>>

Accepted(c, d, from) ==
  /\ Answering(d) /\ Fresh(d)
  /\ Goto(c, from, "connected")
  /\ ensured' = [ensured EXCEPT ![c] = TRUE]
  /\ peer' = [peer EXCEPT ![c] = d]

(* The first attempt: accepted; stale, so the daemon is to be stopped;     *)
(* refused, which is an error once a daemon had been reached.              *)
Connects(c) ==
  /\ \/ \E d \in Daemons : Accepted(c, d, "connecting")
     \/ /\ \E d \in Daemons : Answering(d) /\ ~Fresh(d)
        /\ Goto(c, "connecting", "stop_read")
        /\ UNCHANGED <<ensured, peer>>
     \/ /\ Refused /\ Settled
        /\ Goto(c, "connecting", IF ensured[c] THEN "done" ELSE "absent")
        /\ UNCHANGED <<ensured, peer>>
  /\ UNCHANGED <<daemon_vars, file_vars, world_vars, asked, target>>

(* Mutant of Completes: the connection is not closed in a `finally`.       *)
CompletesWithoutClosing(c) ==
  /\ Goto(c, "connected", "done")
  /\ UNCHANGED <<daemon_vars, file_vars, world_vars, ensured, asked, peer, target>>

(* The answer arrives, or the connection is lost.                          *)
Completes(c) ==
  /\ Goto(c, "connected", "done")
  /\ peer' = [peer EXCEPT ![c] = NoDaemon]
  /\ UNCHANGED <<daemon_vars, file_vars, world_vars, ensured, asked, target>>

(* After starting or waiting: up to ten more attempts.                     *)
Retries(c) ==
  /\ \/ \E d \in Daemons : Accepted(c, d, "retrying")
     \/ /\ Settled
        /\ Refused \/ \E d \in Daemons : Answering(d) /\ ~Fresh(d)
        /\ Goto(c, "retrying", "done")
        /\ UNCHANGED <<ensured, peer>>
  /\ UNCHANGED <<daemon_vars, file_vars, world_vars, asked, target>>

-----------------------------------------------------------------------------
(* stop_daemon.                                                            *)

(* `ccc daemon stop` does nothing where neither file exists.               *)
Commands(c) ==
  /\ c \in Stoppers \cup Restarters
  /\ c \in Stoppers => pid_file # NoDaemon \/ socket # NoDaemon
  /\ Goto(c, "idle", "stop_read")
  /\ UNCHANGED <<daemon_vars, file_vars, world_vars, ensured, asked, peer, target>>

ReadsPid(c) ==
  /\ Goto(c, "stop_read", "stop_ask")
  /\ ensured' = [ensured EXCEPT ![c] = FALSE]
  /\ target' = [target EXCEPT ![c] = pid_file]
  /\ UNCHANGED <<daemon_vars, file_vars, world_vars, asked, peer>>

(* The handshake that precedes StopRequest is the one that raises on a     *)
(* stale daemon: only a fresh one is ever asked.                           *)
AsksToStop(c) ==
  /\ Settled
  /\ Goto(c, "stop_ask", "stop_wait")
  /\ phase' = [d \in Daemons |-> IF Answering(d) /\ Fresh(d) THEN "stopping" ELSE phase[d]]
  /\ UNCHANGED <<recorded, loaded, file_vars, world_vars, ensured, asked, peer, target>>

SeesPidGone(c) ==
  /\ pid_file = NoDaemon
  /\ Goto(c, "stop_wait", "stopped") \/ Goto(c, "term_wait", "stopped")
  /\ target' = [target EXCEPT ![c] = NoDaemon]
  /\ UNCHANGED <<daemon_vars, file_vars, world_vars, ensured, asked, peer>>

StopWaitExpires(c) ==
  /\ pid_file # NoDaemon
  /\ Goto(c, "stop_wait", "term") \/ Goto(c, "term_wait", "kill")
  /\ UNCHANGED <<daemon_vars, file_vars, world_vars, ensured, asked, peer, target>>

(* A process that has died still counts as alive while it is a zombie.     *)
Terminates(c) ==
  LET d == target[c] IN
  /\ \/ /\ d # NoDaemon /\ Alive(d)
        /\ Goto(c, "term", "term_wait")
        /\ \E p \in AfterTerm(d) : phase' = [phase EXCEPT ![d] = p]
     \/ /\ d # NoDaemon /\ ~Alive(d)
        /\ Goto(c, "term", "term_wait")
        /\ UNCHANGED phase
     \/ /\ d # NoDaemon => ~Alive(d)
        /\ Goto(c, "term", "kill")
        /\ UNCHANGED phase
  /\ UNCHANGED <<recorded, loaded, file_vars, world_vars, ensured, asked, peer, target>>

Kills(c) ==
  /\ Goto(c, "kill", "cleanup")
  /\ phase' = [d \in Daemons |-> IF d = target[c] THEN "dead" ELSE phase[d]]
  /\ UNCHANGED <<recorded, loaded, file_vars, world_vars, ensured, asked, peer, target>>

(* _cleanup_stale_files: the socket goes whosever it is; the PID file goes *)
(* if no PID was read before, or if it still holds the one that was.       *)
CleansUp(c) ==
  /\ Goto(c, "cleanup", "cleanup_pid")
  /\ socket' = NoDaemon
  /\ UNCHANGED <<daemon_vars, pid_file, world_vars, ensured, asked, peer, target>>

ChecksPid(c) ==
  /\ target[c] # NoDaemon
  /\ Goto(c, "cleanup_pid", IF pid_file = target[c] THEN "cleanup_own" ELSE "stopped")
  /\ target' = [target EXCEPT ![c] = NoDaemon]
  /\ UNCHANGED <<daemon_vars, file_vars, world_vars, ensured, asked, peer>>

UnlinksPid(c) ==
  /\ \/ target[c] = NoDaemon /\ Goto(c, "cleanup_pid", "stopped")
     \/ Goto(c, "cleanup_own", "stopped")
  /\ pid_file' = NoDaemon
  /\ UNCHANGED <<daemon_vars, socket, world_vars, ensured, asked, peer, target>>

(* stop_daemon returns to the command or to the request that called it.    *)
Stopped(c) ==
  /\ c \notin Restarters
  /\ Goto(c, "stopped", IF c \in Callers THEN "absent" ELSE "done")
  /\ UNCHANGED <<daemon_vars, file_vars, world_vars, ensured, asked, peer, target>>

-----------------------------------------------------------------------------
(* start_daemon and _wait_for_daemon.                                      *)

(* The next process there is to start.                                     *)
Spawns(d) ==
  /\ \A e \in Daemons : e < d => phase[e] # "none"
  /\ Moves(d, "none", "starting")

(* Mutant of WaitsForSupervisor: the environment is not consulted.         *)
StartsRegardless(c) ==
  /\ Goto(c, "absent", "waiting")
  /\ \E d \in Daemons : Spawns(d)
  /\ UNCHANGED <<recorded, loaded, file_vars, world_vars, ensured, asked, peer, target>>

WaitsForSupervisor(c) ==
  /\ supervised
  /\ Goto(c, "absent", "waiting")
  /\ UNCHANGED <<daemon_vars, file_vars, world_vars, ensured, asked, peer, target>>

(* `ccc daemon restart` starts a daemon of its own, supervised or not.     *)
StartsItself(c) == (pc[c] = "absent" /\ ~supervised) \/ (pc[c] = "stopped" /\ c \in Restarters)

(* Popen may raise, which ends the request or the command.                 *)
Starts(c) ==
  /\ StartsItself(c)
  /\ \/ Goto(c, pc[c], "waiting") /\ \E d \in Daemons : Spawns(d)
     \/ Goto(c, pc[c], "done") /\ UNCHANGED phase
  /\ UNCHANGED <<recorded, loaded, file_vars, world_vars, ensured, asked, peer, target>>

SeesSocket(c) ==
  /\ socket # NoDaemon
  /\ Goto(c, "waiting", IF c \in Callers THEN "retrying" ELSE "done")
  /\ UNCHANGED <<daemon_vars, file_vars, world_vars, ensured, asked, peer, target>>

(* Mutant of GivesUp: neither the deadline nor the dead process is noticed.*)
GivesUpNever(c) == FALSE

(* The process started has ended, or the deadline has passed.              *)
GivesUp(c) ==
  /\ Goto(c, "waiting", "done")
  /\ UNCHANGED <<daemon_vars, file_vars, world_vars, ensured, asked, peer, target>>

-----------------------------------------------------------------------------
(* Mutant of Respawns: a child that does not answer is taken for dead.     *)
RespawnsUnanswered ==
  /\ supervised
  /\ child # NoDaemon => ~Answering(child)
  /\ \E d \in Daemons : Spawns(d) /\ child' = d
  /\ UNCHANGED <<recorded, loaded, file_vars, settings, supervised, client_vars>>

(* docker/entrypoint.sh: spawn, wait for the child, spawn again.           *)
Respawns ==
  /\ supervised
  /\ child # NoDaemon => ~Alive(child)
  /\ \E d \in Daemons : Spawns(d) /\ child' = d
  /\ UNCHANGED <<recorded, loaded, file_vars, settings, supervised, client_vars>>

EditsSettings ==
  /\ settings < MaxEdits
  /\ settings' = settings + 1
  /\ UNCHANGED <<daemon_vars, file_vars, supervised, child, client_vars>>

-----------------------------------------------------------------------------
DaemonStep(d) ==
  \/ NotesMtime(d) \/ LoadsSettings(d) \/ WritesPid(d) \/ ClearsSocket(d) \/ Binds(d)
  \/ ClosesListener(d) \/ Releases(d) \/ UnlinksSocket(d) \/ Exits(d) \/ RemovesPid(d)

ClientStep(c) ==
  \/ Connects(c) \/ Completes(c) \/ Retries(c)
  \/ ReadsPid(c) \/ AsksToStop(c) \/ SeesPidGone(c) \/ StopWaitExpires(c)
  \/ Terminates(c) \/ Kills(c) \/ CleansUp(c) \/ ChecksPid(c) \/ UnlinksPid(c) \/ Stopped(c)
  \/ WaitsForSupervisor(c) \/ Starts(c) \/ SeesSocket(c) \/ GivesUp(c)

Next ==
  \/ \E d \in Daemons : DaemonStep(d) \/ Perishes(d)
  \/ \E c \in Clients : ClientStep(c) \/ Calls(c) \/ Commands(c)
  \/ Respawns
  \/ EditsSettings

(* Processes run, and deadlines pass.  Nobody owes a request, a command,   *)
(* an edit or a crash.                                                     *)
Fairness ==
  /\ \A d \in Daemons : WF_vars(DaemonStep(d))
  /\ \A c \in Clients : WF_vars(ClientStep(c))
  /\ WF_vars(Respawns)

Spec == Init /\ [][Next]_vars /\ Fairness

-----------------------------------------------------------------------------
TypeOK ==
  /\ phase \in [Daemons -> Phases]
  /\ recorded \in [Daemons -> Nat] /\ loaded \in [Daemons -> Nat]
  /\ socket \in Daemons \cup {NoDaemon} /\ pid_file \in Daemons \cup {NoDaemon}
  /\ settings \in Nat /\ supervised \in BOOLEAN /\ child \in Daemons \cup {NoDaemon}
  /\ pc \in [Clients -> Places]
  /\ ensured \in [Clients -> BOOLEAN]
  /\ asked \in [Clients -> Nat]
  /\ peer \in [Clients -> Daemons \cup {NoDaemon}]
  /\ target \in [Clients -> Daemons \cup {NoDaemon}]
  /\ \A c \in Clients : peer[c] # NoDaemon <=> pc[c] = "connected"

(* "Automatically starts or restarts the daemon when it is absent or       *)
(* running with stale global settings" (client.py:124): a request is       *)
(* answered from settings at least as new as those in place when it was    *)
(* made, whatever edits fall between the reading of the mtime, the loading *)
(* of the settings, the handshake and the restart.                         *)
ServedFresh == \A c \in Callers : pc[c] = "connected" => loaded[peer[c]] >= asked[c]

(* "The client in that mode calls stop_daemon but never start_daemon"      *)
(* (client.py:111): until somebody runs `ccc daemon restart`, one daemon   *)
(* process at a time is alive under a supervisor, so that one process      *)
(* schedules workflows and writes the indexes.                             *)
OneSupervisedDaemon ==
  supervised /\ (\A c \in Restarters : pc[c] = "idle")
    => Cardinality({d \in Daemons : Alive(d)}) <= 1

(* A daemon that goes down looks at the PID file and removes it in two     *)
(* steps, and no lock keeps a successor from writing its own in between.   *)
(* Under a supervisor, and until somebody runs `ccc daemon restart`,       *)
(* daemons follow one another and none loses its PID file to another, so   *)
(* each can be stopped by PID.                                             *)
SuccessorKeepsPid ==
  [][supervised /\ (\A c \in Restarters : pc[c] = "idle") =>
       \A d \in Daemons : pid_file = d /\ Alive(d) /\ UNCHANGED pc /\ pid_file' = NoDaemon
         => phase'[d] = "dead"]_vars

(* Every request and command comes to an end, although daemons fail to     *)
(* start, die, abort their clean-up or lose their socket meanwhile.        *)
CallsEnd == \A c \in Clients : pc[c] # "idle" ~> pc[c] = "done"

(* "The daemon intentionally exits whenever the client issues StopRequest  *)
(* (settings-change mtime mismatch, ...)" (docker/entrypoint.sh:4): a stop *)
(* that finds a daemon answering on the socket asks it to stop.            *)
StopIsGraceful ==
  [][\A c \in Clients, d \in Daemons :
       AsksToStop(c) /\ Answering(d) => phase'[d] = "stopping"]_vars

(* "if the supervisor wins the bind and our subprocess exits because the   *)
(* socket is already in use" (client.py:656): of two daemons that start    *)
(* together, one serves and the other exits.                               *)
OneServer == Cardinality({d \in Daemons : phase[d] = "serving"}) <= 1
=============================================================================
