--------------------------- MODULE MemoryGovernor ---------------------------
(***************************************************************************)
(* The memory governor of cocoindex_code/memory.py: one gate for the files *)
(* being indexed, one for text scans, and the monitor that reads the       *)
(* memory pressure once per tick and moves both capacities.  Project's     *)
(* ripgrep() and BranchSearch._scan_diff() run each scan in a thread while *)
(* they hold a scan permit.                                                *)
(*                                                                         *)
(* Each gate is an instance of MemoryGate.  Reporting counters             *)
(* (throttle_events, delayed_scans, max_scan_wait, peak_usage) steer       *)
(* nothing and are left out.                                               *)
(***************************************************************************)
EXTENDS Integers, FiniteSets

CONSTANTS
  Files,            (* process_file tasks                                  *)
  Scans,            (* text scans: ripgrep requests and branch diff scans  *)
  Abandonable,      (* the scans whose handler may be cancelled under way  *)
  IndexMaximum,     (* max_inflight, as calibrated                         *)
  ScanMaximum,      (* scan_budget.max_concurrent, as calibrated           *)
  MinInflight       (* MIN_INFLIGHT                                        *)

ASSUME GovernorAssumption ==
  /\ IsFiniteSet(Files) /\ IsFiniteSet(Scans)
  /\ Abandonable \subseteq Scans
  /\ IndexMaximum \in Nat \ {0}
  /\ ScanMaximum \in Nat \ {0}
  /\ MinInflight \in Nat \ {0}

VARIABLES
  file, index_capacity, files_in_use, files_waiting, peak_files_waiting,
  scan, scan_capacity, scans_in_use, scans_waiting, peak_scans_waiting,
  threads,          (* the scans whose rg thread is running                *)
  pressure          (* how usage / limit compares with the thresholds      *)

index_vars == <<file, index_capacity, files_in_use, files_waiting, peak_files_waiting>>
scan_vars  == <<scan, scan_capacity, scans_in_use, scans_waiting, peak_scans_waiting>>
vars       == <<index_vars, scan_vars, threads, pressure>>

Index == INSTANCE MemoryGate WITH
  Callers <- Files, Maximum <- IndexMaximum, RequestedFloor <- MinInflight,
  caller <- file, capacity <- index_capacity, in_use <- files_in_use,
  waiting <- files_waiting, peak_waiting <- peak_files_waiting

Scan == INSTANCE MemoryGate WITH
  Callers <- Scans, Maximum <- ScanMaximum, RequestedFloor <- 1,
  caller <- scan, capacity <- scan_capacity, in_use <- scans_in_use,
  waiting <- scans_waiting, peak_waiting <- peak_scans_waiting

(* At or above HARD_PRESSURE; at or above SOFT_PRESSURE; between           *)
(* RECOVER_BELOW and SOFT_PRESSURE, or unreadable; below RECOVER_BELOW.    *)
Pressures == {"hard", "soft", "steady", "calm"}

Init ==
  /\ Index!Init
  /\ Scan!Init
  /\ threads = {}
  /\ pressure = "calm"

-----------------------------------------------------------------------------
(* process_file: the body holds one index permit.                          *)

FileEnters(f) == (Index!Acquire(f) \/ Index!Enqueue(f)) /\ UNCHANGED <<scan_vars, threads, pressure>>
FileWakes(f)  == (Index!Admit(f) \/ Index!SleepAgain(f)) /\ UNCHANGED <<scan_vars, threads, pressure>>
FileLeaves(f) == Index!Release(f) /\ UNCHANGED <<scan_vars, threads, pressure>>
FileDropped(f) == Index!CancelWait(f) /\ UNCHANGED <<scan_vars, threads, pressure>>

-----------------------------------------------------------------------------
(* A text scan: the permit is taken and, in the same step, the rg thread   *)
(* is handed to the executor.                                              *)

ScanEnters(s) ==
  /\ \/ Scan!Acquire(s) /\ threads' = threads \cup {s}
     \/ Scan!Enqueue(s) /\ UNCHANGED threads
  /\ UNCHANGED <<index_vars, pressure>>

ScanWakes(s) ==
  /\ \/ Scan!Admit(s) /\ threads' = threads \cup {s}
     \/ Scan!SleepAgain(s) /\ UNCHANGED threads
  /\ UNCHANGED <<index_vars, pressure>>

ThreadEnds(s) ==
  /\ s \in threads
  /\ threads' = threads \ {s}
  /\ UNCHANGED <<index_vars, scan_vars, pressure>>

(* The handler resumes after its thread and gives the permit back.         *)
ScanLeaves(s) ==
  /\ s \notin threads
  /\ Scan!Release(s)
  /\ UNCHANGED <<index_vars, threads, pressure>>

(* The handler is cancelled: while queued it just leaves; while its thread *)
(* runs, `await asyncio.to_thread` raises at once and the permit goes back *)
(* although nothing stops the thread.                                      *)
ScanAbandoned(s) ==
  /\ s \in Abandonable
  /\ \/ Scan!CancelWait(s)
     \/ s \in threads /\ Scan!Release(s)
  /\ UNCHANGED <<index_vars, threads, pressure>>

-----------------------------------------------------------------------------
(* The monitor.                                                            *)

PressureMoves ==
  /\ pressure' \in Pressures \ {pressure}
  /\ UNCHANGED <<index_vars, scan_vars, threads>>

HardTick == Index!SetCapacity(index_capacity \div 2) /\ Scan!SetCapacity(scan_capacity \div 2)
SoftTick == Index!SetCapacity(index_capacity - 1) /\ UNCHANGED scan_vars

(* A bug to catch: recovery forgets the scan gate.                         *)
CalmTickIndexOnly == Index!SetCapacity(index_capacity + 1) /\ UNCHANGED scan_vars
CalmTick == Index!SetCapacity(index_capacity + 1) /\ Scan!SetCapacity(scan_capacity + 1)

(* A bug to catch: the capacity is assigned past the gate's own method, so *)
(* growth wakes nobody.                                                    *)
TickAssigning ==
  /\ pressure # "steady"
  /\ LET move(n, max) == CASE pressure = "hard" -> IF n > 1 THEN n \div 2 ELSE 1
                           [] pressure = "soft" -> n
                           [] OTHER -> IF n < max THEN n + 1 ELSE n
     IN  /\ index_capacity' = move(index_capacity, IndexMaximum)
         /\ scan_capacity' = move(scan_capacity, ScanMaximum)
  /\ UNCHANGED <<file, files_in_use, files_waiting, peak_files_waiting,
                 scan, scans_in_use, scans_waiting, peak_scans_waiting, threads, pressure>>

(* One wake of the monitor: both awaits of set_capacity complete without   *)
(* suspending, so the two moves are one step.                              *)
Tick ==
  /\ \/ pressure = "hard" /\ HardTick
     \/ pressure = "soft" /\ SoftTick
     \/ pressure = "calm" /\ CalmTick
  /\ UNCHANGED <<threads, pressure>>

-----------------------------------------------------------------------------
Next ==
  \/ \E f \in Files : FileEnters(f) \/ FileWakes(f) \/ FileLeaves(f) \/ FileDropped(f)
  \/ \E s \in Scans : \/ ScanEnters(s) \/ ScanWakes(s) \/ ThreadEnds(s)
                      \/ ScanLeaves(s) \/ ScanAbandoned(s)
  \/ PressureMoves
  \/ Tick

(* The event loop runs every ready task, files and rg runs end, and the    *)
(* monitor's sleep returns.  Arrivals, cancellations and the pressure      *)
(* itself owe nothing.                                                     *)
Fairness ==
  /\ \A f \in Files : WF_vars(FileWakes(f)) /\ WF_vars(FileLeaves(f))
  /\ \A s \in Scans : WF_vars(ScanWakes(s)) /\ WF_vars(ThreadEnds(s)) /\ WF_vars(ScanLeaves(s))
  /\ WF_vars(Tick)

Spec == Init /\ [][Next]_vars /\ Fairness

-----------------------------------------------------------------------------
TypeOK ==
  /\ Index!TypeOK
  /\ Scan!TypeOK
  /\ threads \subseteq Scans
  /\ pressure \in Pressures

(* However the monitor, the files and the scans interleave, each gate goes *)
(* on behaving as a gate by itself: the governor adds no transition that   *)
(* MemoryGate does not have, in particular no capacity outside its range.  *)
GatesAreGates == Index!Spec /\ Scan!Spec

(* "Waiting callers are never rejected - they queue here until a permit    *)
(* frees" (memory.py:568): every queued scan and every queued file leaves  *)
(* the queue, under any course of the pressure, because both floors are    *)
(* positive and no wake-up is lost.                                        *)
EveryoneServed ==
  /\ \A s \in Scans : scan[s] \in {"waiting", "notified"} ~> scan[s] \in {"holding", "left"}
  /\ \A f \in Files : file[f] \in {"waiting", "notified"} ~> file[f] \in {"holding", "left"}

(* Throttling is not a ratchet: once the pressure stays below              *)
(* RECOVER_BELOW, both gates climb back to their calibrated maximum.       *)
Recovers ==
  <>[](pressure = "calm") => <>[](index_capacity = IndexMaximum /\ scan_capacity = ScanMaximum)

(* "Simultaneous rg scans allowed across all projects" (memory.py:305):    *)
(* the running rg threads never exceed the calibrated scan maximum.        *)
ScansBounded == Cardinality(threads) <= ScanMaximum
=============================================================================
