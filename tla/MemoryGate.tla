----------------------------- MODULE MemoryGate -----------------------------
(***************************************************************************)
(* The concurrency gate of cocoindex_code/memory.py (class _Gate): a       *)
(* counting semaphore whose capacity moves at run time.  A caller is one   *)
(* use of `async with gate.slot()`.                                        *)
(*                                                                         *)
(* Every critical section of the gate's asyncio.Condition is free of       *)
(* awaits except `cond.wait()`, so each one is a single step of the event  *)
(* loop and the Condition's lock is never contended.  What does interleave *)
(* is a waiter that has been notified but has not run again yet: until it  *)
(* does, newcomers may take the permit that woke it.                       *)
(***************************************************************************)
EXTENDS Integers, FiniteSets

CONSTANTS
  Callers,          (* the uses of slot()                                  *)
  Maximum,          (* the calibrated maximum (resize precedes every slot) *)
  RequestedFloor    (* the floor passed to the constructor                 *)

(* Calibration never yields a maximum below 1, nor asks for a floor of 0.  *)
GateParameters ==
  /\ IsFiniteSet(Callers)
  /\ Maximum \in Nat \ {0}
  /\ RequestedFloor \in Nat \ {0}

ASSUME GateAssumption == GateParameters

VARIABLES
  caller,           (* where each caller is                                *)
  capacity,         (* permits the monitor currently allows                *)
  in_use,           (* permits held                                        *)
  waiting,          (* callers queued for a permit                         *)
  peak_waiting      (* deepest the queue has been                          *)

vars == <<caller, capacity, in_use, waiting, peak_waiting>>

Floor == IF RequestedFloor < Maximum THEN RequestedFloor ELSE Maximum

(* "waiting" sleeps in cond.wait(); "notified" has been woken and has yet  *)
(* to re-evaluate the predicate of wait_for.                               *)
Places == {"outside", "waiting", "notified", "holding", "left"}

At(place) == {c \in Callers : caller[c] = place}
Holders   == At("holding")
Sleepers  == At("waiting")
Queued    == At("waiting") \cup At("notified")

Init ==
  /\ caller = [c \in Callers |-> "outside"]
  /\ capacity = Maximum
  /\ in_use = 0
  /\ waiting = 0
  /\ peak_waiting = 0

HasRoom == in_use < capacity

-----------------------------------------------------------------------------
(* The steps of slot().                                                    *)

(* The gate has room: the permit is taken without queueing.                *)
Acquire(c) ==
  /\ caller[c] = "outside"
  /\ HasRoom
  /\ caller' = [caller EXCEPT ![c] = "holding"]
  /\ in_use' = in_use + 1
  /\ UNCHANGED <<capacity, waiting, peak_waiting>>

(* The gate is full: the caller is counted and sleeps on the condition.    *)
Enqueue(c) ==
  /\ caller[c] = "outside"
  /\ ~HasRoom
  /\ caller' = [caller EXCEPT ![c] = "waiting"]
  /\ waiting' = waiting + 1
  /\ peak_waiting' = IF waiting' > peak_waiting THEN waiting' ELSE peak_waiting
  /\ UNCHANGED <<capacity, in_use>>

(* A bug to catch: the woken waiter takes the permit that woke it without  *)
(* looking again (`if` for `while` around the wait).                       *)
AdmitWithoutRecheck(c) ==
  /\ caller[c] = "notified"
  /\ caller' = [caller EXCEPT ![c] = "holding"]
  /\ waiting' = waiting - 1
  /\ in_use' = in_use + 1
  /\ UNCHANGED <<capacity, peak_waiting>>

(* A notified waiter runs again and finds room.                            *)
Admit(c) ==
  /\ caller[c] = "notified"
  /\ HasRoom
  /\ caller' = [caller EXCEPT ![c] = "holding"]
  /\ waiting' = waiting - 1
  /\ in_use' = in_use + 1
  /\ UNCHANGED <<capacity, peak_waiting>>

(* A notified waiter runs again and the room is gone: back to sleep.       *)
SleepAgain(c) ==
  /\ caller[c] = "notified"
  /\ ~HasRoom
  /\ caller' = [caller EXCEPT ![c] = "waiting"]
  /\ UNCHANGED <<capacity, in_use, waiting, peak_waiting>>

(* Bugs to catch: the queue position is given up outside the `finally`,    *)
(* so cancellation skips it; one `finally` returns a permit never taken.   *)
CancelWithoutUncount(c) ==
  /\ c \in Queued
  /\ caller' = [caller EXCEPT ![c] = "left"]
  /\ UNCHANGED <<capacity, in_use, waiting, peak_waiting>>

CancelReturningPermit(c) ==
  /\ c \in Queued
  /\ caller' = [caller EXCEPT ![c] = "left"]
  /\ waiting' = waiting - 1
  /\ in_use' = in_use - 1
  /\ UNCHANGED <<capacity, peak_waiting>>

(* The caller's task is cancelled while it is queued: wait_for raises and  *)
(* the `finally` uncounts it; no permit was taken and none is returned.    *)
CancelWait(c) ==
  /\ c \in Queued
  /\ caller' = [caller EXCEPT ![c] = "left"]
  /\ waiting' = waiting - 1
  /\ UNCHANGED <<capacity, in_use, peak_waiting>>

Notified == [c \in Callers |-> IF caller[c] = "waiting" THEN "notified" ELSE caller[c]]

(* A bug to catch: one sleeper is woken per release, so a wake-up is lost  *)
(* when its receiver is cancelled before it runs.                          *)
ReleaseNotifyingOne(c) ==
  /\ caller[c] = "holding"
  /\ \/ Sleepers = {} /\ caller' = [caller EXCEPT ![c] = "left"]
     \/ \E s \in Sleepers : caller' = [caller EXCEPT ![c] = "left", ![s] = "notified"]
  /\ in_use' = in_use - 1
  /\ UNCHANGED <<capacity, waiting, peak_waiting>>

(* The body is left, normally or by an exception: the permit goes back and *)
(* every sleeper is woken.                                                 *)
Release(c) ==
  /\ caller[c] = "holding"
  /\ caller' = [Notified EXCEPT ![c] = "left"]
  /\ in_use' = in_use - 1
  /\ UNCHANGED <<capacity, waiting, peak_waiting>>

-----------------------------------------------------------------------------
(* The monitor's side.                                                     *)

(* A bug to catch: halving a capacity of 1 with no floor gives 0.          *)
CappedOnly(n) == IF n > Maximum THEN Maximum ELSE n

Clamped(n) == IF n > Maximum THEN Maximum ELSE IF n < Floor THEN Floor ELSE n

(* Moves the capacity to n, clamped; only growth wakes the sleepers.       *)
SetCapacity(n) ==
  /\ capacity' = Clamped(n)
  /\ caller' = IF capacity' > capacity THEN Notified ELSE caller
  /\ UNCHANGED <<in_use, waiting, peak_waiting>>

(* The three moves the monitor makes: halve, shed one, grow one.           *)
MonitorMove == \E n \in {capacity \div 2, capacity - 1, capacity + 1} : SetCapacity(n)

-----------------------------------------------------------------------------
Next ==
  \/ \E c \in Callers :
       \/ Acquire(c)
       \/ Enqueue(c)
       \/ Admit(c)
       \/ SleepAgain(c)
       \/ CancelWait(c)
       \/ Release(c)
  \/ MonitorMove

Spec == Init /\ [][Next]_vars

-----------------------------------------------------------------------------
(* Types, and the ranges the counters must stay in.                        *)
TypeOK ==
  /\ caller \in [Callers -> Places]
  /\ capacity \in Floor..Maximum
  /\ in_use \in 0..Maximum
  /\ waiting \in Nat
  /\ peak_waiting \in Nat

(* A permit is neither leaked nor returned twice, whatever mix of normal   *)
(* exits, exceptions and cancellations the callers take: the counter that  *)
(* admits callers is the number of callers inside.                         *)
PermitsConserved == in_use = Cardinality(Holders)

(* The queue depth shown to operators counts exactly the queued callers,   *)
(* including those already notified.                                       *)
DepthConserved ==
  /\ waiting = Cardinality(Queued)
  /\ waiting <= peak_waiting

(* The gate never sleeps on free permits: whoever sleeps un-notified does  *)
(* so because the gate is full (or over-full after a shrink).              *)
NoLostWakeup == Sleepers # {} => ~HasRoom

(* A shrink is honoured: while more permits are out than the capacity      *)
(* allows, nobody else gets one, and the excess only drains.               *)
ExcessDrains == [][in_use > capacity => Holders' \subseteq Holders]_vars
=============================================================================
