-------------------------- MODULE MemoryGateProofs --------------------------
(***************************************************************************)
(* Proofs about the memory gate, for every finite set of callers, every    *)
(* maximum and every floor.                                                *)
(***************************************************************************)
EXTENDS MemoryGate, FiniteSetTheorems, TLAPS

(* The inductive invariant.  The ranges of the two counters follow from    *)
(* what they count: a release cannot drive in_use below zero because the   *)
(* releaser is one of the callers in_use counts.                           *)
IInv == TypeOK /\ PermitsConserved /\ DepthConserved /\ NoLostWakeup

(* Moving one caller into, or out of, a set of callers changes the number  *)
(* of its elements by one.                                                 *)
LEMMA Counting ==
  ASSUME NEW S \in SUBSET Callers, NEW c \in Callers
  PROVE  /\ IsFiniteSet(S)
         /\ Cardinality(S) \in Nat
         /\ c \notin S => Cardinality(S \cup {c}) = Cardinality(S) + 1
         /\ c \in S => Cardinality(S \ {c}) = Cardinality(S) - 1 /\ Cardinality(S) > 0
<1>1. IsFiniteSet(S)
  BY GateAssumption, FS_Subset DEF GateParameters
<1>2. Cardinality(S) \in Nat
  BY <1>1, FS_CardinalityType
<1>3. c \notin S => Cardinality(S \cup {c}) = Cardinality(S) + 1
  BY <1>1, FS_AddElement
<1>4. c \in S => Cardinality(S \ {c}) = Cardinality(S) - 1
  BY <1>1, FS_RemoveElement
<1>5. c \in S => Cardinality(S) > 0
  BY <1>1, <1>2, FS_EmptySet
<1>6. QED
  BY <1>1, <1>2, <1>3, <1>4, <1>5

LEMMA FloorRange == Floor \in 1..Maximum
  BY GateAssumption DEF GateParameters, Floor

LEMMA InitEstablishes == Init => IInv
<1> SUFFICES ASSUME Init PROVE IInv
  OBVIOUS
<1>1. Holders = {} /\ Queued = {} /\ Sleepers = {}
  BY DEF Init, Holders, Queued, Sleepers, At
<1>2. Cardinality({}) = 0
  BY FS_EmptySet
<1>3. TypeOK
  BY FloorRange, GateAssumption DEF GateParameters, Init, TypeOK, Places
<1>4. QED
  BY <1>1, <1>2, <1>3 DEF IInv, Init, PermitsConserved, DepthConserved, NoLostWakeup

(* Waking the sleepers moves nobody into or out of the queue.              *)
LEMMA Waking ==
  ASSUME TypeOK
  PROVE  /\ Notified \in [Callers -> Places]
         /\ \A c \in Callers : Notified[c] # "waiting"
         /\ \A c \in Callers : Notified[c] = "holding" <=> caller[c] = "holding"
         /\ \A c \in Callers :
              Notified[c] \in {"waiting", "notified"} <=> caller[c] \in {"waiting", "notified"}
BY DEF TypeOK, Notified, Places

LEMMA StepPreserves == IInv /\ [Next]_vars => IInv'
<1> SUFFICES ASSUME IInv, [Next]_vars PROVE IInv'
  OBVIOUS
<1> USE GateAssumption, FloorRange DEF GateParameters
<1>0. /\ TypeOK /\ PermitsConserved /\ DepthConserved /\ NoLostWakeup
      /\ Holders \in SUBSET Callers /\ Queued \in SUBSET Callers
      /\ capacity \in Nat /\ in_use \in Nat /\ waiting \in Nat /\ peak_waiting \in Nat
      /\ capacity <= Maximum
  BY DEF IInv, Holders, Queued, At, TypeOK
<1>1. ASSUME NEW c \in Callers, Acquire(c) PROVE IInv'
  <2>1. Holders' = Holders \cup {c} /\ c \notin Holders
    BY <1>0, <1>1 DEF Acquire, TypeOK, Holders, At
  <2>2. Queued' = Queued /\ Sleepers' = Sleepers
    BY <1>0, <1>1 DEF Acquire, TypeOK, Queued, Sleepers, At
  <2>3. PermitsConserved'
    BY <1>0, <1>1, <2>1, Counting DEF Acquire, PermitsConserved
  <2>4. DepthConserved'
    BY <1>0, <1>1, <2>2 DEF Acquire, DepthConserved
  <2>5. NoLostWakeup'
    BY <1>0, <1>1, <2>2 DEF Acquire, NoLostWakeup, HasRoom
  <2>6. TypeOK'
    BY <1>0, <1>1 DEF Acquire, TypeOK, HasRoom, Places
  <2>7. QED
    BY <2>3, <2>4, <2>5, <2>6 DEF IInv
<1>2. ASSUME NEW c \in Callers, Enqueue(c) PROVE IInv'
  <2>1. Queued' = Queued \cup {c} /\ c \notin Queued
    BY <1>0, <1>2 DEF Enqueue, TypeOK, Queued, At
  <2>2. Holders' = Holders
    BY <1>0, <1>2 DEF Enqueue, TypeOK, Holders, At
  <2>3. PermitsConserved'
    BY <1>0, <1>2, <2>2 DEF Enqueue, PermitsConserved
  <2>4. DepthConserved'
    BY <1>0, <1>2, <2>1, Counting DEF Enqueue, DepthConserved
  <2>5. NoLostWakeup'
    BY <1>0, <1>2 DEF Enqueue, NoLostWakeup, HasRoom
  <2>6. TypeOK'
    BY <1>0, <1>2 DEF Enqueue, TypeOK, Places
  <2>7. QED
    BY <2>3, <2>4, <2>5, <2>6 DEF IInv
<1>3. ASSUME NEW c \in Callers, Admit(c) PROVE IInv'
  <2>1. Holders' = Holders \cup {c} /\ c \notin Holders
    BY <1>0, <1>3 DEF Admit, TypeOK, Holders, At
  <2>2. Queued' = Queued \ {c} /\ c \in Queued
    BY <1>0, <1>3 DEF Admit, TypeOK, Queued, At
  <2>3. Sleepers' = Sleepers
    BY <1>0, <1>3 DEF Admit, TypeOK, Sleepers, At
  <2>4. PermitsConserved'
    BY <1>0, <1>3, <2>1, Counting DEF Admit, PermitsConserved
  <2>5. waiting' = Cardinality(Queued') /\ waiting' \in Nat
    BY <1>0, <1>3, <2>2, Counting DEF Admit, DepthConserved
  <2>6. DepthConserved'
    BY <1>0, <1>3, <2>5 DEF Admit, DepthConserved
  <2>7. NoLostWakeup'
    BY <1>0, <1>3, <2>3 DEF Admit, NoLostWakeup, HasRoom
  <2>8. TypeOK'
    BY <1>0, <1>3, <2>5 DEF Admit, TypeOK, HasRoom, Places
  <2>9. QED
    BY <2>4, <2>6, <2>7, <2>8 DEF IInv
<1>4. ASSUME NEW c \in Callers, SleepAgain(c) PROVE IInv'
  <2>1. Queued' = Queued /\ Holders' = Holders
    BY <1>0, <1>4 DEF SleepAgain, TypeOK, Queued, Holders, At
  <2>2. PermitsConserved' /\ DepthConserved'
    BY <1>0, <1>4, <2>1 DEF SleepAgain, PermitsConserved, DepthConserved
  <2>3. NoLostWakeup'
    BY <1>0, <1>4 DEF SleepAgain, NoLostWakeup, HasRoom
  <2>4. TypeOK'
    BY <1>0, <1>4 DEF SleepAgain, TypeOK, Places
  <2>5. QED
    BY <2>2, <2>3, <2>4 DEF IInv
<1>5. ASSUME NEW c \in Callers, CancelWait(c) PROVE IInv'
  <2>1. Queued' = Queued \ {c} /\ c \in Queued
    BY <1>0, <1>5 DEF CancelWait, TypeOK, Queued, At
  <2>2. Holders' = Holders
    BY <1>0, <1>5 DEF CancelWait, TypeOK, Holders, Queued, At
  <2>3. Sleepers' \subseteq Sleepers
    BY <1>0, <1>5 DEF CancelWait, TypeOK, Sleepers, At
  <2>4. PermitsConserved'
    BY <1>0, <1>5, <2>2 DEF CancelWait, PermitsConserved
  <2>5. waiting' = Cardinality(Queued') /\ waiting' \in Nat
    BY <1>0, <1>5, <2>1, Counting DEF CancelWait, DepthConserved
  <2>6. DepthConserved'
    BY <1>0, <1>5, <2>5 DEF CancelWait, DepthConserved
  <2>7. NoLostWakeup'
    BY <1>0, <1>5, <2>3 DEF CancelWait, NoLostWakeup, HasRoom
  <2>8. TypeOK'
    BY <1>0, <1>5, <2>5 DEF CancelWait, TypeOK, Places
  <2>9. QED
    BY <2>4, <2>6, <2>7, <2>8 DEF IInv
<1>6. ASSUME NEW c \in Callers, Release(c) PROVE IInv'
  <2>1. Holders' = Holders \ {c} /\ c \in Holders
    BY <1>0, <1>6, Waking DEF Release, TypeOK, Holders, At
  <2>2. Queued' = Queued
    BY <1>0, <1>6, Waking DEF Release, TypeOK, Queued, At
  <2>3. Sleepers' = {}
    BY <1>0, <1>6, Waking DEF Release, TypeOK, Sleepers, At
  <2>4. in_use' = Cardinality(Holders') /\ in_use' \in Nat
    BY <1>0, <1>6, <2>1, Counting DEF Release, PermitsConserved
  <2>5. PermitsConserved' /\ DepthConserved' /\ NoLostWakeup'
    BY <1>0, <1>6, <2>2, <2>3, <2>4
    DEF Release, PermitsConserved, DepthConserved, NoLostWakeup
  <2>6. TypeOK'
    BY <1>0, <1>6, <2>4, Waking DEF Release, TypeOK, Places
  <2>7. QED
    BY <2>5, <2>6 DEF IInv
<1>7. ASSUME NEW n \in Int, SetCapacity(n) PROVE IInv'
  <2>1. caller' \in [Callers -> Places] /\ capacity' \in Floor..Maximum
    BY <1>0, <1>7, Waking DEF SetCapacity, Clamped, TypeOK
  <2>2. Holders' = Holders
    BY <1>0, <1>7, Waking DEF SetCapacity, TypeOK, Holders, At
  <2>3. Queued' = Queued
    BY <1>0, <1>7, Waking DEF SetCapacity, TypeOK, Queued, At
  <2>4. Sleepers' # {} => capacity' <= capacity /\ Sleepers' = Sleepers
    BY <1>0, <1>7, <2>1, Waking DEF SetCapacity, TypeOK, Sleepers, At
  <2>5. PermitsConserved' /\ DepthConserved'
    BY <1>0, <1>7, <2>2, <2>3 DEF SetCapacity, PermitsConserved, DepthConserved
  <2>6. NoLostWakeup'
    BY <1>0, <1>7, <2>1, <2>4 DEF SetCapacity, NoLostWakeup, HasRoom
  <2>7. TypeOK'
    BY <1>0, <1>7, <2>1 DEF SetCapacity, TypeOK
  <2>8. QED
    BY <2>5, <2>6, <2>7 DEF IInv
<1>8. CASE MonitorMove
  <2>1. PICK n \in {capacity \div 2, capacity - 1, capacity + 1} : SetCapacity(n)
    BY <1>8 DEF MonitorMove
  <2>2. n \in Int
    BY <1>0
  <2>3. QED
    BY <1>7, <2>1, <2>2
<1>9. CASE UNCHANGED vars
  BY <1>0, <1>9 DEF vars, IInv, TypeOK, PermitsConserved, DepthConserved, NoLostWakeup,
                    Holders, Queued, Sleepers, At, HasRoom
<1>10. QED
  BY <1>1, <1>2, <1>3, <1>4, <1>5, <1>6, <1>8, <1>9 DEF Next

LEMMA Inductive == Spec => []IInv
  BY InitEstablishes, StepPreserves, PTL DEF Spec

(* No step of a caller or of the monitor takes a variable of the gate out  *)
(* of its range: never more permits out than the calibrated maximum, never *)
(* a capacity below the floor.                                             *)
THEOREM TypeCorrect == Spec => []TypeOK
  BY Inductive, PTL DEF IInv

(* The counter that admits callers is the number of callers inside.        *)
THEOREM PermitsAreConserved == Spec => []PermitsConserved
  BY Inductive, PTL DEF IInv

(* The reported queue depth is the number of queued callers.               *)
THEOREM DepthIsConserved == Spec => []DepthConserved
  BY Inductive, PTL DEF IInv

(* Nobody sleeps on a free permit.                                         *)
THEOREM NoWakeupIsLost == Spec => []NoLostWakeup
  BY Inductive, PTL DEF IInv

(* After a shrink the excess only drains.                                  *)
THEOREM ShrinkIsHonoured == Spec => ExcessDrains
<1>1. IInv /\ [Next]_vars => [in_use > capacity => Holders' \subseteq Holders]_vars
  <2> SUFFICES ASSUME IInv, [Next]_vars, in_use > capacity
               PROVE  Holders' \subseteq Holders
    OBVIOUS
  <2>1. /\ TypeOK /\ ~HasRoom
        /\ capacity \in Int /\ in_use \in Int
    BY FloorRange, GateAssumption DEF GateParameters, IInv, TypeOK, HasRoom
  <2>2. \A c \in Callers : ~Acquire(c) /\ ~Admit(c)
    BY <2>1 DEF Acquire, Admit
  <2>3. ASSUME NEW c \in Callers, Enqueue(c) \/ SleepAgain(c) \/ CancelWait(c) \/ Release(c)
        PROVE  Holders' \subseteq Holders
    BY <2>1, <2>3, Waking
    DEF Enqueue, SleepAgain, CancelWait, Release, TypeOK, Holders, At
  <2>4. CASE MonitorMove
    BY <2>1, <2>4, Waking DEF MonitorMove, SetCapacity, TypeOK, Holders, At
  <2>5. CASE UNCHANGED vars
    BY <2>5 DEF vars, Holders, At
  <2>6. QED
    BY <2>2, <2>3, <2>4, <2>5 DEF Next
<1>2. QED
  BY <1>1, Inductive, PTL DEF Spec, ExcessDrains
=============================================================================
