------------------------ MODULE MemoryGovernorProofs ------------------------
(***************************************************************************)
(* The governor implements two gates, so that what is proved of a gate     *)
(* holds of each of them, for any files, scans and calibrated maxima.      *)
(***************************************************************************)
EXTENDS MemoryGovernor, TLAPS

IndexGate == INSTANCE MemoryGateProofs WITH
  Callers <- Files, Maximum <- IndexMaximum, RequestedFloor <- MinInflight,
  caller <- file, capacity <- index_capacity, in_use <- files_in_use,
  waiting <- files_waiting, peak_waiting <- peak_files_waiting

ScanGate == INSTANCE MemoryGateProofs WITH
  Callers <- Scans, Maximum <- ScanMaximum, RequestedFloor <- 1,
  caller <- scan, capacity <- scan_capacity, in_use <- scans_in_use,
  waiting <- scans_waiting, peak_waiting <- peak_scans_waiting

(* A step of the governor is a step of the index gate, or none.            *)
LEMMA IndexStep == [Next]_vars => [Index!Next]_(Index!vars)
<1> SUFFICES ASSUME Next PROVE Index!Next \/ UNCHANGED index_vars
  BY DEF vars, index_vars, Index!vars
<1>1. ASSUME NEW f \in Files, FileEnters(f) \/ FileWakes(f) \/ FileLeaves(f) \/ FileDropped(f)
      PROVE  Index!Next
  BY <1>1 DEF FileEnters, FileWakes, FileLeaves, FileDropped, Index!Next
<1>2. ASSUME NEW s \in Scans,
             ScanEnters(s) \/ ScanWakes(s) \/ ThreadEnds(s) \/ ScanLeaves(s) \/ ScanAbandoned(s)
      PROVE  UNCHANGED index_vars
  BY <1>2 DEF ScanEnters, ScanWakes, ThreadEnds, ScanLeaves, ScanAbandoned
<1>3. ASSUME PressureMoves PROVE UNCHANGED index_vars
  BY <1>3 DEF PressureMoves
<1>4. ASSUME Tick PROVE Index!Next
  BY <1>4 DEF Tick, HardTick, SoftTick, CalmTick, Index!MonitorMove, Index!Next
<1>5. QED
  BY <1>1, <1>2, <1>3, <1>4 DEF Next

(* A step of the governor is a step of the scan gate, or none.             *)
LEMMA ScanStep == [Next]_vars => [Scan!Next]_(Scan!vars)
<1> SUFFICES ASSUME Next PROVE Scan!Next \/ UNCHANGED scan_vars
  BY DEF vars, scan_vars, Scan!vars
<1>1. ASSUME NEW f \in Files, FileEnters(f) \/ FileWakes(f) \/ FileLeaves(f) \/ FileDropped(f)
      PROVE  UNCHANGED scan_vars
  BY <1>1 DEF FileEnters, FileWakes, FileLeaves, FileDropped
<1>2. ASSUME NEW s \in Scans,
             ScanEnters(s) \/ ScanWakes(s) \/ ThreadEnds(s) \/ ScanLeaves(s) \/ ScanAbandoned(s)
      PROVE  Scan!Next \/ UNCHANGED scan_vars
  BY <1>2 DEF ScanEnters, ScanWakes, ThreadEnds, ScanLeaves, ScanAbandoned, Scan!Next
<1>3. ASSUME PressureMoves PROVE UNCHANGED scan_vars
  BY <1>3 DEF PressureMoves
<1>4. ASSUME Tick PROVE Scan!Next \/ UNCHANGED scan_vars
  BY <1>4 DEF Tick, HardTick, SoftTick, CalmTick, Scan!MonitorMove, Scan!Next
<1>5. QED
  BY <1>1, <1>2, <1>3, <1>4 DEF Next

(* Whatever the monitor, the files and the scans do, each gate behaves as  *)
(* MemoryGate allows.                                                      *)
THEOREM GovernorImplementsGates == Spec => GatesAreGates
<1>1. Init => Index!Init /\ Scan!Init
  BY DEF Init
<1>2. QED
  BY <1>1, IndexStep, ScanStep, PTL DEF Spec, GatesAreGates, Index!Spec, Scan!Spec

(* The gate the proofs of MemoryGateProofs are about is the governor's.    *)
LEMMA SameIndex ==
  /\ Index!Init <=> IndexGate!Init
  /\ [Index!Next]_(Index!vars) <=> [IndexGate!Next]_(IndexGate!vars)
BY DEF
    Index!Init, IndexGate!Init, Index!Next, IndexGate!Next,
    Index!vars, IndexGate!vars, Index!Acquire, IndexGate!Acquire,
    Index!Enqueue, IndexGate!Enqueue, Index!Admit, IndexGate!Admit,
    Index!SleepAgain, IndexGate!SleepAgain, Index!CancelWait, IndexGate!CancelWait,
    Index!Release, IndexGate!Release, Index!MonitorMove, IndexGate!MonitorMove,
    Index!SetCapacity, IndexGate!SetCapacity, Index!Clamped, IndexGate!Clamped,
    Index!Floor, IndexGate!Floor, Index!Notified, IndexGate!Notified,
    Index!HasRoom, IndexGate!HasRoom, Index!Queued, IndexGate!Queued,
    Index!At, IndexGate!At

LEMMA SameScan ==
  /\ Scan!Init <=> ScanGate!Init
  /\ [Scan!Next]_(Scan!vars) <=> [ScanGate!Next]_(ScanGate!vars)
BY DEF
    Scan!Init, ScanGate!Init, Scan!Next, ScanGate!Next,
    Scan!vars, ScanGate!vars, Scan!Acquire, ScanGate!Acquire,
    Scan!Enqueue, ScanGate!Enqueue, Scan!Admit, ScanGate!Admit,
    Scan!SleepAgain, ScanGate!SleepAgain, Scan!CancelWait, ScanGate!CancelWait,
    Scan!Release, ScanGate!Release, Scan!MonitorMove, ScanGate!MonitorMove,
    Scan!SetCapacity, ScanGate!SetCapacity, Scan!Clamped, ScanGate!Clamped,
    Scan!Floor, ScanGate!Floor, Scan!Notified, ScanGate!Notified,
    Scan!HasRoom, ScanGate!HasRoom, Scan!Queued, ScanGate!Queued,
    Scan!At, ScanGate!At

(* The invariant of both gates, and the types of the rest.                 *)
GovernorInv ==
  /\ IndexGate!IInv
  /\ ScanGate!IInv
  /\ threads \subseteq Scans /\ pressure \in Pressures

LEMMA GovernorInductive == Spec => []GovernorInv
<1>0. IndexGate!GateParameters /\ ScanGate!GateParameters
  <2>1. /\ IsFiniteSet(Files) /\ IsFiniteSet(Scans)
        /\ IndexMaximum \in Nat \ {0} /\ ScanMaximum \in Nat \ {0} /\ MinInflight \in Nat \ {0}
    BY GovernorAssumption
  <2>2. IndexGate!GateParameters
    BY <2>1 DEF IndexGate!GateParameters, IsFiniteSet, IndexGate!IsFiniteSet
  <2>3. ScanGate!GateParameters
    BY <2>1 DEF ScanGate!GateParameters, IsFiniteSet, ScanGate!IsFiniteSet
  <2>4. QED
    BY <2>2, <2>3
<1>1. Init => GovernorInv
  BY <1>0, SameIndex, SameScan, IndexGate!InitEstablishes, ScanGate!InitEstablishes
  DEF Init, GovernorInv, Pressures
<1>2. GovernorInv /\ [Next]_vars => GovernorInv'
  <2> SUFFICES ASSUME GovernorInv, [Next]_vars PROVE GovernorInv'
    OBVIOUS
  <2>1. IndexGate!IInv'
    BY <1>0, IndexStep, SameIndex, IndexGate!StepPreserves DEF GovernorInv
  <2>2. ScanGate!IInv'
    BY <1>0, ScanStep, SameScan, ScanGate!StepPreserves DEF GovernorInv
  <2>3. threads' \subseteq Scans /\ pressure' \in Pressures
    BY DEF GovernorInv, Next, FileEnters, FileWakes, FileLeaves, FileDropped, ScanEnters,
           ScanWakes, ThreadEnds, ScanLeaves, ScanAbandoned, PressureMoves, Tick, vars
  <2>4. QED
    BY <2>1, <2>2, <2>3 DEF GovernorInv
<1>3. QED
  BY <1>1, <1>2, PTL DEF Spec

(* Every variable keeps its type, and both gates the ranges of their       *)
(* capacity and of their permits, under any course of the pressure.        *)
THEOREM TypeCorrect == Spec => []TypeOK
<1>1. GovernorInv => TypeOK
  BY DEF GovernorInv, TypeOK, IndexGate!IInv, ScanGate!IInv,
    Index!TypeOK, IndexGate!TypeOK, Index!Places, IndexGate!Places, Index!Floor, IndexGate!Floor,
    Scan!TypeOK, ScanGate!TypeOK, Scan!Places, ScanGate!Places, Scan!Floor, ScanGate!Floor
<1>2. QED
  BY <1>1, GovernorInductive, PTL

(* In neither gate is a permit lost or returned twice, or a wake-up lost,  *)
(* while both are throttled and released together.                         *)
THEOREM PermitsAndWakeupsAreKept ==
  Spec => [](/\ Index!PermitsConserved /\ Index!NoLostWakeup
             /\ Scan!PermitsConserved /\ Scan!NoLostWakeup)
<1>1. GovernorInv => /\ Index!PermitsConserved /\ Index!NoLostWakeup
                     /\ Scan!PermitsConserved /\ Scan!NoLostWakeup
  BY DEF GovernorInv, IndexGate!IInv, ScanGate!IInv,
    Index!PermitsConserved, IndexGate!PermitsConserved, Index!Holders, IndexGate!Holders,
    Scan!PermitsConserved, ScanGate!PermitsConserved, Scan!Holders, ScanGate!Holders,
    Index!NoLostWakeup, IndexGate!NoLostWakeup, Index!Sleepers, IndexGate!Sleepers,
    Scan!NoLostWakeup, ScanGate!NoLostWakeup, Scan!Sleepers, ScanGate!Sleepers,
    Index!HasRoom, IndexGate!HasRoom, Scan!HasRoom, ScanGate!HasRoom,
    Index!At, IndexGate!At, Scan!At, ScanGate!At,
    Index!Cardinality, IndexGate!Cardinality, Scan!Cardinality, ScanGate!Cardinality
<1>2. QED
  BY <1>1, GovernorInductive, PTL
=============================================================================
