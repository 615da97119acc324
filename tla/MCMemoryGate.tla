---------------------------- MODULE MCMemoryGate ----------------------------
(* The memory gate for TLC: five interchangeable callers, capacity moving  *)
(* between a floor of 1 and a maximum of 3, so that a shrink can leave two *)
(* permits too many out while callers still queue.                         *)
EXTENDS MemoryGate, TLC

CONSTANTS c1, c2, c3, c4, c5

MCCallers == {c1, c2, c3, c4, c5}
Symmetry  == Permutations(MCCallers)
=============================================================================
