-------------------------- MODULE MCMemoryGovernor --------------------------
(* The governor for TLC: two files against an index gate of 1..2, three    *)
(* scans against a scan gate of 1..2, any course of the memory pressure.   *)
EXTENDS MemoryGovernor

CONSTANTS f1, f2, s1, s2, s3

MCFiles == {f1, f2}
MCScans == {s1, s2, s3}
=============================================================================
