---------------------------- MODULE MemoryBudget ----------------------------
(***************************************************************************)
(* The arithmetic that sizes the gates and the scan budget of a daemon     *)
(* (memory.py, and _second_embedder_fits of daemon.py).  All amounts are   *)
(* numbers of one unit of memory; fractions are percentages, so a product  *)
(* with one is scaled by Cent.  Unknown stands for None.                   *)
(***************************************************************************)
EXTENDS Integers

CONSTANTS
    Unknown,            \* nothing readable, nothing set
    SafetyMargin,       \* SAFETY_MARGIN_FRACTION, percent
    PerFileCost,        \* PER_FILE_COST_BYTES
    MinInflight,        \* MIN_INFLIGHT
    EngineDefault,      \* ENGINE_DEFAULT_MAX_INFLIGHT
    ScanShare,          \* SCAN_SHARE_FRACTION, percent
    MinBatch, MaxBatch, DefaultBatch,   \* the bounds of blob_batch_bytes
    DefaultScans,       \* DEFAULT_MAX_CONCURRENT_SCANS
    V1Unlimited         \* _CGROUP_V1_UNLIMITED_MIN

Cent == 100

Smaller(a, b) == IF a < b THEN a ELSE b
Larger(a, b) == IF a > b THEN a ELSE b
Clamp(value, low, high) == Larger(low, Smaller(high, value))

\* An environment variable that must be an integer of at least 1.
EnvPositive(raw) == IF raw = Unknown THEN Unknown ELSE IF raw < 1 THEN Unknown ELSE raw
OrElse(value, default) == IF value = Unknown THEN default ELSE value

\* The limit: override, cgroup v2, cgroup v1, host; a cgroup cap is cut to
\* the memory of the host.
WithinHost(cap, host) == IF host = Unknown THEN cap ELSE Smaller(cap, host)

DetectLimit(override, v2, v1, host) ==
    IF EnvPositive(override) # Unknown THEN override
    ELSE IF v2 # Unknown THEN WithinHost(v2, host)
    ELSE IF (IF v1 = Unknown THEN FALSE ELSE v1 < V1Unlimited) THEN WithinHost(v1, host)
    ELSE host

\* What is left for work, in hundredths of the unit.
WorkIgnoringBaseline(limit, baseline) == limit * (Cent - SafetyMargin)      \* mutant
Work(limit, baseline) == limit * (Cent - SafetyMargin) - Cent * OrElse(baseline, 0)

Ceiling(raw) == OrElse(EnvPositive(raw), EngineDefault)
Scans(raw) == OrElse(EnvPositive(raw), DefaultScans)

RecommendMaxInflight(limit, baseline, ceiling) ==
    IF limit = Unknown THEN ceiling
    ELSE LET fits == Work(limit, baseline) \div (Cent * PerFileCost)
         IN  Larger(Smaller(MinInflight, ceiling), Smaller(ceiling, fits))

RecommendBatch(limit, baseline, concurrent) ==
    IF limit = Unknown THEN DefaultBatch
    ELSE LET share == (Larger(0, Work(limit, baseline)) * ScanShare) \div (Cent * Cent * concurrent)
         IN  Clamp(share, MinBatch, MaxBatch)

\* The second embedder costs what loading the first one cost.
SecondEmbedderFits(limit, before, after) ==
    \/ Unknown \in {limit, before, after}
    \/ Cent * (after + Larger(0, after - before)) <= limit * (Cent - SafetyMargin)

-----------------------------------------------------------------------------
(***************************************************************************)
(* A machine: what can be read and what is set.                            *)
(***************************************************************************)
Limit(m) == DetectLimit(m.override, m.v2, m.v1, m.host)
Inflight(m) == RecommendMaxInflight(Limit(m), m.baseline, Ceiling(m.inflight))
Batch(m) == RecommendBatch(Limit(m), m.baseline, Scans(m.scans))

(***************************************************************************)
(* On every machine the daemon gets a usable and fitting budget: at least  *)
(* one file and one scan, never more files than the ceiling; above their   *)
(* floors the files fit the limit next to the idle footprint and the       *)
(* margin, and the scans their share of it; a second embedder leaves work  *)
(* to hand out; and the limit is not above the memory of the host unless   *)
(* the operator says so.                                                   *)
(***************************************************************************)
BudgetFits(m) ==
    /\ Inflight(m) \in 1..Ceiling(m.inflight)
    /\ Batch(m) \in MinBatch..MaxBatch
    /\ Limit(m) # Unknown =>
        /\ Inflight(m) > MinInflight =>
             Cent * (OrElse(m.baseline, 0) + Inflight(m) * PerFileCost) <= Limit(m) * (Cent - SafetyMargin)
        /\ Batch(m) > MinBatch =>
             Cent * Cent * Scans(m.scans) * Batch(m)
                 <= (Limit(m) * (Cent - SafetyMargin) - Cent * OrElse(m.baseline, 0)) * ScanShare
        /\ Unknown \notin {m.before, m.baseline} /\ SecondEmbedderFits(Limit(m), m.before, m.baseline) =>
             Work(Limit(m), m.baseline + Larger(0, m.baseline - m.before)) >= 0
    /\ m.host # Unknown /\ EnvPositive(m.override) = Unknown => Limit(m) <= m.host
=============================================================================
