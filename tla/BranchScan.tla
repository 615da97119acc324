----------------------------- MODULE BranchScan -----------------------------
(***************************************************************************)
(* One bounded scan of the files a branch changed: ripgrep.blob_batches,   *)
(* the rg run behind search_tree and search_blobs, search_branch ("grep"), *)
(* and _scan_diff_sync over lexical_search ("rank").                       *)
(*                                                                         *)
(* A scan reads the blobs in the order of the diff into batches that fit a *)
(* budget, runs rg once per batch and keeps a limited result.  rg reports  *)
(* its matches in any order, may be killed by the watchdog, and may be     *)
(* unusable.  A match is a <<path, line>>; paths are numbers in the order  *)
(* of their names.                                                         *)
(***************************************************************************)
EXTENDS Integers, Sequences, FiniteSets, SequencesExt

CONSTANTS
    Path,           \* the changed paths, 1..n
    Line,           \* the line numbers that may match
    TreeMatch,      \* matches the base working tree may hold
    Orders,         \* the orders in which a diff may list the changed paths
    Limits,         \* the limits a caller may ask for
    Sizes,          \* the sizes the blobs may have: functions over Path
    Scores,         \* the scores the lines may have: functions over Match
    FileCap,        \* ScanBudget.max_filesize_bytes
    Batches,        \* the values of ScanBudget.blob_batch_bytes explored
    NoPath          \* no blob is between its read and its batch

ASSUME ScanAssumption ==
    /\ Path \subseteq Nat /\ IsFiniteSet(Path) /\ NoPath \notin Path
    /\ Line \subseteq Nat /\ IsFiniteSet(Line)
    /\ TreeMatch \subseteq Nat \X Nat /\ IsFiniteSet(TreeMatch)
    /\ Limits \subseteq Nat /\ FileCap \in Nat /\ Batches \subseteq Nat
    /\ Sizes \subseteq [Path -> Nat] /\ Scores \subseteq [Path \X Line -> Nat]
    /\ \A order \in Orders :          \* every path once
           /\ order \in Seq(Path)
           /\ \A p \in Path : \E i \in DOMAIN order : order[i] = p
           /\ \A i, j \in DOMAIN order : order[i] = order[j] => i = j

NoLimit == -1
Unreadable == 0     \* the size of a blob that is missing or not UTF-8
Unreported == -1

VARIABLES
    kind,           \* "grep", "rank", or "none" when no scan was asked
    input,          \* [size, score, tree, shadow, limit, order, bytes]: what is scanned
    todo,           \* the paths blob_batches has not looked at
    reading,        \* the blob just read, not in a batch yet, or NoPath
    reported,       \* git reported the size of that blob
    batch,          \* the paths of the batch
    rg,             \* [pending, got, max, truncated]: the rg run and its collector
    remaining,      \* what is left of the limit for the branch half (grep)
    out,            \* the matches kept so far (grep)
    ranked,         \* the hits kept so far (rank)
    truncated,      \* the result is flagged as cut short
    killed,         \* some rg run was killed by the watchdog (history)
    pc

scanVars == <<kind, input, todo, reading, reported, batch, rg, remaining, out, ranked,
          truncated, killed, pc>>

Match == Path \X Line
NoRun == [pending |-> {}, got |-> {}, max |-> NoLimit, truncated |-> FALSE]

\* score[m] is 0 where no pattern matches, else the number of query terms in
\* the snippet around the line.
Inputs ==
    [size: Sizes, score: Scores, tree: SUBSET TreeMatch,
     shadow: {{p \in Path : \E m \in TreeMatch : m[1] = p}}, limit: Limits, order: Orders,
     bytes: Batches]

ScanInit ==
    /\ kind \in {"grep", "rank"}
    /\ input \in Inputs /\ (kind = "rank" => input.tree = {})
    /\ todo = input.order /\ reading = NoPath /\ reported = FALSE /\ batch = {}
    /\ rg = NoRun /\ remaining = input.limit
    /\ out = {} /\ ranked = <<>> /\ truncated = FALSE /\ killed = FALSE
    /\ pc = IF kind = "grep" THEN "tree" ELSE "fill"

\* No scan was asked.
Idle ==
    /\ kind = "none" /\ input = <<>> /\ pc = "idle"
    /\ todo = <<>> /\ reading = NoPath /\ reported = FALSE /\ batch = {}
    /\ rg = NoRun /\ remaining = 0
    /\ out = {} /\ ranked = <<>> /\ truncated = FALSE /\ killed = FALSE

-----------------------------------------------------------------------------
\* The text of blobs, byte by byte, and how much of it is held in the batch.
Bytes(paths) == UNION {{p} \X (1..input.size[p]) : p \in paths}
Held == Cardinality(Bytes(batch))

Matches(paths) == {m \in Match : m[1] \in paths /\ input.score[m] > 0}

\* What blob_sizes may say of a path: its size, or nothing when git fails or
\* does not know the blob.
BlobSizes(p) == {input.size[p], Unreported}

\* blob_batches looks at the next path: over the cap it is skipped, unread
\* when git reported the size; a blob that cannot be read is skipped too.
NextPath ==
    /\ pc = "fill" /\ reading = NoPath /\ todo # <<>>
    /\ todo' = Tail(todo)
    /\ \E known \in BlobSizes(Head(todo)) :
        /\ reported' = (known # Unreported)
        /\ reading' = IF known > FileCap \/ input.size[Head(todo)] = Unreadable
                      THEN NoPath ELSE Head(todo)
    /\ UNCHANGED <<kind, input, batch, rg, remaining, out, ranked, truncated, killed, pc>>

DropBlob ==
    /\ pc = "fill" /\ reading # NoPath
    /\ input.size[reading] > FileCap
    /\ reading' = NoPath
    /\ UNCHANGED <<kind, input, todo, reported, batch, rg, remaining, out, ranked, truncated, killed, pc>>

BatchWasFull == batch # {} /\ Held > input.bytes      \* mutant: without the next blob
BatchIsFull == batch # {} /\ Held + input.size[reading] > input.bytes

KeepBlob ==
    /\ pc = "fill" /\ reading # NoPath
    /\ input.size[reading] <= FileCap /\ ~BatchIsFull
    /\ batch' = batch \cup {reading} /\ reading' = NoPath
    /\ UNCHANGED <<kind, input, todo, reported, rg, remaining, out, ranked, truncated, killed, pc>>

\* The generator yields: the batch is full, or the paths are exhausted.
Yield ==
    /\ pc = "fill" /\ batch # {}
    /\ IF reading # NoPath THEN input.size[reading] <= FileCap /\ BatchIsFull ELSE todo = <<>>
    /\ pc' = "batch"
    /\ UNCHANGED <<kind, input, todo, reading, reported, batch, rg, remaining, out, ranked, truncated, killed>>

-----------------------------------------------------------------------------
(***************************************************************************)
(* One rg run (_run and _consume).                                         *)
(***************************************************************************)
StartRun(matches, max) == rg' = [pending |-> matches, got |-> {}, max |-> max, truncated |-> FALSE]

\* search_tree: the working tree, whose shadowed paths to_rel rejects.
StartTree ==
    /\ pc = "tree"
    /\ StartRun(input.tree, input.limit)
    /\ pc' = "treerun"
    /\ UNCHANGED <<kind, input, todo, reading, reported, batch, remaining, out, ranked, truncated, killed>>

\* search_blobs over a batch: what is left of the limit, no limit to rank.
StartBatch ==
    /\ pc = "batch" /\ (kind = "grep" => remaining > 0)
    /\ StartRun(Matches(batch), IF kind = "grep" THEN remaining ELSE NoLimit)
    /\ pc' = "batchrun"
    /\ UNCHANGED <<kind, input, todo, reading, reported, batch, remaining, out, ranked, truncated, killed>>

Running == pc \in {"treerun", "batchrun"}
Full == rg.max # NoLimit /\ Cardinality(rg.got) >= rg.max

\* One match event: dropped, or the limit is full and reading stops, or kept.
Consume ==
    /\ Running /\ ~rg.truncated
    /\ \E m \in rg.pending :
        rg' = IF pc = "treerun" /\ m[1] \in input.shadow
              THEN [rg EXCEPT !.pending = @ \ {m}]
              ELSE IF Full THEN [rg EXCEPT !.pending = {}, !.truncated = TRUE]
              ELSE [rg EXCEPT !.pending = @ \ {m}, !.got = @ \cup {m}]
    /\ UNCHANGED <<kind, input, todo, reading, reported, batch, remaining, out, ranked, truncated, killed, pc>>

\* The watchdog kills the run: what was collected counts, flagged.
Watchdog ==
    /\ Running /\ ~rg.truncated
    /\ rg' = [rg EXCEPT !.pending = {}, !.truncated = TRUE]
    /\ killed' = TRUE
    /\ UNCHANGED <<kind, input, todo, reading, reported, batch, remaining, out, ranked, truncated, pc>>

EndTree ==
    /\ pc = "treerun" /\ rg.pending = {}
    /\ out' = rg.got /\ truncated' = rg.truncated
    /\ rg' = NoRun /\ pc' = "fill"
    /\ UNCHANGED <<kind, input, todo, reading, reported, batch, remaining, ranked, killed>>

\* search_branch adds the batch and lowers the limit of the next one.
EndBatch ==
    /\ kind = "grep" /\ pc = "batchrun" /\ rg.pending = {}
    /\ out' = out \cup rg.got
    /\ remaining' = remaining - Cardinality(rg.got)
    /\ truncated' = (truncated \/ rg.truncated)
    /\ batch' = {} /\ rg' = NoRun /\ pc' = "fill"
    /\ UNCHANGED <<kind, input, todo, reading, reported, ranked, killed>>

\* Mutant: the limit is used up, the flag is not set.
ExhaustedSilently ==
    /\ kind = "grep" /\ pc = "batch" /\ remaining <= 0
    /\ pc' = "merge"
    /\ UNCHANGED <<kind, input, todo, reading, reported, batch, rg, remaining, out, ranked,
                   truncated, killed>>

\* The limit is used up with batches left: they may hold matches.
Exhausted ==
    /\ kind = "grep" /\ pc = "batch" /\ remaining <= 0
    /\ truncated' = TRUE /\ pc' = "merge"
    /\ UNCHANGED <<kind, input, todo, reading, reported, batch, rg, remaining, out, ranked, killed>>

\* rg cannot be run: a grep fails, lexical_search falls back to Python.
Unusable ==
    /\ \/ kind = "grep" /\ pc \in {"tree", "batch"} /\ pc' = "failed" /\ UNCHANGED rg
       \/ /\ kind = "rank" /\ pc = "batch" /\ pc' = "batchrun"
          /\ rg' = [NoRun EXCEPT !.got = Matches(batch)]
    /\ pc = "batch" /\ kind = "grep" => remaining > 0
    /\ UNCHANGED <<kind, input, todo, reading, reported, batch, remaining, out, ranked, truncated, killed>>

-----------------------------------------------------------------------------
\* The first line of the snippet around a match.
StartLine(m) == IF m[2] > 2 THEN m[2] - 2 ELSE 1

\* Mutant: ties keep the order in which the batches came.
BeforeByScore(m, n) == input.score[m] > input.score[n]

\* The sort key (-score, file_path, start_line).
Before(m, n) ==
    \/ input.score[m] > input.score[n]
    \/ input.score[m] = input.score[n] /\ m[1] < n[1]
    \/ input.score[m] = input.score[n] /\ m[1] = n[1] /\ StartLine(m) < StartLine(n)

\* The place of x in S ordered by the pairs R: behind those before it.
Place(x, S, R) == Cardinality({y \in S : <<y, x>> \in R}) + 1
Sorted(S, R) == [i \in 1..Cardinality(S) |-> CHOOSE x \in S : Place(x, S, R) = i]
Top(hits, k) == SubSeq(hits, 1, IF Len(hits) < k THEN Len(hits) ELSE k)

\* Python's sort is stable: hits of which neither is before the other stay
\* in their order.
Stably(hits) ==
    {p \in (DOMAIN hits) \X (DOMAIN hits) :
        \/ Before(hits[p[1]], hits[p[2]])
        \/ ~Before(hits[p[2]], hits[p[1]]) /\ p[1] < p[2]}
Ranked(hits) == [i \in DOMAIN hits |-> hits[Sorted(DOMAIN hits, Stably(hits))[i]]]

\* Matches by path, then by line.
ByLine(ms) == {p \in ms \X ms : p[1][1] < p[2][1] \/ (p[1][1] = p[2][1] /\ p[1][2] < p[2][2])}
InOrder(ms) == Sorted(ms, ByLine(ms))

\* lexical_search over one batch, and the merge of its winners.
LexicalSearch(ms) == Top(Ranked(InOrder(ms)), input.limit)

RankBatch ==
    /\ kind = "rank" /\ pc = "batchrun" /\ rg.pending = {}
    /\ ranked' = Top(Ranked(ranked \o LexicalSearch(rg.got)), input.limit)
    /\ batch' = {} /\ rg' = NoRun /\ pc' = "fill"
    /\ UNCHANGED <<kind, input, todo, reading, reported, remaining, out, truncated, killed>>

Drained ==
    /\ pc = "fill" /\ todo = <<>> /\ reading = NoPath /\ batch = {}
    /\ pc' = "merge"
    /\ UNCHANGED <<kind, input, todo, reading, reported, batch, rg, remaining, out, ranked, truncated, killed>>

\* Both halves together, cut to the limit.
Merge ==
    /\ pc = "merge"
    /\ IF kind = "grep"
       THEN /\ out' = Range(Top(InOrder(out), input.limit))
            /\ truncated' = (truncated \/ Cardinality(out) > input.limit)
       ELSE UNCHANGED <<out, truncated>>
    /\ pc' = "done"
    /\ UNCHANGED <<kind, input, todo, reading, reported, batch, rg, remaining, ranked, killed>>

ScanNext ==
    \/ NextPath \/ DropBlob \/ KeepBlob \/ Yield
    \/ StartTree \/ StartBatch \/ Consume \/ Watchdog \/ EndTree \/ EndBatch
    \/ Exhausted \/ Unusable \/ RankBatch \/ Drained \/ Merge

ScanSpec == ScanInit /\ [][ScanNext]_scanVars

-----------------------------------------------------------------------------
\* What an unlimited, unbatched scan of the readable files would consider.
Eligible == {p \in Path : input.size[p] \in 1..FileCap}
All == {m \in input.tree : m[1] \notin input.shadow} \cup Matches(Eligible)

(***************************************************************************)
(* A finished grep returns only matches, at most the limit of them, and    *)
(* when it is not flagged as truncated it returns every one, whatever the  *)
(* order rg reported them in and however the blobs fell into batches       *)
(* (search_branch).                                                        *)
(***************************************************************************)
GrepIsHonest ==
    kind = "grep" /\ pc = "done" =>
        /\ out \subseteq All /\ Cardinality(out) <= input.limit
        /\ ~truncated => out = All

(***************************************************************************)
(* Ranking batch by batch and keeping the running top gives the ranking of *)
(* all files at once (_scan_diff_sync: "exact rather than an               *)
(* approximation"), unless the watchdog killed an rg run.                  *)
(***************************************************************************)
BatchedRankingExact ==
    kind = "rank" /\ pc = "done" /\ ~killed => ranked = LexicalSearch(Matches(Eligible))

(***************************************************************************)
(* The text a scan holds is at most a batch, or one file where the cap of  *)
(* a file exceeds the batch, and one more file, unless git did not report  *)
(* the size of that file (blob_batches).                                   *)
(***************************************************************************)
ScanIsBounded ==
    kind # "none" =>
        Held + (IF reading # NoPath /\ reported THEN input.size[reading] ELSE 0)
            <= (IF input.bytes < FileCap THEN FileCap ELSE input.bytes) + FileCap
=============================================================================
