------------------------------ MODULE MCSearch ------------------------------
(***************************************************************************)
(* Model checking of branch search: in one family of behaviours several    *)
(* searches run over the moving clone (BranchView) and no scan is asked;   *)
(* in the other one scan runs (BranchScan) and the clone rests.  The scan  *)
(* addresses its commit by SHA, so the two share no state.                 *)
(***************************************************************************)
EXTENDS BranchView, BranchScan, TLC

CONSTANTS s1, s2

-----------------------------------------------------------------------------
\* The fork has a and b.  The branch changes a, deletes b and adds c and x,
\* then changes them again; the base merges its first commit.
Tree(a, b, c, x) == [f \in File |-> CASE f = "a" -> a [] f = "b" -> b [] f = "c" -> c [] f = "x" -> x]
MCBranchTree == <<Tree("a1", Absent, "c1", "x1"), Tree("a2", Absent, "c2", "x2")>>
MCBaseTree == [b \in 0..1 |-> IF b = 0 THEN Tree("a0", "b0", Absent, Absent) ELSE MCBranchTree[1]]
MCMerged == [b \in 0..1 |-> b]

\* Pull and fetch on, fetch only, neither, and a stale local branch.
MCSetup ==
    {[pull |-> TRUE, fetching |-> TRUE, local |-> 0], [pull |-> FALSE, fetching |-> TRUE, local |-> 0],
     [pull |-> FALSE, fetching |-> FALSE, local |-> 0], [pull |-> FALSE, fetching |-> FALSE, local |-> 1]}

\* The working tree may match in path 1, which the branch changed, and in 4.
MCTreeMatch == {<<1, 2>>, <<4, 2>>}
MCOrders == {<<1, 2, 3>>, <<3, 1, 2>>}
\* Blobs below and at the cap, over it, and unreadable.
MCSizes == {size \in [Path -> 0..3] : size[1] = 2 /\ size[2] \in {1, 2, 3} /\ size[3] \in {0, 2}}
\* Path 1 may match in both lines, whose snippets begin at the same line.
MCScores == {score \in [Path \X Line -> 0..2] : score[<<2, 2>>] = 0 /\ score[<<3, 2>>] = 0}

SearchInit ==
    \/ Init /\ Idle
    \/ Init /\ pull /\ ScanInit

SearchNext ==
    \/ kind = "none" /\ Next /\ UNCHANGED scanVars
    \/ kind # "none" /\ ScanNext /\ UNCHANGED vars

SearchSpec == SearchInit /\ [][SearchNext]_<<vars, scanVars>>

\* The instance meets what the proof of NoForkCopy assumes.
ASSUME InstanceMerges == MergesTakeOver

Symmetry == Permutations(Search)
=============================================================================
