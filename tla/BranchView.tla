----------------------------- MODULE BranchView -----------------------------
(***************************************************************************)
(* Branch searches over one clone: BranchSearch (branch_search.py), the    *)
(* git commands it runs (git_ops.py, schedule.git_hard_reset_sync) and the *)
(* branch half of Project.search and Project.ripgrep (project.py).         *)
(*                                                                         *)
(* A remote holds a base branch and one feature branch; both move while    *)
(* several searches are between two of their git commands.  A search       *)
(* refreshes the clone (throttled, under a lock), resolves the branch name *)
(* to a commit, diffs that commit against the base ref, and then reads the *)
(* base (the index, or the working tree for a grep) and the files of the   *)
(* branch, one blob at a time.                                             *)
(*                                                                         *)
(* A commit is the number of its push; its tree gives each file a content  *)
(* or Absent.  git itself is external: a fetch compares the value a        *)
(* remote-tracking ref had when it began with the value it has when it     *)
(* writes, and fails when another fetch has written the ref in between.    *)
(***************************************************************************)
EXTENDS Naturals, FiniteSets

CONSTANTS
    Search,         \* the searches (one request each)
    File,           \* repository paths
    Indexable,      \* the paths the base indexer would include
    Absent,         \* the content of a file a tree does not hold
    BaseTree,       \* BaseTree[b][f]: file f in base commit b, b in 0..MaxBase
    BranchTree,     \* BranchTree[v][f]: file f in branch commit v, v in 1..MaxBranch
    Merged,         \* Merged[b]: the branch commit base commit b has merged, or 0
    MaxBase, MaxBranch, MaxTime, MaxFailures,   \* bounds of the exploration
    Setup,          \* the deployments explored: records [pull, fetching, local]
    Interval,       \* COCOINDEX_CODE_BRANCH_REFRESH_SECONDS, in clock ticks
    FetchTimeout    \* the ceiling on one refresh, in clock ticks

ASSUME BranchAssumption ==
    /\ MaxBase \in Nat /\ MaxBranch \in Nat /\ MaxFailures \in Nat
    /\ MaxTime \in Nat \ {0} /\ Interval \in Nat \ {0} /\ FetchTimeout \in Nat
    /\ Indexable \subseteq File
    /\ Absent \notin Search
    /\ Setup \subseteq [pull : BOOLEAN, fetching : BOOLEAN, local : 0..MaxBranch]

NoRef == 0          \* a ref that does not exist
Never == 0          \* _last_refresh is None; the clock starts at 1

VARIABLES
    remote,         \* [base, branch]: the tips the remote serves
    pushedAt,       \* pushedAt[v]: when branch commit v was pushed (history)
    tracking,       \* refs/remotes/origin/<branch>
    upstream,       \* refs/remotes/origin/<base>
    local,          \* a local branch of the same name, or NoRef
    head,           \* the base ref and the working tree
    indexed,        \* the base commit the code_chunks table was built from
    pull,           \* COCOINDEX_CODE_GIT_PULL_ENABLED
    fetching,       \* COCOINDEX_CODE_BRANCH_FETCH_ENABLED
    now,            \* time.monotonic()
    lock,           \* holder of _refresh_lock, or Absent
    lastRefresh,    \* _last_refresh
    refreshBegan,   \* when the refresh in progress began (history)
    refreshes,      \* how many refreshes were begun (history)
    failures,       \* how many git commands that need the remote failed (history)
    search          \* search[s]: the local variables of search s

env  == <<remote, pushedAt, local, indexed, pull, fetching, now>>
clone == <<tracking, upstream, head>>
throttle == <<lock, lastRefresh, refreshBegan, refreshes>>
vars == <<env, clone, throttle, failures, search>>

BaseCommit == 0..MaxBase
BranchCommit == 1..MaxBranch
Content == {BaseTree[b][f] : b \in BaseCommit, f \in File} \cup
           {BranchTree[v][f] : v \in BranchCommit, f \in File}
Row == File \X Content

Fresh == [pc |-> "idle", kind |-> "semantic", began |-> 0, seen |-> NoRef,
          sha |-> NoRef, base |-> 0, scan |-> {}, shadow |-> {}, read |-> 0,
          rows |-> {}, hits |-> {}]

Labels == {"idle", "throttle", "refreshing", "resetting", "stamp", "resolve", "fetch", "fetched", "recheck",
           "diff", "base", "blobs", "done", "unresolved"}

SearchState ==
    [pc : Labels, kind : {"semantic", "grep"}, began : 0..MaxTime, seen : 0..MaxBranch,
     sha : 0..MaxBranch, base : BaseCommit, scan : SUBSET Indexable, shadow : SUBSET Indexable,
     read : BaseCommit, rows : SUBSET Row, hits : SUBSET Row]

TypeOK ==
    /\ remote \in [base: BaseCommit, branch: 0..MaxBranch]
    /\ pushedAt \in [BranchCommit -> 0..MaxTime]
    /\ tracking \in 0..MaxBranch /\ local \in 0..MaxBranch
    /\ {upstream, head, indexed} \subseteq BaseCommit
    /\ pull \in BOOLEAN /\ fetching \in BOOLEAN
    /\ {now, lastRefresh, refreshBegan, refreshes} \subseteq 0..MaxTime
    /\ failures \in 0..MaxFailures
    /\ lock \in Search \cup {Absent}
    /\ search \in [Search -> SearchState]

\* The clone starts as the daemon finds it: HEAD at its upstream or behind,
\* perhaps with a local branch of the searched name left by a checkout.
Init ==
    /\ remote = [base |-> 0, branch |-> NoRef]
    /\ pushedAt = [v \in BranchCommit |-> 0]
    /\ tracking = NoRef /\ upstream = 0 /\ head = 0 /\ indexed = 0
    /\ \E d \in Setup : local = d.local /\ pull = d.pull /\ fetching = d.fetching
    /\ now = 1 /\ lock = Absent /\ lastRefresh = Never
    /\ refreshBegan = 0 /\ refreshes = 0 /\ failures = 0
    /\ search = [s \in Search |-> Fresh]

(***************************************************************************)
(* The world around the daemon.                                            *)
(***************************************************************************)
PushBranch ==
    /\ remote.branch < MaxBranch
    /\ remote' = [remote EXCEPT !.branch = @ + 1]
    /\ pushedAt' = [pushedAt EXCEPT ![remote.branch + 1] = now]
    /\ UNCHANGED <<local, indexed, pull, fetching, now, clone, throttle, failures, search>>

\* The base moves on the remote, perhaps by merging the branch, which needs
\* the merged commit to have been pushed.
PushBase ==
    /\ remote.base < MaxBase
    /\ Merged[remote.base + 1] <= remote.branch
    /\ remote' = [remote EXCEPT !.base = @ + 1]
    /\ UNCHANGED <<pushedAt, local, indexed, pull, fetching, now, clone, throttle, failures, search>>

\* An index pass brings code_chunks to the working tree (ProjectIndex).
IndexPass ==
    /\ indexed # head
    /\ indexed' = head
    /\ UNCHANGED <<remote, pushedAt, local, pull, fetching, now, clone, throttle, failures, search>>

\* Time passes, but a refresh never outlives the timeout of its git commands.
Tick ==
    /\ now < MaxTime
    /\ lock # Absent => now - refreshBegan < FetchTimeout
    /\ now' = now + 1
    /\ UNCHANGED <<remote, pushedAt, local, indexed, pull, fetching, clone, throttle, failures, search>>

-----------------------------------------------------------------------------
Go(s, pc) == search' = [search EXCEPT ![s].pc = pc]

Begin(s, kind) ==
    /\ search[s].pc = "idle"
    /\ search' = [search EXCEPT ![s] = [Fresh EXCEPT !.pc = "throttle", !.kind = kind, !.began = now]]
    /\ UNCHANGED <<env, clone, throttle, failures>>

\* The search is inside the interval of the last refresh.
OnceThrottled == lastRefresh # Never        \* mutant: ignores the clock
Throttled == lastRefresh # Never /\ now - lastRefresh < Interval

\* _refresh_clone: take the lock, look at the clock, refresh or not.
TakeRefresh(s) ==
    /\ search[s].pc = "throttle" /\ lock = Absent
    /\ IF Throttled
       THEN Go(s, "resolve") /\ UNCHANGED throttle
       ELSE /\ Go(s, "refreshing")
            /\ lock' = s /\ refreshBegan' = now /\ refreshes' = refreshes + 1
            /\ UNCHANGED lastRefresh
    /\ UNCHANGED <<env, clone, failures>>

\* `git fetch --prune` of _refresh_clone_sync or git_hard_reset_sync.  The
\* hard reset follows only when the operator has enabled the pull.
RefreshFetch(s) ==
    /\ search[s].pc = "refreshing"
    /\ tracking' = remote.branch /\ upstream' = remote.base
    /\ Go(s, IF pull THEN "resetting" ELSE "stamp")
    /\ UNCHANGED <<env, head, throttle, failures>>

\* The fetch or the reset fails: what the fetch brought stays.
RefreshFails(s) ==
    /\ search[s].pc \in {"refreshing", "resetting"} /\ failures < MaxFailures
    /\ failures' = failures + 1
    /\ Go(s, "stamp")
    /\ UNCHANGED <<env, clone, throttle>>

RefreshReset(s) ==
    /\ search[s].pc = "resetting"
    /\ head' = upstream
    /\ Go(s, "stamp")
    /\ UNCHANGED <<env, tracking, upstream, throttle, failures>>

\* Mutant: only a refresh that moved the clone is stamped.
StampOnSuccess(s) ==
    /\ search[s].pc = "stamp"
    /\ lastRefresh' = (IF failures > 0 THEN lastRefresh ELSE now) /\ lock' = Absent
    /\ Go(s, "resolve")
    /\ UNCHANGED <<env, clone, refreshBegan, refreshes, failures>>

\* Stamped whatever came of the refresh; leaving the lock.
StampRefresh(s) ==
    /\ search[s].pc = "stamp"
    /\ lastRefresh' = now /\ lock' = Absent
    /\ Go(s, "resolve")
    /\ UNCHANGED <<env, clone, refreshBegan, refreshes, failures>>

\* _resolve_local: a local branch of that name wins over refs/remotes.
Resolved == IF local # NoRef THEN local ELSE tracking

\* resolve_commit up to the fetch.
ResolveLocal(s) ==
    /\ search[s].pc = "resolve"
    /\ search' = [search EXCEPT ![s].sha = Resolved,
                                ![s].seen = tracking,
                                ![s].pc = IF Resolved # NoRef THEN "diff"
                                          ELSE IF fetching THEN "fetch" ELSE "unresolved"]
    /\ UNCHANGED <<env, clone, throttle, failures>>

\* fetch_ref writes the branch as a remote-tracking ref, unless that ref is
\* no longer what the fetch found when it began.
FetchRef(s) ==
    /\ search[s].pc = "fetch"
    /\ remote.branch # NoRef /\ tracking = search[s].seen
    /\ tracking' = remote.branch
    /\ Go(s, "fetched")
    /\ UNCHANGED <<env, upstream, head, throttle, failures>>

\* Then it asks for the commit the ref names by now.
RevParse(s) ==
    /\ search[s].pc = "fetched"
    /\ search' = [search EXCEPT ![s].sha = tracking, ![s].pc = "diff"]
    /\ UNCHANGED <<env, clone, throttle, failures>>

\* The remote has no such branch, or the ref was written by another fetch.
FetchRefused(s) ==
    /\ search[s].pc = "fetch"
    /\ remote.branch = NoRef \/ tracking # search[s].seen
    /\ Go(s, "recheck")
    /\ UNCHANGED <<env, clone, throttle, failures>>

FetchUnreachable(s) ==
    /\ search[s].pc = "fetch" /\ failures < MaxFailures
    /\ failures' = failures + 1
    /\ Go(s, "recheck")
    /\ UNCHANGED <<env, clone, throttle>>

\* Mutant: no second look.
FailedFetch(s) ==
    /\ search[s].pc = "recheck"
    /\ Go(s, "unresolved")
    /\ UNCHANGED <<env, clone, throttle, failures>>

\* The last look of resolve_commit after a fetch that failed.
Recheck(s) ==
    /\ search[s].pc = "recheck"
    /\ search' = [search EXCEPT ![s].sha = Resolved,
                                ![s].pc = IF Resolved = NoRef THEN "unresolved" ELSE "diff"]
    /\ UNCHANGED <<env, clone, throttle, failures>>

-----------------------------------------------------------------------------
\* The tree of the merge base of base commit b and branch commit v.
MergeBase(b, v) ==
    LET m == Merged[b]
    IN  IF m >= v THEN BranchTree[v] ELSE IF m > 0 THEN BranchTree[m] ELSE BaseTree[0]

\* branch_diff: git diff --name-status --no-renames base...sha.
Added(b, v)    == {f \in File : MergeBase(b, v)[f] = Absent /\ BranchTree[v][f] # Absent}
Deleted(b, v)  == {f \in File : MergeBase(b, v)[f] # Absent /\ BranchTree[v][f] = Absent}
Modified(b, v) == {f \in File : /\ Absent \notin {MergeBase(b, v)[f], BranchTree[v][f]}
                                /\ MergeBase(b, v)[f] # BranchTree[v][f]}

\* BranchDiff.to_scan and .shadow.
ToScan(b, v) == Added(b, v) \cup Modified(b, v)
ModifiedOnly(b, v) == Modified(b, v)        \* mutant: deleted files stay
Shadow(b, v) == Modified(b, v) \cup Deleted(b, v)

\* _filter: what the base index would contain.
Unfiltered(paths) == paths                  \* mutant: every changed path
Included(paths) == paths \cap Indexable

\* The diff runs on the event loop against the base ref of that moment and
\* the commit.
Diff(s) ==
    LET v == search[s].sha
    IN  /\ search[s].pc = "diff"
        /\ search' = [search EXCEPT ![s].base = head,
                                    ![s].scan = Included(ToScan(head, v)),
                                    ![s].shadow = Included(Shadow(head, v)),
                                    ![s].pc = "base", ![s].began = 0, ![s].seen = NoRef]
        /\ UNCHANGED <<env, clone, throttle, failures>>

\* The base half: code_chunks for a search, the working tree for a grep,
\* without the shadowed files.
BaseVersion(s) == IF search[s].kind = "grep" THEN head ELSE indexed
BaseRows(b, hidden) ==
    {<<f, BaseTree[b][f]>> : f \in {g \in Indexable \ hidden : BaseTree[b][g] # Absent}}

QueryBase(s) ==
    /\ search[s].pc = "base"
    /\ search' = [search EXCEPT ![s].rows = BaseRows(BaseVersion(s), search[s].shadow),
                                ![s].read = BaseVersion(s),
                                ![s].pc = "blobs"]
    /\ UNCHANGED <<env, clone, throttle, failures>>

\* The branch half: each blob is a git command of its own, addressed by SHA.
TrackedVersion(s) == IF tracking = NoRef THEN search[s].sha ELSE tracking  \* mutant: by name
BlobVersion(s) == search[s].sha

ReadBlob(s) ==
    /\ search[s].pc = "blobs"
    /\ \E f \in search[s].scan :
        search' = [search EXCEPT ![s].hits = @ \cup {<<f, BranchTree[BlobVersion(s)][f]>>},
                                 ![s].scan = @ \ {f}]
    /\ UNCHANGED <<env, clone, throttle, failures>>

Answer(s) ==
    /\ search[s].pc = "blobs" /\ search[s].scan = {}
    /\ search' = [search EXCEPT ![s] = [Fresh EXCEPT !.pc = "done"]]
    /\ UNCHANGED <<env, clone, throttle, failures>>

-----------------------------------------------------------------------------
Refresh(s) ==
    TakeRefresh(s) \/ RefreshFetch(s) \/ RefreshFails(s) \/ RefreshReset(s) \/ StampRefresh(s)
Resolve(s) ==
    \/ ResolveLocal(s) \/ FetchRef(s) \/ RevParse(s)
    \/ FetchRefused(s) \/ FetchUnreachable(s) \/ Recheck(s)
Read(s) == Diff(s) \/ QueryBase(s) \/ ReadBlob(s) \/ Answer(s)

Step(s) == Refresh(s) \/ Resolve(s) \/ Read(s)

Next ==
    \/ PushBranch \/ PushBase \/ IndexPass \/ Tick
    \/ \E s \in Search : Step(s) \/ (\E kind \in {"semantic", "grep"} : Begin(s, kind))

Spec == Init /\ [][Next]_vars

-----------------------------------------------------------------------------
(***************************************************************************)
(* Every file a search read from the branch is that file of the one commit *)
(* the name was resolved to, however many pushes and fetches moved the     *)
(* branch between two of its blob reads (resolve_branch: "everything after *)
(* this point addresses the branch by SHA").                               *)
(***************************************************************************)
OneCommit ==
    \A s \in Search : \A hit \in search[s].hits :
        BranchTree[search[s].sha][hit[1]] = hit[2]

\* What a merge brings: from the base commit that merged it on, a file that
\* has its version of the fork has it in all that was merged.
MergesTakeOver ==
    \A b \in BaseCommit : \A later \in BaseCommit : \A v \in 1..Merged[b] : \A f \in Indexable :
        b <= later /\ BaseTree[later][f] = BaseTree[0][f] => BranchTree[v][f] = BaseTree[0][f]

(***************************************************************************)
(* A search whose base (index or tree) had caught up with the base commit  *)
(* it diffed against shows no copy the branch replaced: no row             *)
(* of the base holds the version of a file that the fork had and that the  *)
(* searched commit changed or deleted.  Without the condition this is the  *)
(* staleness window of docs/branch-search.md.                              *)
(***************************************************************************)
NoForkCopy ==
    \A s \in Search : search[s].pc = "blobs" /\ search[s].read >= search[s].base =>
        \A row \in search[s].rows :
            BaseTree[0][row[1]] = row[2] => BranchTree[search[s].sha][row[1]] = row[2]

(***************************************************************************)
(* What was pushed is found: where the query path may fetch, a search that *)
(* began more than a refresh interval and one fetch after a push of the    *)
(* branch resolves to that commit or a later one, when no git command      *)
(* failed and no local branch has the name.  The fetch counts because the  *)
(* stamp is taken when the refresh ends, not when the remote was asked     *)
(* (_refresh_clone).  Nothing is promised where fetching is off: the code  *)
(* refreshes the clone there too, but is meant to stay with what it has    *)
(* (fetch_enabled).                                                        *)
(***************************************************************************)
SeesPushed ==
    \A s \in Search : \A v \in BranchCommit :
        ( /\ failures = 0 /\ local = NoRef /\ fetching
          /\ search[s].pc = "diff"
          /\ v <= remote.branch /\ pushedAt[v] + Interval + FetchTimeout <= search[s].began )
        => search[s].sha >= v

(***************************************************************************)
(* Parallel searches for a branch the clone does not have yet do not fail  *)
(* one another: one that began after the branch was pushed ends unresolved *)
(* only if the remote could not be reached (resolve_commit re-checks).     *)
(***************************************************************************)
ParallelResolve ==
    \A s \in Search :
        ( /\ failures = 0 /\ fetching /\ remote.branch # NoRef
          /\ pushedAt[1] < search[s].began )
        => search[s].pc # "unresolved"

(***************************************************************************)
(* However many searches arrive, and whether or not the remote answers,    *)
(* refreshes are begun at most once per interval.                          *)
(***************************************************************************)
RefreshesThrottled ==
    refreshes <= 1 + (now - 1) \div Interval
=============================================================================
