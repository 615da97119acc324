---------------------------- MODULE BranchViewProofs ----------------------------
(***************************************************************************)
(* Proofs about branch searches, for every number of searches, commits,    *)
(* files and deployments, every refresh interval and every time a refresh  *)
(* may take.                                                               *)
(***************************************************************************)
EXTENDS BranchView, Integers, TLAPS

\* The lock is held by the search that refreshes.
LockHeld ==
    \A s \in Search : search[s].pc \in {"refreshing", "resetting", "stamp"} <=> lock = s

\* Every refresh but the first began an interval after the one before.
Spaced(t) == refreshes >= 1 /\ (refreshes - 1) * Interval + 1 <= t

Throttling ==
    /\ now >= 1
    /\ lock = Absent =>
        \/ lastRefresh = Never /\ refreshes = 0
        \/ lastRefresh \in 1..now /\ Spaced(lastRefresh)
    /\ lock # Absent => refreshBegan \in 1..now /\ Spaced(refreshBegan)

\* A ref the clone knows is on the remote, and what is diffed is a commit.
RefsExist ==
    /\ tracking <= remote.branch
    /\ \A s \in Search :
        /\ search[s].pc = "fetched" => tracking # NoRef
        /\ search[s].pc \in {"diff", "base", "blobs"} => search[s].sha # NoRef

RefInv == TypeOK /\ LockHeld /\ Throttling /\ RefsExist

-----------------------------------------------------------------------------
LEMMA CountedRefreshes ==
  ASSUME BranchAssumption, Throttling, now \in 0..MaxTime, refreshes \in Nat
  PROVE  RefreshesThrottled /\ refreshes <= now
<1> USE DEF BranchAssumption, Throttling, Spaced, RefreshesThrottled
<1>1. refreshes >= 1 => (refreshes - 1) * Interval <= now - 1
  OBVIOUS
<1>2. refreshes >= 1 => refreshes - 1 <= (now - 1) \div Interval
  BY <1>1
<1>3. (now - 1) \div Interval \in Nat /\ (now - 1) \div Interval <= now - 1
  OBVIOUS
<1>4. QED
  BY <1>2, <1>3

LEMMA RefInit == Init => RefInv
BY BranchAssumption
DEF Init, RefInv, TypeOK, LockHeld, Throttling, Spaced, RefsExist, SearchState, Fresh, Labels,
    BranchAssumption, NoRef, Never, BaseCommit, BranchCommit

\* The bounds, as numbers.
Bounds ==
    /\ MaxBase \in Nat /\ MaxBranch \in Nat /\ MaxFailures \in Nat
    /\ MaxTime \in Nat \ {0} /\ Interval \in Nat \ {0} /\ FetchTimeout \in Nat

LEMMA BoundsHold == Bounds
BY BranchAssumption DEF BranchAssumption, Bounds

(* A push adds a commit to one branch of the remote.                       *)
LEMMA Pushes ==
  ASSUME TypeOK
  PROVE  /\ PushBranch => /\ remote'.branch = remote.branch + 1 /\ remote'.base = remote.base
                          /\ remote' \in [base: BaseCommit, branch: 0..MaxBranch]
                          /\ pushedAt' \in [BranchCommit -> 0..MaxTime]
         /\ PushBase => /\ remote'.branch = remote.branch
                        /\ remote' \in [base: BaseCommit, branch: 0..MaxBranch]
<1> DEFINE Remote == [base: BaseCommit, branch: 0..MaxBranch]
<1>1. /\ remote \in Remote /\ pushedAt \in [BranchCommit -> 0..MaxTime] /\ now \in 0..MaxTime
      /\ MaxBase \in Nat /\ MaxBranch \in Nat
  BY BoundsHold DEF Bounds, TypeOK
<1> HIDE DEF Remote
<1>2. ASSUME PushBranch
      PROVE  /\ remote'.branch = remote.branch + 1 /\ remote'.base = remote.base
             /\ remote' \in Remote /\ pushedAt' \in [BranchCommit -> 0..MaxTime]
  BY <1>1, <1>2 DEF PushBranch, BaseCommit, BranchCommit, Remote
<1>3. ASSUME PushBase PROVE remote'.branch = remote.branch /\ remote' \in Remote
  BY <1>1, <1>3 DEF PushBase, BaseCommit, Remote
<1>4. QED
  BY <1>2, <1>3 DEF Remote

LEMMA TypeWorld ==
  ASSUME TypeOK, PushBranch \/ PushBase \/ IndexPass \/ Tick PROVE TypeOK'
<1>1. CASE PushBranch
  BY <1>1, Pushes DEF PushBranch, TypeOK, clone, throttle
<1>2. CASE PushBase
  BY <1>2, Pushes DEF PushBase, TypeOK, clone, throttle
<1>3. CASE IndexPass
  BY <1>3 DEF IndexPass, TypeOK, clone, throttle
<1>4. CASE Tick
  BY <1>4, BoundsHold DEF Bounds, Tick, TypeOK, clone, throttle
<1>5. QED
  BY <1>1, <1>2, <1>3, <1>4

LEMMA RefWorld ==
  ASSUME RefInv, PushBranch \/ PushBase \/ IndexPass \/ Tick PROVE RefInv'
<1>1. TypeOK'
  BY TypeWorld DEF RefInv
<1>2. LockHeld'
  BY DEF RefInv, LockHeld, PushBranch, PushBase, IndexPass, Tick, throttle
<1>3. Throttling'
  BY BoundsHold DEF RefInv, TypeOK, Bounds, Throttling, Spaced, PushBranch, PushBase, IndexPass, Tick, throttle
<1>4. RefsExist'
  <2>1. remote'.branch >= remote.branch /\ UNCHANGED <<tracking, search>>
    BY Pushes, BoundsHold
    DEF RefInv, TypeOK, Bounds, PushBranch, PushBase, IndexPass, Tick, clone
  <2>2. QED
    BY <2>1, BoundsHold, <1>1 DEF RefInv, TypeOK, Bounds, RefsExist
<1>5. QED
  BY <1>1, <1>2, <1>3, <1>4 DEF RefInv

-----------------------------------------------------------------------------
(* What a step does to the search that makes it, and to no other.          *)
LEMMA Moves ==
  ASSUME search \in [Search -> SearchState], NEW s \in Search, NEW l \in Labels, Go(s, l)
  PROVE  /\ search' \in [Search -> SearchState]
         /\ search'[s] = [search[s] EXCEPT !.pc = l] /\ search'[s].pc = l
         /\ \A t \in Search : t # s => search'[t] = search[t]
BY DEF Go, SearchState

LEMMA Becomes ==
  ASSUME search \in [Search -> SearchState], NEW s \in Search, NEW new \in SearchState,
         search' = [search EXCEPT ![s] = new]
  PROVE  /\ search' \in [Search -> SearchState]
         /\ search'[s] = new
         /\ \A t \in Search : t # s => search'[t] = search[t]
OBVIOUS

LEMMA FreshTyped == Fresh \in SearchState
BY BoundsHold DEF Bounds, Fresh, SearchState, Labels, NoRef, BaseCommit

LEMMA TypeStarts ==
  ASSUME TypeOK, NEW s \in Search,
         Answer(s) \/ \E kind \in {"semantic", "grep"} : Begin(s, kind)
  PROVE  TypeOK'
<1>1. now \in 0..MaxTime
  BY DEF TypeOK
<1>2. PICK new \in SearchState : search' = [search EXCEPT ![s] = new]
  BY FreshTyped, <1>1 DEF Answer, Begin, SearchState, Labels
<1>3. search' \in [Search -> SearchState]
  BY <1>2 DEF TypeOK
<1>4. QED
  BY <1>3 DEF TypeOK, Answer, Begin, env, clone, throttle

LEMMA TypeRefresh ==
  ASSUME TypeOK, lock = Absent /\ ~Throttled => refreshes < now, NEW s \in Search, Refresh(s)
  PROVE  TypeOK'
<1>1. search' \in [Search -> SearchState]
  BY Moves DEF TypeOK, Refresh, TakeRefresh, RefreshFetch, RefreshFails, RefreshReset,
               StampRefresh, Labels
<1>2. CASE TakeRefresh(s)
  BY <1>1, <1>2, BoundsHold DEF Bounds, TakeRefresh, TypeOK, env, clone, throttle
<1>3. CASE RefreshFetch(s)
  BY <1>1, <1>3 DEF RefreshFetch, TypeOK, env, throttle
<1>4. CASE RefreshFails(s)
  BY <1>1, <1>4, BoundsHold DEF Bounds, RefreshFails, TypeOK, env, clone, throttle
<1>5. CASE RefreshReset(s)
  BY <1>1, <1>5 DEF RefreshReset, TypeOK, env, throttle
<1>6. CASE StampRefresh(s)
  BY <1>1, <1>6 DEF StampRefresh, TypeOK, env, clone
<1>7. QED
  BY <1>2, <1>3, <1>4, <1>5, <1>6 DEF Refresh

LEMMA ResolvedTyped == ASSUME TypeOK PROVE Resolved \in 0..MaxBranch
BY DEF TypeOK, Resolved

LEMMA TypeResolve == ASSUME TypeOK, NEW s \in Search, Resolve(s) PROVE TypeOK'
<1>1. tracking \in 0..MaxBranch /\ Resolved \in 0..MaxBranch /\ search[s] \in SearchState
  BY ResolvedTyped DEF TypeOK
<1>2. CASE ResolveLocal(s) \/ RevParse(s) \/ Recheck(s)
  <2>1. \E new \in SearchState : search' = [search EXCEPT ![s] = new]
    <3>1. CASE ResolveLocal(s)
      <4> DEFINE new == [search[s] EXCEPT !.sha = Resolved, !.seen = tracking,
                                          !.pc = IF Resolved # NoRef THEN "diff"
                                                 ELSE IF fetching THEN "fetch" ELSE "unresolved"]
      <4>1. new \in SearchState
        BY <1>1 DEF SearchState, Labels
      <4>2. search' = [search EXCEPT ![s] = new]
        BY <3>1 DEF ResolveLocal
      <4>3. QED
        BY <4>1, <4>2
    <3>2. CASE RevParse(s)
      <4> DEFINE new == [search[s] EXCEPT !.sha = tracking, !.pc = "diff"]
      <4>1. new \in SearchState
        BY <1>1 DEF SearchState, Labels
      <4>2. QED
        BY <3>2, <4>1 DEF RevParse
    <3>3. CASE Recheck(s)
      <4> DEFINE new == [search[s] EXCEPT !.sha = Resolved,
                                          !.pc = IF Resolved = NoRef THEN "unresolved" ELSE "diff"]
      <4>1. new \in SearchState
        BY <1>1 DEF SearchState, Labels
      <4>2. QED
        BY <3>3, <4>1 DEF Recheck
    <3>4. QED
      BY <1>2, <3>1, <3>2, <3>3
  <2>2. search' \in [Search -> SearchState]
    BY <2>1, Becomes DEF TypeOK
  <2>3. QED
    BY <1>2, <2>2 DEF TypeOK, ResolveLocal, RevParse, Recheck, env, clone, throttle
<1>3. CASE FetchRef(s) \/ FetchRefused(s) \/ FetchUnreachable(s)
  <2>1. search' \in [Search -> SearchState]
    BY <1>3, Moves DEF TypeOK, FetchRef, FetchRefused, FetchUnreachable, Labels
  <2>2. remote.branch \in 0..MaxBranch /\ (failures < MaxFailures => failures + 1 \in 0..MaxFailures)
    BY BoundsHold DEF Bounds, TypeOK
  <2>3. QED
    BY <1>3, <2>1, <2>2 DEF TypeOK, FetchRef, FetchRefused, FetchUnreachable, env, clone, throttle
<1>4. QED
  BY <1>2, <1>3 DEF Resolve

\* Reading leaves the clone and the throttle alone.
Untouched == UNCHANGED <<env, clone, throttle, failures>>

LEMMA DiffMoves ==
  ASSUME TypeOK, NEW s \in Search, Diff(s)
  PROVE  /\ Untouched
         /\ \E new \in SearchState :
               /\ search' = [search EXCEPT ![s] = new]
               /\ new = [search[s] EXCEPT !.base = head,
                            !.scan = Included(ToScan(head, search[s].sha)),
                            !.shadow = Included(Shadow(head, search[s].sha)),
                            !.pc = "base", !.began = 0, !.seen = NoRef]
<1> DEFINE Scan == Included(ToScan(head, search[s].sha))
           Hidden == Included(Shadow(head, search[s].sha))
           new == [search[s] EXCEPT !.base = head, !.scan = Scan, !.shadow = Hidden,
                                    !.pc = "base", !.began = 0, !.seen = NoRef]
<1>1. Scan \in SUBSET Indexable /\ Hidden \in SUBSET Indexable
  BY DEF Included
<1>2. /\ head \in BaseCommit /\ search[s] \in SearchState
      /\ 0 \in 0..MaxTime /\ 0 \in 0..MaxBranch /\ "base" \in Labels
  BY BoundsHold DEF Bounds, TypeOK, Labels
<1>3. search' = [search EXCEPT ![s] = new]
  BY DEF Diff
<1> HIDE DEF Scan, Hidden
<1>4. new \in SearchState
  BY <1>1, <1>2 DEF SearchState, NoRef
<1>5. QED
  BY <1>3, <1>4 DEF Diff, Untouched, Scan, Hidden

LEMMA BaseRowsTyped ==
  ASSUME BranchAssumption, NEW b \in BaseCommit, NEW hidden PROVE BaseRows(b, hidden) \in SUBSET Row
<1>1. ASSUME NEW f \in File PROVE BaseTree[b][f] \in Content
  BY DEF Content
<1>2. ASSUME NEW f \in Indexable PROVE <<f, BaseTree[b][f]>> \in Row
  BY <1>1 DEF Row, BranchAssumption
<1>3. QED
  BY <1>2 DEF BaseRows

LEMMA QueryMoves ==
  ASSUME TypeOK, NEW s \in Search, QueryBase(s)
  PROVE  /\ Untouched
         /\ \E new \in SearchState :
               /\ search' = [search EXCEPT ![s] = new]
               /\ new = [search[s] EXCEPT !.rows = BaseRows(BaseVersion(s), search[s].shadow),
                            !.read = BaseVersion(s), !.pc = "blobs"]
<1> DEFINE Rows == BaseRows(BaseVersion(s), search[s].shadow)
           new == [search[s] EXCEPT !.rows = Rows, !.read = BaseVersion(s), !.pc = "blobs"]
<1>1. BaseVersion(s) \in BaseCommit
  BY DEF TypeOK, BaseVersion
<1>2. Rows \in SUBSET Row
  BY <1>1, BranchAssumption, BaseRowsTyped
<1>3. search' = [search EXCEPT ![s] = new]
  BY DEF QueryBase
<1>4. search[s] \in SearchState /\ "blobs" \in Labels
  BY DEF TypeOK, Labels
<1> HIDE DEF Rows
<1>5. new \in SearchState
  BY <1>1, <1>2, <1>4 DEF SearchState
<1>6. QED
  BY <1>3, <1>5 DEF QueryBase, Untouched, Rows

LEMMA BlobMoves ==
  ASSUME TypeOK, NEW s \in Search, search[s].sha # NoRef, ReadBlob(s)
  PROVE  /\ Untouched
         /\ \E f \in search[s].scan, new \in SearchState :
               /\ search' = [search EXCEPT ![s] = new]
               /\ new = [search[s] EXCEPT !.hits = @ \cup {<<f, BranchTree[search[s].sha][f]>>},
                                          !.scan = @ \ {f}]
<1>1. PICK f \in search[s].scan :
        search' = [search EXCEPT ![s].hits = @ \cup {<<f, BranchTree[search[s].sha][f]>>},
                                 ![s].scan = @ \ {f}]
  BY DEF ReadBlob, BlobVersion
<1> DEFINE hit == <<f, BranchTree[search[s].sha][f]>>
           new == [search[s] EXCEPT !.hits = @ \cup {hit}, !.scan = @ \ {f}]
<1>2. search[s] \in SearchState
  BY DEF TypeOK
<1>3. f \in File /\ search[s].sha \in BranchCommit
  BY <1>2, BranchAssumption, BoundsHold DEF SearchState, BranchAssumption, Bounds, BranchCommit, NoRef
<1>4. hit \in Row
  BY <1>3 DEF Row, Content
<1>5. search' = [search EXCEPT ![s] = new]
  BY <1>1
<1> HIDE DEF hit
<1>6. new \in SearchState
  BY <1>2, <1>4 DEF SearchState
<1>7. QED
  BY <1>5, <1>6 DEF ReadBlob, Untouched, hit

LEMMA TypeRead ==
  ASSUME TypeOK, RefsExist, NEW s \in Search, Read(s) PROVE TypeOK'
<1>1. ASSUME Untouched, \E new \in SearchState : search' = [search EXCEPT ![s] = new]
      PROVE  TypeOK'
  <2>1. search' \in [Search -> SearchState]
    BY <1>1, Becomes DEF TypeOK
  <2>2. QED
    BY <1>1, <2>1 DEF Untouched, TypeOK, env, clone, throttle
<1>2. CASE Diff(s)
  BY <1>1, <1>2, DiffMoves
<1>3. CASE QueryBase(s)
  BY <1>1, <1>3, QueryMoves
<1>4. CASE ReadBlob(s)
  <2>1. search[s].sha # NoRef
    BY <1>4 DEF ReadBlob, RefsExist
  <2>2. QED
    BY <1>1, <1>4, <2>1, BlobMoves
<1>5. CASE Answer(s)
  BY <1>5, TypeStarts
<1>6. QED
  BY <1>2, <1>3, <1>4, <1>5 DEF Read

-----------------------------------------------------------------------------
Refreshing == {"refreshing", "resetting", "stamp"}

(* The steps outside of a refresh leave the throttle alone.                *)
LEMMA Unrefreshed ==
  ASSUME TypeOK, RefsExist, NEW s \in Search,
         Resolve(s) \/ Read(s) \/ \E kind \in {"semantic", "grep"} : Begin(s, kind)
  PROVE  /\ UNCHANGED <<throttle, now>>
         /\ \A t \in Search : t # s => search'[t] = search[t]
         /\ search[s].pc \notin Refreshing /\ search'[s].pc \notin Refreshing
<1> USE DEF Refreshing
<1>1. search \in [Search -> SearchState]
  BY DEF TypeOK
<1>2. CASE Resolve(s)
  <2>1. CASE ResolveLocal(s) \/ RevParse(s) \/ Recheck(s)
    BY <1>1, <2>1 DEF ResolveLocal, RevParse, Recheck, SearchState, env, throttle
  <2>2. CASE FetchRef(s) \/ FetchRefused(s) \/ FetchUnreachable(s)
    BY <1>1, <2>2, Moves DEF FetchRef, FetchRefused, FetchUnreachable, env, throttle, Labels
  <2>3. QED
    BY <1>2, <2>1, <2>2 DEF Resolve
<1>3. CASE Read(s)
  <2>1. CASE Diff(s)
    BY <1>1, <2>1 DEF Diff, SearchState, env, throttle
  <2>2. CASE QueryBase(s)
    BY <1>1, <2>2 DEF QueryBase, SearchState, env, throttle
  <2>3. CASE ReadBlob(s)
    BY <1>1, <2>3 DEF ReadBlob, SearchState, env, throttle
  <2>4. CASE Answer(s)
    BY <1>1, <2>4 DEF Answer, Fresh, SearchState, env, throttle
  <2>5. QED
    BY <1>3, <2>1, <2>2, <2>3, <2>4 DEF Read
<1>4. CASE \E kind \in {"semantic", "grep"} : Begin(s, kind)
  BY <1>1, <1>4 DEF Begin, Fresh, env, throttle
<1>5. QED
  BY <1>2, <1>3, <1>4

LEMMA LockPreserves ==
  ASSUME RefInv, NEW s \in Search, Step(s) \/ \E kind \in {"semantic", "grep"} : Begin(s, kind)
  PROVE  LockHeld'
<1> USE DEF LockHeld
<1>1. search \in [Search -> SearchState] /\ LockHeld
  BY DEF RefInv, TypeOK
<1>2. CASE Resolve(s) \/ Read(s) \/ \E kind \in {"semantic", "grep"} : Begin(s, kind)
  BY <1>1, <1>2, Unrefreshed DEF RefInv, Refreshing, throttle
<1>3. CASE TakeRefresh(s)
  <2>1. \A t \in Search : lock # t /\ search[t].pc \notin Refreshing
    BY <1>1, <1>3, BranchAssumption DEF TakeRefresh, BranchAssumption, Refreshing
  <2>2. CASE Throttled
    BY <1>1, <1>3, <2>1, <2>2, Moves DEF TakeRefresh, Labels, throttle, Refreshing
  <2>3. CASE ~Throttled
    <3>1. Go(s, "refreshing") /\ lock' = s
      BY <1>3, <2>3 DEF TakeRefresh
    <3>2. search'[s].pc = "refreshing" /\ \A t \in Search : t # s => search'[t] = search[t]
      BY <1>1, <3>1, Moves DEF Labels
    <3>3. QED
      BY <2>1, <3>1, <3>2 DEF Refreshing
  <2>4. QED
    BY <2>2, <2>3
<1>4. CASE RefreshFetch(s)
  BY <1>1, <1>4, Moves DEF RefreshFetch, Labels, throttle
<1>5. CASE RefreshFails(s)
  BY <1>1, <1>5, Moves DEF RefreshFails, Labels, throttle
<1>6. CASE RefreshReset(s)
  BY <1>1, <1>6, Moves DEF RefreshReset, Labels, throttle
<1>7. CASE StampRefresh(s)
  BY <1>1, <1>7, Moves, BranchAssumption DEF StampRefresh, Labels, BranchAssumption
<1>8. QED
  BY <1>2, <1>3, <1>4, <1>5, <1>6, <1>7 DEF Step, Refresh

(* A refresh that begins is an interval away from the last.                *)
LEMMA Spacing ==
  ASSUME RefInv, lock = Absent, ~Throttled
  PROVE  refreshes * Interval + 1 <= now /\ refreshes < now
<1>1. /\ Interval \in Nat \ {0} /\ now \in Nat /\ refreshes \in Nat /\ lastRefresh \in Nat
  BY BoundsHold DEF Bounds, RefInv, TypeOK
<1>2. CASE refreshes = 0
  BY <1>1, <1>2 DEF RefInv, Throttling
<1>3. CASE refreshes >= 1
  <2>1. (refreshes - 1) * Interval + 1 <= lastRefresh /\ lastRefresh >= 1
    BY <1>3 DEF RefInv, Throttling, Spaced
  <2>2. now - lastRefresh >= Interval
    BY <1>1, <2>1 DEF Throttled, Never
  <2>3. refreshes * Interval = (refreshes - 1) * Interval + Interval
    BY <1>1
  <2>4. refreshes <= refreshes * Interval
    BY <1>1
  <2>5. (refreshes - 1) * Interval \in Int
    BY <1>1
  <2>6. QED
    BY <1>1, <2>1, <2>2, <2>3, <2>4, <2>5
<1>4. QED
  BY <1>1, <1>2, <1>3

LEMMA ThrottlingPreserves ==
  ASSUME RefInv, NEW s \in Search, Step(s) \/ \E kind \in {"semantic", "grep"} : Begin(s, kind)
  PROVE  Throttling'
<1>1. /\ TypeOK /\ RefsExist /\ Throttling
      /\ Interval \in Nat /\ now \in Nat /\ refreshes \in Nat /\ Absent \notin Search
  BY BoundsHold, BranchAssumption DEF Bounds, BranchAssumption, RefInv, TypeOK
<1>2. CASE UNCHANGED <<throttle, now>>
  BY <1>1, <1>2 DEF Throttling, Spaced, throttle
<1>3. CASE TakeRefresh(s) /\ ~Throttled
  <2>1. refreshes * Interval + 1 <= now
    BY <1>3, Spacing DEF TakeRefresh
  <2>2. Spaced(refreshBegan)'
    BY <1>1, <1>3, <2>1 DEF TakeRefresh, Spaced
  <2>3. QED
    BY <1>1, <1>3, <2>2 DEF TakeRefresh, Throttling, env
<1>4. CASE StampRefresh(s)
  <2>1. lock # Absent
    BY <1>1, <1>4 DEF StampRefresh, RefInv, LockHeld
  <2>2. (refreshes - 1) * Interval \in Int
    BY <1>1
  <2>3. QED
    BY <1>1, <1>4, <2>1, <2>2 DEF StampRefresh, Throttling, Spaced, env
<1>5. QED
  BY <1>1, <1>2, <1>3, <1>4, Unrefreshed
  DEF Step, Refresh, TakeRefresh, RefreshFetch, RefreshFails, RefreshReset, env

(* The searches leave the world as it is, and what the clone knows of the  *)
(* branch never goes back.                                                 *)
LEMMA CloneAdvances ==
  ASSUME RefInv, NEW s \in Search, Step(s) \/ \E kind \in {"semantic", "grep"} : Begin(s, kind)
  PROVE  /\ UNCHANGED env
         /\ tracking' \in {tracking, remote.branch} /\ tracking <= tracking'
         /\ tracking' <= remote'.branch
         /\ failures <= failures'
<1>1. /\ tracking \in Nat /\ remote.branch \in Nat /\ tracking <= remote.branch
      /\ failures \in Nat
  BY BoundsHold DEF Bounds, RefInv, TypeOK, RefsExist
<1>2. UNCHANGED env
  BY DEF Step, Refresh, TakeRefresh, RefreshFetch, RefreshFails, RefreshReset, StampRefresh,
         Resolve, ResolveLocal, FetchRef, RevParse, FetchRefused, FetchUnreachable, Recheck,
         Read, Diff, QueryBase, ReadBlob, Answer, Begin
<1>3. tracking' \in {tracking, remote.branch}
  BY DEF Step, Refresh, TakeRefresh, RefreshFetch, RefreshFails, RefreshReset, StampRefresh,
         Resolve, ResolveLocal, FetchRef, RevParse, FetchRefused, FetchUnreachable, Recheck,
         Read, Diff, QueryBase, ReadBlob, Answer, Begin, clone
<1>4. failures' \in {failures, failures + 1}
  BY DEF Step, Refresh, TakeRefresh, RefreshFetch, RefreshFails, RefreshReset, StampRefresh,
         Resolve, ResolveLocal, FetchRef, RevParse, FetchRefused, FetchUnreachable, Recheck,
         Read, Diff, QueryBase, ReadBlob, Answer, Begin
<1>5. QED
  BY <1>1, <1>2, <1>3, <1>4 DEF env

LEMMA RefsPreserve ==
  ASSUME RefInv, NEW s \in Search, Step(s) \/ \E kind \in {"semantic", "grep"} : Begin(s, kind)
  PROVE  RefsExist'
<1>1. /\ search \in [Search -> SearchState] /\ RefsExist /\ TypeOK
      /\ tracking' <= remote'.branch /\ (tracking # NoRef => tracking' # NoRef)
  BY CloneAdvances, BoundsHold DEF Bounds, RefInv, TypeOK, NoRef
<1>2. SUFFICES /\ search'[s].pc = "fetched" => tracking' # NoRef
               /\ search'[s].pc \in {"diff", "base", "blobs"} => search'[s].sha # NoRef
               /\ \A t \in Search : t # s => search'[t] = search[t]
  BY <1>1, <1>2 DEF RefsExist
<1>3. CASE Refresh(s)
  BY <1>1, <1>3, Moves DEF Refresh, TakeRefresh, RefreshFetch, RefreshFails, RefreshReset,
                           StampRefresh, Labels
<1>4. CASE ResolveLocal(s) \/ RevParse(s) \/ Recheck(s)
  BY <1>1, <1>4 DEF ResolveLocal, RevParse, Recheck, SearchState, RefsExist, clone
<1>5. CASE FetchRef(s) \/ FetchRefused(s) \/ FetchUnreachable(s)
  BY <1>1, <1>5, Moves DEF FetchRef, FetchRefused, FetchUnreachable, Labels
<1>6. CASE Diff(s)
  BY <1>1, <1>6 DEF Diff, SearchState, RefsExist
<1>7. CASE QueryBase(s)
  BY <1>1, <1>7 DEF QueryBase, SearchState, RefsExist
<1>8. CASE ReadBlob(s)
  BY <1>1, <1>8 DEF ReadBlob, SearchState, RefsExist
<1>9. CASE Answer(s) \/ \E kind \in {"semantic", "grep"} : Begin(s, kind)
  BY <1>1, <1>9 DEF Answer, Begin, Fresh
<1>10. QED
  BY <1>3, <1>4, <1>5, <1>6, <1>7, <1>8, <1>9 DEF Step, Resolve, Read

LEMMA RefPreserves == RefInv /\ [Next]_vars => RefInv'
<1> SUFFICES ASSUME RefInv, [Next]_vars PROVE RefInv'
  OBVIOUS
<1>1. CASE PushBranch \/ PushBase \/ IndexPass \/ Tick
  BY <1>1, RefWorld
<1>2. ASSUME NEW s \in Search, Step(s) \/ \E kind \in {"semantic", "grep"} : Begin(s, kind)
      PROVE  RefInv'
  <2>1. lock = Absent /\ ~Throttled => refreshes < now
    BY Spacing
  <2>2. TypeOK'
    BY <1>2, <2>1, TypeStarts, TypeRefresh, TypeResolve, TypeRead DEF Step, RefInv
  <2>3. QED
    BY <1>2, <2>2, LockPreserves, ThrottlingPreserves, RefsPreserve DEF RefInv
<1>3. CASE UNCHANGED vars
  BY <1>3 DEF vars, env, clone, throttle, RefInv, TypeOK, LockHeld, Throttling, Spaced, RefsExist
<1>4. QED
  BY <1>1, <1>2, <1>3 DEF Next

(* Branch searches are type correct; in particular a blob is only read of  *)
(* a commit, and the refreshes fit the time that has passed.               *)
THEOREM TypeCorrect == Spec => []TypeOK
<1>1. RefInv => TypeOK
  BY DEF RefInv
<1>2. QED
  BY <1>1, RefInit, RefPreserves, PTL DEF Spec

(* However many searches arrive, and whether or not the remote answers,    *)
(* refreshes are begun at most once per interval (_refresh_clone).         *)
THEOREM Throttles == Spec => []RefreshesThrottled
<1>1. RefInv => RefreshesThrottled
  <2>1. ASSUME RefInv PROVE now \in 0..MaxTime /\ refreshes \in Nat /\ Throttling
    BY <2>1, BoundsHold DEF Bounds, RefInv, TypeOK
  <2>2. QED
    BY <2>1, BranchAssumption, CountedRefreshes
<1>2. QED
  BY <1>1, RefInit, RefPreserves, PTL DEF Spec

-----------------------------------------------------------------------------
\* Blobs are read once the commit is known, and the base was read without
\* the files that commit replaces.
Reading ==
    \A s \in Search :
        /\ search[s].pc # "blobs" => search[s].hits = {}
        /\ search[s].pc \in {"base", "blobs"} =>
               search[s].shadow = Included(Shadow(search[s].base, search[s].sha))
        /\ search[s].pc = "blobs" =>
               search[s].rows = BaseRows(search[s].read, search[s].shadow)

LEMMA ReadingInit == Init => Reading /\ OneCommit
BY DEF Init, Fresh, Reading, OneCommit

(* Steps before the diff only move on, resolve, or start.                  *)
LEMMA BeforeDiff ==
  ASSUME RefInv, NEW s \in Search,
         Refresh(s) \/ Resolve(s) \/ \E kind \in {"semantic", "grep"} : Begin(s, kind)
  PROVE  /\ \A t \in Search : t # s => search'[t] = search[t]
         /\ search[s].pc # "blobs" /\ search'[s].pc \notin {"base", "blobs"}
         /\ search'[s].hits \in {search[s].hits, {}}
<1>1. search \in [Search -> SearchState]
  BY DEF RefInv, TypeOK
<1>2. CASE Refresh(s) \/ FetchRef(s) \/ FetchRefused(s) \/ FetchUnreachable(s)
  <2>1. PICK l \in Labels \ {"base", "blobs"} : Go(s, l) /\ search[s].pc # "blobs"
    BY <1>2 DEF Refresh, TakeRefresh, RefreshFetch, RefreshFails, RefreshReset, StampRefresh,
                FetchRef, FetchRefused, FetchUnreachable, Labels
  <2>2. QED
    BY <1>1, <2>1 DEF Go, SearchState
<1>3. CASE ResolveLocal(s) \/ RevParse(s) \/ Recheck(s)
  BY <1>1, <1>3 DEF ResolveLocal, RevParse, Recheck, SearchState
<1>4. CASE \E kind \in {"semantic", "grep"} : Begin(s, kind)
  BY <1>1, <1>4 DEF Begin, Fresh
<1>5. QED
  BY <1>2, <1>3, <1>4 DEF Resolve

LEMMA ReadingStep ==
  ASSUME RefInv, Reading, OneCommit, NEW s \in Search,
         Step(s) \/ \E kind \in {"semantic", "grep"} : Begin(s, kind)
  PROVE  Reading' /\ OneCommit'
<1>1. search \in [Search -> SearchState] /\ TypeOK /\ RefsExist
  BY DEF RefInv, TypeOK
<1>2. CASE Refresh(s) \/ Resolve(s) \/ \E kind \in {"semantic", "grep"} : Begin(s, kind)
  <2>1. /\ \A t \in Search : t # s => search'[t] = search[t]
        /\ search'[s].pc \notin {"base", "blobs"} /\ search'[s].hits = {}
    BY <1>2, BeforeDiff DEF Reading
  <2>2. QED
    BY <2>1 DEF Reading, OneCommit
<1>3. CASE Diff(s)
  <2>1. PICK new \in SearchState :
          /\ search' = [search EXCEPT ![s] = new]
          /\ new.shadow = Included(Shadow(new.base, new.sha)) /\ new.pc = "base"
          /\ new.hits = search[s].hits
    <3> DEFINE Scan == Included(ToScan(head, search[s].sha))
               Hidden == Included(Shadow(head, search[s].sha))
    <3>1. PICK new \in SearchState :
            /\ search' = [search EXCEPT ![s] = new]
            /\ new = [search[s] EXCEPT !.base = head, !.scan = Scan, !.shadow = Hidden,
                                       !.pc = "base", !.began = 0, !.seen = NoRef]
      BY <1>1, <1>3, DiffMoves
    <3> HIDE DEF Scan, Hidden
    <3>2. /\ new.base = head /\ new.sha = search[s].sha /\ new.shadow = Hidden /\ new.pc = "base"
          /\ new.hits = search[s].hits
      BY <1>1, <3>1 DEF SearchState
    <3>3. QED
      BY <3>1, <3>2 DEF Hidden
  <2>2. search'[s] = new /\ (\A t \in Search : t # s => search'[t] = search[t]) /\ new.hits = {}
    BY <1>1, <1>3, <2>1, Becomes DEF Diff, Reading
  <2>3. QED
    BY <2>1, <2>2 DEF Reading, OneCommit
<1>4. CASE QueryBase(s)
  <2>1. PICK new \in SearchState :
          /\ search' = [search EXCEPT ![s] = new]
          /\ new.rows = BaseRows(new.read, search[s].shadow) /\ new.pc = "blobs"
          /\ new.hits = search[s].hits /\ new.sha = search[s].sha
          /\ new.shadow = search[s].shadow /\ new.base = search[s].base
    <3> DEFINE Rows == BaseRows(BaseVersion(s), search[s].shadow)
    <3>1. PICK new \in SearchState :
            /\ search' = [search EXCEPT ![s] = new]
            /\ new = [search[s] EXCEPT !.rows = Rows, !.read = BaseVersion(s), !.pc = "blobs"]
      BY <1>1, <1>4, QueryMoves
    <3> HIDE DEF Rows
    <3>2. /\ new.rows = Rows /\ new.read = BaseVersion(s) /\ new.pc = "blobs"
          /\ new.hits = search[s].hits /\ new.sha = search[s].sha
          /\ new.shadow = search[s].shadow /\ new.base = search[s].base
      BY <1>1, <3>1 DEF SearchState
    <3>3. QED
      BY <3>1, <3>2 DEF Rows
  <2>2. /\ search'[s] = new /\ (\A t \in Search : t # s => search'[t] = search[t])
        /\ new.hits = {} /\ new.shadow = Included(Shadow(new.base, new.sha))
    BY <1>1, <1>4, <2>1, Becomes DEF QueryBase, Reading
  <2>3. QED
    BY <2>1, <2>2 DEF Reading, OneCommit
<1>5. CASE ReadBlob(s)
  <2>1. search[s].sha # NoRef /\ search[s].pc = "blobs"
    BY <1>5 DEF ReadBlob, RefInv, RefsExist
  <2>2. PICK f \in search[s].scan, new \in SearchState :
          /\ search' = [search EXCEPT ![s] = new]
          /\ new.hits = search[s].hits \cup {<<f, BranchTree[search[s].sha][f]>>}
          /\ new.sha = search[s].sha /\ new.pc = "blobs" /\ new.rows = search[s].rows
          /\ new.read = search[s].read
          /\ new.shadow = search[s].shadow /\ new.base = search[s].base
    <3>1. PICK f \in search[s].scan, new \in SearchState :
            /\ search' = [search EXCEPT ![s] = new]
            /\ new = [search[s] EXCEPT !.hits = @ \cup {<<f, BranchTree[search[s].sha][f]>>},
                                       !.scan = @ \ {f}]
      BY <1>1, <1>5, <2>1, BlobMoves
    <3> DEFINE hit == <<f, BranchTree[search[s].sha][f]>>
    <3>2. new = [search[s] EXCEPT !.hits = @ \cup {hit}, !.scan = @ \ {f}]
      BY <3>1
    <3> HIDE DEF hit
    <3>3. /\ new.hits = search[s].hits \cup {hit}
          /\ new.sha = search[s].sha /\ new.pc = search[s].pc /\ new.rows = search[s].rows
          /\ new.read = search[s].read
          /\ new.shadow = search[s].shadow /\ new.base = search[s].base
      BY <1>1, <3>2 DEF SearchState
    <3>4. QED
      BY <2>1, <3>1, <3>3 DEF hit
  <2>3. search'[s] = new /\ (\A t \in Search : t # s => search'[t] = search[t])
    BY <1>1, <2>2, Becomes
  <2>4. Reading'
    BY <2>1, <2>2, <2>3 DEF Reading
  <2>5. OneCommit'
    <3>1. \A hit \in new.hits : BranchTree[new.sha][hit[1]] = hit[2]
      BY <2>2 DEF OneCommit
    <3>2. QED
      BY <2>3, <3>1 DEF OneCommit
  <2>6. QED
    BY <2>4, <2>5
<1>6. CASE Answer(s)
  BY <1>1, <1>6 DEF Answer, Fresh, Reading, OneCommit
<1>7. QED
  BY <1>2, <1>3, <1>4, <1>5, <1>6 DEF Step, Read

LEMMA ReadingPreserves ==
  RefInv /\ Reading /\ OneCommit /\ [Next]_vars => Reading' /\ OneCommit'
<1>1. ASSUME Reading, OneCommit, UNCHANGED search PROVE Reading' /\ OneCommit'
  BY <1>1 DEF Reading, OneCommit
<1>2. PushBranch \/ PushBase \/ IndexPass \/ Tick \/ UNCHANGED vars => UNCHANGED search
  BY DEF PushBranch, PushBase, IndexPass, Tick, vars
<1>3. QED
  BY <1>1, <1>2, ReadingStep DEF Next

(* Every blob a search read is of the one commit its branch name was       *)
(* resolved to, however pushes and fetches move the branch meanwhile       *)
(* (resolve_branch pins the name to a SHA).                                *)
THEOREM OneCommitSearched == Spec => []OneCommit
BY RefInit, RefPreserves, ReadingInit, ReadingPreserves, PTL DEF Spec

LEMMA NoForkCopyRead ==
  ASSUME RefInv, Reading, MergesTakeOver, Merged \in [BaseCommit -> 0..MaxBranch]
  PROVE  NoForkCopy
<1> SUFFICES ASSUME NEW s \in Search, search[s].pc = "blobs", search[s].read >= search[s].base,
                    NEW row \in search[s].rows, BaseTree[0][row[1]] = row[2]
             PROVE  BranchTree[search[s].sha][row[1]] = row[2]
  BY DEF NoForkCopy
<1> DEFINE v == search[s].sha
           b == search[s].base
           later == search[s].read
<1>1. /\ v \in BranchCommit /\ b \in BaseCommit /\ later \in BaseCommit /\ b <= later
      /\ Merged[b] \in Nat
  <2>1. search[s] \in SearchState /\ v # NoRef
    BY DEF RefInv, TypeOK, RefsExist
  <2>2. v \in 0..MaxBranch /\ b \in BaseCommit /\ later \in BaseCommit
    BY <2>1 DEF SearchState
  <2>3. Merged[b] \in Nat
    BY <2>2, BoundsHold DEF Bounds
  <2>4. QED
    BY <2>1, <2>2, <2>3, BoundsHold DEF Bounds, BranchCommit, BaseCommit, NoRef
<1>2. PICK f \in Indexable : /\ row = <<f, BaseTree[later][f]>> /\ BaseTree[later][f] # Absent
                             /\ f \notin Included(Shadow(b, v))
  BY DEF Reading, BaseRows
<1>3. BaseTree[later][f] = BaseTree[0][f]
  BY <1>2
<1>4. f \in File /\ f \notin Shadow(b, v)
  BY <1>2, BranchAssumption DEF Included, BranchAssumption
<1>5. CASE Merged[b] >= v
  BY <1>1, <1>2, <1>3, <1>5 DEF MergesTakeOver, BranchCommit
<1>6. CASE Merged[b] < v
  <2>1. MergeBase(b, v)[f] = BaseTree[0][f]
    <3>1. CASE Merged[b] > 0
      <4>1. BranchTree[Merged[b]][f] = BaseTree[0][f]
        BY <1>1, <1>2, <1>3, <3>1 DEF MergesTakeOver
      <4>2. MergeBase(b, v) = BranchTree[Merged[b]]
        BY <1>1, <1>6, <3>1 DEF MergeBase, BranchCommit
      <4>3. QED
        BY <4>1, <4>2
    <3>2. CASE Merged[b] = 0
      <4>1. MergeBase(b, v) = BaseTree[0]
        BY <1>1, <1>6, <3>2 DEF MergeBase, BranchCommit
      <4>2. QED
        BY <4>1
    <3>3. QED
      BY <1>1, <3>1, <3>2
  <2>2. QED
    BY <1>2, <1>3, <1>4, <2>1 DEF Shadow, Modified, Deleted
<1>7. QED
  BY <1>1, <1>5, <1>6 DEF BranchCommit

(* A search whose base had caught up with what it diffed against shows no  *)
(* version of the fork that the searched commit replaced, when merges take *)
(* over what they merge (Project.search, _scan_diff).                      *)
THEOREM NoForkCopyShown ==
  ASSUME MergesTakeOver, Merged \in [BaseCommit -> 0..MaxBranch]
  PROVE  Spec => []NoForkCopy
<1>1. RefInv /\ Reading => NoForkCopy
  BY NoForkCopyRead
<1>2. QED
  BY <1>1, RefInit, RefPreserves, ReadingInit, ReadingPreserves, PTL DEF Spec

-----------------------------------------------------------------------------
\* What was pushed before t is known to the clone.
KnownSince(t) ==
    \A v \in BranchCommit : v <= remote.branch /\ pushedAt[v] < t => v <= tracking

\* A push that a search must see was made before this.
Horizon(s) == search[s].began + 1 - (Interval + FetchTimeout)

\* No push, and no search that runs, is of the future.
Past ==
    /\ \A v \in BranchCommit : v <= remote.branch => pushedAt[v] <= now
    /\ \A s \in Search :
        /\ search[s].began <= now
        /\ search[s].pc \in Refreshing => search[s].began <= refreshBegan
    /\ lock # Absent => now - refreshBegan <= FetchTimeout

\* While no git command has failed: the last refresh brought all that was
\* pushed before it began, one that has fetched too, and so a search that
\* resolves its branch finds there what it must see.
Knowing ==
    failures = 0 =>
        /\ lock = Absent /\ lastRefresh # Never => KnownSince(lastRefresh - FetchTimeout)
        /\ \A s \in Search :
            /\ search[s].pc \in {"resetting", "stamp"} => KnownSince(refreshBegan)
            /\ search[s].pc \in {"resolve", "fetch", "fetched", "recheck"} => KnownSince(Horizon(s))

\* A fetch of one branch begins without its ref; where it failed, another
\* one has written it, or the branch was pushed after the search began.
Fetching ==
    \A s \in Search :
        /\ search[s].pc = "fetch" => search[s].seen = NoRef
        /\ ( /\ search[s].pc = "recheck" /\ failures = 0
             /\ remote.branch # NoRef /\ pushedAt[1] < search[s].began ) => tracking # NoRef

SeeInv == Past /\ Knowing /\ Fetching /\ SeesPushed /\ ParallelResolve

LEMMA SeeInit == Init => SeeInv
BY BoundsHold
DEF Bounds, Init, Fresh, SeeInv, Past, Knowing, KnownSince, Horizon, Fetching, SeesPushed, ParallelResolve,
    Refreshing, BranchCommit, NoRef, Never

LEMMA Numbers ==
  ASSUME RefInv
  PROVE  /\ Interval \in Nat \ {0} /\ FetchTimeout \in Nat /\ MaxBranch \in Nat
         /\ now \in Nat /\ lastRefresh \in Nat /\ refreshBegan \in Nat /\ failures \in Nat
         /\ tracking \in Nat /\ remote.branch \in 0..MaxBranch
         /\ \A v \in BranchCommit : v \in Nat /\ pushedAt[v] \in Nat
         /\ \A s \in Search : search[s].began \in Nat /\ search[s].sha \in Nat
<1>1. /\ TypeOK /\ Bounds /\ BranchCommit = 1..MaxBranch
  BY BoundsHold DEF RefInv, BranchCommit
<1>2. remote.branch \in 0..MaxBranch
  BY <1>1 DEF TypeOK
<1>3. \A v \in BranchCommit : v \in Nat /\ pushedAt[v] \in Nat
  BY <1>1 DEF TypeOK, Bounds
<1>4. ASSUME NEW s \in Search PROVE search[s].began \in Nat /\ search[s].sha \in Nat
  <2>1. search[s] \in SearchState
    BY <1>1 DEF TypeOK
  <2>2. search[s].began \in 0..MaxTime /\ search[s].sha \in 0..MaxBranch
    BY <2>1 DEF SearchState
  <2>3. QED
    BY <1>1, <2>2 DEF Bounds
<1>5. QED
  BY <1>1, <1>2, <1>3, <1>4 DEF TypeOK, Bounds

(* What is known stays known: the clone does not forget, and what is       *)
(* pushed later is not pushed before t.                                    *)
LEMMA KnownStays ==
  ASSUME RefInv, RefInv', NEW t \in Int, KnownSince(t), t <= now,
         tracking <= tracking',
         UNCHANGED <<remote.branch, pushedAt>> \/ PushBranch
  PROVE  KnownSince(t)'
<1>1. CASE UNCHANGED <<remote.branch, pushedAt>>
  BY <1>1, Numbers DEF KnownSince, RefInv, TypeOK, BranchCommit, Bounds
<1>2. CASE PushBranch
  BY <1>2, Numbers, Pushes DEF KnownSince, PushBranch, RefInv, TypeOK
<1>3. QED
  BY <1>1, <1>2

(* The horizon of a search, and when the lock is held or was left, are not *)
(* in the future.                                                          *)
LEMMA NotAhead ==
  ASSUME RefInv, Past
  PROVE  /\ \A s \in Search : Horizon(s) \in Int /\ Horizon(s) <= now
         /\ lock = Absent /\ lastRefresh # Never => lastRefresh - FetchTimeout <= now
         /\ \A s \in Search : search[s].pc \in Refreshing => refreshBegan <= now /\ lock # Absent
<1>1. \A s \in Search : Horizon(s) \in Int /\ Horizon(s) <= now
  BY Numbers DEF Past, Horizon
<1>2. lock = Absent /\ lastRefresh # Never => lastRefresh - FetchTimeout <= now
  BY Numbers DEF RefInv, Throttling
<1>3. ASSUME NEW s \in Search, search[s].pc \in Refreshing PROVE lock # Absent
  BY <1>3, BranchAssumption DEF RefInv, LockHeld, Refreshing, BranchAssumption
<1>4. QED
  BY <1>1, <1>2, <1>3, Numbers DEF RefInv, Throttling

(* A commit pushed now is not one that a search that runs must see.        *)
LEMMA SeePush ==
  ASSUME RefInv, RefInv', SeeInv, PushBranch PROVE SeeInv'
<1>1. /\ remote'.branch = remote.branch + 1
      /\ \A v \in BranchCommit : v <= remote.branch => pushedAt'[v] = pushedAt[v]
      /\ remote'.branch \in BranchCommit /\ pushedAt'[remote'.branch] = now
      /\ UNCHANGED <<now, search, lock, lastRefresh, refreshBegan, tracking, failures, local, fetching>>
  BY Pushes, Numbers DEF RefInv, TypeOK, PushBranch, BranchCommit, clone, throttle
<1>2. \A v \in BranchCommit : v <= remote'.branch =>
        v <= remote.branch \/ v = remote'.branch
  BY <1>1, Numbers
<1>3. Past'
  BY <1>1, <1>2, Numbers DEF SeeInv, Past
<1>4. Knowing'
  <2>1. ASSUME NEW t \in Int, KnownSince(t), t <= now PROVE KnownSince(t)'
    BY <1>1, <2>1, KnownStays, Numbers
  <2>2. lastRefresh - FetchTimeout \in Int /\ refreshBegan \in Int
    BY Numbers
  <2>3. \A s \in Search : Horizon(s)' = Horizon(s)
    BY <1>1 DEF Horizon
  <2>4. QED
    BY <1>1, <2>1, <2>2, <2>3, NotAhead DEF SeeInv, Knowing, Refreshing, KnownSince
<1>5. \A s \in Search :
        remote'.branch # NoRef /\ pushedAt'[1] < search[s].began =>
            remote.branch # NoRef /\ pushedAt[1] < search[s].began
  BY <1>1, Numbers DEF SeeInv, Past, NoRef, BranchCommit
<1>6. Fetching' /\ ParallelResolve'
  BY <1>1, <1>5 DEF SeeInv, Fetching, ParallelResolve
<1>7. SeesPushed'
  <2>1. \A s \in Search : pushedAt'[remote'.branch] + Interval + FetchTimeout > search[s].began
    BY <1>1, Numbers DEF SeeInv, Past
  <2>2. QED
    BY <1>1, <1>2, <2>1, Numbers DEF SeeInv, SeesPushed
<1>8. QED
  BY <1>3, <1>4, <1>6, <1>7 DEF SeeInv

LEMMA SeeWorld ==
  ASSUME RefInv, RefInv', SeeInv, PushBase \/ IndexPass \/ Tick \/ UNCHANGED vars PROVE SeeInv'
<1>1. /\ UNCHANGED <<remote.branch, pushedAt, search, lock, lastRefresh, refreshBegan, tracking,
                     failures, local, fetching>>
      /\ now <= now' /\ now' \in Nat /\ (lock # Absent => now' - refreshBegan <= FetchTimeout)
  BY Pushes, Numbers
  DEF SeeInv, Past, RefInv, PushBase, IndexPass, Tick, vars, env, clone, throttle
<1>2. Past'
  BY <1>1, Numbers DEF SeeInv, Past
<1>3. Knowing'
  BY <1>1 DEF SeeInv, Knowing, KnownSince, Horizon
<1>4. Fetching' /\ SeesPushed' /\ ParallelResolve'
  BY <1>1 DEF SeeInv, Fetching, SeesPushed, ParallelResolve
<1>5. QED
  BY <1>2, <1>3, <1>4 DEF SeeInv

(* What a search step leaves alone, apart from the search itself.          *)
LEMMA Frame ==
  ASSUME RefInv, NEW s \in Search, Step(s) \/ \E kind \in {"semantic", "grep"} : Begin(s, kind)
  PROVE  /\ UNCHANGED <<remote, pushedAt, now, local, fetching>>
         /\ tracking <= tracking' /\ tracking' \in Nat
         /\ failures' \in Nat /\ (failures' = 0 => failures = 0)
         /\ \A t \in Search : t # s => search'[t] = search[t]
<1>1. /\ UNCHANGED env /\ tracking <= tracking' /\ failures <= failures'
      /\ tracking' \in {tracking, remote.branch}
  BY CloneAdvances
<1>2. failures' \in {failures, failures + 1}
  BY DEF Step, Refresh, TakeRefresh, RefreshFetch, RefreshFails, RefreshReset, StampRefresh,
         Resolve, ResolveLocal, FetchRef, RevParse, FetchRefused, FetchUnreachable, Recheck,
         Read, Diff, QueryBase, ReadBlob, Answer, Begin
<1>3. \A t \in Search : t # s => search'[t] = search[t]
  <2>1. CASE Refresh(s)
    BY <2>1, BeforeDiff
  <2>2. CASE ~Refresh(s)
    BY <2>2, Unrefreshed DEF RefInv, Step
  <2>3. QED
    BY <2>1, <2>2
<1>4. QED
  BY <1>1, <1>2, <1>3, Numbers DEF env

LEMMA PastStep ==
  ASSUME RefInv, Past, NEW s \in Search, Step(s) \/ \E kind \in {"semantic", "grep"} : Begin(s, kind)
  PROVE  Past'
<1> USE DEF Past, Refreshing
<1>1. /\ search \in [Search -> SearchState]
      /\ UNCHANGED <<remote, pushedAt, now>>
      /\ \A t \in Search : t # s => search'[t] = search[t]
  BY Frame DEF RefInv, TypeOK
<1>2. CASE Resolve(s) \/ Read(s) \/ \E kind \in {"semantic", "grep"} : Begin(s, kind)
  <2>1. UNCHANGED throttle /\ search'[s].pc \notin Refreshing
    BY <1>2, Unrefreshed DEF RefInv
  <2>2. search'[s].began \in {search[s].began, 0, now}
    <3>1. CASE ResolveLocal(s) \/ RevParse(s) \/ Recheck(s)
      BY <1>1, <3>1 DEF ResolveLocal, RevParse, Recheck, SearchState
    <3>2. CASE FetchRef(s) \/ FetchRefused(s) \/ FetchUnreachable(s)
      BY <1>1, <3>2 DEF FetchRef, FetchRefused, FetchUnreachable, Go, SearchState
    <3>3. CASE Diff(s)
      BY <1>1, <3>3 DEF Diff, SearchState
    <3>4. CASE QueryBase(s)
      BY <1>1, <3>4 DEF QueryBase, SearchState
    <3>5. CASE ReadBlob(s)
      BY <1>1, <3>5 DEF ReadBlob, SearchState
    <3>6. CASE Answer(s) \/ \E kind \in {"semantic", "grep"} : Begin(s, kind)
      BY <1>1, <3>6 DEF Answer, Begin, Fresh
    <3>7. QED
      BY <1>2, <3>1, <3>2, <3>3, <3>4, <3>5, <3>6 DEF Resolve, Read
  <2>3. QED
    BY <1>1, <2>1, <2>2, Numbers DEF throttle
<1>3. CASE Refresh(s)
  <2>1. search'[s].began = search[s].began
    BY <1>1, <1>3 DEF Refresh, TakeRefresh, RefreshFetch, RefreshFails, RefreshReset, StampRefresh,
                      Go, SearchState
  <2>2. CASE TakeRefresh(s) /\ ~Throttled
    <3>1. \A t \in Search : t # s => search'[t].pc \notin Refreshing
      BY <1>1, <2>2, NotAhead DEF TakeRefresh
    <3>2. refreshBegan' = now
      BY <2>2 DEF TakeRefresh
    <3>3. QED
      BY <1>1, <2>1, <3>1, <3>2, Numbers
  <2>3. CASE TakeRefresh(s) /\ Throttled
    BY <1>1, <2>1, <2>3, Moves DEF TakeRefresh, throttle, Labels
  <2>4. CASE StampRefresh(s)
    BY <1>1, <2>1, <2>4, Moves DEF StampRefresh, Labels
  <2>5. CASE RefreshFetch(s) \/ RefreshFails(s) \/ RefreshReset(s)
    BY <1>1, <2>1, <2>5 DEF RefreshFetch, RefreshFails, RefreshReset, throttle
  <2>6. QED
    BY <1>3, <2>2, <2>3, <2>4, <2>5 DEF Refresh
<1>4. QED
  BY <1>2, <1>3 DEF Step

LEMMA KnownEarlier ==
  ASSUME RefInv, NEW t \in Int, NEW u \in Int, u <= t, KnownSince(t) PROVE KnownSince(u)
BY Numbers DEF KnownSince

\* What Knowing says of one search.
Knows(s) ==
    /\ search[s].pc \in {"resetting", "stamp"} => KnownSince(refreshBegan)
    /\ search[s].pc \in {"resolve", "fetch", "fetched", "recheck"} => KnownSince(Horizon(s))

(* What a refresh that ends, or one that was throttled, brought is what    *)
(* the search must see.                                                    *)
LEMMA RefreshKnows ==
  ASSUME RefInv, RefInv', Past, Knowing, failures' = 0, NEW s \in Search, Refresh(s)
  PROVE  /\ Knows(s)'
         /\ lock' = Absent /\ lastRefresh' # Never => KnownSince(lastRefresh - FetchTimeout)'
         /\ \A t \in Search : search[t].pc \in {"resetting", "stamp"} => UNCHANGED refreshBegan
<1>1. /\ search \in [Search -> SearchState] /\ failures = 0
      /\ UNCHANGED <<remote, pushedAt, now>> /\ tracking <= tracking'
  BY Frame DEF RefInv, TypeOK, Step
<1>2. \A t \in Int : KnownSince(t) /\ t <= now => KnownSince(t)'
  BY <1>1, KnownStays
<1>3. search'[s].began = search[s].began /\ Horizon(s)' = Horizon(s) /\ Horizon(s) \in Int
  BY <1>1, NotAhead DEF Refresh, TakeRefresh, RefreshFetch, RefreshFails, RefreshReset, StampRefresh,
                    Go, SearchState, Horizon
<1>4. CASE TakeRefresh(s) /\ Throttled
  <2>1. KnownSince(lastRefresh - FetchTimeout)
    BY <1>1, <1>4 DEF TakeRefresh, Throttled, Knowing
  <2>2. Horizon(s) <= lastRefresh - FetchTimeout
    BY <1>4, Numbers DEF Throttled, Horizon, Past
  <2>3. KnownSince(Horizon(s))
    BY <1>3, <2>1, <2>2, KnownEarlier, Numbers
  <2>4. KnownSince(Horizon(s))' /\ KnownSince(lastRefresh - FetchTimeout)'
    <3>1. UNCHANGED <<lastRefresh, tracking>>
      BY <1>4 DEF TakeRefresh, throttle, clone
    <3>2. QED
      BY <1>1, <1>3, <2>1, <2>3, <3>1 DEF KnownSince
  <2>5. search'[s].pc = "resolve" /\ UNCHANGED throttle
    BY <1>1, <1>4, Moves DEF TakeRefresh, Labels
  <2>6. QED
    BY <2>4, <2>5 DEF Knows, throttle
<1>5. CASE TakeRefresh(s) /\ ~Throttled
  <2>1. lock' # Absent
    BY <1>5, BranchAssumption DEF TakeRefresh, BranchAssumption
  <2>2. \A t \in Search : search[t].pc \notin {"resetting", "stamp"}
    BY <1>5, NotAhead DEF TakeRefresh, Refreshing
  <2>3. search'[s].pc = "refreshing"
    BY <1>1, <1>5, Moves DEF TakeRefresh, Labels
  <2>4. QED
    BY <2>1, <2>2, <2>3 DEF Knows
<1>6. CASE RefreshFetch(s)
  <2>1. tracking' = remote.branch /\ UNCHANGED throttle /\ search'[s].pc \in {"resetting", "stamp"}
    BY <1>1, <1>6, Moves DEF RefreshFetch, Labels
  <2>2. \A t : KnownSince(t)'
    BY <1>1, <2>1 DEF KnownSince
  <2>3. QED
    BY <2>1, <2>2 DEF Knows, throttle
<1>7. CASE RefreshFails(s)
  BY <1>1, <1>7 DEF RefreshFails
<1>8. CASE RefreshReset(s)
  <2>1. /\ UNCHANGED throttle /\ UNCHANGED tracking
        /\ search[s].pc = "resetting" /\ search'[s].pc = "stamp"
    BY <1>1, <1>8, Moves DEF RefreshReset, Labels
  <2>2. KnownSince(refreshBegan)
    BY <1>1, <2>1 DEF Knowing
  <2>3. KnownSince(refreshBegan)'
    BY <1>1, <2>1, <2>2 DEF KnownSince, throttle
  <2>4. lock # Absent
    BY <2>1, NotAhead DEF Refreshing
  <2>5. QED
    BY <2>1, <2>3, <2>4 DEF Knows, throttle
<1>9. CASE StampRefresh(s)
  <2>1. /\ lastRefresh' = now /\ UNCHANGED <<tracking, refreshBegan>>
        /\ search[s].pc = "stamp" /\ search'[s].pc = "resolve"
    BY <1>1, <1>9, Moves DEF StampRefresh, Labels, clone
  <2>2. KnownSince(refreshBegan) /\ refreshBegan >= now - FetchTimeout /\ refreshBegan >= Horizon(s)
    <3>1. lock # Absent /\ search[s].began <= refreshBegan
      BY <2>1, NotAhead DEF Past, Refreshing
    <3>2. QED
      BY <1>1, <2>1, <3>1, Numbers DEF Knowing, Past, Horizon
  <2>3. KnownSince(now - FetchTimeout) /\ KnownSince(Horizon(s))
    BY <1>3, <2>2, KnownEarlier, Numbers
  <2>4. KnownSince(lastRefresh - FetchTimeout)' /\ KnownSince(Horizon(s))'
    BY <1>1, <1>3, <2>1, <2>3 DEF KnownSince
  <2>5. QED
    BY <2>1, <2>4 DEF Knows
<1>10. QED
  BY <1>4, <1>5, <1>6, <1>7, <1>8, <1>9 DEF Refresh

(* Resolving keeps what is known: the horizon of a search does not move.   *)
LEMMA ResolveKnows ==
  ASSUME RefInv, RefInv', Past, Knowing, failures' = 0, NEW s \in Search, Resolve(s)
  PROVE  Knows(s)'
<1>1. /\ search \in [Search -> SearchState] /\ failures = 0
      /\ UNCHANGED <<remote, pushedAt, now>> /\ tracking <= tracking'
  BY Frame DEF RefInv, TypeOK, Step
<1>2. search[s].pc \in {"resolve", "fetch", "fetched", "recheck"}
  BY DEF Resolve, ResolveLocal, FetchRef, RevParse, FetchRefused, FetchUnreachable, Recheck
<1>3. KnownSince(Horizon(s)) /\ Horizon(s) \in Int /\ Horizon(s) <= now
  BY <1>1, <1>2, NotAhead DEF Knowing
<1>4. KnownSince(Horizon(s))' /\ search'[s].pc \notin {"resetting", "stamp"}
  <2>1. search'[s].began = search[s].began
    <3>1. CASE ResolveLocal(s) \/ RevParse(s) \/ Recheck(s)
      BY <1>1, <3>1 DEF ResolveLocal, RevParse, Recheck, SearchState
    <3>2. CASE FetchRef(s) \/ FetchRefused(s) \/ FetchUnreachable(s)
      BY <1>1, <3>2 DEF FetchRef, FetchRefused, FetchUnreachable, Go, SearchState
    <3>3. QED
      BY <3>1, <3>2 DEF Resolve
  <2>2. Horizon(s)' = Horizon(s)
    BY <2>1 DEF Horizon
  <2>3. \A v \in BranchCommit : tracking \in Nat /\ tracking' \in Nat /\ v \in Nat
    BY Numbers, Frame DEF Step
  <2>4. KnownSince(Horizon(s))'
    BY <1>1, <1>3, <2>2, <2>3 DEF KnownSince
  <2>5. search'[s].pc \notin Refreshing
    BY Unrefreshed DEF RefInv
  <2>6. QED
    BY <2>4, <2>5 DEF Refreshing
<1>5. QED
  BY <1>4 DEF Knows

LEMMA KnowingStep ==
  ASSUME RefInv, RefInv', Past, Knowing, NEW s \in Search,
         Step(s) \/ \E kind \in {"semantic", "grep"} : Begin(s, kind)
  PROVE  Knowing'
<1> SUFFICES ASSUME failures' = 0 PROVE Knowing'
  BY DEF Knowing
<1>1. /\ search \in [Search -> SearchState] /\ failures = 0
      /\ UNCHANGED <<remote, pushedAt, now>> /\ tracking <= tracking'
      /\ \A t \in Search : t # s => search'[t] = search[t]
  BY Frame DEF RefInv, TypeOK
<1>2. ASSUME NEW t \in Int, KnownSince(t), t <= now PROVE KnownSince(t)'
  BY <1>1, <1>2, KnownStays
<1>3. CASE Refresh(s)
  <2>1. ASSUME NEW t \in Search, t # s PROVE Knows(t)'
    <3>1. search'[t] = search[t] /\ Horizon(t)' = Horizon(t)
      BY <1>1, <2>1 DEF Horizon
    <3>2. CASE search[t].pc \in {"resetting", "stamp"}
      <4>1. KnownSince(refreshBegan)' /\ UNCHANGED refreshBegan
        <5>1. KnownSince(refreshBegan) /\ refreshBegan <= now /\ refreshBegan \in Int
          BY <1>1, <3>2, NotAhead, Numbers DEF Knowing, Refreshing
        <5>2. UNCHANGED refreshBegan
          BY <1>3, <3>2, RefreshKnows
        <5>3. QED
          BY <1>2, <5>1, <5>2
      <4>2. QED
        BY <3>1, <3>2, <4>1 DEF Knows
    <3>3. CASE search[t].pc \in {"resolve", "fetch", "fetched", "recheck"}
      <4>1. KnownSince(Horizon(t)) /\ Horizon(t) <= now /\ Horizon(t) \in Int
        BY <1>1, <3>3, NotAhead DEF Knowing
      <4>2. KnownSince(Horizon(t))'
        BY <1>2, <3>1, <4>1
      <4>3. QED
        BY <3>1, <3>3, <4>2 DEF Knows
    <3>4. QED
      BY <3>1, <3>2, <3>3 DEF Knows
  <2>2. Knows(s)' /\ (lock' = Absent /\ lastRefresh' # Never => KnownSince(lastRefresh - FetchTimeout)')
    BY <1>3, RefreshKnows
  <2>3. QED
    BY <2>1, <2>2 DEF Knowing, Knows
<1>4. CASE Resolve(s) \/ Read(s) \/ \E kind \in {"semantic", "grep"} : Begin(s, kind)
  <2>1. UNCHANGED throttle
    BY <1>4, Unrefreshed DEF RefInv
  <2>2. ASSUME NEW t \in Search, t # s PROVE Knows(t)'
    <3>1. search'[t] = search[t] /\ Horizon(t)' = Horizon(t)
      BY <1>1, <2>2 DEF Horizon
    <3>2. search[t].pc \in {"resetting", "stamp"} => KnownSince(refreshBegan)'
      BY <1>1, <1>2, <2>1, NotAhead, Numbers DEF Knowing, Refreshing, throttle
    <3>3. search[t].pc \in {"resolve", "fetch", "fetched", "recheck"} => KnownSince(Horizon(t))'
      BY <1>1, <1>2, <3>1, NotAhead DEF Knowing
    <3>4. QED
      BY <3>1, <3>2, <3>3 DEF Knows
  <2>3. Knows(s)'
    <3>1. CASE Resolve(s)
      BY <3>1, ResolveKnows
    <3>2. CASE Read(s) \/ \E kind \in {"semantic", "grep"} : Begin(s, kind)
      <4>1. search'[s].pc \in {"throttle", "base", "blobs", "done"}
        <5>1. CASE Diff(s)
          BY <1>1, <5>1 DEF Diff, SearchState
        <5>2. CASE QueryBase(s)
          BY <1>1, <5>2 DEF QueryBase, SearchState
        <5>3. CASE ReadBlob(s)
          BY <1>1, <5>3 DEF ReadBlob, SearchState
        <5>4. CASE Answer(s) \/ \E kind \in {"semantic", "grep"} : Begin(s, kind)
          BY <1>1, <5>4 DEF Answer, Begin, Fresh
        <5>5. QED
          BY <3>2, <5>1, <5>2, <5>3, <5>4 DEF Read
      <4>2. QED
        BY <4>1 DEF Knows
    <3>3. QED
      BY <1>4, <3>1, <3>2
  <2>4. lock' = Absent /\ lastRefresh' # Never => KnownSince(lastRefresh - FetchTimeout)'
    BY <1>1, <1>2, <2>1, NotAhead, Numbers DEF Knowing, throttle
  <2>5. QED
    BY <2>2, <2>3, <2>4 DEF Knowing, Knows
<1>5. QED
  BY <1>3, <1>4 DEF Step

(* Where a search may get to the diff, to a failed fetch, or nowhere.      *)
LEMMA Outcomes ==
  ASSUME RefInv, NEW s \in Search, Step(s) \/ \E kind \in {"semantic", "grep"} : Begin(s, kind)
  PROVE  /\ search'[s].pc = "diff" => /\ Resolve(s) /\ search'[s].began = search[s].began
                                      /\ search'[s].sha \in {Resolved, tracking}
         /\ search'[s].pc = "fetch" => Resolved = NoRef /\ search'[s].seen = tracking
         /\ search'[s].pc = "recheck" => /\ FetchRefused(s) \/ failures' # 0
                                         /\ search'[s].began = search[s].began
         /\ search'[s].pc = "unresolved" =>
               /\ Resolved = NoRef /\ search'[s].began = search[s].began
               /\ ~fetching \/ search[s].pc = "recheck"
<1>1. search \in [Search -> SearchState] /\ failures \in Nat
  BY Numbers DEF RefInv, TypeOK
<1>2. CASE ResolveLocal(s)
  BY <1>1, <1>2 DEF ResolveLocal, SearchState, Resolve
<1>3. CASE RevParse(s)
  BY <1>1, <1>3 DEF RevParse, SearchState, Resolve
<1>4. CASE Recheck(s)
  BY <1>1, <1>4 DEF Recheck, SearchState, Resolve
<1>5. CASE FetchRef(s) \/ FetchRefused(s) \/ FetchUnreachable(s)
  BY <1>1, <1>5 DEF FetchRef, FetchRefused, FetchUnreachable, Go, SearchState
<1>6. CASE Refresh(s)
  BY <1>1, <1>6, Moves DEF Refresh, TakeRefresh, RefreshFetch, RefreshFails, RefreshReset,
                           StampRefresh, Labels
<1>7. CASE Diff(s)
  BY <1>1, <1>7 DEF Diff, SearchState
<1>8. CASE QueryBase(s)
  BY <1>1, <1>8 DEF QueryBase, SearchState
<1>9. CASE ReadBlob(s)
  BY <1>1, <1>9 DEF ReadBlob, SearchState
<1>10. CASE Answer(s) \/ \E kind \in {"semantic", "grep"} : Begin(s, kind)
  BY <1>1, <1>10 DEF Answer, Begin, Fresh
<1>11. QED
  BY <1>2, <1>3, <1>4, <1>5, <1>6, <1>7, <1>8, <1>9, <1>10 DEF Step, Resolve, Read

LEMMA SeeStep ==
  ASSUME RefInv, RefInv', SeeInv, NEW s \in Search,
         Step(s) \/ \E kind \in {"semantic", "grep"} : Begin(s, kind)
  PROVE  SeeInv'
<1>1. /\ UNCHANGED <<remote, pushedAt, now, local, fetching>>
      /\ \A t \in Search : t # s => search'[t] = search[t]
      /\ failures' = 0 => failures = 0
      /\ tracking # NoRef => tracking' # NoRef
  BY Frame, Numbers DEF NoRef
<1>2. Past' /\ Knowing'
  BY PastStep, KnowingStep DEF SeeInv
<1>3. Resolved = NoRef => tracking = NoRef
  BY DEF Resolved
<1>4. Fetching'
  <2>1. search'[s].pc = "fetch" => search'[s].seen = NoRef
    BY <1>3, Outcomes
  <2>2. ASSUME search'[s].pc = "recheck", failures' = 0, remote.branch # NoRef,
               pushedAt[1] < search'[s].began
        PROVE  tracking' # NoRef
    <3>1. FetchRefused(s)
      BY <2>2, Outcomes
    <3>2. search[s].seen = NoRef
      BY <3>1 DEF FetchRefused, SeeInv, Fetching
    <3>3. tracking # NoRef
      BY <2>2, <3>1, <3>2 DEF FetchRefused
    <3>4. QED
      BY <1>1, <3>3
  <2>3. QED
    BY <1>1, <2>1, <2>2 DEF SeeInv, Fetching
<1>5. SeesPushed'
  <2>1. ASSUME search'[s].pc = "diff", failures' = 0, local = NoRef, NEW v \in BranchCommit,
               v <= remote.branch, pushedAt[v] + Interval + FetchTimeout <= search'[s].began
        PROVE  search'[s].sha >= v
    <3>1. /\ Resolve(s) /\ search'[s].began = search[s].began
          /\ search'[s].sha \in {Resolved, tracking}
      BY <2>1, Outcomes
    <3>2. search'[s].sha = tracking
      BY <2>1, <3>1 DEF Resolved
    <3>3. KnownSince(Horizon(s))
      BY <1>1, <2>1, <3>1
      DEF Resolve, ResolveLocal, FetchRef, RevParse, FetchRefused, FetchUnreachable, Recheck,
          SeeInv, Knowing
    <3>4. pushedAt[v] < Horizon(s)
      BY <2>1, <3>1, Numbers DEF Horizon
    <3>5. v <= tracking
      BY <2>1, <3>3, <3>4 DEF KnownSince
    <3>6. QED
      BY <3>2, <3>5, Numbers
  <2>2. QED
    BY <1>1, <2>1 DEF SeeInv, SeesPushed
<1>6. ParallelResolve'
  <2>1. ASSUME failures' = 0, fetching, remote.branch # NoRef, pushedAt[1] < search'[s].began
        PROVE  search'[s].pc # "unresolved"
    <3>1. SUFFICES ASSUME search'[s].pc = "unresolved" PROVE FALSE
      OBVIOUS
    <3>2. Resolved = NoRef /\ search'[s].began = search[s].began /\ search[s].pc = "recheck"
      BY <2>1, <3>1, Outcomes
    <3>3. tracking # NoRef
      BY <1>1, <2>1, <3>2 DEF SeeInv, Fetching
    <3>4. QED
      BY <1>3, <3>2, <3>3
  <2>2. QED
    BY <1>1, <2>1 DEF SeeInv, ParallelResolve
<1>7. QED
  BY <1>2, <1>4, <1>5, <1>6 DEF SeeInv

LEMMA SeePreserves == RefInv /\ RefInv' /\ SeeInv /\ [Next]_vars => SeeInv'
BY SeePush, SeeWorld, SeeStep DEF Next

LEMMA SeeAlways == Spec => []SeeInv
BY RefInit, RefPreserves, SeeInit, SeePreserves, PTL DEF Spec

(* What was pushed is found where the query path may fetch: a search that  *)
(* began more than a refresh interval and one fetch after a push resolves  *)
(* to that commit or a later one, when no git command failed and no local  *)
(* branch has the name (_refresh_clone).                                   *)
THEOREM PushesAreSeen == Spec => []SeesPushed
<1>1. SeeInv => SeesPushed
  BY DEF SeeInv
<1>2. QED
  BY <1>1, SeeAlways, PTL

(* Parallel searches for a branch the clone does not have yet do not fail  *)
(* one another (the last look of resolve_commit).                          *)
THEOREM ParallelResolves == Spec => []ParallelResolve
<1>1. SeeInv => ParallelResolve
  BY DEF SeeInv
<1>2. QED
  BY <1>1, SeeAlways, PTL
=============================================================================
