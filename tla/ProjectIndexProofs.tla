------------------------- MODULE ProjectIndexProofs -------------------------
(***************************************************************************)
(* Proofs about the coordination of one project's index, for any number    *)
(* of requests of each kind.                                               *)
(***************************************************************************)
EXTENDS ProjectIndex, SequenceTheorems, TLAPS

(* Where a request still is before it makes the job of a site.             *)
Before(site) == CASE site = "refresh" -> {"new", "starting"}
                  [] site = "direct"  -> {"new", "pulled"}
                  [] OTHER            -> {"new"}

(* The lock is held by the job that works, and by no other.                *)
HolderWorks == \A j \in Jobs : Working(j) <=> holder = j

(* Whoever stands in the queue has asked for the lock.                     *)
QueueAsked == \A i \in 1..Len(queue) : job[queue[i]] # "none"

(* A request makes each of its jobs once.                                  *)
Unmade == \A j \in Jobs : pc[j[1]] \in Before(j[2]) => job[j] = "none"

(* A waiting search takes the lock and gives it back in one step.          *)
WaitsPass == \A j \in Jobs : j[2] = "wait" => job[j] \in {"none", "queued", "ok", "cancelled"}

(* Progress is published while a pass holds the lock.                     *)
StatsHeld == stats <=> holder \in Passes

Coordinated == HolderWorks /\ QueueAsked /\ WaitsPass /\ StatsHeld

(* The types of what the lock's operations change.                         *)
LockTypes ==
  /\ holder \in Jobs \cup {NoJob} /\ queue \in Seq(Jobs) /\ waker \in Jobs \cup {NoJob}
  /\ job \in [Jobs -> Phases] /\ stats \in BOOLEAN /\ scan \in Nat

LockInv == TypeOK /\ Coordinated /\ Unmade

(* Removing an element of a sequence moves those behind it up by one.      *)
LEMMA Removal ==
  ASSUME NEW S, NEW s \in Seq(S), NEW i \in 1..Len(s)
  PROVE  /\ RemoveAt(s, i) \in Seq(S)
         /\ Len(RemoveAt(s, i)) = Len(s) - 1
         /\ \A k \in 1..(Len(s) - 1) : RemoveAt(s, i)[k] = s[IF k < i THEN k ELSE k + 1]
<1> DEFINE a == SubSeq(s, 1, i - 1)
           b == SubSeq(s, i + 1, Len(s))
<1>0. Len(s) \in Nat
  BY LenProperties
<1>1. /\ a \in Seq(S) /\ Len(a) = i - 1
      /\ \A k \in 1..(i - 1) : a[k] = s[k]
  BY <1>0, SubSeqProperties
<1>2. /\ b \in Seq(S) /\ Len(b) = Len(s) - i
      /\ \A k \in 1..(Len(s) - i) : b[k] = s[i + k]
  BY <1>0, SubSeqProperties
<1>3. RemoveAt(s, i) = a \o b
  BY DEF RemoveAt
<1>4. /\ a \o b \in Seq(S) /\ Len(a \o b) = Len(a) + Len(b)
      /\ \A k \in 1..(Len(a) + Len(b)) :
           (a \o b)[k] = IF k <= Len(a) THEN a[k] ELSE b[k - Len(a)]
  BY <1>1, <1>2, ConcatProperties
<1>. HIDE DEF a, b
<1>5. Len(a \o b) = Len(s) - 1
  BY <1>0, <1>1, <1>2, <1>4
<1>6. ASSUME NEW k \in 1..(Len(s) - 1) PROVE (a \o b)[k] = s[IF k < i THEN k ELSE k + 1]
  <2>1. CASE k < i
    BY <1>0, <1>1, <1>2, <1>4, <2>1
  <2>2. CASE ~(k < i)
    <3>1. PICK n \in 1..(Len(s) - i) : n = k - (i - 1) /\ i + n = k + 1
      BY <1>0, <2>2
    <3>2. (a \o b)[k] = b[n]
      BY <1>0, <1>1, <1>2, <1>4, <2>2, <3>1
    <3>3. QED
      BY <1>2, <2>2, <3>1, <3>2
  <2>3. QED
    BY ONLY <2>1, <2>2
<1>7. QED
  BY <1>3, <1>4, <1>5, <1>6

(* The head of a queue is its first member, and its tail the rest.         *)
LEMMA HeadIsFirst ==
  ASSUME NEW S, NEW s \in Seq(S), s # <<>>
  PROVE  1 \in 1..Len(s) /\ s[1] = Head(s) /\ Tail(s) = RemoveAt(s, 1)
<1>1. Len(s) \in Nat /\ Len(s) > 0 /\ s[1] = Head(s)
  BY LenProperties, EmptySeq
<1>2. /\ Tail(s) \in Seq(S) /\ Len(Tail(s)) = Len(s) - 1
      /\ \A k \in 1..(Len(s) - 1) : Tail(s)[k] = s[k + 1]
  BY HeadTailProperties
<1>3. 1 \in 1..Len(s)
  BY <1>1
<1>4. /\ RemoveAt(s, 1) \in Seq(S) /\ Len(RemoveAt(s, 1)) = Len(s) - 1
      /\ \A k \in 1..(Len(s) - 1) : RemoveAt(s, 1)[k] = s[k + 1]
  BY <1>1, <1>3, Removal
<1>5. Tail(s) = RemoveAt(s, 1)
  BY <1>2, <1>4, SeqEqual
<1>6. QED
  BY <1>1, <1>3, <1>5

(* What is left of a queue without its member i: the others, each as often *)
(* as before.                                                              *)
Stands(x, s) == \E i \in 1..Len(s) : s[i] = x
Once(s) == \A i, k \in 1..Len(s) : s[i] = s[k] => i = k

LEMMA LeftBehind ==
  ASSUME NEW S, NEW s \in Seq(S), NEW t \in Seq(S), NEW i \in 1..Len(s), Len(t) = Len(s) - 1,
         \A k \in 1..Len(t) : t[k] = s[IF k < i THEN k ELSE k + 1]
  PROVE  /\ \A k \in 1..Len(t) : \E m \in 1..Len(s) : t[k] = s[m]
         /\ Once(s) => Once(t) /\ \A x : Stands(x, t) <=> Stands(x, s) /\ x # s[i]
<1>0. Len(s) \in Nat /\ Len(t) \in Nat
  BY LenProperties
<1> DEFINE From(k) == IF k < i THEN k ELSE k + 1
           To(m) == IF m < i THEN m ELSE m - 1
<1>1. \A k \in 1..Len(t) : From(k) \in 1..Len(s) /\ From(k) # i /\ t[k] = s[From(k)]
  BY <1>0
<1>2. \A m \in 1..Len(s) : m # i => To(m) \in 1..Len(t) /\ From(To(m)) = m
  BY <1>0
<1>3. \A k, m \in 1..Len(t) : From(k) = From(m) => k = m
  BY <1>0
<1> HIDE DEF From, To
<1>4. ASSUME Once(s) PROVE Once(t)
  BY <1>1, <1>3, <1>4 DEF Once
<1>5. ASSUME Once(s), NEW x PROVE Stands(x, t) <=> Stands(x, s) /\ x # s[i]
  <2>1. ASSUME Stands(x, t) PROVE Stands(x, s) /\ x # s[i]
    BY <1>1, <1>5, <2>1 DEF Once, Stands
  <2>2. ASSUME Stands(x, s), x # s[i] PROVE Stands(x, t)
    BY <1>1, <1>2, <2>2 DEF Stands
  <2>3. QED
    BY <2>1, <2>2
<1>6. QED
  BY <1>1, <1>4, <1>5

(* What the names of jobs tell.                                            *)
LEMMA JobNames ==
  /\ Spawned \subseteq Passes /\ Passes \subseteq Jobs
  /\ \A j \in Jobs : j[1] \in Requests /\ j = <<j[1], j[2]>>
  /\ \A j \in Passes : j[2] \in {"stream", "ensure", "refresh", "direct"}
  /\ \A r \in Indexers : <<r, "stream">> \in Spawned
  /\ \A r \in Askers : <<r, "ensure">> \in Spawned
  /\ \A r \in Refreshers : <<r, "refresh">> \in Spawned
  /\ \A r \in Workflows : <<r, "direct">> \in Passes
  /\ \A r \in Compactors : <<r, "compact">> \in Jobs
  /\ \A r \in Searchers : <<r, "wait">> \in Jobs
  /\ Cancellable \subseteq Requests /\ Askers \subseteq Requests
BY IndexAssumption DEF IndexAssumption, Jobs, Passes, Spawned, Askers, Requests

-----------------------------------------------------------------------------
(* The lock: what its operations keep, whichever action they are part of.  *)

LEMMA TakesKeeps ==
  ASSUME LockInv, NEW j \in Jobs, ~Locked, Takes(j), j[2] # "wait",
         queue' = queue \/ (queue # <<>> /\ queue' = Tail(queue))
  PROVE  LockTypes' /\ Coordinated'
<1>1. TypeOK /\ Coordinated
  BY DEF LockInv
<1>2. LockTypes'
  <2>1. queue' \in Seq(Jobs)
    BY <1>1, HeadTailProperties DEF TypeOK
  <2>2. QED
    BY <1>1, <2>1 DEF Takes, TypeOK, LockTypes, Phases
<1>3. HolderWorks'
  BY <1>1, IndexAssumption DEF Takes, TypeOK, Coordinated, HolderWorks, Working, Locked, IndexAssumption
<1>4. QueueAsked'
  <2>1. \A i \in 1..Len(queue') : \E k \in 1..Len(queue) : queue'[i] = queue[k]
    <3>1. CASE queue' = queue
      BY <3>1
    <3>2. CASE queue # <<>> /\ queue' = Tail(queue)
      <4>1. /\ Len(queue) \in Nat /\ Len(queue') = Len(queue) - 1
            /\ \A i \in 1..Len(queue') : queue'[i] = queue[i + 1]
        BY <1>1, <3>2, HeadTailProperties, LenProperties DEF TypeOK
      <4>2. \A i \in 1..Len(queue') : i + 1 \in 1..Len(queue)
        BY <4>1
      <4>3. QED
        BY <4>1, <4>2
    <3>3. QED
      BY <3>1, <3>2
  <2>2. \A i \in Jobs : job[i] # "none" => job'[i] # "none"
    BY <1>1 DEF Takes, TypeOK
  <2>3. QED
    BY <1>1, <2>1, <2>2, ElementOfSeq DEF TypeOK, Coordinated, QueueAsked
<1>5. WaitsPass'
  BY <1>1 DEF Takes, TypeOK, Coordinated, WaitsPass
<1>6. StatsHeld'
  BY <1>1, IndexAssumption, JobNames
  DEF Takes, Coordinated, StatsHeld, Locked, IndexAssumption
<1>7. QED
  BY <1>2, <1>3, <1>4, <1>5, <1>6 DEF Coordinated

LEMMA QueuesKeeps ==
  ASSUME LockInv, NEW j \in Jobs, ~Working(j), queue' = Append(queue, j),
         job' = [job EXCEPT ![j] = "queued"], UNCHANGED <<holder, waker, stats, scan>>
  PROVE  LockTypes' /\ Coordinated'
<1>1. TypeOK /\ Coordinated
  BY DEF LockInv
<1>2. LockTypes'
  BY <1>1, AppendProperties DEF TypeOK, LockTypes, Phases
<1>3. HolderWorks'
  BY <1>1 DEF TypeOK, Coordinated, HolderWorks, Working
<1>4. QueueAsked'
  <2>1. /\ Len(queue) \in Nat /\ Len(queue') = Len(queue) + 1
        /\ \A i \in 1..Len(queue) : queue'[i] = queue[i]
        /\ queue'[Len(queue) + 1] = j
    BY <1>1, AppendProperties, LenProperties DEF TypeOK
  <2>2. \A i \in 1..Len(queue') : i \in 1..Len(queue) \/ i = Len(queue) + 1
    BY <2>1
  <2>3. \A i \in Jobs : job[i] # "none" \/ i = j => job'[i] # "none"
    BY <1>1 DEF TypeOK
  <2>4. QED
    BY <1>1, <2>1, <2>2, <2>3, ElementOfSeq DEF TypeOK, Coordinated, QueueAsked
<1>5. WaitsPass'
  BY <1>1 DEF TypeOK, Coordinated, WaitsPass
<1>6. StatsHeld'
  BY <1>1 DEF Coordinated, StatsHeld
<1>7. QED
  BY <1>2, <1>3, <1>4, <1>5, <1>6 DEF Coordinated

LEMMA ContendsKeeps ==
  ASSUME LockInv, NEW j \in Jobs, Contends(j), ~Working(j), j[2] = "wait" => Locked
  PROVE  /\ LockTypes' /\ Coordinated'
         /\ \A i \in Jobs : i # j => job'[i] = job[i]
<1>1. CASE ~Locked /\ queue = <<>>
  BY <1>1, TakesKeeps DEF Contends, Takes, LockInv, TypeOK
<1>2. CASE ~(~Locked /\ queue = <<>>)
  BY <1>2, QueuesKeeps DEF Contends, LockInv, TypeOK
<1>3. QED
  BY <1>1, <1>2

LEMMA ReleasesKeeps ==
  ASSUME LockInv, NEW j \in Jobs, Working(j), NEW outcome \in {"ok", "failed", "cancelled"},
         Releases(j, outcome), stats' = (j \notin Passes /\ stats), UNCHANGED scan
  PROVE  LockTypes' /\ Coordinated'
<1>1. TypeOK /\ Coordinated /\ holder = j
  BY DEF LockInv, Coordinated, HolderWorks
<1>2. LockTypes'
  BY <1>1 DEF Releases, TypeOK, LockTypes, Phases
<1>3. HolderWorks'
  BY <1>1, IndexAssumption DEF Releases, TypeOK, Coordinated, HolderWorks, Working, IndexAssumption
<1>4. QueueAsked'
  BY <1>1, ElementOfSeq DEF Releases, TypeOK, Coordinated, QueueAsked
<1>5. WaitsPass'
  BY <1>1 DEF Releases, TypeOK, Coordinated, WaitsPass, Working
<1>6. StatsHeld'
  BY <1>1, IndexAssumption, JobNames DEF Releases, Coordinated, StatsHeld, IndexAssumption
<1>7. QED
  BY <1>2, <1>3, <1>4, <1>5, <1>6 DEF Coordinated

LEMMA WithdrawsKeeps ==
  ASSUME LockInv, NEW j \in Jobs, ~Working(j), Withdraws(j, "cancelled"), UNCHANGED <<stats, scan>>
  PROVE  LockTypes' /\ Coordinated'
<1>1. TypeOK /\ Coordinated
  BY DEF LockInv
<1>2. PICK n \in 1..Len(queue) : queue' = RemoveAt(queue, n)
  BY DEF Withdraws
<1>3. /\ queue' \in Seq(Jobs)
      /\ \A k \in 1..Len(queue') : \E m \in 1..Len(queue) : queue'[k] = queue[m]
  <2>1. /\ queue' \in Seq(Jobs) /\ Len(queue') = Len(queue) - 1 /\ Len(queue) \in Nat
        /\ \A k \in 1..Len(queue') : queue'[k] = queue[IF k < n THEN k ELSE k + 1]
    BY <1>1, <1>2, Removal, LenProperties DEF TypeOK
  <2>2. queue \in Seq(Jobs)
    BY <1>1 DEF TypeOK
  <2>3. QED
    BY ONLY <2>1, <2>2, LeftBehind
<1>4. LockTypes'
  BY <1>1, <1>3 DEF Withdraws, TypeOK, LockTypes, Phases
<1>5. HolderWorks'
  BY <1>1 DEF Withdraws, TypeOK, Coordinated, HolderWorks, Working
<1>6. QueueAsked'
  BY <1>1, <1>3, ElementOfSeq DEF Withdraws, TypeOK, Coordinated, QueueAsked
<1>7. WaitsPass'
  BY <1>1 DEF Withdraws, TypeOK, Coordinated, WaitsPass
<1>8. StatsHeld'
  BY <1>1 DEF Withdraws, Coordinated, StatsHeld
<1>9. QED
  BY <1>4, <1>5, <1>6, <1>7, <1>8 DEF Coordinated

(* A change of phase of a job that neither works nor holds the lock.       *)
LEMMA PhaseKeeps ==
  ASSUME LockInv, NEW j \in Jobs, ~Working(j), NEW phase \in {"created", "cancelled"},
         j[2] # "wait", job' = [job EXCEPT ![j] = phase],
         UNCHANGED <<holder, queue, waker, stats, scan>>
  PROVE  LockTypes' /\ Coordinated'
<1>1. TypeOK /\ Coordinated
  BY DEF LockInv
<1>2. LockTypes'
  BY <1>1 DEF TypeOK, LockTypes, Phases
<1>3. HolderWorks' /\ WaitsPass' /\ StatsHeld'
  BY <1>1 DEF TypeOK, Coordinated, HolderWorks, WaitsPass, StatsHeld, Working
<1>4. QueueAsked'
  BY <1>1, ElementOfSeq DEF TypeOK, Coordinated, QueueAsked
<1>5. QED
  BY <1>2, <1>3, <1>4 DEF Coordinated

(* A step that leaves the lock alone, and every request where it is or     *)
(* further on.                                                             *)
LEMMA Framed ==
  ASSUME LockInv, TypeOK', UNCHANGED <<holder, queue, job, stats>>,
         \A r \in Requests : \/ pc'[r] = pc[r]
                              \/ /\ pc'[r] \notin {"new", "starting"}
                                 /\ pc'[r] = "pulled" => pc[r] = "new"
  PROVE  LockInv'
<1>1. Coordinated'
  BY DEF LockInv, Coordinated, HolderWorks, QueueAsked, WaitsPass, StatsHeld, Working
<1>2. Unmade'
  BY JobNames DEF LockInv, Unmade, Before
<1>3. QED
  BY <1>1, <1>2 DEF LockInv

LEMMA SpawnKeeps ==
  ASSUME LockInv, NEW j \in Spawned, job[j] = "none", Spawn(j),
         UNCHANGED <<holder, queue, waker, stats, scan>>
  PROVE  LockTypes' /\ Coordinated'
BY PhaseKeeps, JobNames DEF Spawn, Working

(* What follows ensure_indexing_started.                                   *)
LEMMA ProceedsKeeps ==
  ASSUME LockInv, NEW r \in Askers, pc[r] \in {"new", "starting"}, Proceeds(r),
         UNCHANGED <<holder, queue, waker, callbacks, initial_done, stats, data_vars>>
  PROVE  LockInv'
<1> USE JobNames
<1>0. TypeOK /\ Unmade
  BY DEF LockInv
<1>1. CASE r \in Refreshers /\ ~IsIndexing
  <2> DEFINE j == <<r, "refresh">>
  <2>1. Spawn(j) /\ Goto(r, "refreshing") /\ need' = [need EXCEPT ![r] = tree]
    BY <1>1 DEF Proceeds
  <2>2. j \in Spawned /\ job[j] = "none"
    BY <1>0, <1>1 DEF Unmade, Before
  <2>3. LockTypes' /\ Coordinated'
    BY <2>1, <2>2, SpawnKeeps DEF data_vars
  <2>4. TypeOK'
    BY <1>0, <2>1, <2>3 DEF Spawn, Goto, TypeOK, LockTypes, Points, data_vars
  <2>5. Unmade'
    BY <1>0, <2>1 DEF Spawn, Goto, TypeOK, Unmade, Before
  <2>6. QED
    BY <2>3, <2>4, <2>5 DEF LockInv
<1>2. CASE ~(r \in Refreshers /\ ~IsIndexing)
  <2>1. /\ UNCHANGED <<job, scheduled, need>>
        /\ \E point \in {"gathering", "query", "counting"} : pc' = [pc EXCEPT ![r] = point]
    BY <1>2 DEF Proceeds, Goto
  <2>2. TypeOK'
    BY <1>0, <2>1 DEF TypeOK, Points, data_vars
  <2>3. QED
    BY <1>0, <2>1, <2>2, Framed DEF TypeOK
<1>3. QED
  BY <1>1, <1>2

(* A job that asks for the lock, made by a request that moves on.          *)
LEMMA AskedOnce ==
  ASSUME LockInv, NEW j \in Jobs, NEW point \in Points,
         \A i \in Jobs : i # j => job'[i] = job[i],
         pc' = [pc EXCEPT ![j[1]] = point],
         point \notin {"new", "starting", "pulled"}
  PROVE  Unmade'
BY JobNames DEF LockInv, TypeOK, Unmade, Before

LEMMA LockInit == Init => LockInv
<1> SUFFICES ASSUME Init PROVE LockInv
  OBVIOUS
<1>1. TypeOK
  BY EmptySeq DEF Init, TypeOK, Phases, Points
<1>2. Coordinated
  BY JobNames, IndexAssumption
  DEF IndexAssumption, Init, Coordinated, HolderWorks, QueueAsked, WaitsPass, StatsHeld, Working
<1>3. Unmade
  BY DEF Init, Unmade
<1>4. QED
  BY <1>1, <1>2, <1>3 DEF LockInv

LEMMA LockStep == LockInv /\ [Next]_vars => LockInv'
<1> SUFFICES ASSUME LockInv, [Next]_vars PROVE LockInv'
  OBVIOUS
<1> USE JobNames DEF Goto, Refreshing
<1>0. TypeOK /\ Coordinated /\ Unmade
  BY DEF LockInv
<1>1. ASSUME NEW j \in Jobs, JobStarts(j) PROVE LockInv'
  <2>1. ~Working(j) /\ j[2] # "wait"
    BY <1>0, <1>1 DEF JobStarts, Working, Coordinated, WaitsPass
  <2>2. /\ LockTypes' /\ Coordinated'
        /\ \A i \in Jobs : i # j => job'[i] = job[i]
    BY <1>1, <2>1, ContendsKeeps DEF JobStarts
  <2>3. TypeOK'
    BY <1>0, <1>1, <2>2 DEF JobStarts, TypeOK, LockTypes, request_vars
  <2>4. Unmade'
    BY <1>0, <1>1, <2>2 DEF JobStarts, Unmade, request_vars
  <2>5. QED
    BY <2>2, <2>3, <2>4 DEF LockInv
<1>2. ASSUME NEW j \in Jobs, JobGranted(j) PROVE LockInv'
  <2>1. LockTypes' /\ Coordinated'
    BY <1>2, TakesKeeps DEF JobGranted
  <2>2. TypeOK'
    BY <1>0, <1>2, <2>1 DEF JobGranted, TypeOK, LockTypes, request_vars
  <2>3. job[j] # "none"
    <3>1. 1 \in 1..Len(queue) /\ queue[1] = j
      BY <1>0, <1>2, LenProperties, EmptySeq DEF JobGranted, TypeOK
    <3>2. QED
      BY <1>0, <3>1 DEF Coordinated, QueueAsked
  <2>4. Unmade'
    BY <1>0, <1>2, <2>3 DEF JobGranted, Takes, TypeOK, Unmade, request_vars
  <2>5. QED
    BY <2>1, <2>2, <2>4 DEF LockInv
<1>3. ASSUME NEW j \in Jobs, PassCommits(j) PROVE LockInv'
  <2>1. TypeOK'
    BY <1>0, <1>3 DEF PassCommits, TypeOK, lock_vars, flag_vars, request_vars
  <2>2. QED
    BY <1>3, <2>1, Framed DEF PassCommits, lock_vars, flag_vars, request_vars
<1>4. ASSUME NEW j \in Jobs, PassIndexed(j) PROVE LockInv'
  <2>1. TypeOK'
    BY <1>0, <1>4 DEF PassIndexed, TypeOK, Phases, flag_vars, request_vars
  <2>2. HolderWorks' /\ WaitsPass' /\ StatsHeld'
    BY <1>0, <1>4 DEF PassIndexed, TypeOK, Coordinated, HolderWorks, WaitsPass, StatsHeld,
                      Working, flag_vars
  <2>3. QueueAsked'
    BY <1>0, <1>4, ElementOfSeq DEF PassIndexed, TypeOK, Coordinated, QueueAsked
  <2>4. Unmade'
    BY <1>0, <1>4 DEF PassIndexed, TypeOK, Unmade, request_vars
  <2>5. QED
    BY <2>1, <2>2, <2>3, <2>4 DEF LockInv, Coordinated
<1>5. ASSUME NEW j \in Jobs, PassFinishes(j) PROVE LockInv'
  <2>1. PICK outcome \in {"ok", "failed", "cancelled"} : PassEnds(j, outcome)
    BY <1>5 DEF PassFinishes
  <2>2. Working(j) /\ j \in Passes
    BY <1>5 DEF PassFinishes, Working
  <2>3. LockTypes' /\ Coordinated'
    BY <1>5, <2>1, <2>2, ReleasesKeeps DEF PassFinishes, PassEnds, data_vars
  <2>4. TypeOK'
    BY <1>0, <1>5, <2>1, <2>3
    DEF PassFinishes, PassEnds, TypeOK, LockTypes, data_vars, request_vars
  <2>5. Unmade'
    BY <1>0, <1>5, <2>1, <2>2
    DEF PassFinishes, PassEnds, Releases, Working, TypeOK, Unmade, request_vars
  <2>6. QED
    BY <2>3, <2>4, <2>5 DEF LockInv
<1>6. ASSUME NEW j \in Jobs, Clear(j) PROVE LockInv'
  <2>1. TypeOK'
    BY <1>0, <1>6 DEF Clear, TypeOK, lock_vars, data_vars, request_vars
  <2>2. QED
    BY <1>6, <2>1, Framed DEF Clear, lock_vars, request_vars
<1>7. ASSUME NEW r \in Requests, StreamIndex(r) PROVE LockInv'
  <2> DEFINE j == <<r, "stream">>
  <2>1. j \in Spawned /\ job[j] = "none"
    BY <1>0, <1>7 DEF StreamIndex, Unmade, Before
  <2>2. LockTypes' /\ Coordinated'
    BY <1>7, <2>1, SpawnKeeps DEF StreamIndex, data_vars
  <2>3. TypeOK'
    BY <1>0, <1>7, <2>2 DEF StreamIndex, Spawn, TypeOK, LockTypes, Points, data_vars
  <2>4. Unmade'
    BY <1>0, <1>7 DEF StreamIndex, Spawn, TypeOK, Unmade, Before
  <2>5. QED
    BY <2>2, <2>3, <2>4 DEF LockInv
<1>8. ASSUME NEW r \in Requests, Arrives(r) PROVE LockInv'
  <2> DEFINE j == <<r, "ensure">>
  <2>1. CASE NeedsFirstPass
    <3>1. Spawn(j) /\ Goto(r, "starting") /\ UNCHANGED need
      BY <1>8, <2>1 DEF Arrives
    <3>2. j \in Spawned /\ job[j] = "none"
      BY <1>0, <1>8 DEF Arrives, Unmade, Before
    <3>3. LockTypes' /\ Coordinated'
      BY <1>8, <3>1, <3>2, SpawnKeeps DEF Arrives, data_vars
    <3>4. TypeOK'
      BY <1>0, <1>8, <3>1, <3>3 DEF Arrives, Spawn, TypeOK, LockTypes, Points, data_vars
    <3>5. Unmade'
      BY <1>0, <1>8, <3>1 DEF Arrives, Spawn, TypeOK, Unmade, Before
    <3>6. QED
      BY <3>3, <3>4, <3>5 DEF LockInv
  <2>2. CASE ~NeedsFirstPass
    BY <1>8, <2>2, ProceedsKeeps DEF Arrives
  <2>3. QED
    BY <2>1, <2>2
<1>9. ASSUME NEW r \in Requests, EnsureResumes(r) PROVE LockInv'
  BY <1>9, ProceedsKeeps DEF EnsureResumes
<1>10. ASSUME NEW r \in Requests, WaitDone(r) PROVE LockInv'
  <2> DEFINE j == <<r, "wait">>
  <2>1. CASE Locked
    <3>1. Contends(j) /\ pc' = [pc EXCEPT ![r] = "wait_lock"]
      BY <1>10, <2>1 DEF WaitDone
    <3>2. j \in Jobs /\ ~Working(j)
      BY <1>0, <1>10 DEF WaitDone, Coordinated, WaitsPass, Working
    <3>3. /\ LockTypes' /\ Coordinated'
          /\ \A i \in Jobs : i # j => job'[i] = job[i]
      BY <2>1, <3>1, <3>2, ContendsKeeps
    <3>4. TypeOK'
      BY <1>0, <1>10, <3>1, <3>3 DEF WaitDone, TypeOK, LockTypes, Points
    <3>5. Unmade'
      BY <3>1, <3>2, <3>3, AskedOnce DEF Points
    <3>6. QED
      BY <3>3, <3>4, <3>5 DEF LockInv
  <2>2. CASE ~Locked
    <3>1. TypeOK'
      BY <1>0, <1>10, <2>2 DEF WaitDone, TypeOK, Points, lock_vars
    <3>2. QED
      BY <1>0, <1>10, <2>2, <3>1, Framed DEF WaitDone, TypeOK, lock_vars
  <2>3. QED
    BY <2>1, <2>2
<1>11. ASSUME NEW r \in Requests, WaitGranted(r) PROVE LockInv'
  <2> DEFINE j == <<r, "wait">>
  <2>1. /\ j \in Jobs /\ ~Working(j) /\ j \notin Passes
        /\ queue' = Tail(queue) /\ queue # <<>>
        /\ job' = [job EXCEPT ![j] = "ok"] /\ UNCHANGED <<holder, stats, scan>>
        /\ pc' = [pc EXCEPT ![r] = "query"]
    BY <1>0, <1>11 DEF WaitGranted, Coordinated, WaitsPass, Working, flag_vars, data_vars
  <2>2. /\ queue' \in Seq(Jobs)
        /\ \A i \in 1..Len(queue') : queue'[i] = queue[i + 1] /\ i + 1 \in 1..Len(queue)
    <3>1. /\ Len(queue) \in Nat /\ Len(queue') = Len(queue) - 1 /\ queue' \in Seq(Jobs)
          /\ \A i \in 1..Len(queue') : queue'[i] = queue[i + 1]
      BY <1>0, <2>1, HeadTailProperties, LenProperties DEF TypeOK
    <3>2. \A i \in 1..Len(queue') : i + 1 \in 1..Len(queue)
      BY <3>1
    <3>3. QED
      BY <3>1, <3>2
  <2>3. TypeOK'
    BY <1>0, <1>11, <2>2 DEF WaitGranted, TypeOK, Phases, Points, flag_vars, data_vars
  <2>4. HolderWorks' /\ WaitsPass' /\ StatsHeld'
    BY <1>0, <2>1 DEF TypeOK, Coordinated, HolderWorks, WaitsPass, StatsHeld, Working
  <2>5. QueueAsked'
    <3>1. \A i \in Jobs : job[i] # "none" => job'[i] # "none"
      BY <1>0, <2>1 DEF TypeOK
    <3>2. QED
      BY <1>0, <2>2, <3>1, ElementOfSeq DEF TypeOK, Coordinated, QueueAsked
  <2>6. Unmade'
    BY <1>0, <2>1, AskedOnce DEF TypeOK, Points
  <2>7. QED
    BY <2>3, <2>4, <2>5, <2>6 DEF LockInv, Coordinated
<1>12. ASSUME NEW r \in Requests, SearchCancelled(r) PROVE LockInv'
  <2> DEFINE refresh == <<r, "refresh">>
             wait    == <<r, "wait">>
  <2>0. pc' = [pc EXCEPT ![r] = "done"] /\ UNCHANGED <<data_vars, need>> /\ r \in Cancellable
    BY <1>12 DEF SearchCancelled
  <2>1. ASSUME LockTypes', Coordinated', callbacks' \in SUBSET Spawned, scheduled' \in BOOLEAN,
               initial_done' \in BOOLEAN,
               NEW j \in Jobs, j[1] = r, \A i \in Jobs : i # j => job'[i] = job[i]
        PROVE  LockInv'
    <3>1. TypeOK'
      BY <1>0, <2>0, <2>1 DEF TypeOK, LockTypes, Points, data_vars
    <3>2. Unmade'
      BY <2>0, <2>1, AskedOnce DEF Points
    <3>3. QED
      BY <2>1, <3>1, <3>2 DEF LockInv
  <2>2. CASE /\ Refreshing(r) /\ job[refresh] = "created"
             /\ job' = [job EXCEPT ![refresh] = "cancelled"]
             /\ callbacks' = callbacks \cup {refresh}
             /\ UNCHANGED <<holder, queue, waker, scheduled, initial_done, stats>>
    <3>1. refresh \in Spawned /\ ~Working(refresh)
      BY <2>2 DEF Working
    <3>2. LockTypes' /\ Coordinated'
      BY <2>0, <2>2, <3>1, PhaseKeeps DEF data_vars
    <3>3. QED
      BY <1>0, <2>1, <2>2, <3>1, <3>2 DEF TypeOK
  <2>3. CASE /\ Refreshing(r) /\ job[refresh] = "queued"
             /\ Withdraws(refresh, "cancelled")
             /\ callbacks' = callbacks \cup {refresh}
             /\ UNCHANGED <<scheduled, initial_done, stats>>
    <3>1. refresh \in Spawned /\ ~Working(refresh)
      BY <2>3 DEF Working
    <3>2. LockTypes' /\ Coordinated'
      BY <2>0, <2>3, <3>1, WithdrawsKeeps DEF data_vars
    <3>3. QED
      BY <1>0, <2>1, <2>3, <3>1, <3>2 DEF Withdraws, TypeOK
  <2>4. CASE Refreshing(r) /\ Working(refresh) /\ PassEnds(refresh, "cancelled")
    <3>1. refresh \in Spawned /\ stats' = (refresh \notin Passes /\ stats)
      BY <2>4 DEF PassEnds
    <3>2. LockTypes' /\ Coordinated'
      BY <2>0, <2>4, <3>1, ReleasesKeeps DEF PassEnds, data_vars
    <3>3. QED
      BY <1>0, <2>1, <2>4, <3>1, <3>2 DEF PassEnds, Releases, TypeOK
  <2>5. CASE pc[r] = "wait_lock" /\ Withdraws(wait, "cancelled") /\ UNCHANGED flag_vars
    <3>1. wait \in Jobs /\ ~Working(wait)
      BY <1>0, <2>0, IndexAssumption DEF IndexAssumption, Coordinated, WaitsPass, Working
    <3>2. LockTypes' /\ Coordinated'
      BY <2>0, <2>5, <3>1, WithdrawsKeeps DEF data_vars, flag_vars
    <3>3. QED
      BY <1>0, <2>1, <2>5, <3>1, <3>2 DEF Withdraws, TypeOK, flag_vars
  <2>6. CASE UNCHANGED <<lock_vars, flag_vars>>
    <3>1. TypeOK'
      BY <1>0, <2>0, <2>6 DEF TypeOK, Points, lock_vars, flag_vars, data_vars
    <3>2. QED
      BY <1>0, <2>0, <2>6, <3>1, Framed DEF TypeOK, lock_vars, flag_vars
  <2>7. QED
    BY <1>12, <2>2, <2>3, <2>4, <2>5, <2>6 DEF SearchCancelled
<1>13. ASSUME NEW r \in Requests, Compact(r) PROVE LockInv'
  <2> DEFINE j == <<r, "compact">>
  <2>1. j \in Jobs /\ ~Working(j)
    BY <1>0, <1>13 DEF Compact, Unmade, Before, Working
  <2>2. LockTypes' /\ Coordinated'
    BY <1>13, <2>1, PhaseKeeps DEF Compact, flag_vars, data_vars
  <2>3. TypeOK'
    BY <1>0, <1>13, <2>2 DEF Compact, TypeOK, LockTypes, Points, flag_vars, data_vars
  <2>4. Unmade'
    BY <1>0, <1>13 DEF Compact, TypeOK, Unmade, Before
  <2>5. QED
    BY <2>2, <2>3, <2>4 DEF LockInv
<1>14. ASSUME NEW r \in Requests, CompactEnds(r) PROVE LockInv'
  <2> DEFINE j == <<r, "compact">>
  <2>1. j \in Jobs /\ Working(j) /\ j \notin Passes /\ Releases(j, "ok")
    BY <1>14 DEF CompactEnds, Working
  <2>2. LockTypes' /\ Coordinated'
    BY <1>0, <1>14, <2>1, ReleasesKeeps DEF CompactEnds, TypeOK, flag_vars, data_vars
  <2>3. TypeOK'
    BY <1>0, <1>14, <2>2 DEF CompactEnds, TypeOK, LockTypes, Points, flag_vars, data_vars
  <2>4. Unmade'
    BY <1>0, <1>14, <2>1, AskedOnce DEF CompactEnds, Releases, TypeOK, Points
  <2>5. QED
    BY <2>2, <2>3, <2>4 DEF LockInv
<1>15. ASSUME NEW r \in Requests, WorkflowIndexes(r) PROVE LockInv'
  <2> DEFINE j == <<r, "direct">>
  <2>1. CASE IsIndexing
    <3>1. TypeOK'
      BY <1>0, <1>15, <2>1 DEF WorkflowIndexes, TypeOK, Points, lock_vars
    <3>2. QED
      BY <1>0, <1>15, <2>1, <3>1, Framed DEF WorkflowIndexes, TypeOK, lock_vars
  <2>2. CASE ~IsIndexing
    <3>1. Contends(j) /\ pc' = [pc EXCEPT ![r] = "indexing"]
      BY <1>15, <2>2 DEF WorkflowIndexes
    <3>2. j \in Jobs /\ ~Working(j)
      BY <1>0, <1>15 DEF WorkflowIndexes, Unmade, Before, Working
    <3>3. /\ LockTypes' /\ Coordinated'
          /\ \A i \in Jobs : i # j => job'[i] = job[i]
      BY <3>1, <3>2, ContendsKeeps
    <3>4. TypeOK'
      BY <1>0, <1>15, <3>1, <3>3 DEF WorkflowIndexes, TypeOK, LockTypes, Points
    <3>5. Unmade'
      BY <3>1, <3>2, <3>3, AskedOnce DEF Points
    <3>6. QED
      BY <3>3, <3>4, <3>5 DEF LockInv
  <2>3. QED
    BY <2>1, <2>2
<1>16. ASSUME NEW r \in Requests, WorkflowPulls(r) PROVE LockInv'
  <2>1. TypeOK'
    BY <1>0, <1>16 DEF WorkflowPulls, TypeOK, Points, lock_vars, flag_vars
  <2>2. QED
    BY <1>0, <1>16, <2>1, Framed DEF WorkflowPulls, TypeOK, lock_vars, flag_vars
<1>17. ASSUME NEW r \in Requests, StreamEnds(r) PROVE LockInv'
  <2>1. TypeOK'
    BY <1>0, <1>17 DEF StreamEnds, TypeOK, Points, lock_vars, flag_vars, data_vars
  <2>2. QED
    BY <1>0, <1>17, <2>1, Framed DEF StreamEnds, TypeOK, lock_vars, flag_vars
<1>18. ASSUME NEW r \in Requests, StreamDropped(r) PROVE LockInv'
  <2>1. TypeOK'
    BY <1>0, <1>18 DEF StreamDropped, TypeOK, Points, lock_vars, flag_vars, data_vars
  <2>2. QED
    BY <1>0, <1>18, <2>1, Framed DEF StreamDropped, TypeOK, lock_vars, flag_vars
<1>19. ASSUME NEW r \in Requests, RefreshResumes(r) PROVE LockInv'
  <2>1. TypeOK'
    BY <1>0, <1>19 DEF RefreshResumes, TypeOK, Points, lock_vars, flag_vars, data_vars
  <2>2. QED
    BY <1>0, <1>19, <2>1, Framed DEF RefreshResumes, TypeOK, lock_vars, flag_vars
<1>20. ASSUME NEW r \in Requests, CountRows(r) PROVE LockInv'
  <2>1. TypeOK'
    BY <1>0, <1>20 DEF CountRows, TypeOK, Points, lock_vars, flag_vars, data_vars
  <2>2. QED
    BY <1>0, <1>20, <2>1, Framed DEF CountRows, TypeOK, lock_vars, flag_vars
<1>21. ASSUME NEW r \in Requests, CountDecides(r) PROVE LockInv'
  <2>1. TypeOK'
    BY <1>0, <1>21 DEF CountDecides, TypeOK, Points, lock_vars, flag_vars, data_vars
  <2>2. QED
    BY <1>0, <1>21, <2>1, Framed DEF CountDecides, TypeOK, lock_vars, flag_vars
<1>22. ASSUME NEW r \in Requests, Answers(r) PROVE LockInv'
  <2>1. TypeOK'
    BY <1>0, <1>22 DEF Answers, TypeOK, Points, lock_vars, flag_vars, data_vars
  <2>2. QED
    BY <1>0, <1>22, <2>1, Framed DEF Answers, TypeOK, lock_vars, flag_vars
<1>23. ASSUME NEW r \in Requests, WorkflowEnds(r) PROVE LockInv'
  <2>1. TypeOK'
    BY <1>0, <1>23 DEF WorkflowEnds, TypeOK, Points, lock_vars, flag_vars, data_vars
  <2>2. QED
    BY <1>0, <1>23, <2>1, Framed DEF WorkflowEnds, TypeOK, lock_vars, flag_vars
<1>24. ASSUME Edit PROVE LockInv'
  <2>1. TypeOK'
    BY <1>0, <1>24 DEF Edit, TypeOK, lock_vars, flag_vars, request_vars
  <2>2. QED
    BY <1>24, <2>1, Framed DEF Edit, lock_vars, flag_vars, request_vars
<1>25. ASSUME UNCHANGED vars PROVE LockInv'
  <2>1. TypeOK'
    BY <1>0, <1>25 DEF vars, TypeOK, lock_vars, flag_vars, data_vars, request_vars
  <2>2. QED
    BY <1>25, <2>1, Framed DEF vars, lock_vars, flag_vars, request_vars
<1>26. QED
  BY <1>1, <1>2, <1>3, <1>4, <1>5, <1>6, <1>7, <1>8, <1>9, <1>10, <1>11, <1>12,
     <1>13, <1>14, <1>15, <1>16, <1>17, <1>18, <1>19, <1>20, <1>21, <1>22, <1>23, <1>24, <1>25
  DEF Next, JobStep, RequestStep, Environment

LEMMA LockInductive == Spec => []LockInv
<1>1. Init => LockInv
  BY LockInit
<1>2. LockInv /\ [Next]_vars => LockInv'
  BY LockStep
<1>3. QED
  BY <1>1, <1>2, PTL DEF Spec

(* Every variable keeps its type.                                          *)
THEOREM TypeCorrect == Spec => []TypeOK
<1>1. LockInv => TypeOK
  BY DEF LockInv
<1>2. QED
  BY <1>1, LockInductive, PTL

(* Index passes and compactions exclude each other, however they were      *)
(* started, queued, woken or cancelled.                                    *)
THEOREM WritersExclude == Spec => []OneWriter
<1>1. LockInv => OneWriter
  BY DEF LockInv, Coordinated, HolderWorks, OneWriter
<1>2. QED
  BY <1>1, LockInductive, PTL

(* Progress is published exactly while a pass works.                       *)
THEOREM StatsAreHonest == Spec => []StatsTrackPass
<1>1. LockInv => StatsTrackPass
  BY JobNames DEF LockInv, Coordinated, HolderWorks, StatsHeld, StatsTrackPass
<1>2. QED
  BY <1>1, LockInductive, PTL

-----------------------------------------------------------------------------
(* Freshness.  The index reflects a version the running pass has walked,   *)
(* which the tree has had.                                                 *)
Versions == indexed <= scan /\ scan <= tree

(* A refresh pass walks a tree at least as new as its search asked for,    *)
(* and an index once that new stays so.                                    *)
Covers ==
  \A r \in Refreshers :
    /\ need[r] <= tree
    /\ job[<<r, "refresh">>] = "running" => need[r] <= scan
    /\ job[<<r, "refresh">>] \in {"finalizing", "ok"} => need[r] <= indexed

Served == \A r \in Searchers : pc[r] \notin {"refreshing", "done"} => need[r] <= indexed

FreshInv == Versions /\ Covers /\ Served

(* A search comes to no point past its refresh unless it was there.        *)
Onward(r) == pc'[r] \notin {"refreshing", "done"} => pc[r] \notin {"refreshing", "done"}

LEMMA Needs == TypeOK => \A r \in Searchers \cup Refreshers : r \in Requests /\ need[r] \in Nat
BY IndexAssumption DEF IndexAssumption, TypeOK, Requests

LEMMA FreshFramed ==
  ASSUME LockInv, FreshInv, UNCHANGED <<scan, indexed, need>>, tree' \in {tree, tree + 1},
         \A r \in Refreshers : \/ job'[<<r, "refresh">>] = job[<<r, "refresh">>]
                               \/ job'[<<r, "refresh">>] \notin {"running", "finalizing", "ok"},
         \A r \in Searchers : Onward(r)
  PROVE  FreshInv'
<1>0. TypeOK /\ Versions /\ Covers /\ Served
  BY DEF LockInv, FreshInv
<1>1. Versions'
  BY <1>0 DEF Versions, TypeOK
<1>2. Covers'
  <2> SUFFICES ASSUME NEW r \in Refreshers
               PROVE  /\ need'[r] <= tree'
                      /\ job'[<<r, "refresh">>] = "running" => need'[r] <= scan'
                      /\ job'[<<r, "refresh">>] \in {"finalizing", "ok"} => need'[r] <= indexed'
    BY DEF Covers
  <2>1. need[r] \in Nat /\ need'[r] = need[r]
    BY <1>0, Needs
  <2>2. need[r] <= tree
    BY <1>0 DEF Covers
  <2>3. need'[r] <= tree'
    <3>1. tree \in Nat /\ tree' \in {tree, tree + 1}
      BY <1>0 DEF TypeOK
    <3>2. QED
      BY ONLY <2>1, <2>2, <3>1
  <2>4. QED
    BY <1>0, <2>1, <2>3 DEF Covers
<1>3. Served'
  BY <1>0 DEF Served, Onward
<1>4. QED
  BY <1>1, <1>2, <1>3 DEF FreshInv

LEMMA TakesFresh ==
  ASSUME LockInv, FreshInv, NEW j \in Jobs, Takes(j), ~Locked, UNCHANGED <<tree, indexed, need>>,
         \A r \in Searchers : Onward(r)
  PROVE  FreshInv'
<1>0. TypeOK /\ Versions /\ Covers /\ Served
  BY DEF LockInv, FreshInv
<1>1. \A i \in Jobs : job[i] # "running"
  BY IndexAssumption DEF LockInv, Coordinated, HolderWorks, Working, Locked, IndexAssumption
<1>2. Versions'
  BY <1>0 DEF Takes, TypeOK, Versions
<1>3. Covers'
  <2> SUFFICES ASSUME NEW r \in Refreshers
               PROVE  /\ need'[r] <= tree'
                      /\ job'[<<r, "refresh">>] = "running" => need'[r] <= scan'
                      /\ job'[<<r, "refresh">>] \in {"finalizing", "ok"} => need'[r] <= indexed'
    BY DEF Covers
  <2>1. <<r, "refresh">> \in Passes /\ need[r] <= tree
    BY <1>0, JobNames DEF Covers
  <2>2. job'[<<r, "refresh">>] = "running" => j = <<r, "refresh">>
    BY <1>0, <1>1, <2>1, JobNames DEF Takes, TypeOK
  <2>3. job'[<<r, "refresh">>] = "running" => scan' = tree
    BY <2>1, <2>2 DEF Takes
  <2>4. job'[<<r, "refresh">>] \in {"finalizing", "ok"} => need[r] <= indexed
    BY <1>0, <2>1, JobNames DEF Takes, TypeOK, Covers
  <2>5. QED
    BY <2>1, <2>3, <2>4
<1>4. Served'
  BY <1>0 DEF Served, Onward
<1>5. QED
  BY <1>2, <1>3, <1>4 DEF FreshInv

(* A claim on the lock: the job is another than before, or works.          *)
LEMMA ContendsFresh ==
  ASSUME LockInv, FreshInv, NEW j \in Jobs, Contends(j), UNCHANGED <<tree, indexed, need>>,
         \A r \in Searchers : Onward(r)
  PROVE  FreshInv'
<1>1. CASE ~Locked /\ queue = <<>>
  BY <1>1, TakesFresh DEF Contends
<1>2. CASE ~(~Locked /\ queue = <<>>)
  <2>1. job' = [job EXCEPT ![j] = "queued"] /\ UNCHANGED scan
    BY <1>2 DEF Contends
  <2>2. QED
    BY <2>1, FreshFramed, JobNames DEF LockInv, TypeOK
<1>3. QED
  BY <1>1, <1>2

LEMMA ProceedsFresh ==
  ASSUME LockInv, FreshInv, NEW r \in Askers, pc[r] \in {"new", "starting"}, Proceeds(r),
         UNCHANGED <<holder, queue, waker, callbacks, initial_done, stats, data_vars>>
  PROVE  FreshInv'
<1>0. TypeOK /\ Versions /\ Covers /\ Served
  BY DEF LockInv, FreshInv
<1>1. CASE r \in Refreshers /\ ~IsIndexing
  <2> DEFINE j == <<r, "refresh">>
  <2>1. /\ job' = [job EXCEPT ![j] = "created"] /\ pc' = [pc EXCEPT ![r] = "refreshing"]
        /\ need' = [need EXCEPT ![r] = tree] /\ UNCHANGED <<tree, scan, indexed>>
    BY <1>1 DEF Proceeds, Spawn, Goto, data_vars
  <2>2. Versions'
    BY <1>0, <2>1 DEF Versions
  <2>3. Covers'
    <3> SUFFICES ASSUME NEW q \in Refreshers
                 PROVE  /\ need'[q] <= tree'
                        /\ job'[<<q, "refresh">>] = "running" => need'[q] <= scan'
                        /\ job'[<<q, "refresh">>] \in {"finalizing", "ok"} => need'[q] <= indexed'
      BY DEF Covers
    <3>1. CASE q = r
      BY <1>0, <1>1, <2>1, <3>1, Needs, JobNames DEF TypeOK
    <3>2. CASE q # r
      <4>1. need'[q] = need[q] /\ job'[<<q, "refresh">>] = job[<<q, "refresh">>]
        BY <1>0, <1>1, <2>1, <3>2, JobNames DEF TypeOK
      <4>2. QED
        BY <1>0, <2>1, <4>1 DEF Covers
    <3>3. QED
      BY <3>1, <3>2
  <2>4. Served'
    BY <1>0, <2>1 DEF Served, TypeOK, Requests
  <2>5. QED
    BY <2>2, <2>3, <2>4 DEF FreshInv
<1>2. CASE ~(r \in Refreshers /\ ~IsIndexing)
  <2>1. /\ UNCHANGED <<job, need, tree, scan, indexed>>
        /\ \E point \in {"gathering", "query", "counting"} : pc' = [pc EXCEPT ![r] = point]
    BY <1>2 DEF Proceeds, Goto, data_vars
  <2>2. QED
    BY <1>0, <2>1, FreshFramed DEF TypeOK, Onward, Requests
<1>3. QED
  BY <1>1, <1>2

LEMMA FreshInit == Init => FreshInv
BY JobNames, IndexAssumption
DEF Init, FreshInv, Versions, Covers, Served, IndexAssumption, Requests

LEMMA FreshStep == LockInv /\ FreshInv /\ [Next]_vars => FreshInv'
<1> SUFFICES ASSUME LockInv, FreshInv, [Next]_vars PROVE FreshInv'
  OBVIOUS
<1> USE JobNames DEF Goto, Refreshing
<1>0. TypeOK /\ Versions /\ Covers /\ Served
  BY DEF LockInv, FreshInv
<1>1. ASSUME NEW j \in Jobs, JobStarts(j) PROVE FreshInv'
  BY <1>1, ContendsFresh DEF JobStarts, Onward, request_vars
<1>2. ASSUME NEW j \in Jobs, JobGranted(j) PROVE FreshInv'
  BY <1>2, TakesFresh DEF JobGranted, Onward, request_vars
<1>3. ASSUME NEW j \in Jobs, PassIndexed(j) PROVE FreshInv'
  <2>1. /\ job' = [job EXCEPT ![j] = "finalizing"] /\ job[j] = "running" /\ indexed' = scan
        /\ UNCHANGED <<tree, scan, pc, need>>
    BY <1>3 DEF PassIndexed, request_vars
  <2>2. Versions'
    BY <1>0, <2>1 DEF Versions, TypeOK
  <2>3. Covers'
    <3> SUFFICES ASSUME NEW q \in Refreshers
                 PROVE  /\ need'[q] <= tree'
                        /\ job'[<<q, "refresh">>] = "running" => need'[q] <= scan'
                        /\ job'[<<q, "refresh">>] \in {"finalizing", "ok"} => need'[q] <= indexed'
      BY DEF Covers
    <3>1. need[q] \in Nat /\ need'[q] = need[q] /\ need[q] <= tree /\ indexed <= scan
      BY <1>0, <2>1, Needs DEF Versions, Covers
    <3>2. CASE j = <<q, "refresh">>
      BY <1>0, <2>1, <3>1, <3>2 DEF Covers, TypeOK
    <3>3. CASE j # <<q, "refresh">>
      <4>1. job'[<<q, "refresh">>] = job[<<q, "refresh">>]
        BY <1>0, <2>1, <3>3 DEF TypeOK
      <4>2. QED
        BY <1>0, <2>1, <3>1, <4>1 DEF Covers, TypeOK
    <3>4. QED
      BY <3>2, <3>3
  <2>4. Served'
    BY <1>0, <2>1 DEF Versions, Served, TypeOK, Requests
  <2>5. QED
    BY <2>2, <2>3, <2>4 DEF FreshInv
<1>4. ASSUME NEW j \in Jobs, PassFinishes(j) PROVE FreshInv'
  <2>1. /\ \/ job[j] = "finalizing" /\ job' = [job EXCEPT ![j] = "ok"]
           \/ job' = [job EXCEPT ![j] = "failed"]
        /\ UNCHANGED <<tree, scan, indexed, pc, need>>
    BY <1>4 DEF PassFinishes, PassEnds, Releases, data_vars, request_vars
  <2>2. Covers'
    BY <1>0, <2>1 DEF Covers, TypeOK
  <2>3. QED
    BY <1>0, <2>1, <2>2 DEF FreshInv, Versions, Served
<1>5. ASSUME NEW r \in Requests, Arrives(r) PROVE FreshInv'
  <2> DEFINE j == <<r, "ensure">>
  <2>1. CASE NeedsFirstPass
    <3>1. /\ job' = [job EXCEPT ![j] = "created"] /\ pc' = [pc EXCEPT ![r] = "starting"]
          /\ pc[r] = "new" /\ UNCHANGED <<tree, scan, indexed, need>>
      BY <1>5, <2>1 DEF Arrives, Spawn, data_vars
    <3>2. QED
      BY <1>0, <3>1, FreshFramed DEF TypeOK, Onward, Requests
  <2>2. CASE ~NeedsFirstPass
    BY <1>5, <2>2, ProceedsFresh DEF Arrives
  <2>3. QED
    BY <2>1, <2>2
<1>6. ASSUME NEW r \in Requests, EnsureResumes(r) PROVE FreshInv'
  BY <1>6, ProceedsFresh DEF EnsureResumes
<1>7. ASSUME NEW r \in Requests, RefreshResumes(r) PROVE FreshInv'
  <2>1. /\ r \in Refreshers /\ UNCHANGED <<job, tree, scan, indexed, need>>
        /\ \/ pc' = [pc EXCEPT ![r] = "done"]
           \/ /\ job[<<r, "refresh">>] = "ok"
              /\ pc' = [pc EXCEPT ![r] = "query"] \/ pc' = [pc EXCEPT ![r] = "counting"]
    BY <1>7 DEF RefreshResumes, lock_vars, data_vars
  <2>2. Served'
    BY <1>0, <2>1 DEF Covers, Served, TypeOK, Requests
  <2>3. QED
    BY <1>0, <2>1, <2>2 DEF FreshInv, Versions, Covers
<1>8. ASSUME NEW r \in Requests, WaitDone(r) PROVE FreshInv'
  <2>1. CASE Locked
    BY <1>8, <1>0, <2>1, ContendsFresh DEF WaitDone, Onward, TypeOK, Requests
  <2>2. CASE ~Locked
    BY <1>8, <1>0, <2>2, FreshFramed DEF WaitDone, Onward, TypeOK, Requests, lock_vars
  <2>3. QED
    BY <2>1, <2>2
<1>9. ASSUME NEW r \in Requests, WaitGranted(r) PROVE FreshInv'
  <2>1. /\ job' = [job EXCEPT ![<<r, "wait">>] = "ok"] /\ UNCHANGED <<tree, scan, indexed, need>>
        /\ pc' = [pc EXCEPT ![r] = "query"] /\ pc[r] = "wait_lock"
    BY <1>9 DEF WaitGranted, data_vars
  <2>2. \A q \in Refreshers : job'[<<q, "refresh">>] = job[<<q, "refresh">>]
    BY <1>0, <2>1 DEF TypeOK
  <2>3. \A q \in Searchers : Onward(q)
    BY <1>0, <2>1 DEF TypeOK, Onward, Requests
  <2>4. QED
    BY <1>0, <2>1, <2>2, <2>3, FreshFramed DEF TypeOK
<1>10. ASSUME NEW r \in Requests, WorkflowIndexes(r) PROVE FreshInv'
  <2>1. CASE IsIndexing
    BY <1>10, <1>0, <2>1, FreshFramed DEF WorkflowIndexes, Onward, TypeOK, Requests, lock_vars
  <2>2. CASE ~IsIndexing
    BY <1>10, <1>0, <2>2, ContendsFresh DEF WorkflowIndexes, Onward, TypeOK, Requests
  <2>3. QED
    BY <2>1, <2>2
<1>11. ASSUME NEW j \in Jobs, PassCommits(j) PROVE FreshInv'
  BY <1>11, <1>0, FreshFramed DEF PassCommits, Onward, TypeOK, lock_vars, data_vars, request_vars
<1>12. ASSUME NEW j \in Jobs, Clear(j) PROVE FreshInv'
  BY <1>12, <1>0, FreshFramed DEF Clear, Onward, TypeOK, lock_vars, data_vars, request_vars
<1>13. ASSUME NEW r \in Requests, StreamEnds(r) PROVE FreshInv'
  BY <1>13, <1>0, FreshFramed DEF StreamEnds, Onward, TypeOK, lock_vars, data_vars
<1>14. ASSUME NEW r \in Requests, StreamDropped(r) PROVE FreshInv'
  BY <1>14, <1>0, FreshFramed DEF StreamDropped, Onward, TypeOK, lock_vars, data_vars
<1>15. ASSUME NEW r \in Requests, CountRows(r) PROVE FreshInv'
  BY <1>15, <1>0, FreshFramed DEF CountRows, Onward, TypeOK, lock_vars, data_vars
<1>16. ASSUME NEW r \in Requests, CountDecides(r) PROVE FreshInv'
  BY <1>16, <1>0, FreshFramed DEF CountDecides, Onward, TypeOK, lock_vars, data_vars
<1>17. ASSUME NEW r \in Requests, Answers(r) PROVE FreshInv'
  BY <1>17, <1>0, FreshFramed DEF Answers, Onward, TypeOK, lock_vars, data_vars
<1>18. ASSUME NEW r \in Requests, WorkflowEnds(r) PROVE FreshInv'
  BY <1>18, <1>0, FreshFramed DEF WorkflowEnds, Onward, TypeOK, lock_vars, data_vars
<1>19. ASSUME NEW r \in Requests, WorkflowPulls(r) PROVE FreshInv'
  BY <1>19, <1>0, FreshFramed DEF WorkflowPulls, Onward, TypeOK, lock_vars, data_vars
<1>20. ASSUME NEW r \in Requests, StreamIndex(r) PROVE FreshInv'
  BY <1>20, <1>0, FreshFramed DEF StreamIndex, Spawn, Onward, TypeOK, Requests, data_vars
<1>21. ASSUME NEW r \in Requests, Compact(r) PROVE FreshInv'
  BY <1>21, <1>0, FreshFramed DEF Compact, Onward, TypeOK, Requests, data_vars
<1>22. ASSUME NEW r \in Requests, CompactEnds(r) PROVE FreshInv'
  BY <1>22, <1>0, FreshFramed DEF CompactEnds, Releases, Onward, TypeOK, Requests, data_vars
<1>23. ASSUME NEW r \in Requests, SearchCancelled(r) PROVE FreshInv'
  <2>1. /\ pc' = [pc EXCEPT ![r] = "done"] /\ UNCHANGED <<tree, scan, indexed, need>>
        /\ \/ UNCHANGED job
           \/ job' = [job EXCEPT ![<<r, "refresh">>] = "cancelled"]
           \/ job' = [job EXCEPT ![<<r, "wait">>] = "cancelled"]
    BY <1>23 DEF SearchCancelled, Withdraws, PassEnds, Releases, lock_vars, data_vars
  <2>2. \A q \in Refreshers : \/ job'[<<q, "refresh">>] = job[<<q, "refresh">>]
                               \/ job'[<<q, "refresh">>] = "cancelled"
    BY <1>0, <2>1 DEF TypeOK
  <2>3. \A q \in Searchers : Onward(q)
    BY <1>0, <2>1 DEF TypeOK, Onward, Requests
  <2>4. QED
    BY <1>0, <2>1, <2>2, <2>3, FreshFramed DEF TypeOK
<1>24. ASSUME Edit PROVE FreshInv'
  BY <1>24, <1>0, FreshFramed DEF Edit, Onward, TypeOK, lock_vars, request_vars
<1>25. ASSUME UNCHANGED vars PROVE FreshInv'
  BY <1>25, <1>0, FreshFramed DEF vars, Onward, TypeOK, lock_vars, data_vars, request_vars
<1>26. QED
  BY <1>1, <1>2, <1>3, <1>4, <1>5, <1>6, <1>7, <1>8, <1>9, <1>10, <1>11, <1>12,
     <1>13, <1>14, <1>15, <1>16, <1>17, <1>18, <1>19, <1>20, <1>21, <1>22, <1>23, <1>24, <1>25
  DEF Next, JobStep, RequestStep, Environment

(* A search that refreshed reads an index at least as new as the tree was  *)
(* when the search found the index idle.                                   *)
THEOREM RefreshedSearchesAreFresh == Spec => []RefreshIsFresh
<1>1. Init => LockInv /\ FreshInv
  BY LockInit, FreshInit
<1>2. LockInv /\ FreshInv /\ [Next]_vars => LockInv' /\ FreshInv'
  BY LockStep, FreshStep
<1>3. LockInv /\ FreshInv => RefreshIsFresh
  BY Needs DEF LockInv, TypeOK, FreshInv, Served, RefreshIsFresh
<1>4. QED
  BY <1>1, <1>2, <1>3, PTL DEF Spec

-----------------------------------------------------------------------------
(* The first pass.  Until a pass has completed nothing clears the flag,    *)
(* and no refresh is started.                                              *)
Early ==
  ~initial_done =>
    /\ callbacks = {}
    /\ \A p \in Passes : ~Ended(p)
    /\ \A p \in Spawned : job[p] # "none" => scheduled /\ p[2] # "refresh"

Raised == scheduled => \E p \in Spawned : job[p] # "none"

Starting == \A r \in Askers : pc[r] = "starting" => job[<<r, "ensure">>] # "none"

(* A search on its way to waiting has something to wait for.               *)
Waiting == {"counting", "saw_rows", "saw_none", "wait_done"}

Promise == initial_done \/ \E p \in Passes : job[p] # "none"

Awaited == Compactors = {} => \A r \in Searchers : pc[r] \in Waiting => Promise

FlagInv == Early /\ Raised /\ Starting /\ OneEnsurePass /\ Awaited

(* Steps that start no pass by _spawn_index and clear no flag.             *)
LEMMA FlagFramed ==
  ASSUME FlagInv, UNCHANGED scheduled, initial_done => initial_done',
         \/ initial_done'
         \/ callbacks' = callbacks /\ \A p \in Passes : Ended(p)' => Ended(p),
         \A p \in Spawned : job'[p] = "none" <=> job[p] = "none",
         \A p \in Passes : job[p] # "none" => job'[p] # "none",
         \A r \in Askers : pc'[r] = "starting" => pc[r] = "starting",
         \A r \in Searchers : pc'[r] \in Waiting => pc[r] \in Waiting \/ initial_done
  PROVE  FlagInv'
<1>0. Early /\ Raised /\ Starting /\ OneEnsurePass /\ Awaited
  BY DEF FlagInv
<1>1. Early'
  BY <1>0 DEF Early
<1>2. Raised'
  BY <1>0 DEF Raised
<1>3. Starting' /\ OneEnsurePass'
  BY <1>0, JobNames DEF Starting, OneEnsurePass
<1>4. Awaited'
  BY <1>0 DEF Awaited, Promise
<1>5. QED
  BY <1>1, <1>2, <1>3, <1>4 DEF FlagInv

(* Most steps change neither a job nor a flag.                             *)
LEMMA FlagStill ==
  ASSUME FlagInv, UNCHANGED <<job, callbacks, scheduled, initial_done>>,
         \A r \in Requests : pc'[r] = pc[r] \/ pc'[r] \notin Waiting \cup {"starting"}
                            \/ (pc[r] \in Waiting /\ pc'[r] # "starting")
  PROVE  FlagInv'
<1>1. \A p \in Passes : Ended(p)' => Ended(p)
  BY DEF Ended
<1>2. QED
  BY <1>1, FlagFramed, JobNames DEF Waiting, Requests, Askers

LEMMA SpawnFlags ==
  ASSUME LockInv, FlagInv, NEW j \in Spawned, Spawn(j), j[2] = "stream" \/ initial_done,
         UNCHANGED <<callbacks, initial_done>>,
         \A r \in Askers : pc'[r] = "starting" => pc[r] = "starting",
         \A r \in Searchers : pc'[r] \in Waiting => pc[r] \in Waiting,
         j[2] # "ensure"
  PROVE  FlagInv'
<1>0. TypeOK /\ Early /\ Raised /\ Starting /\ OneEnsurePass /\ Awaited
  BY DEF LockInv, FlagInv
<1>1. \A p \in Jobs : job'[p] = IF p = j THEN "created" ELSE job[p]
  BY <1>0, JobNames DEF Spawn, TypeOK
<1>2. scheduled'
  BY DEF Spawn
<1>3. Early'
  BY <1>0, <1>1, <1>2, JobNames DEF Early, Ended
<1>4. Raised'
  BY <1>1, JobNames DEF Raised
<1>5. Starting' /\ OneEnsurePass'
  BY <1>0, <1>1, JobNames DEF Starting, OneEnsurePass
<1>6. Awaited'
  BY <1>0, <1>1, JobNames DEF Awaited, Promise
<1>7. QED
  BY <1>3, <1>4, <1>5, <1>6 DEF FlagInv

(* What a search that needs no first pass relies on.                       *)
LEMMA ProceedsFlags ==
  ASSUME LockInv, FlagInv, NEW r \in Askers, pc[r] \in {"new", "starting"}, Proceeds(r),
         initial_done \/ IsIndexing,
         UNCHANGED <<holder, queue, waker, callbacks, initial_done, stats, data_vars>>
  PROVE  FlagInv'
<1>0. TypeOK /\ Early /\ Raised /\ Starting /\ OneEnsurePass /\ Awaited
  BY DEF LockInv, FlagInv
<1>1. CASE r \in Refreshers /\ ~IsIndexing
  <2> DEFINE j == <<r, "refresh">>
  <2>1. Spawn(j) /\ pc' = [pc EXCEPT ![r] = "refreshing"] /\ j \in Spawned /\ initial_done
    BY <1>1, JobNames DEF Proceeds, Goto
  <2>2. /\ \A q \in Askers : pc'[q] = "starting" => pc[q] = "starting"
        /\ \A q \in Searchers : pc'[q] \in Waiting => pc[q] \in Waiting
    BY <1>0, <2>1 DEF TypeOK, Waiting, Askers, Requests
  <2>3. QED
    BY <2>1, <2>2, SpawnFlags
<1>2. CASE ~(r \in Refreshers /\ ~IsIndexing)
  <2>1. /\ UNCHANGED <<job, callbacks, scheduled, initial_done>>
        /\ \E point \in {"gathering", "query", "counting"} : pc' = [pc EXCEPT ![r] = point]
    BY <1>2 DEF Proceeds, Goto
  <2>2. Early' /\ Raised'
    BY <2>1, <1>0 DEF Early, Raised, Ended
  <2>3. Starting' /\ OneEnsurePass'
    BY <1>0, <2>1, JobNames DEF Starting, OneEnsurePass, TypeOK
  <2>4. Compactors = {} => Promise
    <3>1. CASE Locked
      <4>1. holder \in Jobs /\ Working(holder)
        BY <1>0, <3>1 DEF Locked, TypeOK, LockInv, Coordinated, HolderWorks
      <4>2. Compactors = {} => holder \in Passes
        BY <4>1 DEF LockInv, Coordinated, WaitsPass, Working, Jobs
      <4>3. QED
        BY <4>1, <4>2 DEF Promise, Working
    <3>2. CASE scheduled
      BY <1>0, <3>2, JobNames DEF Raised, Promise
    <3>3. QED
      BY <3>1, <3>2 DEF IsIndexing, Promise
  <2>5. Awaited'
    BY <1>0, <2>1, <2>4 DEF Awaited, Promise
  <2>6. QED
    BY <2>2, <2>3, <2>5 DEF FlagInv
<1>3. QED
  BY <1>1, <1>2

LEMMA FlagInit == Init => FlagInv
BY JobNames
DEF Init, FlagInv, Early, Raised, Starting, OneEnsurePass, Awaited, Ended, Waiting, Askers, Requests

(* The oldest waiter has asked for the lock.                               *)
LEMMA HeadAsked ==
  ASSUME LockInv, queue # <<>>
  PROVE  job[Head(queue)] # "none"
<1>1. 1 \in 1..Len(queue) /\ queue[1] = Head(queue)
  BY LenProperties, EmptySeq DEF LockInv, TypeOK
<1>2. QED
  BY <1>1 DEF LockInv, Coordinated, QueueAsked

(* A job that has been made goes on to a phase that is not an end.         *)
LEMMA FlagGoesOn ==
  ASSUME LockInv, FlagInv, NEW j \in Jobs, j \in Spawned => job[j] # "none",
         \A i \in Jobs : i # j => job'[i] = job[i],
         j \in Passes => job'[j] \in {"queued", "running", "finalizing"},
         UNCHANGED <<callbacks, scheduled, initial_done>>,
         \A r \in Requests : pc'[r] = pc[r] \/ pc'[r] \notin Waiting \cup {"starting"}
  PROVE  FlagInv'
<1>1. \A p \in Passes : Ended(p)' => Ended(p)
  BY JobNames DEF Ended
<1>2. /\ \A p \in Spawned : job'[p] = "none" <=> job[p] = "none"
      /\ \A p \in Passes : job[p] # "none" => job'[p] # "none"
  BY JobNames
<1>3. QED
  BY <1>1, <1>2, FlagFramed DEF Requests, Askers

LEMMA FlagEnds ==
  ASSUME LockInv, FlagInv, NEW j \in Passes, NEW outcome \in {"ok", "failed", "cancelled"},
         Working(j), PassEnds(j, outcome),
         \A r \in Requests : pc'[r] = pc[r] \/ pc'[r] = "done"
  PROVE  FlagInv'
<1>1. job' = [job EXCEPT ![j] = outcome] /\ initial_done' /\ UNCHANGED scheduled
  BY DEF PassEnds, Releases
<1>2. \A p \in Passes : job'[p] = "none" <=> job[p] = "none"
  BY <1>1, JobNames DEF LockInv, TypeOK, Working
<1>3. QED
  BY <1>1, <1>2, FlagFramed, JobNames DEF Waiting, Requests, Askers

LEMMA FlagStep == LockInv /\ FlagInv /\ [Next]_vars => FlagInv'
<1> SUFFICES ASSUME LockInv, FlagInv, [Next]_vars PROVE FlagInv'
  OBVIOUS
<1> USE JobNames DEF Goto, Refreshing
<1>0. TypeOK /\ Coordinated /\ Unmade /\ Early /\ Raised /\ Starting /\ OneEnsurePass /\ Awaited
  BY DEF LockInv, FlagInv
<1>1. ASSUME NEW j \in Jobs, JobStarts(j) PROVE FlagInv'
  <2>1. /\ \A i \in Jobs : i # j => job'[i] = job[i]
        /\ job'[j] \in {"queued", "running"}
    BY <1>1, <1>0 DEF JobStarts, Contends, Takes, TypeOK
  <2>2. QED
    BY <1>1, <2>1, FlagGoesOn DEF JobStarts, request_vars
<1>2. ASSUME NEW j \in Jobs, JobGranted(j) PROVE FlagInv'
  <2>1. job[j] # "none"
    BY <1>2, HeadAsked DEF JobGranted
  <2>2. job' = [job EXCEPT ![j] = "running"]
    BY <1>2 DEF JobGranted, Takes
  <2>3. QED
    BY <1>2, <1>0, <2>1, <2>2, FlagGoesOn DEF JobGranted, TypeOK, request_vars
<1>3. ASSUME NEW j \in Jobs, PassIndexed(j) PROVE FlagInv'
  BY <1>3, <1>0, FlagGoesOn DEF PassIndexed, TypeOK, flag_vars, request_vars
<1>4. ASSUME NEW j \in Jobs, PassFinishes(j) PROVE FlagInv'
  <2>1. PICK outcome \in {"ok", "failed", "cancelled"} : PassEnds(j, outcome)
    BY <1>4 DEF PassFinishes
  <2>2. QED
    BY <1>4, <2>1, FlagEnds DEF PassFinishes, Working, request_vars
<1>5. ASSUME NEW j \in Jobs, PassCommits(j) PROVE FlagInv'
  BY <1>5, FlagStill DEF PassCommits, lock_vars, flag_vars, request_vars
<1>6. ASSUME NEW j \in Jobs, Clear(j) PROVE FlagInv'
  <2>1. initial_done /\ UNCHANGED <<job, initial_done, pc>> /\ ~scheduled'
    BY <1>6, <1>0 DEF Clear, Early, lock_vars, request_vars
  <2>2. QED
    BY <1>0, <2>1 DEF FlagInv, Early, Raised, Starting, OneEnsurePass, Awaited, Promise
<1>7. ASSUME NEW r \in Requests, StreamIndex(r) PROVE FlagInv'
  <2> DEFINE j == <<r, "stream">>
  <2>1. /\ j \in Spawned /\ Spawn(j) /\ pc' = [pc EXCEPT ![r] = "streaming"]
        /\ UNCHANGED <<callbacks, initial_done>>
    BY <1>7 DEF StreamIndex
  <2>2. /\ \A q \in Askers : pc'[q] = "starting" => pc[q] = "starting"
        /\ \A q \in Searchers : pc'[q] \in Waiting => pc[q] \in Waiting
    BY <1>0, <2>1 DEF TypeOK, Waiting, Askers, Requests
  <2>3. QED
    BY <2>1, <2>2, SpawnFlags
<1>8. ASSUME NEW r \in Requests, Arrives(r) PROVE FlagInv'
  <2> DEFINE j == <<r, "ensure">>
  <2>1. CASE NeedsFirstPass
    <3>1. /\ j \in Spawned /\ Spawn(j) /\ pc' = [pc EXCEPT ![r] = "starting"]
          /\ ~initial_done /\ ~scheduled /\ UNCHANGED <<callbacks, initial_done>>
      BY <1>8, <2>1 DEF Arrives, NeedsFirstPass
    <3>2. \A p \in Spawned : job[p] = "none"
      BY <1>0, <3>1 DEF Early
    <3>3. \A p \in Jobs : job'[p] = IF p = j THEN "created" ELSE job[p]
      BY <1>0, <3>1 DEF Spawn, TypeOK
    <3>4. Early'
      BY <1>0, <3>1, <3>3 DEF Early, Ended, Spawn
    <3>5. Raised'
      BY <3>1, <3>3 DEF Raised
    <3>6. Starting'
      BY <1>0, <3>1, <3>3 DEF Starting, TypeOK
    <3>7. OneEnsurePass'
      BY <3>2, <3>3 DEF OneEnsurePass
    <3>8. Awaited'
      BY <1>0, <3>1, <3>3 DEF Awaited, Promise, TypeOK, Waiting
    <3>9. QED
      BY <3>4, <3>5, <3>6, <3>7, <3>8 DEF FlagInv
  <2>2. CASE ~NeedsFirstPass
    BY <1>8, <2>2, ProceedsFlags DEF Arrives, NeedsFirstPass, IsIndexing
  <2>3. QED
    BY <2>1, <2>2
<1>9. ASSUME NEW r \in Requests, EnsureResumes(r) PROVE FlagInv'
  <2> DEFINE j == <<r, "ensure">>
  <2>1. j \in Passes /\ job[j] \in {"running", "finalizing", "ok", "failed", "cancelled"}
    BY <1>9, <1>0 DEF EnsureResumes, Starting, TypeOK, Phases
  <2>2. CASE Working(j)
    <3>1. Locked
      BY <1>0, <2>1, <2>2, IndexAssumption
      DEF Coordinated, HolderWorks, Locked, IndexAssumption
    <3>2. QED
      BY <1>9, <3>1, ProceedsFlags DEF EnsureResumes, IsIndexing
  <2>3. CASE Ended(j)
    <3>1. initial_done
      BY <1>0, <2>1, <2>3 DEF Early
    <3>2. QED
      BY <1>9, <3>1, ProceedsFlags DEF EnsureResumes
  <2>4. QED
    BY <2>1, <2>2, <2>3 DEF Working, Ended
<1>10. ASSUME NEW r \in Requests, RefreshResumes(r) PROVE FlagInv'
  <2>1. initial_done
    BY <1>10, <1>0 DEF RefreshResumes, Early
  <2>2. UNCHANGED <<job, callbacks, scheduled, initial_done>>
    BY <1>10 DEF RefreshResumes, lock_vars, flag_vars
  <2>3. \A q \in Askers : pc'[q] = "starting" => pc[q] = "starting"
    BY <1>10, <1>0 DEF RefreshResumes, TypeOK
  <2>4. \A p \in Passes : Ended(p)' => Ended(p)
    BY <2>2 DEF Ended
  <2>5. QED
    BY <2>1, <2>2, <2>3, <2>4, FlagFramed
<1>11. ASSUME NEW r \in Requests, WaitDone(r) PROVE FlagInv'
  <2>1. CASE Locked
    <3>1. /\ \A i \in Jobs : i # <<r, "wait">> => job'[i] = job[i]
          /\ pc' = [pc EXCEPT ![r] = "wait_lock"] /\ <<r, "wait">> \in Jobs
          /\ UNCHANGED <<callbacks, scheduled, initial_done>>
      BY <1>11, <1>0, <2>1 DEF WaitDone, Contends, TypeOK
    <3>2. <<r, "wait">> \notin Passes
      OBVIOUS
    <3>3. QED
      BY <1>0, <3>1, <3>2, FlagGoesOn DEF TypeOK, Waiting
  <2>2. CASE ~Locked
    BY <1>11, <1>0, <2>2, FlagStill DEF WaitDone, TypeOK, Waiting, lock_vars
  <2>3. QED
    BY <2>1, <2>2
<1>12. ASSUME NEW r \in Requests, WaitGranted(r) PROVE FlagInv'
  <2>1. /\ job' = [job EXCEPT ![<<r, "wait">>] = "ok"] /\ pc' = [pc EXCEPT ![r] = "query"]
        /\ <<r, "wait">> \in Jobs /\ UNCHANGED <<callbacks, scheduled, initial_done>>
    BY <1>12 DEF WaitGranted, flag_vars
  <2>2. <<r, "wait">> \notin Passes
    OBVIOUS
  <2>3. QED
    BY <1>0, <2>1, <2>2, FlagGoesOn DEF TypeOK, Waiting
<1>13. ASSUME NEW r \in Requests, SearchCancelled(r) PROVE FlagInv'
  <2> DEFINE refresh == <<r, "refresh">>
             wait    == <<r, "wait">>
  <2>0. /\ pc' = [pc EXCEPT ![r] = "done"]
        /\ \A q \in Requests : pc'[q] = pc[q] \/ pc'[q] = "done"
    BY <1>13, <1>0 DEF SearchCancelled, TypeOK
  <2>1. ASSUME Refreshing(r), job[refresh] \in {"created", "queued"},
               job' = [job EXCEPT ![refresh] = "cancelled"], UNCHANGED <<scheduled, initial_done>>
        PROVE  FlagInv'
    <3>1. initial_done
      BY <1>0, <2>1 DEF Early
    <3>2. \A p \in Passes : job'[p] = "none" <=> job[p] = "none"
      BY <1>0, <2>1 DEF TypeOK
    <3>3. QED
      BY <2>0, <2>1, <3>1, <3>2, FlagFramed DEF Waiting, Requests, Askers
  <2>2. CASE Refreshing(r) /\ Working(refresh) /\ PassEnds(refresh, "cancelled")
    BY <2>0, <2>2, FlagEnds
  <2>3. CASE pc[r] = "wait_lock" /\ Withdraws(wait, "cancelled") /\ UNCHANGED flag_vars
    <3>1. /\ job' = [job EXCEPT ![wait] = "cancelled"] /\ wait \in Jobs /\ wait \notin Passes
          /\ UNCHANGED <<callbacks, scheduled, initial_done>>
      BY <1>13, <2>3, IndexAssumption DEF SearchCancelled, Withdraws, IndexAssumption, flag_vars
    <3>2. \A i \in Jobs : i # wait => job'[i] = job[i]
      BY <1>0, <3>1 DEF TypeOK
    <3>3. QED
      BY <2>0, <3>1, <3>2, FlagGoesOn DEF Waiting
  <2>4. CASE UNCHANGED <<lock_vars, flag_vars>>
    BY <2>0, <2>4, FlagStill DEF Waiting, lock_vars, flag_vars
  <2>5. QED
    BY <1>13, <2>1, <2>2, <2>3, <2>4 DEF SearchCancelled, Withdraws
<1>14. ASSUME NEW r \in Requests, Compact(r) PROVE FlagInv'
  <2>1. /\ job' = [job EXCEPT ![<<r, "compact">>] = "created"]
        /\ pc' = [pc EXCEPT ![r] = "compacting"] /\ <<r, "compact">> \in Jobs
        /\ UNCHANGED <<callbacks, scheduled, initial_done>>
    BY <1>14 DEF Compact, flag_vars
  <2>2. <<r, "compact">> \notin Passes
    OBVIOUS
  <2>3. QED
    BY <1>0, <2>1, <2>2, FlagGoesOn DEF TypeOK, Waiting
<1>15. ASSUME NEW r \in Requests, CompactEnds(r) PROVE FlagInv'
  <2>1. /\ job' = [job EXCEPT ![<<r, "compact">>] = "ok"]
        /\ pc' = [pc EXCEPT ![r] = "done"] /\ <<r, "compact">> \in Jobs
        /\ UNCHANGED <<callbacks, scheduled, initial_done>>
    BY <1>15 DEF CompactEnds, Releases, flag_vars
  <2>2. <<r, "compact">> \notin Passes
    OBVIOUS
  <2>3. QED
    BY <1>0, <2>1, <2>2, FlagGoesOn DEF TypeOK, Waiting
<1>16. ASSUME NEW r \in Requests, WorkflowIndexes(r) PROVE FlagInv'
  <2>1. CASE IsIndexing
    BY <1>16, <1>0, <2>1, FlagStill DEF WorkflowIndexes, TypeOK, Waiting, lock_vars
  <2>2. CASE ~IsIndexing
    <3> DEFINE j == <<r, "direct">>
    <3>1. /\ \A i \in Jobs : i # j => job'[i] = job[i]
          /\ job'[j] \in {"queued", "running"} /\ j \in Jobs /\ j \notin Spawned
          /\ pc' = [pc EXCEPT ![r] = "indexing"]
          /\ UNCHANGED <<callbacks, scheduled, initial_done>>
      BY <1>16, <1>0, <2>2 DEF WorkflowIndexes, Contends, Takes, TypeOK, Spawned
    <3>2. QED
      BY <1>0, <3>1, FlagGoesOn DEF TypeOK, Waiting
  <2>3. QED
    BY <2>1, <2>2
<1>17. ASSUME NEW r \in Requests, StreamEnds(r) PROVE FlagInv'
  BY <1>17, <1>0, FlagStill DEF StreamEnds, TypeOK, Waiting, lock_vars, flag_vars
<1>18. ASSUME NEW r \in Requests, StreamDropped(r) PROVE FlagInv'
  BY <1>18, <1>0, FlagStill DEF StreamDropped, TypeOK, Waiting, lock_vars, flag_vars
<1>19. ASSUME NEW r \in Requests, CountRows(r) PROVE FlagInv'
  BY <1>19, <1>0, FlagStill DEF CountRows, TypeOK, Waiting, lock_vars, flag_vars
<1>20. ASSUME NEW r \in Requests, CountDecides(r) PROVE FlagInv'
  BY <1>20, <1>0, FlagStill DEF CountDecides, TypeOK, Waiting, lock_vars, flag_vars
<1>21. ASSUME NEW r \in Requests, Answers(r) PROVE FlagInv'
  BY <1>21, <1>0, FlagStill DEF Answers, TypeOK, Waiting, lock_vars, flag_vars
<1>22. ASSUME NEW r \in Requests, WorkflowEnds(r) PROVE FlagInv'
  BY <1>22, <1>0, FlagStill DEF WorkflowEnds, TypeOK, Waiting, lock_vars, flag_vars
<1>23. ASSUME NEW r \in Requests, WorkflowPulls(r) PROVE FlagInv'
  BY <1>23, <1>0, FlagStill DEF WorkflowPulls, TypeOK, Waiting, lock_vars, flag_vars
<1>24. ASSUME Edit PROVE FlagInv'
  BY <1>24, FlagStill DEF Edit, lock_vars, flag_vars, request_vars
<1>25. ASSUME UNCHANGED vars PROVE FlagInv'
  BY <1>25, FlagStill DEF vars, lock_vars, flag_vars, request_vars
<1>26. QED
  BY <1>1, <1>2, <1>3, <1>4, <1>5, <1>6, <1>7, <1>8, <1>9, <1>10, <1>11, <1>12,
     <1>13, <1>14, <1>15, <1>16, <1>17, <1>18, <1>19, <1>20, <1>21, <1>22, <1>23, <1>24, <1>25
  DEF Next, JobStep, RequestStep, Environment

LEMMA FlagsInductive == Spec => [](LockInv /\ FlagInv)
<1>1. Init => LockInv /\ FlagInv
  BY LockInit, FlagInit
<1>2. LockInv /\ FlagInv /\ [Next]_vars => LockInv' /\ FlagInv'
  BY LockStep, FlagStep
<1>3. QED
  BY <1>1, <1>2, PTL DEF Spec

(* Before a first pass has completed, is_indexing sees every spawned pass. *)
THEOREM FirstPassIsVisible == Spec => []FirstPassVisible
<1>1. FlagInv => FirstPassVisible
  BY DEF FlagInv, Early, FirstPassVisible, Pending, IsIndexing
<1>2. QED
  BY <1>1, FlagsInductive, PTL

(* All searches and status requests together start one initial pass.       *)
THEOREM EnsureStartsOnePass == Spec => []OneEnsurePass
<1>1. FlagInv => OneEnsurePass
  BY DEF FlagInv
<1>2. QED
  BY <1>1, FlagsInductive, PTL

(* Where nothing compacts, a search that waits has a pass to wait for.     *)
THEOREM NobodyIsStranded ==
  ASSUME Compactors = {}
  PROVE  Spec => []NobodyStranded
<1>1. LockInv /\ FlagInv => NobodyStranded
  <2> SUFFICES ASSUME LockInv, FlagInv, ~initial_done, NEW r \in Searchers, pc[r] = "wait_done"
               PROVE  \E p \in Passes : Pending(p)
    BY DEF NobodyStranded
  <2>1. PICK p \in Passes : job[p] # "none"
    BY DEF FlagInv, Awaited, Promise, Waiting
  <2>2. ~Ended(p) /\ job[p] \in Phases
    BY JobNames DEF FlagInv, Early, LockInv, TypeOK
  <2>3. QED
    BY <2>1, <2>2 DEF Phases, Ended, Pending
<1>2. QED
  BY <1>1, FlagsInductive, PTL

-----------------------------------------------------------------------------
(* Turns.  The queue holds each job that waits for the lock once, and no   *)
(* other.                                                                  *)
InLine == Once(queue) /\ \A j \in Jobs : job[j] = "queued" <=> Stands(j, queue)

(* What a step does to those who write and those who wait.                 *)
Turn == InLine' /\ [Turns!Next]_(Turns!turns)

LEMMA NobodyWrites == LockInv /\ ~Locked => Writing = {}
BY IndexAssumption DEF IndexAssumption, LockInv, Coordinated, HolderWorks, Locked, Writing

(* A job whose phase changes, though it neither writes nor waits.          *)
LEMMA QuietTurn ==
  ASSUME LockInv, InLine, NEW j \in Jobs, NEW phase \in {"created", "cancelled"},
         ~Working(j), job[j] # "queued", job' = [job EXCEPT ![j] = phase],
         UNCHANGED <<queue, indexed>>
  PROVE  Turn
<1>1. InLine'
  BY DEF LockInv, TypeOK, InLine
<1>2. Writing' = Writing
  BY DEF LockInv, TypeOK, Writing, Working
<1>3. QED
  BY <1>1, <1>2 DEF Turn, Turns!turns

LEMMA SameTurn ==
  ASSUME InLine, UNCHANGED <<queue, job, indexed>>
  PROVE  Turn
BY DEF InLine, Turn, Turns!turns, Writing, Working

LEMMA TakesTurn ==
  ASSUME LockInv, InLine, NEW j \in Jobs, ~Locked, Takes(j), UNCHANGED indexed,
         \/ queue = <<>> /\ queue' = queue /\ job[j] # "queued"
         \/ queue # <<>> /\ Head(queue) = j /\ queue' = Tail(queue)
  PROVE  Turn
<1>0. TypeOK /\ Writing = {}
  BY NobodyWrites DEF LockInv
<1>1. Writing' = {j}
  BY <1>0 DEF Takes, TypeOK, Writing, Working
<1>2. InLine'
  <2>1. CASE queue = <<>> /\ queue' = queue /\ job[j] # "queued"
    BY <1>0, <2>1 DEF Takes, TypeOK, InLine
  <2>2. CASE queue # <<>> /\ Head(queue) = j /\ queue' = Tail(queue)
    <3>1. /\ queue \in Seq(Jobs) /\ queue' \in Seq(Jobs)
          /\ 1 \in 1..Len(queue) /\ queue[1] = j
          /\ Len(queue) \in Nat /\ Len(queue') = Len(queue) - 1
          /\ \A k \in 1..Len(queue') : queue'[k] = queue[k + 1]
      BY <1>0, <2>2, HeadTailProperties, LenProperties, EmptySeq DEF TypeOK
    <3>2. \A k \in 1..Len(queue') : queue'[k] = queue[IF k < 1 THEN k ELSE k + 1]
      BY <3>1
    <3>3. Once(queue') /\ \A x : Stands(x, queue') <=> Stands(x, queue) /\ x # j
      BY <3>1, <3>2, LeftBehind DEF InLine
    <3>4. QED
      BY <1>0, <3>3 DEF Takes, TypeOK, InLine
  <2>3. QED
    BY <2>1, <2>2
<1>3. Turns!Enters(j)
  BY <1>0, <1>1 DEF Turns!Enters
<1>4. QED
  BY <1>2, <1>3 DEF Turn, Turns!Next

LEMMA QueuesTurn ==
  ASSUME LockInv, InLine, NEW j \in Jobs, ~Working(j), job[j] # "queued",
         queue' = Append(queue, j), job' = [job EXCEPT ![j] = "queued"], UNCHANGED indexed
  PROVE  Turn
<1>0. TypeOK
  BY DEF LockInv
<1>1. Writing' = Writing /\ j \notin Writing
  BY <1>0 DEF TypeOK, Writing, Working
<1>2. /\ Len(queue) \in Nat /\ Len(queue') = Len(queue) + 1
      /\ \A i \in 1..Len(queue) : queue'[i] = queue[i]
      /\ queue'[Len(queue) + 1] = j
  BY <1>0, AppendProperties, LenProperties DEF TypeOK
<1>3. \A i \in 1..Len(queue') : i \in 1..Len(queue) \/ i = Len(queue) + 1
  BY <1>2
<1>4. \A i \in 1..Len(queue) + 1 : i \in 1..Len(queue')
  BY <1>2
<1>5. ~Stands(j, queue)
  BY DEF InLine
<1>6. Once(queue')
  BY <1>2, <1>3, <1>5 DEF InLine, Once, Stands
<1>7. ASSUME NEW i \in Jobs PROVE Stands(i, queue') <=> Stands(i, queue) \/ i = j
  <2>1. ASSUME Stands(i, queue') PROVE Stands(i, queue) \/ i = j
    BY <1>2, <1>3, <2>1 DEF Stands
  <2>2. ASSUME Stands(i, queue) PROVE Stands(i, queue')
    <3>1. PICK k \in 1..Len(queue) : queue[k] = i
      BY <2>2 DEF Stands
    <3>2. k \in 1..Len(queue') /\ queue'[k] = i
      BY <1>2, <3>1
    <3>3. QED
      BY <3>2 DEF Stands
  <2>3. ASSUME i = j PROVE Stands(i, queue')
    <3>1. Len(queue) + 1 \in 1..Len(queue')
      BY <1>2
    <3>2. QED
      BY <1>2, <2>3, <3>1 DEF Stands
  <2>4. QED
    BY <2>1, <2>2, <2>3
<1>8. InLine'
  BY <1>0, <1>6, <1>7 DEF TypeOK, InLine
<1>9. Turns!Asks(j)
  BY <1>1, <1>5 DEF Turns!Asks, Stands
<1>10. QED
  BY <1>8, <1>9 DEF Turn, Turns!Next

LEMMA ContendsTurn ==
  ASSUME LockInv, InLine, NEW j \in Jobs, ~Working(j), job[j] # "queued", Contends(j),
         UNCHANGED indexed
  PROVE  Turn
<1>1. CASE ~Locked /\ queue = <<>>
  BY <1>1, TakesTurn DEF Contends
<1>2. CASE ~(~Locked /\ queue = <<>>)
  BY <1>2, QueuesTurn DEF Contends
<1>3. QED
  BY <1>1, <1>2

LEMMA ReleasesTurn ==
  ASSUME LockInv, InLine, NEW j \in Jobs, Working(j), NEW outcome \in {"ok", "failed", "cancelled"},
         Releases(j, outcome), UNCHANGED indexed
  PROVE  Turn
<1>1. TypeOK /\ Writing = {j}
  BY DEF LockInv, Coordinated, HolderWorks, Writing
<1>2. Writing' = {}
  BY <1>1 DEF Releases, TypeOK, Writing, Working
<1>3. InLine'
  BY <1>1 DEF Releases, TypeOK, InLine, Working
<1>4. Turns!Leaves(j)
  BY <1>1, <1>2 DEF Turns!Leaves, Releases
<1>5. QED
  BY <1>3, <1>4 DEF Turn, Turns!Next

(* A waiter leaves the queue, from its head or from further behind.        *)
LEMMA LeavesTurn ==
  ASSUME LockInv, InLine, NEW j \in Jobs, NEW n \in 1..Len(queue), queue[n] = j,
         queue' = RemoveAt(queue, n), NEW outcome \in {"ok", "cancelled"},
         job' = [job EXCEPT ![j] = outcome]
  PROVE  InLine' /\ Writing' = Writing
<1>1. TypeOK /\ Len(queue) \in Nat
  BY LenProperties DEF LockInv, TypeOK
<1>2. /\ queue' \in Seq(Jobs) /\ Len(queue') = Len(queue) - 1
      /\ \A k \in 1..Len(queue') : queue'[k] = queue[IF k < n THEN k ELSE k + 1]
  BY <1>1, Removal DEF TypeOK
<1>3. Once(queue') /\ \A x : Stands(x, queue') <=> Stands(x, queue) /\ x # j
  BY <1>1, <1>2, LeftBehind DEF TypeOK, InLine
<1>4. job[j] = "queued"
  BY DEF InLine, Stands
<1>5. InLine'
  BY <1>1, <1>3 DEF TypeOK, InLine
<1>6. QED
  BY <1>1, <1>4, <1>5 DEF TypeOK, Writing, Working

LEMMA WithdrawsTurn ==
  ASSUME LockInv, InLine, NEW j \in Jobs, Withdraws(j, "cancelled"), UNCHANGED indexed
  PROVE  Turn
<1>1. PICK n \in 1..Len(queue) : queue[n] = j /\ queue' = RemoveAt(queue, n)
  BY DEF Withdraws
<1>2. InLine' /\ Writing' = Writing
  BY <1>1, LeavesTurn DEF Withdraws
<1>3. Turns!Withdraws(j)
  BY <1>1, <1>2 DEF Turns!Withdraws, Turns!RemoveAt, RemoveAt
<1>4. QED
  BY <1>2, <1>3 DEF Turn, Turns!Next

LEMMA SpawnTurn ==
  ASSUME LockInv, InLine, NEW j \in Jobs, job[j] = "none", Spawn(j), UNCHANGED <<queue, indexed>>
  PROVE  Turn
BY QuietTurn DEF Spawn, Working

LEMMA ProceedsTurn ==
  ASSUME LockInv, InLine, NEW r \in Askers, pc[r] \in {"new", "starting"}, Proceeds(r),
         UNCHANGED <<queue, indexed>>
  PROVE  Turn
<1>1. CASE r \in Refreshers /\ ~IsIndexing
  BY <1>1, SpawnTurn, JobNames DEF Proceeds, LockInv, Unmade, Before
<1>2. CASE ~(r \in Refreshers /\ ~IsIndexing)
  BY <1>2, SameTurn DEF Proceeds
<1>3. QED
  BY <1>1, <1>2

LEMMA FirstTurn == Init => InLine /\ Turns!Init
<1> SUFFICES ASSUME Init PROVE InLine /\ Turns!Init
  OBVIOUS
<1>1. Len(queue) = 0
  BY EmptySeq DEF Init
<1>2. InLine
  BY <1>1 DEF Init, InLine, Once, Stands
<1>3. Turns!Init
  BY DEF Init, Turns!Init, Writing, Working
<1>4. QED
  BY <1>2, <1>3

(* A search whose job waits for the lock is where it asked for it.         *)
AtLock == \A r \in Searchers : job[<<r, "wait">>] = "queued" => pc[r] = "wait_lock"

(* A request that was not waiting for the lock moves, and the job that     *)
(* moves is not a waiting search's.                                        *)
LEMMA LockFramed ==
  ASSUME TypeOK, AtLock, NEW q \in Requests,
         \/ pc' = pc
         \/ pc[q] # "wait_lock" /\ \E point \in Points : pc' = [pc EXCEPT ![q] = point],
         \/ job' = job
         \/ \E j \in Jobs, phase \in Phases :
              job' = [job EXCEPT ![j] = phase] /\ (j[2] # "wait" \/ phase # "queued")
  PROVE  AtLock'
<1>1. \A r \in Searchers : r \in Requests /\ <<r, "wait">> \in Jobs
  BY JobNames DEF Requests
<1>2. \A r \in Searchers : pc[r] = "wait_lock" => pc'[r] = "wait_lock"
  BY <1>1 DEF TypeOK
<1>3. \A r \in Searchers : job'[<<r, "wait">>] = "queued" => job[<<r, "wait">>] = "queued"
  BY <1>1 DEF TypeOK
<1>4. QED
  BY <1>2, <1>3 DEF AtLock

(* A step of a job.                                                        *)
LEMMA JobFramed ==
  ASSUME TypeOK, AtLock, NEW j \in Jobs, NEW phase \in Phases, j[2] # "wait" \/ phase # "queued",
         job' = [job EXCEPT ![j] = phase], UNCHANGED pc
  PROVE  AtLock'
BY LockFramed, JobNames

LEMMA AtLockStep == LockInv /\ AtLock /\ [Next]_vars => AtLock'
<1> SUFFICES ASSUME LockInv, AtLock, [Next]_vars PROVE AtLock'
  OBVIOUS
<1> USE JobNames DEF Goto
<1>0. /\ TypeOK /\ Coordinated
      /\ {"created", "queued", "running", "finalizing", "ok", "failed", "cancelled"} \subseteq Phases
  BY DEF LockInv, Phases
<1>1. ASSUME NEW j \in Jobs, JobStep(j) PROVE AtLock'
  <2>1. CASE JobStarts(j)
    <3>1. j[2] # "wait" /\ UNCHANGED pc
      BY <1>0, <2>1 DEF JobStarts, Coordinated, WaitsPass, request_vars
    <3>2. PICK phase \in Phases : job' = [job EXCEPT ![j] = phase]
      BY <1>0, <2>1 DEF JobStarts, Contends, Takes
    <3>3. QED
      BY <1>0, <3>1, <3>2, JobFramed
  <2>2. CASE JobGranted(j)
    BY <1>0, <2>2, JobFramed DEF JobGranted, Takes, request_vars
  <2>3. CASE PassIndexed(j)
    BY <1>0, <2>3, JobFramed DEF PassIndexed, request_vars
  <2>4. CASE PassFinishes(j)
    BY <1>0, <2>4, JobFramed DEF PassFinishes, PassEnds, Releases, request_vars
  <2>5. CASE Clear(j)
    BY <2>5 DEF Clear, AtLock, lock_vars, request_vars
  <2>6. QED
    BY <1>1, <2>1, <2>2, <2>3, <2>4, <2>5 DEF JobStep
<1>2. ASSUME NEW r \in Requests,
             \/ StreamEnds(r) \/ StreamDropped(r) \/ RefreshResumes(r) \/ CountRows(r)
             \/ CountDecides(r) \/ Answers(r) \/ WorkflowPulls(r) \/ WorkflowEnds(r)
      PROVE  AtLock'
  <2>1. pc[r] # "wait_lock" /\ (\E point \in Points : pc' = [pc EXCEPT ![r] = point]) /\ job' = job
    BY <1>2 DEF StreamEnds, StreamDropped, RefreshResumes, Refreshing, CountRows, CountDecides,
                Answers, WorkflowPulls, WorkflowEnds, lock_vars, Points
  <2>2. QED
    BY <1>0, <2>1, LockFramed
<1>3. ASSUME NEW r \in Requests, Compact(r) \/ StreamIndex(r) PROVE AtLock'
  <2>1. PICK j \in Jobs : j[2] # "wait" /\ job' = [job EXCEPT ![j] = "created"]
    BY <1>3 DEF Compact, StreamIndex, Spawn
  <2>2. pc[r] # "wait_lock" /\ \E point \in Points : pc' = [pc EXCEPT ![r] = point]
    BY <1>3 DEF Compact, StreamIndex, Points
  <2>3. QED
    BY <1>0, <2>1, <2>2, LockFramed
<1>4. ASSUME NEW r \in Askers, pc[r] \in {"new", "starting"}, Proceeds(r) PROVE AtLock'
  <2>1. CASE r \in Refreshers /\ ~IsIndexing
    <3>1. /\ <<r, "refresh">> \in Jobs /\ job' = [job EXCEPT ![<<r, "refresh">>] = "created"]
          /\ \E point \in Points : pc' = [pc EXCEPT ![r] = point]
      BY <1>4, <2>1 DEF Proceeds, Spawn, Points
    <3>2. QED
      BY <1>0, <1>4, <3>1, LockFramed
  <2>2. CASE ~(r \in Refreshers /\ ~IsIndexing)
    <3>1. job' = job /\ \E point \in Points : pc' = [pc EXCEPT ![r] = point]
      BY <1>4, <2>2 DEF Proceeds, Points
    <3>2. QED
      BY <1>0, <1>4, <3>1, LockFramed
  <2>3. QED
    BY <2>1, <2>2
<1>5. ASSUME NEW r \in Requests, Arrives(r) PROVE AtLock'
  <2>1. CASE NeedsFirstPass
    <3>1. /\ <<r, "ensure">> \in Jobs /\ job' = [job EXCEPT ![<<r, "ensure">>] = "created"]
          /\ pc[r] # "wait_lock" /\ \E point \in Points : pc' = [pc EXCEPT ![r] = point]
      BY <1>5, <2>1 DEF Arrives, Spawn, Points
    <3>2. QED
      BY <1>0, <3>1, LockFramed
  <2>2. QED
    BY <1>4, <1>5, <2>1 DEF Arrives
<1>6. ASSUME NEW r \in Requests, EnsureResumes(r) PROVE AtLock'
  BY <1>4, <1>6 DEF EnsureResumes
<1>7. ASSUME NEW r \in Requests, CompactEnds(r) PROVE AtLock'
  <2>1. /\ <<r, "compact">> \in Jobs /\ job' = [job EXCEPT ![<<r, "compact">>] = "ok"]
        /\ pc' = [pc EXCEPT ![r] = "done"] /\ r \notin Searchers
    BY <1>7, IndexAssumption DEF CompactEnds, Releases, IndexAssumption
  <2>2. QED
    BY <1>0, <2>1 DEF TypeOK, AtLock, Requests
<1>8. ASSUME NEW r \in Requests, WorkflowIndexes(r) PROVE AtLock'
  <2>1. pc[r] # "wait_lock" /\ \E point \in Points : pc' = [pc EXCEPT ![r] = point]
    BY <1>8 DEF WorkflowIndexes, Points
  <2>2. \/ job' = job
        \/ \E phase \in Phases : job' = [job EXCEPT ![<<r, "direct">>] = phase]
    BY <1>0, <1>8 DEF WorkflowIndexes, Contends, Takes, lock_vars
  <2>3. <<r, "direct">> \in Jobs
    BY <1>8 DEF WorkflowIndexes
  <2>4. QED
    BY <1>0, <2>1, <2>2, <2>3, LockFramed
<1>9. ASSUME NEW r \in Requests, WaitDone(r) PROVE AtLock'
  <2>1. CASE Locked
    <3>1. /\ job' = [job EXCEPT ![<<r, "wait">>] = "queued"] /\ pc' = [pc EXCEPT ![r] = "wait_lock"]
      BY <1>9, <2>1 DEF WaitDone, Contends
    <3>2. QED
      BY <1>0, <3>1 DEF TypeOK, AtLock, Requests
  <2>2. CASE ~Locked
    <3>1. /\ job' = job /\ pc[r] # "wait_lock"
          /\ \E point \in Points : pc' = [pc EXCEPT ![r] = point]
      BY <1>9, <2>2 DEF WaitDone, Points, lock_vars
    <3>2. QED
      BY <1>0, <3>1, LockFramed
  <2>3. QED
    BY <2>1, <2>2
<1>10. ASSUME NEW r \in Requests, NEW phase \in {"ok", "cancelled"}, <<r, "wait">> \in Jobs,
              NEW point \in Points, pc' = [pc EXCEPT ![r] = point],
              job' = [job EXCEPT ![<<r, "wait">>] = phase]
       PROVE  AtLock'
  BY <1>0, <1>10 DEF TypeOK, AtLock, Requests
<1>11. ASSUME NEW r \in Requests, WaitGranted(r) PROVE AtLock'
  <2>1. /\ <<r, "wait">> \in Jobs /\ pc' = [pc EXCEPT ![r] = "query"] /\ "query" \in Points
        /\ job' = [job EXCEPT ![<<r, "wait">>] = "ok"]
    BY <1>11 DEF WaitGranted, Points
  <2>2. QED
    BY <1>10, <2>1
<1>12. ASSUME NEW r \in Requests, SearchCancelled(r) PROVE AtLock'
  <2>0. /\ r \in Searchers /\ pc' = [pc EXCEPT ![r] = "done"] /\ "done" \in Points
        /\ <<r, "wait">> \in Jobs
    BY <1>12, IndexAssumption DEF SearchCancelled, Points, IndexAssumption
  <2>1. CASE Refreshing(r) /\ job' = [job EXCEPT ![<<r, "refresh">>] = "cancelled"]
    BY <1>0, <2>0, <2>1, LockFramed DEF Refreshing
  <2>2. CASE pc[r] = "wait_lock" /\ Withdraws(<<r, "wait">>, "cancelled")
    BY <1>10, <2>0, <2>2 DEF Withdraws
  <2>3. CASE pc[r] # "wait_lock" /\ UNCHANGED lock_vars
    BY <1>0, <2>0, <2>3, LockFramed DEF lock_vars
  <2>4. QED
    BY <1>12, <2>1, <2>2, <2>3 DEF SearchCancelled, Withdraws, PassEnds, Releases
<1>13. ASSUME UNCHANGED <<job, pc>> PROVE AtLock'
  BY <1>13 DEF AtLock
<1>14. QED
  BY <1>1, <1>2, <1>3, <1>5, <1>6, <1>7, <1>8, <1>9, <1>11, <1>12, <1>13
  DEF Next, RequestStep, Environment, PassCommits, Edit, vars, lock_vars, request_vars

LEMMA TurnStep == LockInv /\ FreshInv /\ AtLock /\ InLine /\ [Next]_vars => Turn
<1> SUFFICES ASSUME LockInv, FreshInv, AtLock, InLine, [Next]_vars PROVE Turn
  OBVIOUS
<1> USE JobNames
<1>0. TypeOK /\ Coordinated /\ Unmade
  BY DEF LockInv
<1>1. ASSUME NEW j \in Jobs, JobStarts(j) PROVE Turn
  BY <1>1, ContendsTurn DEF JobStarts, Working
<1>2. ASSUME NEW j \in Jobs, JobGranted(j) PROVE Turn
  BY <1>2, TakesTurn DEF JobGranted
<1>3. ASSUME NEW j \in Jobs, PassIndexed(j) PROVE Turn
  <2>1. Writing = {j} /\ Writing' = Writing
    BY <1>0, <1>3 DEF PassIndexed, TypeOK, Coordinated, HolderWorks, Writing, Working
  <2>2. InLine'
    BY <1>0, <1>3 DEF PassIndexed, TypeOK, InLine
  <2>3. indexed' = indexed \/ (indexed' \in Nat /\ indexed' > indexed)
    BY <1>0, <1>3 DEF PassIndexed, TypeOK, FreshInv, Versions
  <2>4. CASE indexed' = indexed
    BY <1>3, <2>1, <2>2, <2>4 DEF PassIndexed, Turn, Turns!turns
  <2>5. CASE indexed' \in Nat /\ indexed' > indexed
    BY <1>3, <2>1, <2>2, <2>5 DEF PassIndexed, Turn, Turns!Next, Turns!Writes
  <2>6. QED
    BY <2>3, <2>4, <2>5
<1>4. ASSUME NEW j \in Jobs, PassFinishes(j) PROVE Turn
  BY <1>4, ReleasesTurn DEF PassFinishes, PassEnds, Working, data_vars
<1>5. ASSUME NEW j \in Jobs, Clear(j) \/ PassCommits(j) PROVE Turn
  BY <1>5, SameTurn DEF Clear, PassCommits, lock_vars, data_vars
<1>6. ASSUME NEW r \in Requests, StreamIndex(r) PROVE Turn
  BY <1>0, <1>6, SpawnTurn DEF StreamIndex, Unmade, Before, data_vars
<1>7. ASSUME NEW r \in Requests, Arrives(r) PROVE Turn
  <2>1. CASE NeedsFirstPass
    BY <1>0, <1>7, <2>1, SpawnTurn DEF Arrives, Unmade, Before, data_vars
  <2>2. CASE ~NeedsFirstPass
    BY <1>7, <2>2, ProceedsTurn DEF Arrives, data_vars
  <2>3. QED
    BY <2>1, <2>2
<1>8. ASSUME NEW r \in Requests, EnsureResumes(r) PROVE Turn
  BY <1>8, ProceedsTurn DEF EnsureResumes, data_vars
<1>9. ASSUME NEW r \in Requests, WaitDone(r) PROVE Turn
  <2>1. CASE Locked
    <3>1. /\ <<r, "wait">> \in Jobs /\ ~Working(<<r, "wait">>) /\ job[<<r, "wait">>] # "queued"
          /\ Contends(<<r, "wait">>) /\ UNCHANGED indexed
      BY <1>0, <1>9, <2>1 DEF WaitDone, Coordinated, WaitsPass, Working, AtLock
    <3>2. QED
      BY <2>1, <3>1, ContendsTurn
  <2>2. CASE ~Locked
    BY <1>9, <2>2, SameTurn DEF WaitDone, lock_vars
  <2>3. QED
    BY <2>1, <2>2
<1>10. ASSUME NEW r \in Requests, WaitGranted(r) PROVE Turn
  <2> DEFINE j == <<r, "wait">>
  <2>1. /\ j \in Jobs /\ job' = [job EXCEPT ![j] = "ok"] /\ queue # <<>> /\ Head(queue) = j
        /\ queue' = Tail(queue) /\ ~Locked /\ UNCHANGED indexed
    BY <1>10 DEF WaitGranted, data_vars
  <2>2. 1 \in 1..Len(queue) /\ queue[1] = j /\ queue' = RemoveAt(queue, 1)
    BY <1>0, <2>1, HeadIsFirst DEF TypeOK
  <2>3. InLine' /\ Writing' = Writing
    BY <2>1, <2>2, LeavesTurn
  <2>4. Turns!Passes(j)
    BY <2>1, <2>3, NobodyWrites DEF Turns!Passes
  <2>5. QED
    BY <2>1, <2>3, <2>4 DEF Turn, Turns!Next
<1>11. ASSUME NEW r \in Requests, SearchCancelled(r) PROVE Turn
  <2> DEFINE refresh == <<r, "refresh">>
             wait    == <<r, "wait">>
  <2>0. UNCHANGED indexed /\ wait \in Jobs
    BY <1>11, IndexAssumption DEF SearchCancelled, data_vars, IndexAssumption
  <2>1. CASE /\ Refreshing(r) /\ job[refresh] = "created"
             /\ job' = [job EXCEPT ![refresh] = "cancelled"] /\ UNCHANGED queue
    BY <2>0, <2>1, QuietTurn DEF Refreshing, Working
  <2>2. CASE Refreshing(r) /\ Withdraws(refresh, "cancelled")
    BY <2>0, <2>2, WithdrawsTurn DEF Refreshing
  <2>3. CASE Refreshing(r) /\ Working(refresh) /\ PassEnds(refresh, "cancelled")
    BY <2>0, <2>3, ReleasesTurn DEF Refreshing, PassEnds
  <2>4. CASE Withdraws(wait, "cancelled")
    BY <2>0, <2>4, WithdrawsTurn
  <2>5. CASE UNCHANGED lock_vars
    BY <2>0, <2>5, SameTurn DEF lock_vars
  <2>6. QED
    BY <1>11, <2>1, <2>2, <2>3, <2>4, <2>5 DEF SearchCancelled
<1>12. ASSUME NEW r \in Requests, Compact(r) PROVE Turn
  BY <1>0, <1>12, QuietTurn DEF Compact, Unmade, Before, Working, data_vars
<1>13. ASSUME NEW r \in Requests, CompactEnds(r) PROVE Turn
  BY <1>13, ReleasesTurn DEF CompactEnds, Working, data_vars
<1>14. ASSUME NEW r \in Requests, WorkflowIndexes(r) PROVE Turn
  <2>1. CASE IsIndexing
    BY <1>14, <2>1, SameTurn DEF WorkflowIndexes, lock_vars
  <2>2. CASE ~IsIndexing
    <3>1. <<r, "direct">> \in Jobs /\ job[<<r, "direct">>] = "none"
      BY <1>0, <1>14 DEF WorkflowIndexes, Unmade, Before
    <3>2. QED
      BY <1>14, <2>2, <3>1, ContendsTurn DEF WorkflowIndexes, Working
  <2>3. QED
    BY <2>1, <2>2
<1>15. ASSUME NEW r \in Requests,
              \/ StreamEnds(r) \/ StreamDropped(r) \/ RefreshResumes(r) \/ CountRows(r)
              \/ CountDecides(r) \/ Answers(r) \/ WorkflowPulls(r) \/ WorkflowEnds(r)
       PROVE  Turn
  BY <1>15, SameTurn
  DEF StreamEnds, StreamDropped, RefreshResumes, CountRows, CountDecides, Answers, WorkflowPulls,
      WorkflowEnds, lock_vars, data_vars
<1>16. CASE Edit \/ UNCHANGED vars
  BY <1>16, SameTurn DEF Edit, vars, lock_vars, data_vars
<1>17. QED
  BY <1>1, <1>2, <1>3, <1>4, <1>5, <1>6, <1>7, <1>8, <1>9, <1>10, <1>11, <1>12, <1>13, <1>14,
     <1>15, <1>16
  DEF Next, JobStep, RequestStep, Environment

(* A project implements the abstract index: passes and compactions take    *)
(* turns in the order in which they asked, whoever is cancelled meanwhile, *)
(* and each turn leaves the index at least as new as it found it.          *)
THEOREM IndexTakesTurns == Spec => TakesTurns
<1>1. Init => LockInv /\ FreshInv /\ AtLock /\ InLine /\ Turns!Init
  BY LockInit, FreshInit, FirstTurn, JobNames DEF Init, AtLock
<1>2. LockInv /\ FreshInv /\ AtLock /\ InLine /\ [Next]_vars
        => LockInv' /\ FreshInv' /\ AtLock' /\ InLine' /\ [Turns!Next]_(Turns!turns)
  BY LockStep, FreshStep, AtLockStep, TurnStep DEF Turn
<1>3. QED
  BY <1>1, <1>2, PTL DEF Spec, TakesTurns, Turns!Spec

=============================================================================
