--------------------------- MODULE MetricsPushProofs ---------------------------
(***************************************************************************)
(* Proofs about the metrics push, for every set of pushes made by index    *)
(* passes and on demand.                                                   *)
(***************************************************************************)
EXTENDS MetricsPush, TLAPS

\* What a session has written follows where its push is.
SessionFollows ==
    \A p \in Push :
        /\ pc[p] \in {"idle", "gather", "connect", "repo", "end"} => session[p] = {}
        /\ pc[p] = "language" => session[p] = {"repo"}
        /\ pc[p] = "commit" => session[p] = {"repo", "language"}

\* Nothing is visible before the commit, and a connection is open between
\* Connect and Close only.
VisibleAfterCommit ==
    \A p \in Push :
        /\ pc[p] \notin {"close", "end"} => stored[p] = {}
        /\ pc[p] \in {"idle", "gather", "connect", "end"} => p \notin open

\* SnapshotsWhole alone is not inductive: that a commit makes a whole
\* snapshot visible depends on what the session has written before.
IInv == PushTypeOK /\ SessionFollows /\ VisibleAfterCommit /\ SnapshotsWhole

LEMMA InitEstablishes ==
  ASSUME Table = {"repo", "language"}
  PROVE  Init => IInv
BY DEF Init, IInv, PushTypeOK, SessionFollows, VisibleAfterCommit, SnapshotsWhole

LEMMA TypePreserved ==
  ASSUME Table = {"repo", "language"}, PushTypeOK, [Next]_vars
  PROVE  PushTypeOK'
<1> USE DEF PushTypeOK, Go, Tell
<1>1. CASE Exit
  BY <1>1 DEF Exit
<1>2. ASSUME NEW p \in Push, Begin(p) \/ Gather(p) \/ Connect(p) PROVE PushTypeOK'
  BY <1>2 DEF Begin, Gather, GetStatus, Connect
<1>3. ASSUME NEW p \in Push, Insert(p) PROVE PushTypeOK'
  BY <1>3 DEF Insert
<1>4. ASSUME NEW p \in Push, Commit(p) \/ CommitReplyLost(p) PROVE PushTypeOK'
  BY <1>4 DEF Commit, CommitReplyLost
<1>5. ASSUME NEW p \in Push, Fails(p) \/ Close(p) PROVE PushTypeOK'
  BY <1>5 DEF Fails, Close
<1>6. CASE UNCHANGED vars
  BY <1>6 DEF vars
<1>7. QED
  BY <1>1, <1>2, <1>3, <1>4, <1>5, <1>6 DEF Next

LEMMA StepPreserves ==
  ASSUME Table = {"repo", "language"}, IInv, [Next]_vars
  PROVE  IInv'
<1>1. PushTypeOK'
  BY TypePreserved DEF IInv
<1> USE DEF IInv, PushTypeOK, SessionFollows, VisibleAfterCommit, SnapshotsWhole, Go, Tell
<1>2. CASE Exit
  BY <1>1, <1>2 DEF Exit
<1>3. ASSUME NEW p \in Push, Begin(p) \/ Gather(p) PROVE IInv'
  BY <1>1, <1>3 DEF Begin, Gather, GetStatus
<1>4. ASSUME NEW p \in Push, Connect(p) PROVE IInv'
  BY <1>1, <1>4 DEF Connect
<1>5. ASSUME NEW p \in Push, Insert(p) PROVE IInv'
  BY <1>1, <1>5 DEF Insert
<1>6. ASSUME NEW p \in Push, Commit(p) \/ CommitReplyLost(p) PROVE IInv'
  BY <1>1, <1>6 DEF Commit, CommitReplyLost
<1>7. ASSUME NEW p \in Push, Fails(p) PROVE IInv'
  BY <1>1, <1>7 DEF Fails
<1>8. ASSUME NEW p \in Push, Close(p) PROVE IInv'
  BY <1>1, <1>8 DEF Close
<1>9. CASE UNCHANGED vars
  BY <1>1, <1>9 DEF vars
<1>10. QED
  BY <1>2, <1>3, <1>4, <1>5, <1>6, <1>7, <1>8, <1>9 DEF Next

(* Whatever fails and whenever the daemon exits, a snapshot is visible     *)
(* whole or not at all, and a push told as done is visible (the one        *)
(* transaction of _write_snapshot).                                        *)
THEOREM SnapshotsAreWhole ==
  ASSUME Table = {"repo", "language"}
  PROVE  Spec => []SnapshotsWhole
<1>1. IInv /\ [Next]_vars => IInv'
  BY StepPreserves
<1>2. IInv => SnapshotsWhole
  BY DEF IInv
<1>3. QED
  BY <1>1, <1>2, InitEstablishes, PTL DEF Spec
=============================================================================
