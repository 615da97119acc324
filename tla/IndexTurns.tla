----------------------------- MODULE IndexTurns -----------------------------
(***************************************************************************)
(* What a project promises of its index, whatever starts the passes and    *)
(* compactions that write it: writers take turns in the order in which     *)
(* they asked, only the one whose turn it is changes the index, and the    *)
(* index never goes back to an older version of the working tree.          *)
(***************************************************************************)
EXTENDS Naturals, Sequences, SequencesExt

CONSTANT Writer     \* whatever may ask for a turn

VARIABLES
    writing,        \* the writers at work
    line,           \* the writers that have asked, oldest first
    version         \* the version of the working tree that the index reflects

turns == <<writing, line, version>>

Init == writing = {} /\ line = <<>> /\ version = 0

\* Nobody asks again before its turn is over.
Asks(w) ==
    /\ w \notin writing /\ \A i \in 1..Len(line) : line[i] # w
    /\ line' = Append(line, w)
    /\ UNCHANGED <<writing, version>>

\* A turn begins: nobody writes, and nobody asked earlier.
Enters(w) ==
    /\ writing = {} /\ writing' = {w}
    /\ \/ line = <<>> /\ UNCHANGED line
       \/ line # <<>> /\ Head(line) = w /\ line' = Tail(line)
    /\ UNCHANGED version

Writes(w) ==
    /\ writing = {w}
    /\ version' \in Nat /\ version' > version
    /\ UNCHANGED <<writing, line>>

Leaves(w) ==
    /\ writing = {w} /\ writing' = {}
    /\ UNCHANGED <<line, version>>

\* Whoever only waits for its turn passes at the head of the line.
Passes(w) ==
    /\ writing = {} /\ line # <<>> /\ Head(line) = w
    /\ line' = Tail(line)
    /\ UNCHANGED <<writing, version>>

\* Whoever is cancelled leaves the line, and the others keep their order.
Withdraws(w) ==
    /\ \E i \in 1..Len(line) : line[i] = w /\ line' = RemoveAt(line, i)
    /\ UNCHANGED <<writing, version>>

Next == \E w \in Writer : \/ Asks(w) \/ Enters(w) \/ Writes(w) \/ Leaves(w)
                          \/ Passes(w) \/ Withdraws(w)

Spec == Init /\ [][Next]_turns
=============================================================================
