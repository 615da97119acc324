--------------------------- MODULE EmbeddingPacing ---------------------------
(***************************************************************************)
(* PacedLiteLLMEmbedder.run_embedding_request (litellm_embedder.py): calls *)
(* to an embedding service.  A daemon has two such embedders, one for what *)
(* is indexed and one for queries, unless memory is short and searches use *)
(* the first as well (run_daemon).  Each sends one request at a time, at   *)
(* least the configured interval after the last one that was answered to   *)
(* it, with retries on rate limits; the two know nothing of one another.   *)
(* The service is external: it answers, limits, or fails.                  *)
(*                                                                         *)
(* Times are counted down, so that the clock has no bound: "cool" is what  *)
(* is left until _next_request_at.                                         *)
(***************************************************************************)
EXTENDS Naturals, Sequences, FiniteSets

CONSTANTS
    Caller,         \* tasks that embed: batches of passes, checks, and searches
    Searcher,       \* the searches among them
    Interval,       \* _min_request_interval_seconds, in ticks
    MaxAttempts,    \* _MAX_RATE_LIMIT_RETRIES
    MaxBackoff,     \* the longest delay between two attempts, in ticks
    Nobody          \* the lock is free

VARIABLES
    shared,         \* one embedder serves all
    pc,             \* pc[c]: where a caller is
                    \* Of each embedder:
    queue,          \* waiters of _request_lock, in order
    lock,           \* its holder
    cool,           \* ticks until _next_request_at
    attempt,        \* attempts the holder has made
    backoff,        \* ticks left of the holder's sleep between attempts
    sinceAnswer,    \* ticks since the last answer, saturated (history)
    gap             \* sinceAnswer when the request in flight was sent (history)

vars == <<shared, pc, queue, lock, cool, attempt, backoff, sinceAnswer, gap>>

Embedder == {"indexing", "query"}
Uses(c) == IF c \in Searcher /\ ~shared THEN "query" ELSE "indexing"

PacingTypeOK ==
    /\ shared \in BOOLEAN
    /\ pc \in [Caller -> {"idle", "queued", "pacing", "calling", "backoff", "done", "raised", "cancelled"}]
    /\ lock \in [Embedder -> Caller \cup {Nobody}]
    /\ cool \in [Embedder -> 0..Interval]
    /\ sinceAnswer \in [Embedder -> 0..Interval] /\ gap \in [Embedder -> 0..Interval]
    /\ attempt \in [Embedder -> 0..MaxAttempts] /\ backoff \in [Embedder -> 0..MaxBackoff]

Init ==
    /\ shared \in BOOLEAN
    /\ pc = [c \in Caller |-> "idle"]
    /\ queue = [e \in Embedder |-> <<>>] /\ lock = [e \in Embedder |-> Nobody]
    /\ cool = [e \in Embedder |-> 0] /\ attempt = [e \in Embedder |-> 0]
    /\ backoff = [e \in Embedder |-> 0]
    /\ sinceAnswer = [e \in Embedder |-> Interval] /\ gap = [e \in Embedder |-> Interval]

Go(c, l) == pc' = [pc EXCEPT ![c] = l] /\ UNCHANGED shared
Down(n) == IF n > 0 THEN n - 1 ELSE 0

Tick ==
    /\ \E e \in Embedder : cool[e] > 0 \/ backoff[e] > 0 \/ sinceAnswer[e] < Interval
    /\ cool' = [e \in Embedder |-> Down(cool[e])]
    /\ backoff' = [e \in Embedder |-> Down(backoff[e])]
    /\ sinceAnswer' = [e \in Embedder |-> IF sinceAnswer[e] < Interval THEN sinceAnswer[e] + 1 ELSE Interval]
    /\ UNCHANGED <<shared, pc, queue, lock, attempt, gap>>

\* async with lock: waiters are served in order.
Request(c) ==
    /\ pc[c] = "idle"
    /\ queue' = [queue EXCEPT ![Uses(c)] = Append(@, c)] /\ Go(c, "queued")
    /\ UNCHANGED <<lock, cool, attempt, backoff, sinceAnswer, gap>>

Acquire(c) ==
    /\ pc[c] = "queued" /\ lock[Uses(c)] = Nobody /\ Head(queue[Uses(c)]) = c
    /\ lock' = [lock EXCEPT ![Uses(c)] = c]
    /\ queue' = [queue EXCEPT ![Uses(c)] = Tail(@)]
    /\ attempt' = [attempt EXCEPT ![Uses(c)] = 0]
    /\ Go(c, "pacing")
    /\ UNCHANGED <<cool, backoff, sinceAnswer, gap>>

\* An attempt is sent: the n-th.
Sends(c, n) ==
    /\ gap' = [gap EXCEPT ![Uses(c)] = sinceAnswer[Uses(c)]]
    /\ attempt' = [attempt EXCEPT ![Uses(c)] = n]
    /\ Go(c, "calling")
    /\ UNCHANGED <<queue, lock, cool, backoff, sinceAnswer>>

\* The sleep until _next_request_at, then the first attempt.
Send(c) ==
    /\ pc[c] = "pacing" /\ cool[Uses(c)] = 0
    /\ Sends(c, 1)

Frees(c) == lock' = [lock EXCEPT ![Uses(c)] = Nobody]

\* Mutant: the interval counts from the moment the request was sent, which
\* was a tick ago.
AnsweredEarly(c) ==
    /\ pc[c] = "calling"
    /\ cool' = [cool EXCEPT ![Uses(c)] = Interval - 1]
    /\ sinceAnswer' = [sinceAnswer EXCEPT ![Uses(c)] = 0]
    /\ Frees(c) /\ Go(c, "done")
    /\ UNCHANGED <<queue, attempt, backoff, gap>>

\* The answer; _next_request_at counts from now.
Answered(c) ==
    /\ pc[c] = "calling"
    /\ cool' = [cool EXCEPT ![Uses(c)] = Interval]
    /\ sinceAnswer' = [sinceAnswer EXCEPT ![Uses(c)] = 0]
    /\ Frees(c) /\ Go(c, "done")
    /\ UNCHANGED <<queue, attempt, backoff, gap>>

\* A rate limit with attempts left is slept on, inside the lock.
RateLimited(c) ==
    /\ pc[c] = "calling" /\ attempt[Uses(c)] < MaxAttempts
    /\ \E n \in 1..MaxBackoff : backoff' = [backoff EXCEPT ![Uses(c)] = n]
    /\ Go(c, "backoff")
    /\ UNCHANGED <<queue, lock, cool, attempt, sinceAnswer, gap>>

Retry(c) ==
    /\ pc[c] = "backoff" /\ backoff[Uses(c)] = 0
    /\ Sends(c, attempt[Uses(c)] + 1)

\* Another error, or the last attempt limited: raised, leaving the lock;
\* _next_request_at stays.
Raises(c) ==
    /\ pc[c] = "calling"
    /\ Frees(c) /\ Go(c, "raised")
    /\ UNCHANGED <<queue, cool, attempt, backoff, sinceAnswer, gap>>

Withdraws(c) ==
    /\ pc[c] \in {"queued", "pacing", "calling", "backoff"}
    /\ queue' = [queue EXCEPT ![Uses(c)] = SelectSeq(@, LAMBDA d : d # c)]
    /\ Go(c, "cancelled")

\* Mutant: a cancelled call keeps the lock.
CancelKeepingLock(c) ==
    /\ Withdraws(c)
    /\ UNCHANGED <<lock, cool, attempt, backoff, sinceAnswer, gap>>

\* The task is cancelled in any await: out of the queue, or out of the lock.
Cancel(c) ==
    /\ Withdraws(c)
    /\ IF lock[Uses(c)] = c THEN Frees(c) /\ backoff' = [backoff EXCEPT ![Uses(c)] = 0]
       ELSE UNCHANGED <<lock, backoff>>
    /\ UNCHANGED <<cool, attempt, sinceAnswer, gap>>

Serve(c) == Acquire(c) \/ Send(c) \/ Answered(c) \/ RateLimited(c) \/ Retry(c) \/ Raises(c)

Next == Tick \/ \E c \in Caller : Request(c) \/ Serve(c) \/ Cancel(c)

\* Time passes, and a call to the service returns: litellm has a timeout.
Fairness == WF_vars(Tick) /\ \A c \in Caller : WF_vars(Serve(c))

Spec == Init /\ [][Next]_vars /\ Fairness

-----------------------------------------------------------------------------
InFlight(e) == {c \in Caller : Uses(c) = e /\ pc[c] \in {"pacing", "calling", "backoff"}}

(***************************************************************************)
(* Each embedder has one request in flight at a time, and sends no attempt *)
(* sooner than the interval after its last answer, whatever was cancelled, *)
(* limited or raised in between (run_embedding_request).  The service may  *)
(* see a request of either embedder at once: what is serialized and paced  *)
(* is an instance.                                                         *)
(***************************************************************************)
Paced ==
    \A e \in Embedder :
        /\ Cardinality(InFlight(e)) <= 1
        /\ \A c \in InFlight(e) : pc[c] = "calling" => gap[e] = Interval

(***************************************************************************)
(* Whoever waits for an embedder gets its answer or its error, also when   *)
(* the calls before it fail or are cancelled.                              *)
(***************************************************************************)
EveryCallerServed ==
    \A c \in Caller : pc[c] = "queued" ~> pc[c] \in {"done", "raised", "cancelled"}
=============================================================================
