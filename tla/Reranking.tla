------------------------------ MODULE Reranking ------------------------------
(***************************************************************************)
(* The reranker adapters behind one circuit breaker: local inference on a  *)
(* bounded thread pool whose work outlives the request that asked for it   *)
(* (bge_local.py, resources.py), a rerank endpoint (openai_compatible.py)  *)
(* and scoring by an LLM in batches (llm_reranker.py), each with retries   *)
(* (packages/retrieval/rerank, packages/common/circuit_breaker.py).        *)
(*                                                                         *)
(* A step is what runs between two awaits of the event loop, or one step   *)
(* of a pool thread.                                                       *)
(***************************************************************************)
EXTENDS Naturals, Sequences, FiniteSets, FiniteSetsExt

CONSTANTS
    Rankers,            \* rerank calls
    Adapters,           \* adapters in use, of {"local", "api", "llm"}
    MaxConcurrency, MaxQueueSize,   \* the pool's threads and waiting places
    MaxRetries,         \* further attempts after a failure
    BatchCount,         \* batches the LLM adapter scores one by one
    FailureThreshold, SuccessThreshold, OpenTime,
    MaxJobs,            \* bound on the work submitted to the pool
    MaxTicks            \* bound on the clock

ASSUME RerankAssumption ==
    /\ {MaxConcurrency, BatchCount, FailureThreshold, SuccessThreshold, OpenTime} \subseteq Nat \ {0}
    /\ {MaxQueueSize, MaxRetries, MaxJobs, MaxTicks} \subseteq Nat

VARIABLES
    ticks,      \* perf_counter
    breaker,    \* the circuit breaker
    rank,       \* ranker -> its call
    jobs,       \* work submitted to the pool, in order of submission
    pending,    \* the jobs that hold capacity
    closed      \* aclose was called

rerankVars == <<ticks, breaker, rank, jobs, pending, closed>>

NoCall == [at |-> "idle", kind |-> "local", tries |-> 0, batch |-> 0, job |-> 0, out |-> "none", scored |-> 0]

Unfinished == {j \in DOMAIN jobs : jobs[j].st \in {"queued", "running"}}

\* The breaker leaves a state when its threshold is reached, and the pending
\* runs are among those submitted.
RerankTypeOK ==
    /\ breaker.state \in {"closed", "open", "half_open"}
    /\ breaker.succs \in 0..SuccessThreshold /\ breaker.opened \in 0..ticks
    /\ (breaker.state = "half_open" => breaker.succs < SuccessThreshold)
    /\ (breaker.state = "closed" => breaker.fails < FailureThreshold)
    /\ pending \subseteq DOMAIN jobs /\ Len(jobs) <= MaxJobs
    /\ \A r \in Rankers : rank[r].tries \in 0..MaxRetries /\ rank[r].batch \in 0..BatchCount

RerankInit ==
    /\ ticks = 0 /\ jobs = <<>> /\ pending = {} /\ closed = FALSE
    /\ breaker = [state |-> "closed", fails |-> 0, succs |-> 0, opened |-> 0]
    /\ rank = [r \in Rankers |-> NoCall]

TickRerank == ticks < MaxTicks /\ ticks' = ticks + 1 /\ UNCHANGED <<breaker, rank, jobs, pending, closed>>

-----------------------------------------------------------------------------
\* The breaker.  Failures accumulate: a success resets them only when it
\* closes a half open breaker.
TransitionIfReady(b) ==
    IF b.state = "open" /\ ticks - b.opened >= OpenTime
    THEN [b EXCEPT !.state = "half_open", !.succs = 0] ELSE b

Capped(n) == IF n < FailureThreshold THEN n ELSE FailureThreshold
OnFailure(b) ==
    LET c == [b EXCEPT !.fails = Capped(@ + 1)]
    IN IF \/ b.state = "closed" /\ c.fails >= FailureThreshold
          \/ b.state = "half_open"
       THEN [c EXCEPT !.state = "open", !.opened = ticks, !.succs = 0] ELSE c

OnSuccess(b) ==
    IF b.state # "half_open" THEN b
    ELSE IF b.succs + 1 >= SuccessThreshold THEN [b EXCEPT !.succs = @ + 1, !.state = "closed", !.fails = 0]
    ELSE [b EXCEPT !.succs = @ + 1]

-----------------------------------------------------------------------------
BeginRerank(r) ==
    /\ rank[r].at = "idle"
    /\ \E kind \in Adapters : rank' = [rank EXCEPT ![r] = [NoCall EXCEPT !.at = "attempt", !.kind = kind]]
    /\ UNCHANGED <<ticks, breaker, jobs, pending, closed>>

End(r, out) == rank' = [rank EXCEPT ![r].at = "done", ![r].out = out, ![r].job = 0]

\* An attempt failed: sleep and try again, or give up.
Retry(r) ==
    rank' = [rank EXCEPT ![r] =
        IF @.tries < MaxRetries THEN [@ EXCEPT !.at = "sleep", !.job = 0]
        ELSE [@ EXCEPT !.at = "done", !.out = "failed", !.job = 0]]

WakeRanker(r) ==
    /\ rank[r].at = "sleep"
    /\ rank' = [rank EXCEPT ![r].at = "attempt", ![r].tries = @ + 1]
    /\ UNCHANGED <<ticks, breaker, jobs, pending, closed>>

\* An open breaker ends the call as degraded.
OpenRefuses(r) ==
    /\ rank[r].at = "attempt"
    /\ TransitionIfReady(breaker).state = "open"
    /\ End(r, "degraded")
    /\ UNCHANGED <<ticks, breaker, jobs, pending, closed>>

Admitted(r, kinds) ==
    /\ rank[r].at = "attempt" /\ rank[r].kind \in kinds
    /\ TransitionIfReady(breaker).state # "open"

\* Admission is bounded before the work reaches the pool's own queue.
Unbounded == closed   \* seeded fault
NoCapacity == closed \/ Cardinality(pending) >= MaxConcurrency + MaxQueueSize

Submit(r) ==
    /\ Admitted(r, {"local"}) /\ ~NoCapacity /\ Len(jobs) < MaxJobs
    /\ breaker' = TransitionIfReady(breaker)
    /\ jobs' = Append(jobs, [st |-> "queued", abandoned |-> FALSE])
    /\ pending' = pending \cup {Len(jobs) + 1}
    /\ rank' = [rank EXCEPT ![r].at = "wait", ![r].job = Len(jobs) + 1]
    /\ UNCHANGED <<ticks, closed>>

\* A full or closing pool counts as a failure of the breaker's call.
Exhausted(r) ==
    /\ Admitted(r, {"local"}) /\ NoCapacity
    /\ breaker' = OnFailure(TransitionIfReady(breaker))
    /\ End(r, "degraded")
    /\ UNCHANGED <<ticks, jobs, pending, closed>>

\* A thread takes the oldest job; an abandoned one is skipped.
Execute(j) == IF jobs[j].abandoned THEN "cancelled" ELSE "running"

StartJob(j) ==
    /\ j \in DOMAIN jobs /\ jobs[j].st = "queued"
    /\ \A i \in DOMAIN jobs : jobs[i].st = "queued" => j <= i
    /\ Cardinality({i \in DOMAIN jobs : jobs[i].st = "running"}) < MaxConcurrency
    /\ jobs' = [jobs EXCEPT ![j].st = Execute(j)]
    /\ pending' = IF jobs'[j].st = "running" THEN pending ELSE pending \ {j}
    /\ UNCHANGED <<ticks, breaker, rank, closed>>

FinishJob(j) ==
    /\ j \in DOMAIN jobs /\ jobs[j].st = "running"
    /\ \E st \in {"scored", "raised"} : jobs' = [jobs EXCEPT ![j].st = st]
    /\ pending' = pending \ {j}
    /\ UNCHANGED <<ticks, breaker, rank, closed>>

\* The future's result reaches the waiting call; a future the shutdown
\* cancelled raises CancelledError, which neither breaker nor retry catch.
Deliver(r) ==
    /\ rank[r].at = "wait"
    /\ LET st == jobs[rank[r].job].st
       IN \/ st = "scored" /\ breaker' = OnSuccess(breaker)
             /\ rank' = [rank EXCEPT ![r].at = "done", ![r].out = "ranked", ![r].scored = BatchCount, ![r].job = 0]
          \/ st = "raised" /\ breaker' = OnFailure(breaker) /\ Retry(r)
          \/ st = "cancelled" /\ UNCHANGED breaker /\ End(r, "cancelled")
    /\ UNCHANGED <<ticks, jobs, pending, closed>>

\* Abandoned work keeps its capacity until a thread has consumed it.
AbandonRun(r) ==
    /\ jobs' = [jobs EXCEPT ![rank[r].job].abandoned = TRUE]
    /\ UNCHANGED pending

\* asyncio.timeout expires, possibly beside a result not yet delivered.
TimeoutRanker(r) ==
    /\ rank[r].at = "wait"
    /\ AbandonRun(r)
    /\ breaker' = OnFailure(breaker) /\ Retry(r)
    /\ UNCHANGED <<ticks, closed>>

\* The client goes away.
CancelRanker(r) ==
    /\ rank[r].at \in {"wait", "sleep", "remote"}
    /\ IF rank[r].at = "wait" THEN AbandonRun(r) ELSE UNCHANGED <<jobs, pending>>
    /\ End(r, "cancelled")
    /\ UNCHANGED <<ticks, breaker, closed>>

\* aclose: nothing is admitted; queued futures are cancelled, running ones
\* are joined.
ClosePool ==
    /\ ~closed /\ closed' = TRUE
    /\ jobs' = [j \in DOMAIN jobs |-> IF jobs[j].st = "queued" THEN [jobs[j] EXCEPT !.st = "cancelled"] ELSE jobs[j]]
    /\ pending' = {j \in pending : jobs[j].st = "running"}
    /\ UNCHANGED <<ticks, breaker, rank>>

-----------------------------------------------------------------------------
\* The endpoint and the LLM: the call goes out, then answers or fails.
SendRerank(r) ==
    /\ Admitted(r, {"api", "llm"})
    /\ breaker' = TransitionIfReady(breaker)
    /\ rank' = [rank EXCEPT ![r].at = "remote"]
    /\ UNCHANGED <<ticks, jobs, pending, closed>>

\* The endpoint's scores are zipped with the candidates, so a short answer
\* drops the rest.
ApiAnswer(r, n) == [rank[r] EXCEPT !.at = "done", !.out = "ranked", !.scored = n]

\* A batch the model scored only in part is padded with zeros; the attempts
\* are counted anew for the next batch.
ScoreBatch(r, n) ==
    LET b == rank[r].batch + 1
    IN [rank[r] EXCEPT !.batch = b, !.tries = 0, !.scored = @ + 1,
                       !.at = IF b = BatchCount THEN "done" ELSE "attempt",
                       !.out = IF b = BatchCount THEN "ranked" ELSE "none"]

Answer(r) ==
    /\ rank[r].at = "remote"
    /\ breaker' = OnSuccess(breaker)
    /\ \E n \in 0..BatchCount :
         rank' = [rank EXCEPT ![r] = IF rank[r].kind = "api" THEN ApiAnswer(r, n) ELSE ScoreBatch(r, n)]
    /\ UNCHANGED <<ticks, jobs, pending, closed>>

RemoteFails(r) ==
    /\ rank[r].at = "remote"
    /\ breaker' = OnFailure(breaker)
    /\ Retry(r)
    /\ UNCHANGED <<ticks, jobs, pending, closed>>

RerankNext ==
    \/ TickRerank \/ ClosePool
    \/ \E j \in 1..MaxJobs : StartJob(j) \/ FinishJob(j)
    \/ \E r \in Rankers :
        \/ BeginRerank(r) \/ WakeRanker(r) \/ OpenRefuses(r) \/ Submit(r) \/ Exhausted(r) \/ Deliver(r)
        \/ TimeoutRanker(r) \/ CancelRanker(r) \/ SendRerank(r) \/ Answer(r) \/ RemoteFails(r)

-----------------------------------------------------------------------------
\* The pool never holds more work than its threads and waiting places,
\* abandoned work included, and what holds capacity is exactly the work not
\* yet finished (BoundedInferenceExecutor: "A request cancellation cannot
\* release capacity held by a running thread").
CapacityHeld ==
    /\ pending = Unfinished
    /\ Cardinality(Unfinished) <= MaxConcurrency + MaxQueueSize

\* Work abandoned while it waited is never run.
NoAbandonedRun ==
    [][\A j \in DOMAIN jobs : jobs[j].st = "queued" /\ jobs'[j].st = "running" => ~jobs[j].abandoned]_rerankVars

\* Failures that arrive while the breaker is open, of calls made before it
\* opened, do not put off the moment it lets a call through: it opens anew
\* only after a probe of a period that has run out (_on_failure).
OpenNotExtended ==
    [][breaker.state = "open" /\ breaker'.opened # breaker.opened => ticks - breaker.opened >= OpenTime]_rerankVars

\* A local or LLM ranking covers every candidate, however the batches and
\* the attempts went.
RankedAll ==
    \A r \in Rankers : rank[r].out = "ranked" /\ rank[r].kind # "api" => rank[r].scored = BatchCount
=============================================================================
