--------------------------- MODULE IngestionPipeline ---------------------------
(***************************************************************************)
(* The way of one uploaded document version from the upload request to    *)
(* retrieval: the upload service commits the records and enqueues an      *)
(* ingestion delivery; a parse worker claims the job, parses, and commits *)
(* chunks together with an embedding job; the committed job is handed to  *)
(* the embedding queue; an embedding worker claims it, calls the model,   *)
(* stores the vectors and marks the version ready.  At any time a client  *)
(* may delete the document, an operator may recover, retry or terminate a *)
(* delivery, a worker may die, a database call may fail, Redis may lose a *)
(* request or its acknowledgement, and a claim may grow stale.            *)
(*                                                                         *)
(* PostgreSQL runs at READ COMMITTED: a transaction that reads a row and  *)
(* later writes it is two steps here, unless it holds the row's lock in   *)
(* between.  The writes a transaction makes last and its commit are one   *)
(* step; rows it wrote earlier stay locked (chunkLock, vectorLock).        *)
(*                                                                         *)
(* One document with one version is modelled: versions share only the     *)
(* document's status column, which mirrors the newest live version.       *)
(* Chunk identifiers are a function of the content (_stable_chunk_id), so *)
(* every attempt writes the same chunk rows and the same vector rows.     *)
(***************************************************************************)
EXTENDS Naturals

CONSTANTS
    Parsers,     \* concurrent executions of process_document_ingestion
    Embedders,   \* concurrent executions of process_document_embedding
    MaxEmb,      \* bound on the embedding jobs that exist
    RetryMax,    \* QUEUE_RETRY_MAX, the RQ retries of one delivery
    MaxOps,      \* bound on the deletes and operator actions of a behaviour
    Overlap      \* TRUE when a delivery or a claim given up as dead may
                 \* belong to an execution that is still running

ASSUME PipelineAssumption ==
    /\ MaxEmb \in Nat \ {0}
    /\ RetryMax \in Nat
    /\ MaxOps \in Nat
    /\ Overlap \in BOOLEAN
    /\ "none" \notin Parsers \cup Embedders
    /\ "delete" \notin Parsers

VARIABLES
    job,         \* the ingestion_jobs row
    version,     \* the document_versions row (and the documents row)
    chunks,      \* the committed chunk rows of the version
    vectors,     \* the committed vector rows of the version
    emb,         \* the embedding_jobs rows, in order of creation
    q,           \* the RQ deliveries: 0 is the ingestion job's, k is emb[k]'s
    api,         \* the upload request
    par,         \* the parse executions
    run,         \* the embedding executions
    chunkLock,   \* who has written chunk rows without committing
    vectorLock,  \* who has written vector rows without committing
    del,         \* the delete request
    op,          \* the operator's terminate request
    ops          \* deletes and operator actions so far

rows == <<job, version, chunks, vectors, emb>>
vars == <<job, version, chunks, vectors, emb, q, api, par, run, chunkLock,
          vectorLock, del, op, ops>>

EmbIds == 1..MaxEmb
Deliveries == 0..MaxEmb

JobStatus == {"none", "uploaded", "parsing", "parsed", "chunked", "queued",
              "embedding", "embedded", "failed_retryable", "failed_terminal"}

VersionStatus == {"uploaded", "parsed", "chunked", "retrieval_ready",
                  "failed_retryable", "failed_terminal", "deleted"}

RowState == {"none", "active", "deleted"}

DeliveryState == {"absent", "queued", "started", "scheduled", "finished",
                  "failed", "stopped", "canceled", "expired"}

JobRow == [status : JobStatus, attempt : Nat, fresh : BOOLEAN,
           due : BOOLEAN, marked : BOOLEAN]

ParserState ==
    [pc : {"idle", "claim", "parse", "parsed", "chunk", "mark", "commit",
           "handoff", "enqueue"},
     attempt : Nat, rechunk : BOOLEAN, left : 0..RetryMax,
     target : Deliveries]

RunState ==
    [pc : {"idle", "claim", "reject", "call", "upsert", "mark", "commit",
           "return"},
     attempt : Nat, left : 0..RetryMax, target : Deliveries]

\* Rows, jobs, chunks and executions hold values of their kinds.
TypeOK ==
    /\ job \in JobRow
    /\ version \in [status : VersionStatus, deleted : BOOLEAN]
    /\ chunks \in RowState
    /\ vectors \in RowState
    /\ emb \in [EmbIds -> JobRow]
    /\ q \in [Deliveries -> [state : DeliveryState, left : 0..RetryMax]]
    /\ api \in {"enqueue", "unacked", "done", "failed", "dead"}
    /\ par \in [Parsers -> ParserState]
    /\ run \in [Embedders -> RunState]
    /\ chunkLock \in Parsers \cup {"none", "delete"}
    /\ vectorLock \in Embedders \cup {"none"}
    /\ del \in {"idle", "chunks"}
    /\ op \in [pc : {"idle", "mark"}, target : Deliveries,
               attempt : Nat]
    /\ ops \in 0..MaxOps

NewJob(s) == [status |-> s, attempt |-> 0, fresh |-> FALSE, due |-> TRUE,
              marked |-> s = "queued"]

IdleParser == [pc |-> "idle", attempt |-> 0, rechunk |-> FALSE, left |-> 0,
               target |-> 0]

IdleRun == [pc |-> "idle", attempt |-> 0, left |-> 0, target |-> 0]

\* create_upload_records has committed; the request is about to enqueue.
Init ==
    /\ job = NewJob("uploaded")
    /\ version = [status |-> "uploaded", deleted |-> FALSE]
    /\ chunks = "none"
    /\ vectors = "none"
    /\ emb = [k \in EmbIds |-> NewJob("none")]
    /\ q = [d \in Deliveries |-> [state |-> "absent", left |-> 0]]
    /\ api = "enqueue"
    /\ par = [p \in Parsers |-> IdleParser]
    /\ run = [e \in Embedders |-> IdleRun]
    /\ chunkLock = "none"
    /\ vectorLock = "none"
    /\ del = "idle"
    /\ op = [pc |-> "idle", target |-> 0, attempt |-> 0]
    /\ ops = 0

--------------------------------------------------------------------------------
\* What RQ does with a delivery.

Published == [state |-> "queued", left |-> RetryMax]

\* The record of a delivery is kept until its TTL ends.
Recorded(d) == q[d].state \notin {"absent", "expired"}

\* An execution that raised: RQ schedules a retry while the budget lasts.
Retried(d) ==
    IF q[d].left > 0 THEN [state |-> "scheduled", left |-> q[d].left - 1]
                     ELSE [state |-> "failed", left |-> 0]

\* The retry's time comes.  next_retry_at was rounded down to the second
\* RQ schedules at, so the job is due by then.
Requeue(d) ==
    /\ q[d].state = "scheduled"
    /\ q' = [q EXCEPT ![d].state = "queued"]
    /\ job' = IF d = 0 THEN [job EXCEPT !.due = TRUE] ELSE job
    /\ emb' = IF d = 0 THEN emb ELSE [emb EXCEPT ![d].due = TRUE]
    /\ UNCHANGED <<version, chunks, vectors, api, par, run, chunkLock,
                   vectorLock, del, op, ops>>

Executing(d) ==
    IF d = 0 THEN \E p \in Parsers : par[p].pc # "idle"
             ELSE \E e \in Embedders : run[e].pc # "idle" /\ run[e].target = d

\* The registry cleanup of RQ gives up an execution without a heartbeat.
Abandon(d) ==
    /\ q[d].state = "started"
    /\ Overlap \/ ~Executing(d)
    /\ q' = [q EXCEPT ![d] = Retried(d)]
    /\ UNCHANGED <<rows, api, par, run, chunkLock, vectorLock, del, op, ops>>

\* result_ttl and failure_ttl (a day) end and Redis drops the record.  No
\* execution (at most a quarter of an hour) spans that time.
Expire(k) ==
    /\ q[k].state \in {"finished", "failed"}
    /\ ~Executing(k) /\ \A p \in Parsers : par[p].pc # "enqueue"
    /\ q' = [q EXCEPT ![k].state = "expired"]
    /\ UNCHANGED <<rows, api, par, run, chunkLock, vectorLock, del, op, ops>>

--------------------------------------------------------------------------------
\* Conditions and updates the repository methods share.

Inactive == version.deleted \/ version.status = "deleted"

\* claim_ingestion_job_parsing and claim_embedding_job, but for the version.
Claimable(j, waiting, running) ==
    \/ j.status \in waiting
    \/ j.status = "failed_retryable" /\ j.due
    \/ j.status = running /\ ~j.fresh

Claimed(j, running) ==
    [j EXCEPT !.status = running, !.attempt = @ + 1, !.fresh = TRUE]

\* Seeded fault: mark_*_failed compares no attempt.
SupersededUnfenced(j, expected, final) ==
    \/ j.status \in {final, "failed_terminal"}
    \/ version.deleted
    \/ version.status \in {"deleted", "retrieval_ready"}

\* The rows mark_*_failed refreshes under lock and leaves alone.
Superseded(j, expected, final) ==
    \/ j.status \in {final, "failed_terminal"}
    \/ j.attempt # expected
    \/ version.deleted
    \/ version.status \in {"deleted", "retrieval_ready"}

\* next_retry_at lies in the future only for a failure RQ will retry.
FailedJob(j, status, due) ==
    [j EXCEPT !.status = status, !.fresh = TRUE, !.due = due]

FailIngestion(expected, status, due) ==
    IF Superseded(job, expected, "chunked")
    THEN UNCHANGED <<job, version>>
    ELSE /\ job' = FailedJob(job, status, due)
         /\ version' = [version EXCEPT !.status = status]

Created(k) == emb[k].status # "none"

Latest(k) == Created(k) /\ \A j \in EmbIds : j > k => ~Created(j)

FailEmbedding(k, expected, status) ==
    IF Superseded(emb[k], expected, "embedded")
    THEN UNCHANGED <<emb, version>>
    ELSE /\ emb' = [emb EXCEPT ![k] = FailedJob(@, status, status = "failed_terminal")]
         /\ version' = IF status = "failed_terminal" /\ Latest(k)
                       THEN [version EXCEPT !.status = status] ELSE version

\* A retryable failure is terminal once RQ has no retry left.
FailureStatus(kind, left) ==
    IF kind = "failed_retryable" /\ left > 0 THEN kind ELSE "failed_terminal"

Failures == {"failed_retryable", "failed_terminal"}

--------------------------------------------------------------------------------
\* The upload request, after its records are committed.

ApiOnly == UNCHANGED <<chunks, vectors, emb, par, run, chunkLock, vectorLock,
                       del, op, ops>>

\* Redis took the delivery and the request hears of it.
UploadEnqueue ==
    /\ api = "enqueue"
    /\ q' = [q EXCEPT ![0] = Published]
    /\ api' = "done"
    /\ UNCHANGED <<job, version>>
    /\ ApiOnly

\* The call fails; Redis may have taken the delivery all the same.
UploadUnacked ==
    /\ api = "enqueue"
    /\ q' \in {q, [q EXCEPT ![0] = Published]}
    /\ api' = "unacked"
    /\ UNCHANGED <<job, version>>
    /\ ApiOnly

\* The request marks the job failed without naming an attempt.
UploadFails ==
    /\ api = "unacked"
    /\ FailIngestion(job.attempt, "failed_retryable", TRUE)
    /\ api' = "failed"
    /\ UNCHANGED q
    /\ ApiOnly

UploadDies ==
    /\ api \in {"enqueue", "unacked"}
    /\ api' = "dead"
    /\ UNCHANGED <<job, version, q>>
    /\ ApiOnly

--------------------------------------------------------------------------------
\* A parse execution: IngestionParseService.parse_job.

ParserOnly == UNCHANGED <<api, run, vectorLock, vectors, del, op, ops>>

Unlocked(p) == IF chunkLock = p THEN "none" ELSE chunkLock

Goto(p, pc) == par' = [par EXCEPT ![p].pc = pc]

\* The execution raises: its transaction is rolled back and RQ retries.
ParseRaises(p) ==
    /\ par' = [par EXCEPT ![p] = IdleParser]
    /\ chunkLock' = Unlocked(p)
    /\ q' = [q EXCEPT ![0] = Retried(0)]

ParseReturns(p) ==
    /\ par' = [par EXCEPT ![p] = IdleParser]
    /\ chunkLock' = Unlocked(p)
    /\ q' = [q EXCEPT ![0].state = "finished"]

\* A chunked job only replays its handoff, a parsed one is chunked again
\* without a claim, any other is claimed.
ParseStart(p) ==
    /\ par[p].pc = "idle"
    /\ q[0].state = "queued"
    /\ q' = [q EXCEPT ![0].state = "started"]
    /\ par' = [par EXCEPT ![p] =
                  [pc |-> CASE job.status = "chunked" -> "handoff"
                            [] job.status = "parsed" -> "parse"
                            [] OTHER -> "claim",
                   attempt |-> job.attempt,
                   rechunk |-> job.status = "parsed",
                   left |-> q[0].left,
                   target |-> 0]]
    /\ UNCHANGED <<job, version, chunks, emb, chunkLock>>
    /\ ParserOnly

\* Seeded fault: an execution that gets no claim reports success.
ParseClaimQuiet(p) ==
    /\ par[p].pc = "claim"
    /\ IF Claimable(job, {"uploaded", "queued"}, "parsing") /\ ~Inactive
       THEN /\ job' = Claimed(job, "parsing")
            /\ par' = [par EXCEPT ![p].pc = "parse",
                                  ![p].attempt = job.attempt + 1]
            /\ UNCHANGED <<q, chunkLock>>
       ELSE /\ ParseReturns(p)
            /\ UNCHANGED job
    /\ UNCHANGED <<version, chunks, emb>>
    /\ ParserOnly

ParseClaim(p) ==
    /\ par[p].pc = "claim"
    /\ IF Claimable(job, {"uploaded", "queued"}, "parsing") /\ ~Inactive
       THEN /\ job' = Claimed(job, "parsing")
            /\ par' = [par EXCEPT ![p].pc = "parse",
                                  ![p].attempt = job.attempt + 1]
            /\ UNCHANGED <<q, chunkLock>>
       ELSE /\ ParseRaises(p)
            /\ UNCHANGED job
    /\ UNCHANGED <<version, chunks, emb>>
    /\ ParserOnly

\* Reading the object, parsing or splitting fails.
ParseFails(p) ==
    /\ par[p].pc \in {"parse", "chunk"}
    /\ \E kind \in Failures :
         LET status == FailureStatus(kind, par[p].left)
         IN  FailIngestion(par[p].attempt, status, status = "failed_terminal")
    /\ ParseRaises(p)
    /\ UNCHANGED <<chunks, emb>>
    /\ ParserOnly

\* The document is parsed; mark_ingestion_job_parsed reads the version.
ParseDone(p) ==
    /\ par[p].pc = "parse"
    /\ IF par[p].rechunk
       THEN Goto(p, "chunk") /\ UNCHANGED <<q, chunkLock>>
       ELSE IF Inactive
            THEN ParseRaises(p)
            ELSE Goto(p, "parsed") /\ UNCHANGED <<q, chunkLock>>
    /\ UNCHANGED <<job, version, chunks, emb>>
    /\ ParserOnly

\* ... and writes, whatever attempt the job is at by now.
MarkParsed(p) ==
    /\ par[p].pc = "parsed"
    /\ job' = [job EXCEPT !.status = "parsed"]
    /\ version' = [version EXCEPT !.status = "parsed"]
    /\ Goto(p, "chunk")
    /\ UNCHANGED <<q, chunks, emb, chunkLock>>
    /\ ParserOnly

\* replace_chunks_for_version deletes the chunk rows and inserts its own.
\* It waits for a delete that holds them; an insert that meets another
\* parser's uncommitted rows fails on their unique key.
ReplaceChunks(p) ==
    /\ par[p].pc = "chunk"
    /\ chunkLock # "delete"
    /\ IF Inactive \/ chunkLock # "none"
       THEN ParseRaises(p)
       ELSE /\ Goto(p, "mark")
            /\ chunkLock' = p
            /\ UNCHANGED q
    /\ UNCHANGED <<job, version, chunks, emb>>
    /\ ParserOnly

\* mark_ingestion_job_chunked reads the job and the version.
MarkChunked(p) ==
    /\ par[p].pc = "mark"
    /\ IF Inactive \/ job.status # "parsed" \/ version.status # "parsed"
       THEN ParseRaises(p)
       ELSE Goto(p, "commit") /\ UNCHANGED <<q, chunkLock>>
    /\ UNCHANGED <<job, version, chunks, emb>>
    /\ ParserOnly

NextEmb(k) == ~Created(k) /\ \A j \in EmbIds : j < k => Created(j)

\* It writes them; create_embedding_job reads the version again, now under
\* this transaction's lock, and inserts the job; commit.
ChunkCommit(p) ==
    /\ par[p].pc = "commit"
    /\ IF version.deleted
       THEN ParseRaises(p) /\ UNCHANGED <<job, version, chunks, emb>>
       ELSE /\ \E k \in EmbIds :
                 NextEmb(k) /\ emb' = [emb EXCEPT ![k] = NewJob("queued")]
            /\ job' = [job EXCEPT !.status = "chunked"]
            /\ version' = [version EXCEPT !.status = "chunked"]
            /\ chunks' = "active"
            /\ chunkLock' = "none"
            /\ Goto(p, "handoff")
            /\ UNCHANGED q
    /\ ParserOnly

Marked == {k \in EmbIds : emb[k].marked}

\* get_ingestion_embedding_handoff finds the one job this ingestion made;
\* one_or_none raises when there are two.
HandoffJob(k) == Marked = {k}

Advanced(k) == emb[k].status \in Failures \cup {"embedding", "embedded"}

Handoff(p) ==
    /\ par[p].pc = "handoff"
    /\ \/ /\ job.status = "chunked"
          /\ \/ Inactive \/ version.status = "retrieval_ready"
             \/ \E k \in EmbIds : HandoffJob(k) /\ Advanced(k)
          /\ ParseReturns(p)
       \/ /\ job.status = "chunked"
          /\ ~Inactive
          /\ version.status = "chunked"
          /\ \E k \in EmbIds :
               /\ HandoffJob(k)
               /\ ~Advanced(k)
               /\ par' = [par EXCEPT ![p].pc = "enqueue", ![p].target = k]
          /\ UNCHANGED <<q, chunkLock>>
       \/ /\ \/ job.status # "chunked"
             \/ /\ ~Inactive
                /\ version.status # "retrieval_ready"
                /\ \/ \A k \in EmbIds : ~HandoffJob(k)
                   \/ /\ version.status # "chunked"
                      /\ \E k \in EmbIds : HandoffJob(k) /\ ~Advanced(k)
          /\ ParseRaises(p)
    /\ UNCHANGED <<job, version, chunks, emb>>
    /\ ParserOnly

\* _enqueue_idempotently publishes a delivery unless its record exists.
Enqueue(p) ==
    /\ par[p].pc = "enqueue"
    /\ LET k == par[p].target
       IN  q' = [q EXCEPT ![k] = IF Recorded(k) THEN @ ELSE Published,
                          ![0].state = "finished"]
    /\ par' = [par EXCEPT ![p] = IdleParser]
    /\ UNCHANGED <<job, version, chunks, emb, chunkLock>>
    /\ ParserOnly

\* Seeded fault: a failed enqueue is swallowed after the commit.
EnqueueFailsQuietly(p) ==
    /\ par[p].pc = "enqueue"
    /\ ParseReturns(p)
    /\ UNCHANGED <<job, version, chunks, emb>>
    /\ ParserOnly

\* Redis fails, before or after it took the delivery; RQ retries the parse
\* execution, whose job is chunked by now.
EnqueueFails(p) ==
    /\ par[p].pc = "enqueue"
    /\ LET k == par[p].target
       IN  q' \in {[q EXCEPT ![0] = Retried(0)],
                   [q EXCEPT ![0] = Retried(0),
                             ![k] = IF Recorded(k) THEN @ ELSE Published]}
    /\ par' = [par EXCEPT ![p] = IdleParser]
    /\ UNCHANGED <<job, version, chunks, emb, chunkLock>>
    /\ ParserOnly

\* A database call of the execution fails.
ParseStorageFails(p) ==
    /\ par[p].pc \notin {"idle", "enqueue"}
    /\ ParseRaises(p)
    /\ UNCHANGED <<job, version, chunks, emb>>
    /\ ParserOnly

\* The worker dies; PostgreSQL rolls its transaction back.
ParseDies(p) ==
    /\ par[p].pc # "idle"
    /\ par' = [par EXCEPT ![p] = IdleParser]
    /\ chunkLock' = Unlocked(p)
    /\ UNCHANGED <<job, version, chunks, emb, q>>
    /\ ParserOnly

\* The claim of the job is older than parsing_stale_after_seconds.
ParseStale ==
    /\ job.status = "parsing"
    /\ job.fresh
    /\ Overlap \/ ~Executing(0)
    /\ job' = [job EXCEPT !.fresh = FALSE]
    /\ UNCHANGED <<version, chunks, emb, q, par, chunkLock>>
    /\ ParserOnly

--------------------------------------------------------------------------------
\* An embedding execution: EmbeddingJobService.embed_job.

RunOnly == UNCHANGED <<job, api, par, chunks, chunkLock, del, op, ops>>

Freed(e) == IF vectorLock = e THEN "none" ELSE vectorLock

RunRaises(e) ==
    /\ run' = [run EXCEPT ![e] = IdleRun]
    /\ vectorLock' = Freed(e)
    /\ q' = [q EXCEPT ![run[e].target] = Retried(run[e].target)]

RunGoto(e, pc) ==
    /\ run' = [run EXCEPT ![e].pc = pc]
    /\ UNCHANGED <<q, vectorLock>>

\* The job is loaded.  One already embedded at most makes the version ready;
\* a version that is not chunked fails the job.
EmbedStart(e, k) ==
    /\ run[e].pc = "idle"
    /\ q[k].state = "queued"
    /\ IF emb[k].status = "embedded"
       THEN /\ q' = [q EXCEPT ![k] = IF version.status = "retrieval_ready"
                                       \/ (~Inactive /\ chunks = "active")
                                     THEN [@ EXCEPT !.state = "finished"]
                                     ELSE Retried(k)]
            /\ version' = IF ~Inactive /\ chunks = "active"
                          THEN [version EXCEPT !.status = "retrieval_ready"]
                          ELSE version
            /\ UNCHANGED run
       ELSE /\ q' = [q EXCEPT ![k].state = "started"]
            /\ run' = [run EXCEPT ![e] =
                          [pc |-> IF version.status = "chunked"
                                  THEN "claim" ELSE "reject",
                           attempt |-> emb[k].attempt,
                           left |-> q[k].left,
                           target |-> k]]
            /\ UNCHANGED version
    /\ UNCHANGED <<emb, vectors, vectorLock>>
    /\ RunOnly

EmbedReject(e) ==
    /\ run[e].pc = "reject"
    /\ FailEmbedding(run[e].target, run[e].attempt, "failed_terminal")
    /\ RunRaises(e)
    /\ UNCHANGED vectors
    /\ RunOnly

\* claim_embedding_job; without active chunks the same transaction fails it.
EmbedClaim(e) ==
    /\ run[e].pc = "claim"
    /\ LET k == run[e].target
       IN  IF ~(Claimable(emb[k], {"queued"}, "embedding") /\ ~Inactive)
           THEN RunRaises(e) /\ UNCHANGED <<emb, version>>
           ELSE IF chunks = "active"
           THEN /\ emb' = [emb EXCEPT ![k] = Claimed(@, "embedding")]
                /\ run' = [run EXCEPT ![e].pc = "call",
                                      ![e].attempt = emb[k].attempt + 1]
                /\ UNCHANGED <<q, version, vectorLock>>
           ELSE /\ emb' = [emb EXCEPT ![k] =
                              FailedJob(Claimed(@, "embedding"),
                                        "failed_terminal", TRUE)]
                /\ version' = IF Latest(k)
                              THEN [version EXCEPT !.status = "failed_terminal"]
                              ELSE version
                /\ RunRaises(e)
    /\ UNCHANGED vectors
    /\ RunOnly

\* The model, its answer's validation or the vector store fails.
EmbedFails(e) ==
    /\ run[e].pc \in {"call", "upsert"}
    /\ \E kind \in Failures :
         FailEmbedding(run[e].target, run[e].attempt,
                       FailureStatus(kind, run[e].left))
    /\ RunRaises(e)
    /\ UNCHANGED vectors
    /\ RunOnly

EmbedAnswer(e) ==
    /\ run[e].pc = "call"
    /\ RunGoto(e, "upsert")
    /\ UNCHANGED <<emb, version, vectors>>
    /\ RunOnly

\* The chunks are listed again and the vectors written, uncommitted.
Upsert(e) ==
    /\ run[e].pc = "upsert"
    /\ IF chunks # "active"
       THEN /\ FailEmbedding(run[e].target, run[e].attempt, "failed_terminal")
            /\ RunRaises(e)
       ELSE /\ vectorLock = "none"
            /\ vectorLock' = e
            /\ run' = [run EXCEPT ![e].pc = "mark"]
            /\ UNCHANGED <<q, emb, version>>
    /\ UNCHANGED vectors
    /\ RunOnly

\* mark_embedding_job_embedded reads the version.
MarkEmbedded(e) ==
    /\ run[e].pc = "mark"
    /\ IF Inactive THEN RunRaises(e) ELSE RunGoto(e, "commit")
    /\ UNCHANGED <<emb, version, vectors>>
    /\ RunOnly

\* Seeded fault: the version is not checked again under the lock.
EmbedCommitBlind(e) ==
    /\ run[e].pc = "commit"
    /\ chunkLock = "none"
    /\ emb' = [emb EXCEPT ![run[e].target].status = "embedded",
                          ![run[e].target].marked = FALSE]
    /\ version' = [version EXCEPT !.status = "retrieval_ready"]
    /\ vectors' = "active"
    /\ vectorLock' = "none"
    /\ run' = [run EXCEPT ![e].pc = "return"]
    /\ UNCHANGED q
    /\ RunOnly

\* It writes, waiting for chunk rows another transaction holds.  Then
\* mark_document_version_retrieval_ready reads version and chunks again,
\* under this transaction's lock on the version, and commit.
EmbedCommit(e) ==
    /\ run[e].pc = "commit"
    /\ chunkLock = "none"
    /\ LET k == run[e].target
       IN  IF version.deleted \/ chunks # "active"
           THEN RunRaises(e) /\ UNCHANGED <<emb, version, vectors>>
           ELSE /\ emb' = [emb EXCEPT ![k].status = "embedded",
                                      ![k].marked = FALSE]
                /\ version' = [version EXCEPT !.status = "retrieval_ready"]
                /\ vectors' = "active"
                /\ vectorLock' = "none"
                /\ run' = [run EXCEPT ![e].pc = "return"]
                /\ UNCHANGED q
    /\ RunOnly

EmbedReturn(e) ==
    /\ run[e].pc = "return"
    /\ run' = [run EXCEPT ![e] = IdleRun]
    /\ q' = [q EXCEPT ![run[e].target].state = "finished"]
    /\ UNCHANGED <<emb, version, vectors, vectorLock>>
    /\ RunOnly

EmbedStorageFails(e) ==
    /\ run[e].pc # "idle"
    /\ RunRaises(e)
    /\ UNCHANGED <<emb, version, vectors>>
    /\ RunOnly

EmbedDies(e) ==
    /\ run[e].pc # "idle"
    /\ run' = [run EXCEPT ![e] = IdleRun]
    /\ vectorLock' = Freed(e)
    /\ UNCHANGED <<emb, version, vectors, q>>
    /\ RunOnly

EmbedStale(k) ==
    /\ emb[k].status = "embedding"
    /\ emb[k].fresh
    /\ Overlap \/ ~Executing(k)
    /\ emb' = [emb EXCEPT ![k].fresh = FALSE]
    /\ UNCHANGED <<version, vectors, q, run, vectorLock>>
    /\ RunOnly

--------------------------------------------------------------------------------
\* Requests of clients and operators.

\* DocumentLifecycleService.delete soft-deletes the active chunks it reads,
\* waiting for a transaction that has rewritten them ...
DeleteChunks ==
    /\ del = "idle"
    /\ ops < MaxOps
    /\ IF chunks = "active" THEN chunkLock = "none" /\ chunkLock' = "delete"
                            ELSE UNCHANGED chunkLock
    /\ del' = "chunks"
    /\ ops' = ops + 1
    /\ UNCHANGED <<rows, q, api, par, run, vectorLock, op>>

\* ... then version and document, then the active vectors it reads; commit.
DeleteCommit ==
    /\ del = "chunks"
    /\ vectors = "active" => vectorLock = "none"
    /\ version' = [status |-> "deleted", deleted |-> TRUE]
    /\ chunks' = IF chunkLock = "delete" THEN "deleted" ELSE chunks
    /\ vectors' = IF vectors = "active" THEN "deleted" ELSE vectors
    /\ chunkLock' = IF chunkLock = "delete" THEN "none" ELSE chunkLock
    /\ del' = "idle"
    /\ UNCHANGED <<job, emb, q, api, par, run, vectorLock, op, ops>>

DeleteFails ==
    /\ del = "chunks"
    /\ chunkLock' = IF chunkLock = "delete" THEN "none" ELSE chunkLock
    /\ del' = "idle"
    /\ UNCHANGED <<rows, q, api, par, run, vectorLock, op, ops>>

Operator ==
    /\ ops < MaxOps
    /\ ~Inactive
    /\ ops' = ops + 1

\* HandoffRecoveryService.recover publishes an unstarted handoff.
RecoverHandoff(k) ==
    /\ Operator
    /\ job.status = "chunked"
    /\ version.status = "chunked"
    /\ HandoffJob(k)
    /\ emb[k].status = "queued"
    /\ emb[k].attempt = 0
    /\ ~Recorded(k)
    /\ q' = [q EXCEPT ![k] = Published]
    /\ UNCHANGED <<rows, api, par, run, chunkLock, vectorLock, del, op>>

DomainJob(d) == IF d = 0 THEN job ELSE emb[d]

\* QueueOperationsService.retry_job spends one retry that is left.
OpRetry(d) ==
    /\ Operator
    /\ q[d].state \in {"failed", "stopped"}
    /\ q[d].left > 0
    /\ DomainJob(d).status = "failed_retryable"
    /\ DomainJob(d).due
    /\ q' = [q EXCEPT ![d] = [state |-> "queued", left |-> @.left - 1]]
    /\ UNCHANGED <<rows, api, par, run, chunkLock, vectorLock, del, op>>

Terminable(d) ==
    DomainJob(d).status \notin {"none", "chunked", "embedded"}

\* terminate_job cancels a delivery that is not running in Redis ...
OpTerminate(d) ==
    /\ Operator
    /\ op.pc = "idle"
    /\ Terminable(d)
    /\ q[d].state \in {"queued", "scheduled", "failed", "stopped", "canceled"}
    /\ q' = [q EXCEPT ![d].state = "canceled"]
    /\ op' = [pc |-> "mark", target |-> d, attempt |-> DomainJob(d).attempt]
    /\ UNCHANGED <<rows, api, par, run, chunkLock, vectorLock, del>>

\* ... and then fails the job in the database, if the request gets that far.
OpMark ==
    /\ op.pc = "mark"
    /\ IF op.target = 0
       THEN /\ FailIngestion(op.attempt, "failed_terminal", TRUE)
            /\ UNCHANGED emb
       ELSE /\ FailEmbedding(op.target, op.attempt, "failed_terminal")
            /\ UNCHANGED job
    /\ op' = [op EXCEPT !.pc = "idle"]
    /\ UNCHANGED <<chunks, vectors, q, api, par, run, chunkLock, vectorLock,
                   del, ops>>

OpLost ==
    /\ op.pc = "mark"
    /\ op' = [op EXCEPT !.pc = "idle"]
    /\ UNCHANGED <<rows, q, api, par, run, chunkLock, vectorLock, del, ops>>

\* For a running delivery terminate_job asks RQ to stop it: the worker kills
\* the execution and records the delivery as stopped, without a retry.
OpStopParser(p) ==
    /\ Operator
    /\ q[0].state = "started"
    /\ Terminable(0)
    /\ par[p].pc # "idle"
    /\ par' = [par EXCEPT ![p] = IdleParser]
    /\ chunkLock' = Unlocked(p)
    /\ q' = [q EXCEPT ![0].state = "stopped"]
    /\ UNCHANGED <<rows, api, run, vectorLock, del, op>>

OpStopRun(e) ==
    /\ Operator
    /\ run[e].pc # "idle"
    /\ q[run[e].target].state = "started"
    /\ Terminable(run[e].target)
    /\ run' = [run EXCEPT ![e] = IdleRun]
    /\ vectorLock' = Freed(e)
    /\ q' = [q EXCEPT ![run[e].target].state = "stopped"]
    /\ UNCHANGED <<rows, api, par, chunkLock, del, op>>

--------------------------------------------------------------------------------

ParserStep(p) ==
    \/ ParseClaim(p) \/ ParseDone(p) \/ MarkParsed(p) \/ ReplaceChunks(p)
    \/ MarkChunked(p) \/ ChunkCommit(p) \/ Handoff(p) \/ Enqueue(p)

RunStep(e) ==
    \/ EmbedReject(e) \/ EmbedClaim(e) \/ EmbedAnswer(e) \/ Upsert(e)
    \/ MarkEmbedded(e) \/ EmbedCommit(e) \/ EmbedReturn(e)

Next ==
    \/ \E d \in Deliveries : Requeue(d) \/ Abandon(d) \/ OpRetry(d) \/ OpTerminate(d)
    \/ UploadEnqueue \/ UploadUnacked \/ UploadFails \/ UploadDies
    \/ \E p \in Parsers :
         \/ ParseStart(p) \/ ParserStep(p) \/ ParseFails(p) \/ EnqueueFails(p)
         \/ ParseStorageFails(p) \/ ParseDies(p) \/ OpStopParser(p)
    \/ ParseStale
    \/ \E e \in Embedders :
         \/ \E k \in EmbIds : EmbedStart(e, k)
         \/ RunStep(e) \/ EmbedFails(e) \/ EmbedStorageFails(e) \/ EmbedDies(e)
         \/ OpStopRun(e)
    \/ \E k \in EmbIds : EmbedStale(k) \/ Expire(k) \/ RecoverHandoff(k)
    \/ DeleteChunks \/ DeleteCommit \/ DeleteFails
    \/ OpMark \/ OpLost

Spec == Init /\ [][Next]_vars

\* Live requests and executions go on, RQ serves its queues, wakes its
\* scheduled deliveries and cleans its registry.  Nothing obliges a client,
\* an operator or a failure to happen.
Fairness ==
    /\ WF_vars(UploadEnqueue \/ UploadUnacked)
    /\ WF_vars(UploadFails)
    /\ WF_vars(DeleteCommit \/ DeleteFails)
    /\ \A d \in Deliveries : WF_vars(Requeue(d)) /\ WF_vars(Abandon(d))
    /\ \A p \in Parsers : WF_vars(ParserStep(p))
    /\ \A e \in Embedders : WF_vars(RunStep(e))
    /\ WF_vars(\E p \in Parsers : ParseStart(p))
    /\ WF_vars(\E e \in Embedders, k \in EmbIds : EmbedStart(e, k))

FairSpec == Spec /\ Fairness

--------------------------------------------------------------------------------
\* A version marked ready has its chunks and its vectors committed:
\* mark_document_version_retrieval_ready compares them in the transaction
\* that writes both, and no replay, retry or late attempt takes them away.
ReadyIsIndexed ==
    version.status = "retrieval_ready" =>
        ~version.deleted /\ chunks = "active" /\ vectors = "active"

\* Once a delete has committed no vector of the version is active, although
\* an embedding worker that checked the version before the delete may commit
\* its upsert after it: mark_document_version_retrieval_ready checks again
\* when the worker holds the version row, and the delete reads the vectors
\* after it has written that row.
VectorsDeleted == version.deleted => vectors # "active"

\* The documentation of delete says that documents, versions, chunks and
\* vector records all move to deleted (docs/operations/local-development.md).
ChunksDeleted == version.deleted => chunks # "active"

\* A parse or embedding attempt that a newer claim has replaced never writes
\* its failure over the newer attempt: mark_*_failed compares attempt_count
\* under the row lock.  Only the upload request, which knows of no attempt,
\* fails a job unfenced.
FailureFenced ==
    [][/\ job'.status \in Failures /\ job' # job /\ job.status = "parsing" =>
            \/ api = "unacked"
            \/ op.attempt = job.attempt /\ op.pc = "mark"
            \/ \E p \in Parsers : /\ par[p].attempt = job.attempt
                                  /\ par[p].pc # "idle"
                                  /\ par'[p].pc = "idle"
       /\ \A k \in EmbIds :
            emb'[k].status \in Failures /\ emb'[k] # emb[k]
                /\ emb[k].status = "embedding" =>
              \/ op.attempt = emb[k].attempt /\ op.pc = "mark"
              \/ \E e \in Embedders : /\ run[e].attempt = emb[k].attempt
                                      /\ run[e].target = k
                                      /\ run[e].pc # "idle"
                                      /\ run'[e].pc = "idle"]_vars

\* No job is claimed more often than its first delivery and RQ's retries
\* allow: redelivery, the handoff's replay, recovery after the record
\* expired and an operator's retry spend the budget and never refill it.
ClaimsWithinBudget ==
    /\ job.attempt <= RetryMax + 1
    /\ \A k \in EmbIds : emb[k].attempt <= RetryMax + 1

\* get_ingestion_embedding_handoff: "For an active checkpoint there must be
\* exactly one matching job, never a new replacement."
OneHandoff ==
    job.status = "chunked" /\ version.status = "chunked" => \E k \in EmbIds : Marked = {k}

\* The embedding job committed with the chunks is not forgotten: until its
\* delivery has been published, the ingestion delivery has not finished, so
\* RQ runs it again or shows it to the operator, who can recover the handoff.
NoLostHandoff ==
    \A k \in EmbIds :
        /\ emb[k].status = "queued"
        /\ q[k].state = "absent"
        /\ version.status = "chunked"
        => q[0].state # "finished"

\* A ready version is left only by deleting it.
ReadyIsFinal ==
    [][version.status = "retrieval_ready" =>
           version'.status \in {"retrieval_ready", "deleted"}]_vars

\* Every accepted upload ends: the version is ready, failed or deleted, or
\* what is missing is in sight of the client (whose request failed) or of the
\* operator (a delivery that failed, was stopped or canceled, or whose record
\* has expired since).  Nothing stalls silently between two stages.
Ended ==
    \/ version.deleted
    \/ version.status \in {"retrieval_ready", "failed_terminal"}
    \/ api \in {"failed", "dead"}
    \/ \E d \in Deliveries : q[d].state \in {"failed", "stopped", "canceled", "expired"}

Ends == <>[]Ended

================================================================================
