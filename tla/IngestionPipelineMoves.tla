------------------------ MODULE IngestionPipelineMoves ------------------------
(***************************************************************************)
(* The steps of the ingestion pipeline, for its proofs.  The first part    *)
(* proves that the state stays well typed.  The second says what a step is *)
(* to the properties: a write of the database's rows (Effect and the       *)
(* definitions before it) that goes with a move of deliveries and          *)
(* executions, so that an invariant is proved once for each kind of write  *)
(* and move and not once for each of the pipeline's actions.               *)
(***************************************************************************)
EXTENDS IngestionPipeline, TLAPS

DeliveryRow == [state : DeliveryState, left : 0..RetryMax]
VersionRow == [status : VersionStatus, deleted : BOOLEAN]
OpState == [pc : {"idle", "mark"}, target : Deliveries, attempt : Nat]

\* What the repositories do to a job row leaves a job row.
LEMMA JobRows ==
  ASSUME NEW j \in JobRow
  PROVE  /\ \A s \in {"parsing", "embedding"} : Claimed(j, s) \in JobRow
         /\ \A s \in Failures, b \in BOOLEAN : FailedJob(j, s, b) \in JobRow
         /\ [j EXCEPT !.due = TRUE] \in JobRow
         /\ [j EXCEPT !.fresh = FALSE] \in JobRow
         /\ [j EXCEPT !.status = "parsed"] \in JobRow
         /\ [j EXCEPT !.status = "chunked"] \in JobRow
         /\ [j EXCEPT !.status = "embedded", !.marked = FALSE] \in JobRow
         /\ NewJob("queued") \in JobRow
         /\ j.attempt \in Nat
<1> USE DEF JobRow, JobStatus
<1>1. \A s \in {"parsing", "embedding"} : Claimed(j, s) \in JobRow
  <2>1. j.attempt + 1 \in Nat
    OBVIOUS
  <2> QED BY <2>1, Zenon DEF Claimed
<1>2. \A s \in Failures, b \in BOOLEAN : FailedJob(j, s, b) \in JobRow
  BY Zenon DEF FailedJob, Failures
<1>3. /\ [j EXCEPT !.due = TRUE] \in JobRow
      /\ [j EXCEPT !.fresh = FALSE] \in JobRow
  BY Zenon
<1>4. /\ [j EXCEPT !.status = "parsed"] \in JobRow
      /\ [j EXCEPT !.status = "chunked"] \in JobRow
  OBVIOUS
<1>5. [j EXCEPT !.status = "embedded", !.marked = FALSE] \in JobRow
  BY Zenon
<1>6. NewJob("queued") \in JobRow /\ j.attempt \in Nat
  BY DEF NewJob
<1> QED BY <1>1, <1>2, <1>3, <1>4, <1>5, <1>6

\* A queue record is of its type.
LEMMA DeliveryRows ==
  ASSUME NEW d \in Deliveries, q \in [Deliveries -> DeliveryRow]
  PROVE  /\ Retried(d) \in DeliveryRow
         /\ \A s \in DeliveryState : [q[d] EXCEPT !.state = s] \in DeliveryRow
         /\ q[d].left > 0 => [state |-> "queued", left |-> q[d].left - 1] \in DeliveryRow
         /\ q[d].left \in 0 .. RetryMax
BY PipelineAssumption DEF Retried, DeliveryRow, DeliveryState

\* What enqueue writes (adapters.py) is a queue record.
LEMMA PublishedRow == Published \in DeliveryRow
BY PipelineAssumption DEF Published, DeliveryRow, DeliveryState

\* What the repositories do to a version row leaves a version row.
LEMMA VersionRows ==
  ASSUME NEW v \in VersionRow
  PROVE  /\ \A s \in Failures : [v EXCEPT !.status = s] \in VersionRow
         /\ [v EXCEPT !.status = "parsed"] \in VersionRow
         /\ [v EXCEPT !.status = "chunked"] \in VersionRow
         /\ [v EXCEPT !.status = "retrieval_ready"] \in VersionRow
         /\ [status |-> "deleted", deleted |-> TRUE] \in VersionRow
BY DEF VersionRow, VersionStatus, Failures

\* What a parse execution does to its locals leaves them well typed.
LEMMA ParserStates ==
  ASSUME NEW s \in ParserState
  PROVE  /\ \A l \in {"parsed", "chunk", "mark", "commit", "handoff", "parse"} : [s EXCEPT !.pc = l] \in ParserState
         /\ \A a \in Nat : [s EXCEPT !.pc = "parse", !.attempt = a] \in ParserState
         /\ \A k \in EmbIds : [s EXCEPT !.pc = "enqueue", !.target = k] \in ParserState
         /\ IdleParser \in ParserState
         /\ s.attempt \in Nat /\ s.target \in Deliveries /\ s.left \in 0 .. RetryMax
<1> USE PipelineAssumption DEF ParserState
<1>1. \A l \in {"parsed", "chunk", "mark", "commit", "handoff", "parse"} : [s EXCEPT !.pc = l] \in ParserState
  OBVIOUS
<1>2. \A a \in Nat : [s EXCEPT !.pc = "parse", !.attempt = a] \in ParserState
  BY Zenon
<1>3. \A k \in EmbIds : [s EXCEPT !.pc = "enqueue", !.target = k] \in ParserState
  <2>1. \A k \in EmbIds : k \in Deliveries
    BY DEF EmbIds, Deliveries
  <2> QED BY Zenon, <2>1
<1>4. IdleParser \in ParserState
  BY DEF IdleParser, Deliveries
<1> QED BY <1>1, <1>2, <1>3, <1>4, Zenon

\* What an embedding execution does to its locals leaves them well typed.
LEMMA RunStates ==
  ASSUME NEW s \in RunState
  PROVE  /\ \A l \in {"upsert", "mark", "commit", "return"} : [s EXCEPT !.pc = l] \in RunState
         /\ \A a \in Nat : [s EXCEPT !.pc = "call", !.attempt = a] \in RunState
         /\ IdleRun \in RunState
         /\ s.attempt \in Nat /\ s.target \in Deliveries /\ s.left \in 0 .. RetryMax
<1> USE PipelineAssumption DEF RunState
<1>1. \A l \in {"upsert", "mark", "commit", "return"} : [s EXCEPT !.pc = l] \in RunState
  OBVIOUS
<1>2. \A a \in Nat : [s EXCEPT !.pc = "call", !.attempt = a] \in RunState
  BY Zenon
<1>3. IdleRun \in RunState
  BY DEF IdleRun, Deliveries
<1> QED BY <1>1, <1>2, <1>3, Zenon


\* The type invariant, with its sets named.
Typed ==
  /\ job \in JobRow
  /\ version \in VersionRow
  /\ chunks \in RowState
  /\ vectors \in RowState
  /\ emb \in [EmbIds -> JobRow]
  /\ q \in [Deliveries -> DeliveryRow]
  /\ api \in {"enqueue", "unacked", "done", "failed", "dead"}
  /\ par \in [Parsers -> ParserState]
  /\ run \in [Embedders -> RunState]
  /\ chunkLock \in Parsers \cup {"none", "delete"}
  /\ vectorLock \in Embedders \cup {"none"}
  /\ del \in {"idle", "chunks"}
  /\ op \in OpState
  /\ ops \in 0..MaxOps

\* The ingestion delivery is 0; every embedding job has a delivery of its own.
LEMMA EmbDeliveries == 0 \in Deliveries /\ \A k \in EmbIds : k \in Deliveries /\ k # 0
BY PipelineAssumption DEF EmbIds, Deliveries

-----------------------------------------------------------------------------
(* What the shared updates do, field by field.                              *)

\* Storing a delivery row changes that delivery alone.
LEMMA SetDelivery ==
  ASSUME Typed, NEW d \in Deliveries, NEW v \in DeliveryRow, q' = [q EXCEPT ![d] = v]
  PROVE  /\ q' \in [Deliveries -> DeliveryRow]
         /\ q'[d] = v
         /\ \A x \in Deliveries \ {d} : q'[x] = q[x]
BY DEF Typed

\* So does changing its state, which keeps what is left of its budget.
LEMMA SetState ==
  ASSUME Typed, NEW d \in Deliveries, NEW s \in DeliveryState, q' = [q EXCEPT ![d].state = s]
  PROVE  /\ q' \in [Deliveries -> DeliveryRow]
         /\ q'[d].state = s /\ q'[d].left = q[d].left
         /\ \A x \in Deliveries \ {d} : q'[x] = q[x]
<1>1. [q[d] EXCEPT !.state = s] \in DeliveryRow
  BY Zenon, DeliveryRows DEF Typed
<1>2. q' = [q EXCEPT ![d] = [q[d] EXCEPT !.state = s]]
  OBVIOUS
<1>3. q[d] \in DeliveryRow
  BY DEF Typed
<1>4. [q[d] EXCEPT !.state = s].state = s /\ [q[d] EXCEPT !.state = s].left = q[d].left
  BY <1>3 DEF DeliveryRow
<1> QED BY Zenon, <1>1, <1>2, <1>4, SetDelivery

\* A raise spends one retry, or fails the delivery when none is left.
LEMMA RetriedRow ==
  ASSUME Typed, NEW d \in Deliveries
  PROVE  /\ Retried(d) \in DeliveryRow
         /\ \/ Retried(d).state = "scheduled" /\ q[d].left > 0 /\ Retried(d).left = q[d].left - 1
            \/ Retried(d).state = "failed" /\ Retried(d).left = 0
         /\ q[d].left \in Nat
<1>1. Retried(d) \in DeliveryRow /\ q[d].left \in Nat
  <2>1. q \in [Deliveries -> DeliveryRow]
    BY DEF Typed
  <2>2. Retried(d) \in DeliveryRow /\ q[d].left \in 0 .. RetryMax
    BY Zenon, <2>1, DeliveryRows
  <2> QED BY <2>2, PipelineAssumption
<1>2. CASE q[d].left > 0
  BY <1>1, <1>2 DEF Retried
<1>3. CASE ~(q[d].left > 0)
  BY <1>1, <1>3 DEF Retried
<1> QED BY <1>1, <1>2, <1>3

\* A parse execution moves to another step.
LEMMA GotoMoves ==
  ASSUME Typed, NEW p \in Parsers,
         NEW l \in {"parsed", "chunk", "mark", "commit", "handoff", "parse"}, Goto(p, l)
  PROVE  /\ par' \in [Parsers -> ParserState]
         /\ par'[p].pc = l /\ par'[p].target = par[p].target
         /\ \A x \in Parsers \ {p} : par'[x] = par[x]
<1>1. par[p] \in ParserState /\ [par[p] EXCEPT !.pc = l] \in ParserState
  BY ParserStates, Zenon DEF Typed
<1>2. par' = [par EXCEPT ![p] = [par[p] EXCEPT !.pc = l]]
  BY DEF Goto
<1>3. [par[p] EXCEPT !.pc = l].pc = l /\ [par[p] EXCEPT !.pc = l].target = par[p].target
  BY <1>1 DEF ParserState
<1> QED BY <1>1, <1>2, <1>3 DEF Typed

\* A parse execution ends, and its lock on the chunk rows with it.
LEMMA ParserEnds ==
  ASSUME Typed, NEW p \in Parsers, par' = [par EXCEPT ![p] = IdleParser], chunkLock' = Unlocked(p)
  PROVE  /\ par' \in [Parsers -> ParserState]
         /\ par'[p].pc = "idle"
         /\ \A x \in Parsers \ {p} : par'[x] = par[x]
         /\ chunkLock' \in Parsers \cup {"none", "delete"}
<1>1. IdleParser \in ParserState /\ IdleParser.pc = "idle"
  BY ParserStates, Zenon DEF Typed, IdleParser
<1> QED BY <1>1 DEF Typed, Unlocked

\* A parse execution that raises ends and spends a retry of its delivery.
LEMMA ParseRaisesMoves ==
  ASSUME Typed, NEW p \in Parsers, ParseRaises(p)
  PROVE  /\ par' \in [Parsers -> ParserState]
         /\ par'[p].pc = "idle"
         /\ \A x \in Parsers \ {p} : par'[x] = par[x]
         /\ chunkLock' \in Parsers \cup {"none", "delete"}
         /\ q' \in [Deliveries -> DeliveryRow]
         /\ q'[0] = Retried(0)
         /\ \A d \in Deliveries \ {0} : q'[d] = q[d]
<1>1. Retried(0) \in DeliveryRow /\ q' = [q EXCEPT ![0] = Retried(0)]
  BY EmbDeliveries, RetriedRow DEF ParseRaises
<1> QED BY <1>1, ParserEnds, SetDelivery, EmbDeliveries, Zenon DEF ParseRaises

\* A parse execution that returns ends and finishes its delivery.
LEMMA ParseReturnsMoves ==
  ASSUME Typed, NEW p \in Parsers, ParseReturns(p)
  PROVE  /\ par' \in [Parsers -> ParserState]
         /\ par'[p].pc = "idle"
         /\ \A x \in Parsers \ {p} : par'[x] = par[x]
         /\ chunkLock' \in Parsers \cup {"none", "delete"}
         /\ q' \in [Deliveries -> DeliveryRow]
         /\ q'[0].state = "finished" /\ q'[0].left = q[0].left
         /\ \A d \in Deliveries \ {0} : q'[d] = q[d]
<1>1. "finished" \in DeliveryState /\ q' = [q EXCEPT ![0].state = "finished"]
  BY DEF ParseReturns, DeliveryState
<1> QED BY ZenonT(30), <1>1, ParserEnds, SetState, EmbDeliveries DEF ParseReturns

\* An embedding execution moves to another step.
LEMMA RunGotoMoves ==
  ASSUME Typed, NEW e \in Embedders, NEW l \in {"upsert", "mark", "commit", "return"},
         run' = [run EXCEPT ![e].pc = l]
  PROVE  /\ run' \in [Embedders -> RunState]
         /\ run'[e].pc = l /\ run'[e].target = run[e].target
         /\ \A x \in Embedders \ {e} : run'[x] = run[x]
<1>1. run[e] \in RunState /\ [run[e] EXCEPT !.pc = l] \in RunState
  BY RunStates, Zenon DEF Typed
<1>2. run' = [run EXCEPT ![e] = [run[e] EXCEPT !.pc = l]]
  OBVIOUS
<1>3. [run[e] EXCEPT !.pc = l].pc = l /\ [run[e] EXCEPT !.pc = l].target = run[e].target
  BY <1>1 DEF RunState
<1> QED BY <1>1, <1>2, <1>3 DEF Typed

\* An embedding execution ends.
LEMMA RunEnds ==
  ASSUME Typed, NEW e \in Embedders, run' = [run EXCEPT ![e] = IdleRun]
  PROVE  /\ run' \in [Embedders -> RunState]
         /\ run'[e].pc = "idle"
         /\ \A x \in Embedders \ {e} : run'[x] = run[x]
<1>1. IdleRun \in RunState /\ IdleRun.pc = "idle"
  BY RunStates, Zenon DEF Typed, IdleRun
<1> QED BY <1>1 DEF Typed

\* An embedding execution that raises ends and spends a retry of its delivery.
LEMMA RunRaisesMoves ==
  ASSUME Typed, NEW e \in Embedders, RunRaises(e)
  PROVE  /\ run' \in [Embedders -> RunState]
         /\ run'[e].pc = "idle"
         /\ \A x \in Embedders \ {e} : run'[x] = run[x]
         /\ vectorLock' \in Embedders \cup {"none"}
         /\ run[e].target \in Deliveries
         /\ q' \in [Deliveries -> DeliveryRow]
         /\ q'[run[e].target] = Retried(run[e].target)
         /\ \A d \in Deliveries \ {run[e].target} : q'[d] = q[d]
<1>1. run[e].target \in Deliveries
  BY RunStates, Zenon DEF Typed
<1>2. Retried(run[e].target) \in DeliveryRow /\ q' = [q EXCEPT ![run[e].target] = Retried(run[e].target)]
  BY <1>1, RetriedRow DEF RunRaises
<1>3. vectorLock' \in Embedders \cup {"none"}
  BY DEF RunRaises, Freed, Typed
<1> QED BY Zenon, <1>1, <1>2, <1>3, RunEnds, SetDelivery DEF RunRaises

\* A failure is written over the attempt it names and no other, unless the job
\* or the version is settled; then nothing is written.
LEMMA FailIngestionMoves ==
  ASSUME Typed, NEW a, NEW s \in Failures, NEW due \in BOOLEAN, FailIngestion(a, s, due)
  PROVE  /\ job' \in JobRow /\ version' \in VersionRow
         /\ \/ job' = job /\ version' = version
            \/ /\ job.status \notin {"chunked", "failed_terminal"} /\ job.attempt = a
               /\ ~version.deleted /\ version.status \notin {"deleted", "retrieval_ready"}
               /\ job'.status = s /\ job'.attempt = job.attempt
               /\ version'.status = s /\ version'.deleted = version.deleted
<1>1. CASE Superseded(job, a, "chunked")
  BY <1>1 DEF FailIngestion, Typed
<1>2. CASE ~Superseded(job, a, "chunked")
  <2>1. job' = FailedJob(job, s, due) /\ version' = [version EXCEPT !.status = s]
    BY <1>2 DEF FailIngestion
  <2>2. job' \in JobRow /\ version' \in VersionRow
    BY <2>1, JobRows, VersionRows, Zenon DEF Typed
  <2>3. job'.status = s /\ job'.attempt = job.attempt
    BY <2>1 DEF FailedJob, Typed, JobRow
  <2>4. version'.status = s /\ version'.deleted = version.deleted
    BY <2>1 DEF Typed, VersionRow
  <2> QED BY <1>2, <2>2, <2>3, <2>4 DEF Superseded
<1> QED BY <1>1, <1>2

\* A failed embedding writes one job row, when its attempt is still the job's.
LEMMA FailEmbeddingMoves ==
  ASSUME Typed, NEW k \in EmbIds, NEW a, NEW s \in Failures, FailEmbedding(k, a, s)
  PROVE  /\ emb' \in [EmbIds -> JobRow] /\ version' \in VersionRow
         /\ \A x \in EmbIds \ {k} : emb'[x] = emb[x]
         /\ version'.deleted = version.deleted
         /\ version'.status \in {version.status, s}
         /\ \/ emb' = emb /\ version' = version
            \/ /\ emb[k].status \notin {"embedded", "failed_terminal"} /\ emb[k].attempt = a
               /\ ~version.deleted /\ version.status \notin {"deleted", "retrieval_ready"}
               /\ emb'[k].status = s /\ emb'[k].attempt = emb[k].attempt
               /\ emb'[k].marked = emb[k].marked
<1>1. CASE Superseded(emb[k], a, "embedded")
  BY <1>1 DEF FailEmbedding, Typed
<1>2. CASE ~Superseded(emb[k], a, "embedded")
  <2> DEFINE new == FailedJob(emb[k], s, s = "failed_terminal")
  <2>1. emb' = [emb EXCEPT ![k] = new] /\ version' \in {version, [version EXCEPT !.status = s]}
    BY <1>2 DEF FailEmbedding
  <2>2. new \in JobRow
    <3>1. PICK due \in BOOLEAN : due = (s = "failed_terminal")
      BY Zenon
    <3>2. FailedJob(emb[k], s, due) \in JobRow
      BY JobRows, Zenon DEF Typed
    <3> QED BY <3>1, <3>2
  <2>3. new.status = s /\ new.attempt = emb[k].attempt /\ new.marked = emb[k].marked
    BY DEF FailedJob, Typed, JobRow
  <2> HIDE DEF new
  <2>4. emb' \in [EmbIds -> JobRow] /\ emb'[k] = new /\ \A x \in EmbIds \ {k} : emb'[x] = emb[x]
    BY <2>1, <2>2 DEF Typed
  <2>5. version' \in VersionRow
    <3>1. version \in VersionRow /\ [version EXCEPT !.status = s] \in VersionRow
      BY Zenon, VersionRows DEF Typed
    <3> QED BY <2>1, <3>1
  <2>6. version'.deleted = version.deleted /\ version'.status \in {version.status, s}
    BY <2>1 DEF Typed, VersionRow
  <2> QED BY <1>2, <2>3, <2>4, <2>5, <2>6 DEF Superseded
<1> QED BY <1>1, <1>2

\* An embedding job is claimed, failed or committed as one row.
LEMMA SetEmb ==
  ASSUME Typed, NEW k \in EmbIds, NEW v \in JobRow, emb' = [emb EXCEPT ![k] = v]
  PROVE  /\ emb' \in [EmbIds -> JobRow]
         /\ emb'[k] = v
         /\ \A x \in EmbIds \ {k} : emb'[x] = emb[x]
BY DEF Typed

\* A publish is idempotent: it leaves a delivery that has a record alone.
LEMMA PublishMoves ==
  ASSUME Typed, NEW k \in EmbIds, NEW v \in DeliveryRow,
         q' = [q EXCEPT ![k] = IF Recorded(k) THEN @ ELSE Published, ![0] = v]
  PROVE  /\ q' \in [Deliveries -> DeliveryRow]
         /\ q'[0] = v
         /\ q'[k] = IF Recorded(k) THEN q[k] ELSE Published
         /\ \A d \in Deliveries \ {0, k} : q'[d] = q[d]
BY EmbDeliveries, PublishedRow DEF Typed

-----------------------------------------------------------------------------
(* Types, and where executions are aimed.                                   *)
Aimed ==
  /\ \A e \in Embedders : run[e].pc # "idle" => run[e].target \in EmbIds
  /\ \A p \in Parsers : par[p].pc = "enqueue" => par[p].target \in EmbIds

\* The database and the queue begin empty and well typed.
LEMMA AimedInit == Init => Typed /\ Aimed
<1> SUFFICES ASSUME Init PROVE Typed /\ Aimed
  OBVIOUS
<1>1. NewJob("uploaded") \in JobRow /\ NewJob("none") \in JobRow
  BY DEF NewJob, JobRow, JobStatus
<1>2. [status |-> "uploaded", deleted |-> FALSE] \in VersionRow
  BY DEF VersionRow, VersionStatus
<1>3. [state |-> "absent", left |-> 0] \in DeliveryRow
  BY PipelineAssumption DEF DeliveryRow, DeliveryState
<1>4. IdleParser \in ParserState /\ IdleParser.pc = "idle"
  BY PipelineAssumption DEF IdleParser, ParserState, Deliveries
<1>5. IdleRun \in RunState /\ IdleRun.pc = "idle"
  BY PipelineAssumption DEF IdleRun, RunState, Deliveries
<1>6. op \in OpState
  BY EmbDeliveries DEF Init, OpState
<1> QED BY <1>1, <1>2, <1>3, <1>4, <1>5, <1>6, PipelineAssumption DEF Init, Typed, Aimed, RowState

\* The steps of the upload request keep the types.
LEMMA AimedUpload ==
  ASSUME Typed, Aimed, UploadEnqueue \/ UploadUnacked \/ UploadFails \/ UploadDies
  PROVE  Typed' /\ Aimed'
<1>0. 0 \in Deliveries
  BY EmbDeliveries
<1>1. CASE UploadEnqueue \/ UploadUnacked
  <2>1. q' \in [Deliveries -> DeliveryRow]
    <3>1. CASE q' = q
      BY <3>1 DEF Typed
    <3>2. CASE q' = [q EXCEPT ![0] = Published]
      BY <1>0, <3>2, PublishedRow, SetDelivery, Zenon
    <3> QED BY <1>1, <3>1, <3>2 DEF UploadEnqueue, UploadUnacked
  <2> QED BY <1>1, <2>1 DEF UploadEnqueue, UploadUnacked, ApiOnly, Typed, Aimed
<1>2. CASE UploadFails
  <2>1. job' \in JobRow /\ version' \in VersionRow
    BY Zenon, <1>2, FailIngestionMoves DEF UploadFails, Failures
  <2> QED BY <1>2, <2>1 DEF UploadFails, ApiOnly, Typed, Aimed
<1>3. CASE UploadDies
  BY <1>3 DEF UploadDies, ApiOnly, Typed, Aimed
<1> QED BY <1>1, <1>2, <1>3

\* So do the steps of RQ on its own.
LEMMA AimedQueue ==
  ASSUME Typed, Aimed, NEW d \in Deliveries, Requeue(d) \/ Abandon(d) \/ (d \in EmbIds /\ Expire(d))
  PROVE  Typed' /\ Aimed'
<1>1. CASE Requeue(d)
  <2>1. q' \in [Deliveries -> DeliveryRow]
    BY <1>1, SetState, Zenon DEF Requeue, DeliveryState
  <2>2. job' \in JobRow
    BY <1>1, JobRows, Zenon DEF Requeue, Typed
  <2>3. emb' \in [EmbIds -> JobRow]
    <3>1. CASE d = 0
      BY <1>1, <3>1 DEF Requeue, Typed
    <3>2. CASE d # 0
      <4>1. d \in EmbIds
        BY <3>2, PipelineAssumption DEF Deliveries, EmbIds
      <4>2. [emb[d] EXCEPT !.due = TRUE] \in JobRow
        BY <4>1, JobRows, Zenon DEF Typed
      <4>3. emb' = [emb EXCEPT ![d] = [emb[d] EXCEPT !.due = TRUE]]
        BY <1>1, <3>2 DEF Requeue
      <4> QED BY Zenon, <4>1, <4>2, <4>3, SetEmb
    <3> QED BY <3>1, <3>2
  <2> QED BY <1>1, <2>1, <2>2, <2>3 DEF Requeue, Typed, Aimed
<1>2. CASE Abandon(d)
  <2>1. q' \in [Deliveries -> DeliveryRow]
    BY Zenon, <1>2, RetriedRow, SetDelivery DEF Abandon
  <2> QED BY <1>2, <2>1 DEF Abandon, rows, Typed, Aimed
<1>3. CASE Expire(d)
  <2>1. q' \in [Deliveries -> DeliveryRow]
    BY <1>3, SetState, Zenon DEF Expire, DeliveryState
  <2> QED BY <1>3, <2>1 DEF Expire, rows, Typed, Aimed
<1> QED BY <1>1, <1>2, <1>3

\* What a parse execution leaves typed when it leaves the job and the rest alone.
ParserMoved ==
  /\ par' \in [Parsers -> ParserState]
  /\ chunkLock' \in Parsers \cup {"none", "delete"}
  /\ q' \in [Deliveries -> DeliveryRow]
  /\ \A p \in Parsers : par'[p].pc = "enqueue" => par'[p].target \in EmbIds

\* Another state of one parse execution keeps the types.
LEMMA ParserMoves ==
  ASSUME Typed, Aimed, NEW p \in Parsers
  PROVE  /\ ParseRaises(p) => ParserMoved
         /\ ParseReturns(p) => ParserMoved
         /\ \A l \in {"parsed", "chunk", "mark", "commit", "handoff"} :
               Goto(p, l) /\ UNCHANGED <<q, chunkLock>> => ParserMoved
<1>1. ASSUME ParseRaises(p) PROVE ParserMoved
  BY <1>1, ParseRaisesMoves DEF ParserMoved, Aimed
<1>2. ASSUME ParseReturns(p) PROVE ParserMoved
  BY <1>2, ParseReturnsMoves DEF ParserMoved, Aimed
<1>3. ASSUME NEW l \in {"parsed", "chunk", "mark", "commit", "handoff"}, Goto(p, l),
             UNCHANGED <<q, chunkLock>>
      PROVE  ParserMoved
  BY <1>3, GotoMoves DEF ParserMoved, Aimed, Typed
<1> QED BY <1>1, <1>2, <1>3

\* A parse execution keeps the types.
LEMMA AimedParser ==
  ASSUME Typed, Aimed, NEW p \in Parsers,
         \/ ParseStart(p) \/ ParserStep(p) \/ ParseFails(p) \/ EnqueueFails(p)
         \/ ParseStorageFails(p) \/ ParseDies(p) \/ OpStopParser(p)
  PROVE  Typed' /\ Aimed'
<1>0. par[p] \in ParserState /\ 0 \in Deliveries /\ q[0] \in DeliveryRow
  BY EmbDeliveries DEF Typed
<1>1. CASE ParseStart(p)
  <2> DEFINE new == [pc |-> CASE job.status = "chunked" -> "handoff"
                              [] job.status = "parsed" -> "parse"
                              [] OTHER -> "claim",
                     attempt |-> job.attempt, rechunk |-> job.status = "parsed",
                     left |-> q[0].left, target |-> 0]
  <2>1. q' \in [Deliveries -> DeliveryRow]
    BY <1>0, <1>1, SetState, Zenon DEF ParseStart, DeliveryState
  <2>2. new \in ParserState /\ new.pc # "enqueue"
    <3>1. job.attempt \in Nat /\ q[0].left \in 0 .. RetryMax
      BY <1>0, JobRows, Zenon DEF Typed, DeliveryRow
    <3>2. new.pc \in {"handoff", "parse", "claim"}
      OBVIOUS
    <3> QED BY <1>0, <3>1, <3>2 DEF ParserState
  <2> HIDE DEF new
  <2>3. par' = [par EXCEPT ![p] = new]
    BY <1>1 DEF ParseStart, new
  <2>4. par' \in [Parsers -> ParserState]
        /\ \A x \in Parsers : par'[x].pc = "enqueue" => par'[x].target \in EmbIds
    BY <2>2, <2>3 DEF Typed, Aimed
  <2> QED BY <1>1, <2>1, <2>4 DEF ParseStart, ParserOnly, Typed, Aimed
<1>2. CASE ParseClaim(p)
  <2>1. CASE ParseRaises(p) /\ job' = job
    BY <1>2, <2>1, ParserMoves DEF ParseClaim, ParserOnly, ParserMoved, Typed, Aimed
  <2>2. CASE /\ job' = Claimed(job, "parsing")
             /\ par' = [par EXCEPT ![p].pc = "parse", ![p].attempt = job.attempt + 1]
             /\ UNCHANGED <<q, chunkLock>>
    <3> DEFINE new == [par[p] EXCEPT !.pc = "parse", !.attempt = job.attempt + 1]
    <3>1. job' \in JobRow /\ job.attempt + 1 \in Nat
      <4>1. job \in JobRow
        BY DEF Typed
      <4>2. Claimed(job, "parsing") \in JobRow /\ job.attempt \in Nat
        BY <4>1, JobRows, Zenon
      <4> QED BY <2>2, <4>2
    <3>2. new \in ParserState /\ new.pc = "parse"
      <4>1. new \in ParserState
        BY <1>0, <3>1, ParserStates, Zenon
      <4>2. new.pc = "parse"
        BY <1>0 DEF ParserState
      <4> QED BY <4>1, <4>2
    <3>3. par' = [par EXCEPT ![p] = new]
      BY <2>2, Zenon
    <3> HIDE DEF new
    <3>4. par' \in [Parsers -> ParserState]
          /\ \A x \in Parsers : par'[x].pc = "enqueue" => par'[x].target \in EmbIds
      BY <3>2, <3>3 DEF Typed, Aimed
    <3> QED BY <1>2, <2>2, <3>1, <3>4 DEF ParseClaim, ParserOnly, Typed, Aimed
  <2> QED BY <1>2, <2>1, <2>2 DEF ParseClaim
<1>3. CASE ParseDone(p) \/ ReplaceChunks(p) \/ MarkChunked(p) \/ ParseStorageFails(p)
  <2>1. ParserMoved
    <3>1. CASE ParseDone(p)
      BY <3>1, ParserMoves DEF ParseDone
    <3>2. CASE ReplaceChunks(p)
      <4>1. CASE ParseRaises(p)
        BY <4>1, ParserMoves
      <4>2. CASE Goto(p, "mark") /\ chunkLock' = p /\ UNCHANGED q
        BY <4>2, GotoMoves DEF ParserMoved, Aimed, Typed
      <4> QED BY <3>2, <4>1, <4>2 DEF ReplaceChunks
    <3>3. CASE MarkChunked(p)
      BY <3>3, ParserMoves DEF MarkChunked
    <3>4. CASE ParseStorageFails(p)
      BY <3>4, ParserMoves DEF ParseStorageFails
    <3> QED BY <1>3, <3>1, <3>2, <3>3, <3>4
  <2>2. UNCHANGED <<job, version, chunks, emb>> /\ ParserOnly
    BY <1>3 DEF ParseDone, ReplaceChunks, MarkChunked, ParseStorageFails
  <2> QED BY <2>1, <2>2 DEF ParserOnly, ParserMoved, Typed, Aimed
<1>4. CASE MarkParsed(p)
  <2>1. job' \in JobRow /\ version' \in VersionRow
    BY <1>4, JobRows, VersionRows, Zenon DEF MarkParsed, Typed
  <2>2. ParserMoved
    BY <1>4, ParserMoves DEF MarkParsed
  <2> QED BY <1>4, <2>1, <2>2 DEF MarkParsed, ParserOnly, ParserMoved, Typed, Aimed
<1>5. CASE ChunkCommit(p)
  <2>1. CASE ParseRaises(p) /\ UNCHANGED <<job, version, chunks, emb>>
    BY <1>5, <2>1, ParserMoves DEF ChunkCommit, ParserOnly, ParserMoved, Typed, Aimed
  <2>2. CASE ~version.deleted
    <3>1. PICK k \in EmbIds : emb' = [emb EXCEPT ![k] = NewJob("queued")]
      BY <1>5, <2>2 DEF ChunkCommit
    <3>2. emb' \in [EmbIds -> JobRow]
      BY <3>1, JobRows, SetEmb, Zenon DEF Typed
    <3>3. job' \in JobRow /\ version' \in VersionRow
      BY <1>5, <2>2, JobRows, VersionRows, Zenon DEF ChunkCommit, Typed
    <3>4. /\ par' \in [Parsers -> ParserState]
          /\ \A x \in Parsers : par'[x].pc = "enqueue" => par'[x].target \in EmbIds
      BY <1>5, <2>2, GotoMoves DEF ChunkCommit, Aimed
    <3> QED BY <1>5, <2>2, <3>2, <3>3, <3>4 DEF ChunkCommit, ParserOnly, Typed, Aimed, RowState
  <2> QED BY <1>5, <2>1, <2>2 DEF ChunkCommit
<1>6. CASE Handoff(p)
  <2>1. ParserMoved
    <3>1. CASE ParseRaises(p) \/ ParseReturns(p)
      BY <3>1, ParserMoves
    <3>2. ASSUME NEW k \in EmbIds, UNCHANGED <<q, chunkLock>>,
                 par' = [par EXCEPT ![p].pc = "enqueue", ![p].target = k]
          PROVE  ParserMoved
      <4> DEFINE new == [par[p] EXCEPT !.pc = "enqueue", !.target = k]
      <4>0. new \in ParserState
        BY <1>0, ParserStates, Zenon
      <4>1. new.target = k
        BY <1>0 DEF ParserState
      <4>2. par' = [par EXCEPT ![p] = new]
        BY <3>2, ZenonT(60)
      <4> HIDE DEF new
      <4> QED BY <3>2, <4>0, <4>1, <4>2, ZenonT(60) DEF ParserMoved, Typed, Aimed
    <3> QED BY <1>6, <3>1, <3>2 DEF Handoff
  <2> QED BY <1>6, <2>1 DEF Handoff, ParserOnly, ParserMoved, Typed, Aimed
<1>7. CASE Enqueue(p) \/ EnqueueFails(p)
  <2>1. PICK k : k = par[p].target
    OBVIOUS
  <2>2. k \in EmbIds /\ k # 0 /\ k \in Deliveries
    BY <1>7, <2>1, EmbDeliveries DEF Enqueue, EnqueueFails, Aimed
  <2>3. Retried(0) \in DeliveryRow /\ [q[0] EXCEPT !.state = "finished"] \in DeliveryRow
    BY <1>0, RetriedRow, DeliveryRows, Zenon DEF Typed, DeliveryState
  <2>4. q' \in [Deliveries -> DeliveryRow]
    <3>1. CASE Enqueue(p)
      <4>1. q' = [q EXCEPT ![k] = IF Recorded(k) THEN @ ELSE Published,
                           ![0] = [q[0] EXCEPT !.state = "finished"]]
        BY <2>1, <2>2, <3>1, Zenon DEF Enqueue
      <4> QED BY <2>2, <2>3, <4>1, PublishMoves, Zenon
    <3>2. CASE q' = [q EXCEPT ![0] = Retried(0)]
      BY Zenon, <1>0, <2>3, <3>2, SetDelivery
    <3>3. CASE q' = [q EXCEPT ![0] = Retried(0), ![k] = IF Recorded(k) THEN @ ELSE Published]
      BY <2>2, <2>3, <3>3, PublishedRow DEF Typed
    <3> QED BY <1>7, <2>1, <3>1, <3>2, <3>3 DEF EnqueueFails
  <2>5. /\ par' \in [Parsers -> ParserState]
        /\ \A x \in Parsers : par'[x].pc = "enqueue" => par'[x].target \in EmbIds
    <3>1. par' = [par EXCEPT ![p] = IdleParser] /\ IdleParser.pc = "idle" /\ IdleParser \in ParserState
      BY <1>0, <1>7, ParserStates, Zenon DEF Enqueue, EnqueueFails, IdleParser
    <3> QED BY <3>1 DEF Typed, Aimed
  <2>6. UNCHANGED <<job, version, chunks, emb, chunkLock>> /\ ParserOnly
    BY Zenon, <1>7 DEF Enqueue, EnqueueFails
  <2> QED BY <2>4, <2>5, <2>6 DEF ParserOnly, Typed, Aimed
<1>8. CASE ParseFails(p)
  <2>1. PICK s \in Failures, due \in BOOLEAN : FailIngestion(par[p].attempt, s, due)
    <3>1. PICK kind \in Failures :
            FailIngestion(par[p].attempt, FailureStatus(kind, par[p].left),
                          FailureStatus(kind, par[p].left) = "failed_terminal")
      BY <1>8 DEF ParseFails
    <3>2. PICK s : s = FailureStatus(kind, par[p].left)
      OBVIOUS
    <3>3. PICK due \in BOOLEAN : due = (s = "failed_terminal")
      BY Zenon
    <3>4. s \in Failures
      BY <3>2 DEF FailureStatus, Failures
    <3> QED BY <3>1, <3>2, <3>3, <3>4, Zenon
  <2>2. job' \in JobRow /\ version' \in VersionRow
    BY Zenon, <2>1, FailIngestionMoves
  <2>3. ParserMoved
    BY <1>8, ParserMoves DEF ParseFails
  <2> QED BY <1>8, <2>2, <2>3 DEF ParseFails, ParserOnly, ParserMoved, Typed, Aimed
<1>9. CASE ParseDies(p) \/ OpStopParser(p)
  <2>1. /\ par' \in [Parsers -> ParserState] /\ chunkLock' \in Parsers \cup {"none", "delete"}
        /\ \A x \in Parsers : par'[x].pc = "enqueue" => par'[x].target \in EmbIds
    BY <1>9, ParserEnds DEF ParseDies, OpStopParser, Aimed
  <2>2. CASE ParseDies(p)
    BY <2>1, <2>2 DEF ParseDies, ParserOnly, Typed, Aimed
  <2>3. CASE OpStopParser(p)
    <3>1. q' \in [Deliveries -> DeliveryRow]
      BY <1>0, <2>3, SetState, Zenon DEF OpStopParser, DeliveryState
    <3>2. ops' \in 0 .. MaxOps
      BY <2>3, PipelineAssumption DEF OpStopParser, Operator, Typed
    <3> QED BY <2>1, <2>3, <3>1, <3>2 DEF OpStopParser, rows, Typed, Aimed
  <2> QED BY <1>9, <2>2, <2>3
<1> QED BY <1>1, <1>2, <1>3, <1>4, <1>5, <1>6, <1>7, <1>8, <1>9 DEF ParserStep

\* What an embedding execution leaves typed.
RunMoved ==
  /\ run' \in [Embedders -> RunState]
  /\ vectorLock' \in Embedders \cup {"none"}
  /\ q' \in [Deliveries -> DeliveryRow]
  /\ \A e \in Embedders : run'[e].pc # "idle" => run'[e].target \in EmbIds

\* Another state of one embedding execution keeps the types.
LEMMA RunMoves ==
  ASSUME Typed, Aimed, NEW e \in Embedders
  PROVE  /\ RunRaises(e) => RunMoved
         /\ \A l \in {"upsert", "mark", "commit", "return"} :
               run[e].pc # "idle" /\ RunGoto(e, l) => RunMoved
<1>1. ASSUME RunRaises(e) PROVE RunMoved
  BY <1>1, RunRaisesMoves DEF RunMoved, Aimed
<1>2. ASSUME NEW l \in {"upsert", "mark", "commit", "return"}, run[e].pc # "idle", RunGoto(e, l)
      PROVE  RunMoved
  BY <1>2, RunGotoMoves, ZenonT(60) DEF RunGoto, RunMoved, Aimed, Typed
<1> QED BY <1>1, <1>2

\* An embedding execution that takes a job.
LEMMA RunStarts ==
  ASSUME Typed, Aimed, NEW e \in Embedders, NEW k \in EmbIds,
         run' = [run EXCEPT ![e] = [pc |-> IF version.status = "chunked" THEN "claim" ELSE "reject",
                                    attempt |-> emb[k].attempt, left |-> q[k].left, target |-> k]]
  PROVE  /\ run' \in [Embedders -> RunState]
         /\ run'[e].target = k /\ run'[e].pc \in {"claim", "reject"}
         /\ \A x \in Embedders \ {e} : run'[x] = run[x]
         /\ \A x \in Embedders : run'[x].pc # "idle" => run'[x].target \in EmbIds
<1> DEFINE new == [pc |-> IF version.status = "chunked" THEN "claim" ELSE "reject",
                   attempt |-> emb[k].attempt, left |-> q[k].left, target |-> k]
<1>1. emb[k].attempt \in Nat /\ k \in Deliveries /\ q[k].left \in 0 .. RetryMax
  <2>1. k \in Deliveries /\ q \in [Deliveries -> DeliveryRow] /\ emb[k] \in JobRow
    BY EmbDeliveries DEF Typed
  <2> QED BY <2>1, JobRows, DeliveryRows, Zenon
<1>2. new.pc \in {"claim", "reject"} /\ new.target = k
  OBVIOUS
<1>3. new \in RunState
  BY <1>1, <1>2 DEF RunState
<1> HIDE DEF new
<1>4. run' = [run EXCEPT ![e] = new]
  BY DEF new
<1> QED BY <1>2, <1>3, <1>4 DEF Typed, Aimed

\* An embedding execution keeps the types.
LEMMA AimedRun ==
  ASSUME Typed, Aimed, NEW e \in Embedders,
         \/ \E k \in EmbIds : EmbedStart(e, k)
         \/ RunStep(e) \/ EmbedFails(e) \/ EmbedStorageFails(e) \/ EmbedDies(e) \/ OpStopRun(e)
  PROVE  Typed' /\ Aimed'
<1>0. /\ run[e] \in RunState /\ run[e].target \in Deliveries /\ run[e].attempt \in Nat
      /\ run[e].pc # "idle" => run[e].target \in EmbIds
  BY RunStates, Zenon DEF Typed, Aimed
<1>1. ASSUME NEW k \in EmbIds, EmbedStart(e, k) PROVE Typed' /\ Aimed'
  <2>0. k \in Deliveries /\ q[k] \in DeliveryRow
    BY EmbDeliveries DEF Typed
  <2>1. CASE emb[k].status = "embedded"
    <3>1. PICK v \in DeliveryRow : q' = [q EXCEPT ![k] = v]
      <4>1. Retried(k) \in DeliveryRow /\ [q[k] EXCEPT !.state = "finished"] \in DeliveryRow
        BY <2>0, RetriedRow, DeliveryRows, Zenon DEF Typed, DeliveryState
      <4> QED BY <1>1, <2>1, <4>1 DEF EmbedStart
    <3>2. q' \in [Deliveries -> DeliveryRow]
      BY Zenon, <2>0, <3>1, SetDelivery
    <3>3. version' \in VersionRow
      BY <1>1, <2>1, VersionRows, Zenon DEF EmbedStart, Typed
    <3> QED BY <1>1, <2>1, <3>2, <3>3 DEF EmbedStart, RunOnly, Typed, Aimed
  <2>2. CASE emb[k].status # "embedded"
    <3>1. q' \in [Deliveries -> DeliveryRow]
      BY <1>1, <2>0, <2>2, SetState DEF EmbedStart, DeliveryState
    <3>2. /\ run' \in [Embedders -> RunState]
          /\ \A x \in Embedders : run'[x].pc # "idle" => run'[x].target \in EmbIds
      BY SMTT(30), <1>1, <2>2, RunStarts DEF EmbedStart
    <3> QED BY <1>1, <2>2, <3>1, <3>2 DEF EmbedStart, RunOnly, Typed, Aimed
  <2> QED BY <2>1, <2>2
<1>2. ASSUME NEW s \in Failures, FailEmbedding(run[e].target, run[e].attempt, s), run[e].pc # "idle",
             RunRaises(e), UNCHANGED vectors, RunOnly
      PROVE  Typed' /\ Aimed'
  <2>1. emb' \in [EmbIds -> JobRow] /\ version' \in VersionRow
    BY Zenon, <1>0, <1>2, FailEmbeddingMoves
  <2>2. RunMoved
    BY Zenon, <1>2, RunMoves
  <2> QED BY Zenon, <1>2, <2>1, <2>2 DEF RunOnly, RunMoved, Typed, Aimed
<1>3. CASE EmbedReject(e)
  BY <1>2, <1>3 DEF EmbedReject, Failures
<1>4. CASE EmbedFails(e)
  <2>1. PICK kind \in Failures : FailEmbedding(run[e].target, run[e].attempt, FailureStatus(kind, run[e].left))
    BY <1>4 DEF EmbedFails
  <2>2. PICK s : s = FailureStatus(kind, run[e].left)
    OBVIOUS
  <2>3. s \in Failures
    BY <2>2 DEF FailureStatus, Failures
  <2> QED BY Zenon, <1>2, <1>4, <2>1, <2>2, <2>3 DEF EmbedFails
<1>5. ASSUME RunMoved, UNCHANGED <<emb, version, vectors>>, RunOnly PROVE Typed' /\ Aimed'
  BY Zenon, <1>5 DEF RunOnly, RunMoved, Typed, Aimed
<1>6. CASE EmbedAnswer(e) \/ MarkEmbedded(e) \/ EmbedStorageFails(e)
  BY <1>5, <1>6, RunMoves DEF EmbedAnswer, MarkEmbedded, EmbedStorageFails
<1>7. CASE Upsert(e)
  <2>1. CASE chunks # "active"
    BY <1>2, <1>7, <2>1 DEF Upsert, Failures
  <2>2. CASE chunks = "active"
    <3>1. RunMoved
      BY <1>0, <1>7, <2>2, RunGotoMoves DEF Upsert, RunMoved, Typed, Aimed
    <3> QED BY <1>5, <1>7, <2>2, <3>1 DEF Upsert
  <2> QED BY <2>1, <2>2
<1>8. CASE EmbedClaim(e)
  <2>0. PICK k : k = run[e].target
    OBVIOUS
  <2>1. k \in EmbIds /\ emb[k] \in JobRow
    BY <1>0, <1>8, <2>0 DEF EmbedClaim, Typed
  <2>2. /\ Claimed(emb[k], "embedding") \in JobRow /\ emb[k].attempt + 1 \in Nat
        /\ FailedJob(Claimed(emb[k], "embedding"), "failed_terminal", TRUE) \in JobRow
    <3>1. Claimed(emb[k], "embedding") \in JobRow /\ emb[k].attempt \in Nat
      BY <2>1, JobRows, Zenon
    <3>2. "failed_terminal" \in Failures
      BY DEF Failures
    <3>3. \A b \in BOOLEAN : FailedJob(Claimed(emb[k], "embedding"), "failed_terminal", b) \in JobRow
      BY <3>1, <3>2, JobRows, Zenon
    <3>4. FailedJob(Claimed(emb[k], "embedding"), "failed_terminal", TRUE) \in JobRow
      BY <3>3, Zenon
    <3>5. emb[k].attempt + 1 \in Nat
      BY <3>1
    <3> QED BY Zenon, <3>1, <3>4, <3>5
  <2>3. CASE RunRaises(e) /\ UNCHANGED <<emb, version>>
    BY <1>5, <1>8, <2>3, RunMoves DEF EmbedClaim
  <2>4. CASE /\ emb' = [emb EXCEPT ![k] = Claimed(@, "embedding")]
             /\ run' = [run EXCEPT ![e].pc = "call", ![e].attempt = emb[k].attempt + 1]
             /\ UNCHANGED <<q, version, vectorLock>>
    <3> DEFINE new == [run[e] EXCEPT !.pc = "call", !.attempt = emb[k].attempt + 1]
    <3>1. emb' \in [EmbIds -> JobRow]
      BY Zenon, <2>1, <2>2, <2>4, SetEmb
    <3>2. new \in RunState
      BY <1>0, <2>2, RunStates, Zenon
    <3>3. new.target = k
      BY <1>0, <2>0 DEF RunState
    <3>4. run' = [run EXCEPT ![e] = new]
      BY Zenon, <2>4
    <3> HIDE DEF new
    <3>5. /\ run' \in [Embedders -> RunState]
          /\ \A x \in Embedders : run'[x].pc # "idle" => run'[x].target \in EmbIds
      BY <2>1, <3>2, <3>3, <3>4 DEF Typed, Aimed
    <3> QED BY <1>8, <2>4, <3>1, <3>5 DEF EmbedClaim, RunOnly, Typed, Aimed
  <2>5. CASE /\ emb' = [emb EXCEPT ![k] = FailedJob(Claimed(@, "embedding"), "failed_terminal", TRUE)]
             /\ version' \in {version, [version EXCEPT !.status = "failed_terminal"]}
             /\ RunRaises(e)
    <3>1. emb' \in [EmbIds -> JobRow]
      BY <2>1, <2>2, <2>5, SetEmb, Zenon
    <3>2. version' \in VersionRow
      BY Zenon, <2>5, VersionRows DEF Typed, Failures
    <3>3. RunMoved
      BY <2>5, RunMoves
    <3> QED BY <1>8, <3>1, <3>2, <3>3 DEF EmbedClaim, RunOnly, RunMoved, Typed, Aimed
  <2>6. CASE ~(Claimable(emb[k], {"queued"}, "embedding") /\ ~Inactive)
    BY <1>8, <2>0, <2>3, <2>6 DEF EmbedClaim
  <2>7. CASE Claimable(emb[k], {"queued"}, "embedding") /\ ~Inactive /\ chunks = "active"
    BY <1>8, <2>0, <2>4, <2>7 DEF EmbedClaim
  <2>8. CASE Claimable(emb[k], {"queued"}, "embedding") /\ ~Inactive /\ chunks # "active"
    BY Zenon, <1>8, <2>0, <2>5, <2>8 DEF EmbedClaim
  <2> QED BY <2>6, <2>7, <2>8
<1>9. CASE EmbedCommit(e)
  <2>0. PICK k : k = run[e].target
    OBVIOUS
  <2>1. k \in EmbIds /\ emb[k] \in JobRow
    BY <1>0, <1>9, <2>0 DEF EmbedCommit, Typed
  <2>2. CASE RunRaises(e) /\ UNCHANGED <<emb, version, vectors>>
    BY <1>5, <1>9, <2>2, RunMoves DEF EmbedCommit
  <2>3. CASE ~(version.deleted \/ chunks # "active")
    <3>1. emb' = [emb EXCEPT ![k] = [emb[k] EXCEPT !.status = "embedded", !.marked = FALSE]]
      BY Zenon, <1>9, <2>0, <2>3 DEF EmbedCommit
    <3>2. emb' \in [EmbIds -> JobRow]
      BY <2>1, <3>1, JobRows, SetEmb, Zenon
    <3>3. version' \in VersionRow
      BY <1>9, <2>3, VersionRows, ZenonT(60) DEF EmbedCommit, Typed
    <3>4. /\ run' \in [Embedders -> RunState]
          /\ \A x \in Embedders : run'[x].pc # "idle" => run'[x].target \in EmbIds
      BY <1>0, <1>9, <2>3, RunGotoMoves DEF EmbedCommit, Aimed
    <3> QED BY <1>9, <2>3, <3>2, <3>3, <3>4 DEF EmbedCommit, RunOnly, Typed, Aimed, RowState
  <2> QED BY <1>9, <2>2, <2>3 DEF EmbedCommit
<1>10. CASE EmbedReturn(e) \/ EmbedDies(e) \/ OpStopRun(e)
  <2>1. /\ run' \in [Embedders -> RunState]
        /\ \A x \in Embedders : run'[x].pc # "idle" => run'[x].target \in EmbIds
    BY <1>10, RunEnds DEF EmbedReturn, EmbedDies, OpStopRun, Aimed
  <2>2. q' \in [Deliveries -> DeliveryRow]
    <3>1. CASE q' = q
      BY <3>1 DEF Typed
    <3>2. CASE q' = [q EXCEPT ![run[e].target].state = "finished"]
      BY <1>0, <3>2, SetState, Zenon DEF DeliveryState
    <3>3. CASE q' = [q EXCEPT ![run[e].target].state = "stopped"]
      BY <1>0, <3>3, SetState, Zenon DEF DeliveryState
    <3> QED BY <1>10, <3>1, <3>2, <3>3 DEF EmbedReturn, EmbedDies, OpStopRun
  <2>3. vectorLock' \in Embedders \cup {"none"}
    BY <1>10 DEF EmbedReturn, EmbedDies, OpStopRun, Freed, Typed
  <2>4. CASE EmbedReturn(e) \/ EmbedDies(e)
    BY <2>1, <2>2, <2>3, <2>4 DEF EmbedReturn, EmbedDies, RunOnly, Typed, Aimed
  <2>5. CASE OpStopRun(e)
    <3>1. ops' \in 0 .. MaxOps
      BY <2>5, PipelineAssumption DEF OpStopRun, Operator, Typed
    <3> QED BY <2>1, <2>2, <2>3, <2>5, <3>1 DEF OpStopRun, rows, Typed, Aimed
  <2> QED BY <1>10, <2>4, <2>5
<1> QED BY <1>1, <1>3, <1>4, <1>6, <1>7, <1>8, <1>9, <1>10 DEF RunStep

\* Requests of clients and operators, and claims that grow stale, keep the types.
LEMMA AimedRequest ==
  ASSUME Typed, Aimed,
         \/ ParseStale \/ \E k \in EmbIds : EmbedStale(k) \/ RecoverHandoff(k)
         \/ DeleteChunks \/ DeleteCommit \/ DeleteFails \/ OpMark \/ OpLost
         \/ \E d \in Deliveries : OpRetry(d) \/ OpTerminate(d)
  PROVE  Typed' /\ Aimed'
<1>1. CASE ParseStale
  <2>1. job' \in JobRow
    BY <1>1, JobRows, Zenon DEF ParseStale, Typed
  <2> QED BY <1>1, <2>1 DEF ParseStale, ParserOnly, Typed, Aimed
<1>2. ASSUME NEW k \in EmbIds, EmbedStale(k) PROVE Typed' /\ Aimed'
  <2>1. [emb[k] EXCEPT !.fresh = FALSE] \in JobRow
    BY JobRows, Zenon DEF Typed
  <2>2. emb' = [emb EXCEPT ![k] = [emb[k] EXCEPT !.fresh = FALSE]]
    BY <1>2 DEF EmbedStale
  <2>3. emb' \in [EmbIds -> JobRow]
    BY <2>1, <2>2, SetEmb, Zenon
  <2> QED BY <1>2, <2>3 DEF EmbedStale, RunOnly, Typed, Aimed
<1>3. ASSUME Operator PROVE ops' \in 0 .. MaxOps
  <2>1. ops \in 0 .. MaxOps /\ MaxOps \in Nat /\ ops < MaxOps /\ ops' = ops + 1
    BY Zenon, <1>3, PipelineAssumption DEF Operator, Typed
  <2> QED BY <2>1
<1>4. ASSUME NEW k \in EmbIds, RecoverHandoff(k) PROVE Typed' /\ Aimed'
  <2>1. q' \in [Deliveries -> DeliveryRow]
    BY <1>4, EmbDeliveries, PublishedRow, SetDelivery, ZenonT(60) DEF RecoverHandoff
  <2> QED BY <1>3, <1>4, <2>1 DEF RecoverHandoff, rows, Typed, Aimed
<1>5. ASSUME NEW d \in Deliveries, OpRetry(d) PROVE Typed' /\ Aimed'
  <2>1. [state |-> "queued", left |-> q[d].left - 1] \in DeliveryRow
    BY Zenon, <1>5, DeliveryRows DEF OpRetry, Typed
  <2>2. q' \in [Deliveries -> DeliveryRow]
    BY Zenon, <1>5, <2>1, SetDelivery DEF OpRetry
  <2> QED BY Zenon, <1>3, <1>5, <2>2 DEF OpRetry, rows, Typed, Aimed
<1>6. ASSUME NEW d \in Deliveries, OpTerminate(d) PROVE Typed' /\ Aimed'
  <2>1. q' \in [Deliveries -> DeliveryRow]
    BY <1>6, SetState, Zenon DEF OpTerminate, DeliveryState
  <2>2. DomainJob(d) \in JobRow
    BY PipelineAssumption DEF DomainJob, Typed, Deliveries, EmbIds
  <2>3. op' \in OpState
    BY <1>6, <2>2, JobRows, Zenon DEF OpTerminate, OpState
  <2> QED BY <1>3, <1>6, <2>1, <2>3 DEF OpTerminate, rows, Typed, Aimed
<1>7. CASE DeleteChunks
  <2>1. ops' \in 0 .. MaxOps /\ chunkLock' \in Parsers \cup {"none", "delete"} /\ del' = "chunks"
    BY SMTT(30), <1>7, PipelineAssumption DEF DeleteChunks, Typed
  <2> QED BY Zenon, <1>7, <2>1 DEF DeleteChunks, rows, Typed, Aimed
<1>8. CASE DeleteFails
  BY ZenonT(30), <1>8 DEF DeleteFails, rows, Typed, Aimed
<1>9. CASE DeleteCommit
  <2>1. version' \in VersionRow /\ chunks' \in RowState /\ vectors' \in RowState
    BY Zenon, <1>9, VersionRows DEF DeleteCommit, Typed, RowState
  <2> QED BY Zenon, <1>9, <2>1 DEF DeleteCommit, Typed, Aimed
<1>10. op \in OpState /\ [op EXCEPT !.pc = "idle"] \in OpState
  BY DEF Typed, OpState
<1>11. CASE OpLost
  BY <1>10, <1>11 DEF OpLost, rows, Typed, Aimed
<1>12. CASE OpMark
  <2>1. job' \in JobRow /\ version' \in VersionRow /\ emb' \in [EmbIds -> JobRow]
    <3>1. CASE op.target = 0
      BY <1>12, <3>1, FailIngestionMoves, ZenonT(60) DEF OpMark, Failures, Typed
    <3>2. CASE op.target # 0
      <4>1. op.target \in EmbIds
        BY <1>10, <3>2, PipelineAssumption DEF OpState, Deliveries, EmbIds
      <4> QED BY <1>12, <3>2, <4>1, FailEmbeddingMoves DEF OpMark, Failures, Typed
    <3> QED BY <3>1, <3>2
  <2> QED BY <1>10, <1>12, <2>1 DEF OpMark, Typed, Aimed
<1> QED BY <1>1, <1>2, <1>4, <1>5, <1>6, <1>7, <1>8, <1>9, <1>11, <1>12

\* Every step keeps the types.
LEMMA AimedStep ==
  ASSUME Typed, Aimed, [Next]_vars
  PROVE  Typed' /\ Aimed'
<1>1. CASE UNCHANGED vars
  BY <1>1 DEF vars, Typed, Aimed
<1>2. CASE Next
  BY <1>2, AimedUpload, AimedQueue, AimedParser, AimedRun, AimedRequest, EmbDeliveries, Zenon DEF Next
<1> QED BY Zenon, <1>1, <1>2

\* Rows, deliveries and executions always hold values of their kinds, and an
\* execution that runs or enqueues is aimed at an embedding job.
THEOREM PipelineTyped == Spec => []TypeOK
<1>1. Spec => [](Typed /\ Aimed)
  BY AimedInit, AimedStep, PTL DEF Spec
<1>2. Typed => TypeOK
  BY DEF Typed, TypeOK, DeliveryRow, VersionRow, OpState
<1> QED BY <1>1, <1>2, PTL

-----------------------------------------------------------------------------
(* What is indexed.  This part needs nothing of how executions overlap.     *)
Indexed ==
  /\ \A k \in EmbIds : /\ q[k].state # "absent" => Created(k)
                       /\ emb[k].marked => Created(k)
                       /\ Created(k) => chunks # "none"
                       /\ emb[k].status = "embedded" => vectors # "none"
                       /\ emb[k].status = "queued" => emb[k].marked /\ emb[k].attempt = 0
                       /\ emb[k].status \in {"none", "queued"} \/ Advanced(k)
  /\ \A e \in Embedders : run[e].pc # "idle" => Created(run[e].target)
  /\ \A p \in Parsers : par[p].pc = "enqueue" => Created(par[p].target)
  /\ op.pc = "mark" /\ op.target # 0 => Created(op.target)
  /\ chunks = "deleted" => version.deleted
  /\ vectors = "deleted" => version.deleted
  /\ version.deleted => vectors # "active" /\ version.status # "chunked"
  /\ ReadyIsIndexed

-----------------------------------------------------------------------------
(* When what is given up as dead is dead, one execution runs a delivery.    *)
Alone ==
  /\ \A p \in Parsers : par[p].pc # "idle" => q[0].state = "started"
  /\ \A p, x \in Parsers : par[p].pc # "idle" /\ par[x].pc # "idle" => p = x
  /\ \A e \in Embedders : run[e].pc # "idle" => q[run[e].target].state = "started"
  /\ \A e, x \in Embedders :
        run[e].pc # "idle" /\ run[x].pc # "idle" /\ run[e].target = run[x].target => e = x
  /\ api = "enqueue" => q[0].state = "absent"

(* So a version is chunked once, and its one embedding job handed on.       *)
Once ==
  /\ \A k \in EmbIds : Created(k) => job.status = "chunked" /\ k = 1
  /\ job.status = "chunked" => \A p \in Parsers : par[p].pc \in {"idle", "handoff", "enqueue"}
  /\ version.status = "chunked" => emb[1].marked
  /\ version.status = "retrieval_ready" => job.status = "chunked"
  /\ NoLostHandoff

(* What each delivery may still claim.                                      *)
Attempts(d) == IF d = 0 THEN job.attempt ELSE emb[d].attempt
Claiming(d) == IF d = 0 THEN \E p \in Parsers : par[p].pc = "claim"
                        ELSE \E e \in Embedders : run[e].pc = "claim" /\ run[e].target = d
Budgeted(d) ==
  /\ q[d].state = "absent" => Attempts(d) = 0
  /\ q[d].state # "absent" => Attempts(d) + q[d].left <= RetryMax + 1
  /\ q[d].state \in {"queued", "scheduled"} \/ Claiming(d) => Attempts(d) + q[d].left <= RetryMax
Unpublished ==
  \A p \in Parsers, k \in EmbIds :
     par[p].pc = "enqueue" /\ par[p].target = k /\ ~Recorded(k) => emb[k].attempt = 0
Budgets == Unpublished /\ \A d \in Deliveries : Budgeted(d)

-----------------------------------------------------------------------------
(* What a step does to the rows, one definition for each kind of write, and *)
(* what it does to deliveries and executions.                               *)
JobKept == job'.status = job.status /\ job'.attempt = job.attempt

EmbKept(K) == \A k \in K : /\ emb'[k].status = emb[k].status
                           /\ emb'[k].attempt = emb[k].attempt
                           /\ emb'[k].marked = emb[k].marked

RowsKept == JobKept /\ EmbKept(EmbIds) /\ UNCHANGED <<version, chunks, vectors>>

\* mark_ingestion_job_failed, with the attempt it names.
JobFails(a) ==
  /\ job.status # "chunked" /\ job.attempt = a
  /\ job'.status \in Failures /\ job'.attempt = a
  /\ version.status # "retrieval_ready"
  /\ version'.status \in Failures /\ version'.deleted = version.deleted
  /\ EmbKept(EmbIds) /\ UNCHANGED <<chunks, vectors>>

\* mark_embedding_job_failed, with the attempt it names.
EmbFails(k, a) ==
  /\ Created(k) /\ emb[k].attempt = a
  /\ emb'[k].status \in Failures /\ emb'[k].attempt = a /\ emb'[k].marked = emb[k].marked
  /\ version.status # "retrieval_ready"
  /\ version'.status \in {version.status} \cup Failures /\ version'.deleted = version.deleted
  /\ JobKept /\ EmbKept(EmbIds \ {k}) /\ UNCHANGED <<chunks, vectors>>

JobClaimed ==
  /\ job.status # "chunked" /\ job'.status = "parsing" /\ job'.attempt = job.attempt + 1
  /\ EmbKept(EmbIds) /\ UNCHANGED <<version, chunks, vectors>>

JobParsed ==
  /\ job'.status = "parsed" /\ job'.attempt = job.attempt
  /\ version'.status = "parsed" /\ version'.deleted = version.deleted
  /\ EmbKept(EmbIds) /\ UNCHANGED <<chunks, vectors>>

JobChunked(k) ==
  /\ ~version.deleted /\ NextEmb(k)
  /\ emb'[k].status = "queued" /\ emb'[k].attempt = 0 /\ emb'[k].marked
  /\ job'.status = "chunked" /\ job'.attempt = job.attempt
  /\ version'.status = "chunked" /\ version'.deleted = version.deleted
  /\ EmbKept(EmbIds \ {k}) /\ chunks' = "active" /\ UNCHANGED vectors

EmbClaimed(k) ==
  /\ emb[k].status \in {"queued", "failed_retryable", "embedding"}
  /\ emb'[k].status = "embedding" /\ emb'[k].attempt = emb[k].attempt + 1
  /\ emb'[k].marked = emb[k].marked
  /\ JobKept /\ EmbKept(EmbIds \ {k}) /\ UNCHANGED <<version, chunks, vectors>>

EmbCommitted(k) ==
  /\ ~version.deleted /\ chunks = "active"
  /\ emb'[k].status = "embedded" /\ emb'[k].attempt = emb[k].attempt /\ ~emb'[k].marked
  /\ version'.status = "retrieval_ready" /\ version'.deleted = version.deleted
  /\ JobKept /\ EmbKept(EmbIds \ {k}) /\ vectors' = "active" /\ UNCHANGED chunks

MadeReady(k) ==
  /\ emb[k].status = "embedded" /\ ~version.deleted /\ chunks = "active"
  /\ version'.status = "retrieval_ready" /\ version'.deleted = version.deleted
  /\ JobKept /\ EmbKept(EmbIds) /\ UNCHANGED <<chunks, vectors>>

VersionDeleted ==
  /\ version'.status = "deleted" /\ version'.deleted
  /\ chunks' \in {chunks, "deleted"}
  /\ vectors' = IF vectors = "active" THEN "deleted" ELSE vectors
  /\ JobKept /\ EmbKept(EmbIds)

\* A delivery whose execution ends unfinished keeps its record or spends a retry.
Spent(d) ==
  \/ q'[d] = q[d]
  \/ q'[d].state \in {"failed", "stopped"} /\ q'[d].left <= q[d].left
  \/ q'[d].state = "scheduled" /\ q'[d].left < q[d].left

Finished(d) == q'[d].state = "finished" /\ q'[d].left = q[d].left

OthersQueued(D) == \A d \in Deliveries \ D : q'[d] = q[d]

Still ==
  /\ UNCHANGED <<q, par, run>>
  /\ api' = "enqueue" => api = "enqueue"
  /\ op'.pc = "mark" => op' = op

Uploads ==
  /\ api = "enqueue" /\ api' # "enqueue"
  /\ q'[0] = Published /\ OthersQueued({0})
  /\ UNCHANGED <<par, run, op>>

\* RQ, its registry and the operator move a delivery that nobody executes,
\* and the operator publishes one that has no record.
Delivers(d) ==
  /\ q[d].state = "started" => Overlap \/ ~Executing(d)
  /\ q'[d].state \notin {"absent", "started"} /\ (d = 0 => q'[d].state # "finished")
  /\ q'[d].state = "expired" => \A p \in Parsers : par[p].pc # "enqueue"
  /\ \/ /\ q[d].state # "absent"
        /\ \/ q'[d].left < q[d].left
           \/ /\ q'[d].left = q[d].left
              /\ q'[d].state \in {"queued", "scheduled"} => q[d].state \in {"queued", "scheduled"}
           \/ q'[d].left = 0 /\ q'[d].state = "failed"
     \/ d \in EmbIds /\ emb[d].status = "queued" /\ emb[d].attempt = 0 /\ q'[d] = Published
  /\ op'.pc = "mark" => op' = op \/ (op'.target = d /\ DomainJob(d).status # "none")
  /\ OthersQueued({d}) /\ UNCHANGED <<par, run, api>>

OthersParse(p) == \A x \in Parsers \ {p} : par'[x] = par[x]

ParserStarts(p) ==
  /\ par[p].pc = "idle"
  /\ q[0].state = "queued" /\ q'[0].state = "started" /\ q'[0].left = q[0].left
  /\ par'[p].pc \in IF job.status = "chunked" THEN {"handoff"} ELSE {"parse", "claim"}
  /\ OthersParse(p) /\ OthersQueued({0}) /\ UNCHANGED <<run, api, op>>

ParserGoes(p) ==
  /\ par[p].pc \notin {"idle", "enqueue"} /\ par'[p].pc \notin {"idle", "claim"}
  /\ par[p].pc = "handoff" => par'[p].pc = "enqueue"
  /\ par'[p].pc = "enqueue" =>
        /\ job.status = "chunked"
        /\ par'[p].target \in EmbIds /\ emb[par'[p].target].status = "queued"
  /\ OthersParse(p) /\ UNCHANGED <<q, run, api, op>>

ParserStops(p) ==
  /\ par[p].pc # "idle" /\ par'[p].pc = "idle"
  /\ \/ Spent(0)
     \/ /\ Finished(0)
        /\ \A k \in EmbIds : emb[k].status = "queued" => version.status # "chunked"
  /\ OthersParse(p) /\ OthersQueued({0}) /\ UNCHANGED <<run, api, op>>

ParserPublishes(p, k) ==
  /\ par[p].pc = "enqueue" /\ par[p].target = k /\ par'[p].pc = "idle"
  /\ Spent(0) \/ Finished(0)
  /\ q'[k] = IF Recorded(k) THEN q[k] ELSE Published
  /\ OthersParse(p) /\ OthersQueued({0, k}) /\ UNCHANGED <<run, api, op>>

OthersRun(e) == \A x \in Embedders \ {e} : run'[x] = run[x]

RunStarted(e, k) ==
  /\ run[e].pc = "idle" /\ run'[e].pc \in {"claim", "reject"} /\ run'[e].target = k
  /\ q[k].state = "queued" /\ q'[k].state = "started" /\ q'[k].left = q[k].left
  /\ OthersRun(e) /\ OthersQueued({k}) /\ UNCHANGED <<par, api, op>>

RunGoes(e) ==
  /\ run[e].pc # "idle" /\ run'[e].pc \notin {"idle", "claim"} /\ run'[e].target = run[e].target
  /\ OthersRun(e) /\ UNCHANGED <<q, par, api, op>>

RunStops(e, k) ==
  /\ run[e].pc # "idle" /\ run[e].target = k /\ run'[e].pc = "idle"
  /\ Spent(k) \/ Finished(k)
  /\ OthersRun(e) /\ OthersQueued({k}) /\ UNCHANGED <<par, api, op>>

\* The steps of the pipeline, as writes that go with moves.
Effect ==
  \/ /\ Still
     /\ \/ RowsKept \/ VersionDeleted
        \/ JobFails(job.attempt) /\ api = "unacked"
        \/ op.pc = "mark" /\ (JobFails(op.attempt) \/ \E k \in EmbIds : EmbFails(k, op.attempt))
  \/ Uploads /\ RowsKept
  \/ \E d \in Deliveries : Delivers(d) /\ RowsKept
  \/ \E k \in EmbIds : Delivers(k) /\ MadeReady(k)
  \/ \E p \in Parsers :
       \/ ParserStarts(p) /\ RowsKept
       \/ /\ ParserGoes(p)
          /\ \/ RowsKept
             \/ par[p].pc = "claim" /\ JobClaimed
             \/ par[p].pc = "parsed" /\ JobParsed
             \/ par[p].pc = "commit" /\ par'[p].pc = "handoff" /\ \E k \in EmbIds : JobChunked(k)
       \/ ParserStops(p) /\ (RowsKept \/ JobFails(par[p].attempt))
       \/ \E k \in EmbIds : ParserPublishes(p, k) /\ RowsKept
  \/ \E e \in Embedders, k \in EmbIds :
       \/ RunStarted(e, k) /\ RowsKept
       \/ /\ RunGoes(e) /\ run[e].target = k
          /\ RowsKept \/ (run[e].pc = "claim" /\ EmbClaimed(k)) \/ EmbCommitted(k)
       \/ RunStops(e, k) /\ (RowsKept \/ EmbFails(k, run[e].attempt))

\* What the writes of a job row leave in the columns the properties read.
LEMMA JobFields ==
  ASSUME NEW j \in JobRow
  PROVE  /\ \A s \in {"parsing", "embedding"} :
               /\ Claimed(j, s).status = s /\ Claimed(j, s).attempt = j.attempt + 1
               /\ Claimed(j, s).marked = j.marked
         /\ \A r \in {[j EXCEPT !.due = TRUE], [j EXCEPT !.fresh = FALSE]} :
               r.status = j.status /\ r.attempt = j.attempt /\ r.marked = j.marked
         /\ \A s \in {"parsed", "chunked"} :
               [j EXCEPT !.status = s].status = s /\ [j EXCEPT !.status = s].attempt = j.attempt
         /\ LET r == [j EXCEPT !.status = "embedded", !.marked = FALSE]
            IN  r.status = "embedded" /\ r.attempt = j.attempt /\ ~r.marked
         /\ NewJob("queued").status = "queued" /\ NewJob("queued").attempt = 0
         /\ NewJob("queued").marked
<1>1. \A s \in {"parsing", "embedding"} :
               /\ Claimed(j, s).status = s /\ Claimed(j, s).attempt = j.attempt + 1
               /\ Claimed(j, s).marked = j.marked
  BY DEF Claimed, JobRow
<1>2. \A r \in {[j EXCEPT !.due = TRUE], [j EXCEPT !.fresh = FALSE]} :
               r.status = j.status /\ r.attempt = j.attempt /\ r.marked = j.marked
  BY DEF JobRow
<1>3. \A s \in {"parsed", "chunked"} :
               [j EXCEPT !.status = s].status = s /\ [j EXCEPT !.status = s].attempt = j.attempt
  BY DEF JobRow
<1>4. LET r == [j EXCEPT !.status = "embedded", !.marked = FALSE]
      IN  r.status = "embedded" /\ r.attempt = j.attempt /\ ~r.marked
  BY DEF JobRow
<1>5. NewJob("queued").status = "queued" /\ NewJob("queued").attempt = 0 /\ NewJob("queued").marked
  BY ZenonT(60) DEF NewJob
<1> QED BY <1>1, <1>2, <1>3, <1>4, <1>5

\* A step that leaves every row alone keeps what the properties read.
LEMMA Kept == ASSUME UNCHANGED rows PROVE RowsKept
BY DEF rows, RowsKept, JobKept, EmbKept

\* A failure written by mark_ingestion_job_failed, or left out by it.
LEMMA FailsOrKept ==
  ASSUME Typed, NEW a, NEW s \in Failures, NEW due \in BOOLEAN, FailIngestion(a, s, due),
         UNCHANGED <<chunks, vectors, emb>>
  PROVE  RowsKept \/ JobFails(a)
BY Zenon, FailIngestionMoves DEF RowsKept, JobFails, JobKept, EmbKept

\* The same for mark_embedding_job_failed.
LEMMA EmbFailsOrKept ==
  ASSUME Typed, NEW k \in EmbIds, Created(k), NEW a, NEW s \in Failures, FailEmbedding(k, a, s),
         UNCHANGED <<chunks, vectors, job>>
  PROVE  RowsKept \/ EmbFails(k, a)
BY FailEmbeddingMoves DEF RowsKept, EmbFails, JobKept, EmbKept, Failures

\* RQ's retry spends one unit of a delivery's budget.
LEMMA SpentRetried ==
  ASSUME Typed, NEW d \in Deliveries, q'[d] = Retried(d)
  PROVE  Spent(d)
BY RetriedRow DEF Spent

\* What the upload request does to rows and deliveries.
LEMMA EffectUpload ==
  ASSUME Typed, Aimed, UploadEnqueue \/ UploadUnacked \/ UploadFails \/ UploadDies
  PROVE  Effect
<1>0. 0 \in Deliveries
  BY EmbDeliveries
<1>1. CASE UploadFails
  <2>1. RowsKept \/ JobFails(job.attempt)
    <3>1. "failed_retryable" \in Failures
      BY DEF Failures
    <3>2. FailIngestion(job.attempt, "failed_retryable", TRUE) /\ UNCHANGED <<chunks, vectors, emb>>
      BY <1>1, Zenon DEF UploadFails, ApiOnly
    <3>3. PICK due \in BOOLEAN : due = TRUE
      BY ZenonT(60)
    <3> QED BY <3>1, <3>2, <3>3, FailsOrKept, Zenon
  <2>2. Still /\ api = "unacked"
    BY <1>1 DEF UploadFails, ApiOnly, Still
  <2> QED BY <2>1, <2>2, Zenon DEF Effect
<1>2. CASE UploadEnqueue \/ UploadUnacked \/ UploadDies
  <2>1. RowsKept
    BY <1>2, Kept DEF UploadEnqueue, UploadUnacked, UploadDies, ApiOnly, rows
  <2>2. CASE q' = q
    <3>1. Still
      BY <1>2, <2>2 DEF UploadEnqueue, UploadUnacked, UploadDies, ApiOnly, Still
    <3> QED BY <2>1, <3>1, ZenonT(60) DEF Effect
  <2>3. CASE api = "enqueue" /\ q' = [q EXCEPT ![0] = Published] /\ api' \in {"done", "unacked"}
    <3>1. q'[0] = Published /\ OthersQueued({0})
      BY Zenon, <1>0, <2>3, PublishedRow, SetDelivery DEF OthersQueued
    <3>2. Uploads
      BY <1>2, <2>3, <3>1 DEF UploadEnqueue, UploadUnacked, UploadDies, ApiOnly, Uploads
    <3> QED BY Zenon, <2>1, <3>2 DEF Effect
  <2> QED BY Zenon, <1>2, <2>2, <2>3 DEF UploadEnqueue, UploadUnacked, UploadDies
<1> QED BY <1>1, <1>2

\* What RQ does on its own: deliveries are dropped, expire or are released.
LEMMA EffectQueue ==
  ASSUME Typed, Aimed, NEW d \in Deliveries, Requeue(d) \/ Abandon(d) \/ (d \in EmbIds /\ Expire(d))
  PROVE  Effect
<1>1. CASE Requeue(d)
  <2>1. q'[d].state = "queued" /\ q'[d].left = q[d].left /\ OthersQueued({d})
    BY <1>1, SetState, Zenon DEF Requeue, DeliveryState, OthersQueued
  <2>2. JobKept
    BY <1>1, JobFields DEF Requeue, Typed, JobKept
  <2>3. EmbKept(EmbIds)
    <3>1. CASE d = 0
      BY <1>1, <3>1 DEF Requeue, EmbKept
    <3>2. CASE d # 0
      <4>1. d \in EmbIds
        BY <3>2, PipelineAssumption DEF Deliveries, EmbIds
      <4>2. [emb[d] EXCEPT !.due = TRUE] \in JobRow /\ emb[d] \in JobRow
        BY <4>1, JobRows, Zenon DEF Typed
      <4>3. emb' = [emb EXCEPT ![d] = [emb[d] EXCEPT !.due = TRUE]]
        BY <1>1, <3>2 DEF Requeue
      <4>4. emb'[d] = [emb[d] EXCEPT !.due = TRUE] /\ \A x \in EmbIds \ {d} : emb'[x] = emb[x]
        BY Zenon, <4>1, <4>2, <4>3, SetEmb
      <4>5. emb'[d].status = emb[d].status /\ emb'[d].attempt = emb[d].attempt /\ emb'[d].marked = emb[d].marked
        BY <4>2, <4>4, JobFields
      <4> QED BY Zenon, <4>4, <4>5 DEF EmbKept
    <3> QED BY <3>1, <3>2
  <2>4. RowsKept
    BY <1>1, <2>2, <2>3 DEF RowsKept, Requeue
  <2>5. Delivers(d)
    BY <1>1, <2>1 DEF Delivers, Requeue
  <2> QED BY <2>4, <2>5, Zenon DEF Effect
<1>2. CASE Abandon(d)
  <2>1. q'[d] = Retried(d) /\ OthersQueued({d})
    BY <1>2, RetriedRow, SetDelivery, Zenon DEF Abandon, OthersQueued
  <2>2. Delivers(d)
    BY <1>2, <2>1, RetriedRow DEF Delivers, Abandon
  <2>3. RowsKept
    BY <1>2, Kept DEF Abandon
  <2> QED BY <2>2, <2>3, ZenonT(60) DEF Effect
<1>3. CASE d \in EmbIds /\ Expire(d)
  <2>1. q'[d].state = "expired" /\ q'[d].left = q[d].left /\ OthersQueued({d})
    BY <1>3, SetState, Zenon DEF Expire, DeliveryState, OthersQueued
  <2>2. Delivers(d)
    BY <1>3, <2>1 DEF Delivers, Expire
  <2>3. RowsKept
    BY <1>3, Kept DEF Expire
  <2> QED BY <2>2, <2>3, Zenon DEF Effect
<1> QED BY <1>1, <1>2, <1>3

\* What a parse execution does.
LEMMA EffectParser ==
  ASSUME Typed, Aimed, Indexed, NEW p \in Parsers,
         \/ ParseStart(p) \/ ParserStep(p) \/ ParseFails(p) \/ EnqueueFails(p)
         \/ ParseStorageFails(p) \/ ParseDies(p) \/ OpStopParser(p)
  PROVE  Effect
<1>0. par[p] \in ParserState /\ 0 \in Deliveries /\ q[0] \in DeliveryRow /\ job \in JobRow
  BY Zenon, EmbDeliveries DEF Typed
<1>1. ASSUME ParseRaises(p), par[p].pc # "idle", ParserOnly PROVE ParserStops(p)
  <2>1. /\ par'[p].pc = "idle" /\ OthersParse(p) /\ q'[0] = Retried(0) /\ OthersQueued({0})
    BY Zenon, <1>1, ParseRaisesMoves DEF OthersParse, OthersQueued
  <2>2. Spent(0)
    BY <1>0, <2>1, SpentRetried
  <2> QED BY Zenon, <1>1, <2>1, <2>2 DEF ParserStops, ParserOnly
<1>2. ASSUME NEW l \in {"parsed", "chunk", "mark", "commit"}, Goto(p, l), UNCHANGED q, ParserOnly,
             par[p].pc \notin {"idle", "enqueue", "handoff"}
      PROVE  ParserGoes(p)
  BY <1>2, GotoMoves, Zenon DEF ParserGoes, OthersParse, ParserOnly
<1>3. ASSUME UNCHANGED <<job, version, chunks, emb>>, ParserOnly PROVE RowsKept
  BY <1>3, Kept DEF ParserOnly, rows
<1>4. CASE ParseStart(p)
  <2> DEFINE new == [pc |-> CASE job.status = "chunked" -> "handoff"
                              [] job.status = "parsed" -> "parse"
                              [] OTHER -> "claim",
                     attempt |-> job.attempt, rechunk |-> job.status = "parsed",
                     left |-> q[0].left, target |-> 0]
  <2>1. q'[0].state = "started" /\ q'[0].left = q[0].left /\ OthersQueued({0})
    BY <1>0, <1>4, SetState, Zenon DEF ParseStart, DeliveryState, OthersQueued
  <2>2. new.pc \in IF job.status = "chunked" THEN {"handoff"} ELSE {"parse", "claim"}
    <3>1. CASE job.status = "chunked"
      BY <3>1
    <3>2. CASE job.status # "chunked" /\ job.status = "parsed"
      BY <3>2
    <3>3. CASE job.status # "chunked" /\ job.status # "parsed"
      BY <3>3
    <3> QED BY <3>1, <3>2, <3>3
  <2> HIDE DEF new
  <2>3. par' = [par EXCEPT ![p] = new]
    BY <1>4 DEF ParseStart, new
  <2>4. par'[p].pc = new.pc /\ OthersParse(p)
    BY <2>3 DEF Typed, OthersParse
  <2>5. ParserStarts(p)
    BY <1>4, <2>1, <2>2, <2>4 DEF ParseStart, ParserOnly, ParserStarts
  <2> QED BY <1>3, <1>4, <2>5 DEF Effect, ParseStart
<1>5. CASE ParseClaim(p)
  <2>1. CASE ParseRaises(p) /\ job' = job
    BY <1>1, <1>3, <1>5, <2>1 DEF ParseClaim, Effect
  <2>2. CASE /\ Claimable(job, {"uploaded", "queued"}, "parsing")
             /\ job' = Claimed(job, "parsing")
             /\ par' = [par EXCEPT ![p].pc = "parse", ![p].attempt = job.attempt + 1]
             /\ UNCHANGED <<q, chunkLock>>
    <3> DEFINE new == [par[p] EXCEPT !.pc = "parse", !.attempt = job.attempt + 1]
    <3>1. job'.status = "parsing" /\ job'.attempt = job.attempt + 1
      BY <1>0, <2>2, JobFields
    <3>2. job.status # "chunked"
      BY <2>2 DEF Claimable
    <3>3. JobClaimed
      BY <1>5, <3>1, <3>2 DEF ParseClaim, ParserOnly, JobClaimed, EmbKept
    <3>4. new.pc = "parse"
      BY <1>0 DEF ParserState
    <3>5. par' = [par EXCEPT ![p] = new]
      BY Zenon, <2>2
    <3> HIDE DEF new
    <3>6. par'[p].pc = "parse" /\ OthersParse(p)
      BY <3>4, <3>5 DEF Typed, OthersParse
    <3>7. ParserGoes(p) /\ par[p].pc = "claim"
      BY <1>5, <2>2, <3>6 DEF ParseClaim, ParserOnly, ParserGoes
    <3> QED BY <3>3, <3>7, Zenon DEF Effect
  <2> QED BY <1>5, <2>1, <2>2 DEF ParseClaim
<1>6. CASE ParseDone(p) \/ ReplaceChunks(p) \/ MarkChunked(p) \/ ParseStorageFails(p)
  <2>1. RowsKept
    BY <1>3, <1>6, Zenon DEF ParseDone, ReplaceChunks, MarkChunked, ParseStorageFails
  <2>2. ParserStops(p) \/ ParserGoes(p)
    <3>1. CASE ParseDone(p)
      BY Zenon, <1>1, <1>2, <3>1 DEF ParseDone
    <3>2. CASE ReplaceChunks(p)
      BY Zenon, <1>1, <1>2, <3>2 DEF ReplaceChunks
    <3>3. CASE MarkChunked(p)
      BY Zenon, <1>1, <1>2, <3>3 DEF MarkChunked
    <3>4. CASE ParseStorageFails(p)
      BY <1>1, <3>4 DEF ParseStorageFails
    <3> QED BY Zenon, <1>6, <3>1, <3>2, <3>3, <3>4
  <2> QED BY <2>1, <2>2, Zenon DEF Effect
<1>7. CASE MarkParsed(p)
  <2>1. job'.status = "parsed" /\ job'.attempt = job.attempt
    BY <1>0, <1>7, JobFields DEF MarkParsed
  <2>2. version'.status = "parsed" /\ version'.deleted = version.deleted
    BY <1>7 DEF MarkParsed, Typed, VersionRow
  <2>3. JobParsed
    BY <1>7, <2>1, <2>2 DEF MarkParsed, ParserOnly, JobParsed, EmbKept
  <2>4. ParserGoes(p) /\ par[p].pc = "parsed"
    BY <1>2, <1>7 DEF MarkParsed
  <2> QED BY <2>3, <2>4, Zenon DEF Effect
<1>8. CASE ChunkCommit(p)
  <2>1. CASE version.deleted
    <3>1. RowsKept
      BY <1>3, <1>8, <2>1 DEF ChunkCommit
    <3>2. ParserStops(p)
      BY <1>1, <1>8, <2>1 DEF ChunkCommit
    <3> QED BY <3>1, <3>2, Zenon DEF Effect
  <2>2. CASE ~version.deleted
    <3>1. PICK k \in EmbIds : NextEmb(k) /\ emb' = [emb EXCEPT ![k] = NewJob("queued")]
      BY <1>8, <2>2 DEF ChunkCommit
    <3>2. NewJob("queued") \in JobRow
      BY <1>0, JobRows, ZenonT(60)
    <3>3. emb'[k] = NewJob("queued") /\ EmbKept(EmbIds \ {k})
      BY Zenon, <3>1, <3>2, SetEmb DEF EmbKept
    <3>4. emb'[k].status = "queued" /\ emb'[k].attempt = 0 /\ emb'[k].marked
      BY <1>0, <3>3, JobFields
    <3>5. job'.status = "chunked" /\ job'.attempt = job.attempt
      <4>1. job' = [job EXCEPT !.status = "chunked"]
        BY <1>8, <2>2 DEF ChunkCommit
      <4> QED BY <1>0, <4>1, JobFields
    <3>6. version'.status = "chunked" /\ version'.deleted = version.deleted
      BY <1>8, <2>2 DEF ChunkCommit, Typed, VersionRow
    <3>7. JobChunked(k)
      BY Zenon, <1>8, <2>2, <3>1, <3>3, <3>4, <3>5, <3>6 DEF ChunkCommit, ParserOnly, JobChunked
    <3>8. par'[p].pc = "handoff" /\ OthersParse(p)
      BY <1>8, <2>2, GotoMoves DEF ChunkCommit, OthersParse
    <3>9. ParserGoes(p) /\ par[p].pc = "commit"
      BY Zenon, <1>8, <2>2, <3>8 DEF ChunkCommit, ParserOnly, ParserGoes
    <3> QED BY <3>7, <3>8, <3>9, Zenon DEF Effect
  <2> QED BY <2>1, <2>2
<1>9. CASE Handoff(p)
  <2>1. RowsKept
    BY <1>3, <1>9 DEF Handoff
  <2>2. CASE ParseRaises(p)
    BY <1>1, <1>9, <2>1, <2>2 DEF Handoff, Effect
  <2>3. ASSUME ParseReturns(p),
               \/ Inactive \/ version.status = "retrieval_ready"
               \/ \E k \in EmbIds : HandoffJob(k) /\ Advanced(k)
        PROVE  ParserStops(p)
    <3>1. par'[p].pc = "idle" /\ OthersParse(p) /\ Finished(0) /\ OthersQueued({0})
      BY Zenon, <2>3, ParseReturnsMoves DEF OthersParse, Finished, OthersQueued
    <3>2. ASSUME NEW k \in EmbIds, emb[k].status = "queued" PROVE version.status # "chunked"
      <4>1. k \in Marked /\ ~Advanced(k)
        BY <3>2 DEF Indexed, Marked, Advanced, Failures
      <4>2. ~\E x \in EmbIds : HandoffJob(x) /\ Advanced(x)
        BY <4>1 DEF HandoffJob
      <4> QED BY Zenon, <2>3, <4>2 DEF Inactive, Indexed
    <3> QED BY Zenon, <1>9, <3>1, <3>2 DEF ParserStops, Handoff, ParserOnly
  <2>4. ASSUME NEW k \in EmbIds, HandoffJob(k), ~Advanced(k), job.status = "chunked",
               par' = [par EXCEPT ![p].pc = "enqueue", ![p].target = k],
               UNCHANGED <<q, chunkLock>>
        PROVE  ParserGoes(p)
    <3> DEFINE new == [par[p] EXCEPT !.pc = "enqueue", !.target = k]
    <3>1. new.target = k /\ new.pc = "enqueue"
      BY <1>0 DEF ParserState
    <3>2. par' = [par EXCEPT ![p] = new]
      BY Zenon, <2>4
    <3> HIDE DEF new
    <3>3. par'[p].target = k /\ par'[p].pc = "enqueue" /\ OthersParse(p)
      BY <3>1, <3>2 DEF Typed, OthersParse
    <3>4. emb[k].status = "queued"
      <4>1. emb[k].marked
        BY Zenon, <2>4 DEF HandoffJob, Marked
      <4> QED BY <2>4, <4>1 DEF Indexed, Created
    <3> QED BY <1>9, <2>4, <3>3, <3>4 DEF ParserGoes, Handoff, ParserOnly
  <2> QED BY <1>9, <2>1, <2>2, <2>3, <2>4 DEF Handoff, Effect
<1>10. CASE Enqueue(p) \/ EnqueueFails(p)
  <2>1. PICK k : k = par[p].target
    OBVIOUS
  <2>2. k \in EmbIds /\ k # 0 /\ k \in Deliveries /\ par[p].pc = "enqueue"
    BY Zenon, <1>10, <2>1, EmbDeliveries DEF Enqueue, EnqueueFails, Aimed
  <2>3. RowsKept
    BY <1>3, <1>10 DEF Enqueue, EnqueueFails
  <2>4. par'[p].pc = "idle" /\ OthersParse(p)
    <3>1. par' = [par EXCEPT ![p] = IdleParser] /\ IdleParser.pc = "idle"
      BY <1>10 DEF Enqueue, EnqueueFails, IdleParser
    <3> QED BY <3>1 DEF Typed, OthersParse
  <2>5. CASE q' = [q EXCEPT ![0] = Retried(0)]
    <3>1. q'[0] = Retried(0) /\ OthersQueued({0})
      BY <1>0, <2>5, RetriedRow, SetDelivery, ZenonT(60) DEF OthersQueued
    <3>2. Spent(0)
      BY Zenon, <1>0, <3>1, SpentRetried
    <3>3. ParserStops(p)
      BY SMTT(30), <1>10, <2>2, <2>4, <3>1, <3>2 DEF ParserStops, Enqueue, EnqueueFails, ParserOnly
    <3> QED BY <2>3, <3>3, Zenon DEF Effect
  <2>6. ASSUME Spent(0) \/ Finished(0), q'[k] = IF Recorded(k) THEN q[k] ELSE Published, OthersQueued({0, k})
        PROVE  Effect
    <3>1. ParserPublishes(p, k)
      BY <1>10, <2>1, <2>2, <2>4, <2>6 DEF ParserPublishes, Enqueue, EnqueueFails, ParserOnly
    <3> QED BY Zenon, <2>2, <2>3, <3>1 DEF Effect
  <2>7. CASE Enqueue(p)
    <3>1. [q[0] EXCEPT !.state = "finished"] \in DeliveryRow
      BY <1>0, DeliveryRows, Zenon DEF Typed, DeliveryState
    <3>2. q' = [q EXCEPT ![k] = IF Recorded(k) THEN @ ELSE Published,
                         ![0] = [q[0] EXCEPT !.state = "finished"]]
      BY <2>1, <2>2, <2>7, Zenon DEF Enqueue
    <3>3. /\ q'[0] = [q[0] EXCEPT !.state = "finished"]
          /\ q'[k] = IF Recorded(k) THEN q[k] ELSE Published
          /\ OthersQueued({0, k})
      BY <2>2, <3>1, <3>2, PublishMoves, ZenonT(60) DEF OthersQueued
    <3>4. Finished(0)
      BY Zenon, <1>0, <3>3 DEF Finished, DeliveryRow
    <3> QED BY <2>6, <3>3, <3>4
  <2>8. CASE q' = [q EXCEPT ![0] = Retried(0), ![k] = IF Recorded(k) THEN @ ELSE Published]
    <3>1. q' = [q EXCEPT ![k] = IF Recorded(k) THEN @ ELSE Published, ![0] = Retried(0)]
      BY <2>2, <2>8, Zenon DEF Typed
    <3>2. /\ q'[0] = Retried(0)
          /\ q'[k] = IF Recorded(k) THEN q[k] ELSE Published
          /\ OthersQueued({0, k})
      BY Zenon, <1>0, <2>2, <3>1, RetriedRow, PublishMoves DEF OthersQueued
    <3>3. Spent(0)
      BY <1>0, <3>2, SpentRetried, Zenon
    <3> QED BY Zenon, <2>6, <3>2, <3>3
  <2> QED BY <1>10, <2>1, <2>5, <2>7, <2>8 DEF EnqueueFails
<1>11. CASE ParseFails(p)
  <2>1. PICK s \in Failures, due \in BOOLEAN : FailIngestion(par[p].attempt, s, due)
    <3>1. PICK kind \in Failures :
            FailIngestion(par[p].attempt, FailureStatus(kind, par[p].left),
                          FailureStatus(kind, par[p].left) = "failed_terminal")
      BY <1>11, Zenon DEF ParseFails
    <3>2. PICK s : s = FailureStatus(kind, par[p].left)
      OBVIOUS
    <3>3. PICK due \in BOOLEAN : due = (s = "failed_terminal")
      BY Zenon
    <3>4. s \in Failures
      BY <3>2 DEF FailureStatus, Failures
    <3> QED BY Zenon, <3>1, <3>2, <3>3, <3>4
  <2>2. RowsKept \/ JobFails(par[p].attempt)
    BY <1>11, <2>1, FailsOrKept, Zenon DEF ParseFails, ParserOnly
  <2>3. ParserStops(p)
    BY <1>1, <1>11, Zenon DEF ParseFails
  <2> QED BY <2>2, <2>3, Zenon DEF Effect
<1>12. CASE ParseDies(p) \/ OpStopParser(p)
  <2>1. par'[p].pc = "idle" /\ OthersParse(p)
    BY <1>12, ParserEnds DEF ParseDies, OpStopParser, OthersParse
  <2>2. RowsKept
    BY <1>12, Kept DEF ParseDies, OpStopParser, ParserOnly, rows
  <2>3. Spent(0) /\ OthersQueued({0})
    <3>1. CASE ParseDies(p)
      BY <3>1, ZenonT(60) DEF ParseDies, Spent, OthersQueued
    <3>2. CASE OpStopParser(p)
      <4>1. q'[0].state = "stopped" /\ q'[0].left = q[0].left /\ OthersQueued({0})
        BY <1>0, <3>2, SetState, ZenonT(60) DEF OpStopParser, DeliveryState, OthersQueued
      <4>2. q[0].left \in Nat
        BY Zenon, <1>0, RetriedRow
      <4>3. q'[0].left <= q[0].left
        BY <4>1, <4>2
      <4> QED BY Zenon, <4>1, <4>3 DEF Spent
    <3> QED BY <1>12, <3>1, <3>2
  <2>4. ParserStops(p)
    BY Zenon, <1>12, <2>1, <2>3 DEF ParserStops, ParseDies, OpStopParser, ParserOnly
  <2> QED BY <2>2, <2>4, Zenon DEF Effect
<1> QED BY Zenon, <1>4, <1>5, <1>6, <1>7, <1>8, <1>9, <1>10, <1>11, <1>12 DEF ParserStep

\* What an embedding execution does.
LEMMA EffectRun ==
  ASSUME Typed, Aimed, Indexed, NEW e \in Embedders,
         \/ \E k \in EmbIds : EmbedStart(e, k)
         \/ RunStep(e) \/ EmbedFails(e) \/ EmbedStorageFails(e) \/ EmbedDies(e) \/ OpStopRun(e)
  PROVE  Effect
<1>0. run[e] \in RunState
  BY DEF Typed
<1>1. ASSUME NEW k \in EmbIds, EmbedStart(e, k) PROVE Effect
  <2>0. k \in Deliveries /\ q[k] \in DeliveryRow /\ k # 0 /\ q[k].left \in Nat
    BY EmbDeliveries, RetriedRow DEF Typed
  <2>1. CASE emb[k].status = "embedded"
    <3>1. PICK v \in DeliveryRow :
             /\ q' = [q EXCEPT ![k] = v]
             /\ v = Retried(k) \/ v = [q[k] EXCEPT !.state = "finished"]
      <4>1. Retried(k) \in DeliveryRow /\ [q[k] EXCEPT !.state = "finished"] \in DeliveryRow
        BY <2>0, RetriedRow, DeliveryRows, Zenon DEF Typed, DeliveryState
      <4> QED BY <1>1, <2>1, <4>1 DEF EmbedStart
    <3>2. q'[k] = v /\ OthersQueued({k})
      BY <2>0, <3>1, SetDelivery, Zenon DEF OthersQueued
    <3>3. \/ v.state \in {"finished", "canceled"} /\ v.left = q[k].left
          \/ v.state = "scheduled" /\ v.left < q[k].left
          \/ v.state = "failed" /\ v.left = 0
      <4>1. CASE v = Retried(k)
        BY <2>0, <4>1, RetriedRow
      <4>2. CASE v = [q[k] EXCEPT !.state = "finished"]
        BY <2>0, <4>2 DEF DeliveryRow
      <4> QED BY Zenon, <3>1, <4>1, <4>2
    <3>4. Delivers(k)
      BY <1>1, <2>0, <2>1, <3>2, <3>3 DEF EmbedStart, RunOnly, Delivers
    <3>5. RowsKept \/ MadeReady(k)
      <4>1. CASE ~Inactive /\ chunks = "active"
        <5>1. version' = [version EXCEPT !.status = "retrieval_ready"] /\ ~version.deleted
          BY <1>1, <2>1, <4>1 DEF EmbedStart, Inactive
        <5>2. version'.status = "retrieval_ready" /\ version'.deleted = version.deleted
          BY <5>1 DEF Typed, VersionRow
        <5> QED BY <1>1, <2>1, <4>1, <5>1, <5>2 DEF EmbedStart, RunOnly, MadeReady, JobKept, EmbKept
      <4>2. CASE ~(~Inactive /\ chunks = "active")
        BY <1>1, <2>1, <4>2, Kept DEF EmbedStart, RunOnly, rows
      <4> QED BY <4>1, <4>2
    <3> QED BY Zenon, <2>0, <3>4, <3>5 DEF Effect
  <2>2. CASE emb[k].status # "embedded"
    <3>1. q'[k].state = "started" /\ q'[k].left = q[k].left /\ OthersQueued({k})
      BY <1>1, <2>0, <2>2, SetState DEF EmbedStart, DeliveryState, OthersQueued
    <3>2. run'[e].target = k /\ run'[e].pc \in {"claim", "reject"} /\ OthersRun(e)
      BY <1>1, <2>2, RunStarts DEF EmbedStart, OthersRun
    <3>3. RunStarted(e, k)
      BY <1>1, <3>1, <3>2 DEF EmbedStart, RunOnly, RunStarted
    <3>4. RowsKept
      BY <1>1, <2>2, Kept DEF EmbedStart, RunOnly, rows
    <3> QED BY Zenon, <3>3, <3>4 DEF Effect
  <2> QED BY <2>1, <2>2
<1>2. SUFFICES ASSUME run[e].pc # "idle",
                      RunStep(e) \/ EmbedFails(e) \/ EmbedStorageFails(e) \/ EmbedDies(e) \/ OpStopRun(e)
               PROVE  Effect
  BY <1>1, <1>2, Zenon DEF RunStep, EmbedFails, EmbedStorageFails, EmbedDies, OpStopRun, EmbedReject, EmbedClaim,
     EmbedAnswer, Upsert, MarkEmbedded, EmbedCommit, EmbedReturn
<1>3. PICK k : k = run[e].target
  BY Zenon
<1>4. k \in EmbIds /\ k \in Deliveries /\ Created(k) /\ emb[k] \in JobRow
  BY <1>2, <1>3, EmbDeliveries DEF Aimed, Indexed, Typed
<1>5. ASSUME RunRaises(e), RunOnly PROVE RunStops(e, k)
  <2>1. run'[e].pc = "idle" /\ OthersRun(e) /\ q'[k] = Retried(k) /\ OthersQueued({k})
    BY Zenon, <1>3, <1>5, RunRaisesMoves DEF OthersRun, OthersQueued
  <2>2. Spent(k)
    BY Zenon, <1>4, <2>1, SpentRetried
  <2> QED BY Zenon, <1>2, <1>3, <1>5, <2>1, <2>2 DEF RunStops, RunOnly
<1>6. ASSUME NEW l \in {"upsert", "mark", "commit", "return"}, run' = [run EXCEPT ![e].pc = l],
             UNCHANGED q, RunOnly
      PROVE  RunGoes(e) /\ run[e].target = k
  BY <1>2, <1>3, <1>6, RunGotoMoves, ZenonT(60) DEF RunGoes, OthersRun, RunOnly
<1>7. ASSUME UNCHANGED <<emb, version, vectors>>, RunOnly PROVE RowsKept
  BY <1>7, Kept DEF RunOnly, rows
<1>8. ASSUME NEW s \in Failures, FailEmbedding(run[e].target, run[e].attempt, s), RunRaises(e),
             UNCHANGED vectors, RunOnly
      PROVE  Effect
  <2>1. RowsKept \/ EmbFails(k, run[e].attempt)
    BY Zenon, <1>3, <1>4, <1>8, EmbFailsOrKept DEF RunOnly
  <2> QED BY Zenon, <1>4, <1>5, <1>8, <2>1 DEF Effect
<1>9. CASE EmbedReject(e)
  BY Zenon, <1>8, <1>9 DEF EmbedReject, Failures
<1>10. CASE EmbedFails(e)
  <2>1. PICK kind \in Failures : FailEmbedding(run[e].target, run[e].attempt, FailureStatus(kind, run[e].left))
    BY Zenon, <1>10 DEF EmbedFails
  <2>2. PICK s : s = FailureStatus(kind, run[e].left)
    OBVIOUS
  <2>3. s \in Failures
    BY <2>2 DEF FailureStatus, Failures
  <2> QED BY ZenonT(30), <1>8, <1>10, <2>1, <2>2, <2>3 DEF EmbedFails
<1>11. CASE EmbedAnswer(e) \/ MarkEmbedded(e) \/ EmbedStorageFails(e)
  <2>1. RowsKept
    BY Zenon, <1>7, <1>11 DEF EmbedAnswer, MarkEmbedded, EmbedStorageFails
  <2>2. RunStops(e, k) \/ (RunGoes(e) /\ run[e].target = k)
    <3>1. CASE RunRaises(e)
      BY Zenon, <1>5, <1>11, <3>1 DEF EmbedAnswer, MarkEmbedded, EmbedStorageFails
    <3>2. ASSUME NEW l \in {"upsert", "commit"}, RunGoto(e, l) PROVE RunGoes(e) /\ run[e].target = k
      BY <1>6, <1>11, <3>2, ZenonT(60) DEF EmbedAnswer, MarkEmbedded, EmbedStorageFails, RunGoto
    <3> QED BY Zenon, <1>11, <3>1, <3>2 DEF EmbedAnswer, MarkEmbedded, EmbedStorageFails
  <2> QED BY Zenon, <1>4, <2>1, <2>2 DEF Effect
<1>12. CASE Upsert(e)
  <2>1. CASE chunks # "active"
    BY <1>8, <1>12, <2>1 DEF Upsert, Failures
  <2>2. CASE chunks = "active"
    <3>1. RowsKept
      BY <1>7, <1>12, <2>2 DEF Upsert
    <3>2. RunGoes(e) /\ run[e].target = k
      BY <1>6, <1>12, <2>2 DEF Upsert
    <3> QED BY Zenon, <1>4, <3>1, <3>2 DEF Effect
  <2> QED BY <2>1, <2>2
<1>13. CASE EmbedClaim(e)
  <2>1. CASE ~(Claimable(emb[k], {"queued"}, "embedding") /\ ~Inactive)
    <3>1. RowsKept
      BY Zenon, <1>3, <1>7, <1>13, <2>1 DEF EmbedClaim
    <3>2. RunStops(e, k)
      BY <1>3, <1>5, <1>13, <2>1 DEF EmbedClaim
    <3> QED BY Zenon, <1>4, <3>1, <3>2 DEF Effect
  <2>2. CASE Claimable(emb[k], {"queued"}, "embedding") /\ ~Inactive
    <3>1. chunks = "active"
      BY <1>4, <2>2 DEF Indexed, Inactive, Typed, RowState
    <3>2. /\ emb' = [emb EXCEPT ![k] = Claimed(emb[k], "embedding")]
          /\ run' = [run EXCEPT ![e].pc = "call", ![e].attempt = emb[k].attempt + 1]
          /\ UNCHANGED <<q, version, vectorLock>>
      BY <1>3, <1>13, <2>2, <3>1 DEF EmbedClaim
    <3>3. Claimed(emb[k], "embedding") \in JobRow
      BY <1>4, JobRows, Zenon
    <3>4. emb'[k] = Claimed(emb[k], "embedding") /\ EmbKept(EmbIds \ {k})
      BY <1>4, <3>2, <3>3, SetEmb, Zenon DEF EmbKept
    <3>5. /\ emb'[k].status = "embedding" /\ emb'[k].attempt = emb[k].attempt + 1
          /\ emb'[k].marked = emb[k].marked
      BY <1>4, <3>4, JobFields
    <3>6. EmbClaimed(k)
      BY Zenon, <1>13, <2>2, <3>2, <3>4, <3>5 DEF EmbedClaim, RunOnly, EmbClaimed, JobKept, Claimable
    <3> DEFINE new == [run[e] EXCEPT !.pc = "call", !.attempt = emb[k].attempt + 1]
    <3>7. new.target = k /\ new.pc = "call"
      BY <1>0, <1>3 DEF RunState
    <3>8. run' = [run EXCEPT ![e] = new]
      BY <3>2, Zenon
    <3> HIDE DEF new
    <3>9. run'[e].target = k /\ run'[e].pc = "call" /\ OthersRun(e)
      BY Zenon, <3>7, <3>8 DEF Typed, OthersRun
    <3>10. RunGoes(e) /\ run[e].target = k /\ run[e].pc = "claim"
      BY Zenon, <1>2, <1>3, <1>13, <3>2, <3>9 DEF EmbedClaim, RunOnly, RunGoes
    <3> QED BY Zenon, <1>4, <3>6, <3>10 DEF Effect
  <2> QED BY <2>1, <2>2
<1>14. CASE EmbedCommit(e)
  <2>1. CASE version.deleted \/ chunks # "active"
    <3>1. RowsKept
      BY <1>7, <1>14, <2>1 DEF EmbedCommit
    <3>2. RunStops(e, k)
      BY <1>5, <1>14, <2>1 DEF EmbedCommit
    <3> QED BY Zenon, <1>4, <3>1, <3>2 DEF Effect
  <2>2. CASE ~(version.deleted \/ chunks # "active")
    <3> DEFINE new == [emb[k] EXCEPT !.status = "embedded", !.marked = FALSE]
    <3>1. emb' = [emb EXCEPT ![k] = new]
      BY Zenon, <1>3, <1>14, <2>2 DEF EmbedCommit
    <3>2. new \in JobRow /\ new.status = "embedded" /\ new.attempt = emb[k].attempt /\ ~new.marked
      BY <1>4, JobRows, JobFields, Zenon
    <3> HIDE DEF new
    <3>3. emb'[k] = new /\ EmbKept(EmbIds \ {k})
      BY <1>4, <3>1, <3>2, SetEmb, ZenonT(60) DEF EmbKept
    <3>4. version' = [version EXCEPT !.status = "retrieval_ready"]
      BY <1>14, <2>2 DEF EmbedCommit
    <3>5. version'.status = "retrieval_ready" /\ version'.deleted = version.deleted
      BY <3>4 DEF Typed, VersionRow
    <3>6. EmbCommitted(k)
      BY Zenon, <1>14, <2>2, <3>2, <3>3, <3>5 DEF EmbedCommit, RunOnly, EmbCommitted, JobKept
    <3>7. RunGoes(e) /\ run[e].target = k
      BY Zenon, <1>6, <1>14, <2>2 DEF EmbedCommit
    <3> QED BY Zenon, <1>4, <3>6, <3>7 DEF Effect
  <2> QED BY Zenon, <2>1, <2>2
<1>15. CASE EmbedReturn(e) \/ EmbedDies(e) \/ OpStopRun(e)
  <2>1. run'[e].pc = "idle" /\ OthersRun(e)
    BY Zenon, <1>15, RunEnds DEF EmbedReturn, EmbedDies, OpStopRun, OthersRun
  <2>2. RowsKept
    BY Zenon, <1>15, Kept DEF EmbedReturn, EmbedDies, OpStopRun, RunOnly, rows
  <2>3. (Spent(k) \/ Finished(k)) /\ OthersQueued({k})
    <3>1. CASE q' = q
      BY Zenon, <3>1 DEF Spent, OthersQueued
    <3>2. CASE q' = [q EXCEPT ![k].state = "finished"]
      BY <1>4, <3>2, SetState, Zenon DEF DeliveryState, Finished, OthersQueued
    <3>3. CASE q' = [q EXCEPT ![k].state = "stopped"]
      <4>1. q'[k].state = "stopped" /\ q'[k].left = q[k].left /\ OthersQueued({k})
        BY <1>4, <3>3, SetState, Zenon DEF DeliveryState, OthersQueued
      <4>2. q[k].left \in Nat
        BY Zenon, <1>4, RetriedRow
      <4>3. q'[k].left <= q[k].left
        BY <4>1, <4>2
      <4> QED BY Zenon, <4>1, <4>3 DEF Spent
    <3> QED BY Zenon, <1>3, <1>15, <3>1, <3>2, <3>3 DEF EmbedReturn, EmbedDies, OpStopRun
  <2>4. RunStops(e, k)
    BY Zenon, <1>2, <1>3, <1>15, <2>1, <2>3 DEF RunStops, EmbedReturn, EmbedDies, OpStopRun, RunOnly
  <2> QED BY Zenon, <1>4, <2>2, <2>4 DEF Effect
<1> QED BY Zenon, <1>2, <1>9, <1>10, <1>11, <1>12, <1>13, <1>14, <1>15 DEF RunStep
===============================================================================
