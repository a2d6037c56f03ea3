------------------------ MODULE IngestionPipelineProofs ------------------------
(***************************************************************************)
(* What holds of the ingestion pipeline for every number of executions,    *)
(* jobs, retries and operator requests.  Indexed, the agreement of rows,   *)
(* chunks, vectors and what the executions refer to, holds also when       *)
(* executions of one delivery overlap.  Alone, Once and Budgets hold when  *)
(* an execution that was given up as dead is dead (~Overlap); without that *)
(* their consequences are false.                                           *)
(***************************************************************************)
EXTENDS IngestionPipelineMoves

\* What clients, operators and the passing of time do.
LEMMA EffectRequest ==
  ASSUME Typed, Aimed, Indexed,
         \/ ParseStale \/ \E k \in EmbIds : EmbedStale(k) \/ RecoverHandoff(k)
         \/ DeleteChunks \/ DeleteCommit \/ DeleteFails \/ OpMark \/ OpLost
         \/ \E d \in Deliveries : OpRetry(d) \/ OpTerminate(d)
  PROVE  Effect
<1>0. op \in OpState /\ [op EXCEPT !.pc = "idle"].pc = "idle"
  BY DEF Typed, OpState
<1>1. CASE ParseStale
  <2>1. RowsKept
    BY <1>1, JobFields DEF ParseStale, ParserOnly, RowsKept, JobKept, EmbKept, Typed
  <2>2. Still
    BY <1>1 DEF ParseStale, ParserOnly, Still
  <2> QED BY Zenon, <2>1, <2>2 DEF Effect
<1>2. ASSUME NEW k \in EmbIds, EmbedStale(k) PROVE Effect
  <2>1. [emb[k] EXCEPT !.fresh = FALSE] \in JobRow /\ emb[k] \in JobRow
    BY JobRows, Zenon DEF Typed
  <2>2. emb' = [emb EXCEPT ![k] = [emb[k] EXCEPT !.fresh = FALSE]]
    BY <1>2 DEF EmbedStale
  <2>3. emb'[k] = [emb[k] EXCEPT !.fresh = FALSE] /\ \A x \in EmbIds \ {k} : emb'[x] = emb[x]
    BY Zenon, <2>1, <2>2, SetEmb
  <2>4. emb'[k].status = emb[k].status /\ emb'[k].attempt = emb[k].attempt /\ emb'[k].marked = emb[k].marked
    BY <2>1, <2>3, JobFields
  <2>5. RowsKept
    BY <1>2, <2>3, <2>4 DEF EmbedStale, RunOnly, RowsKept, JobKept, EmbKept
  <2>6. Still
    BY <1>2 DEF EmbedStale, RunOnly, Still
  <2> QED BY Zenon, <2>5, <2>6 DEF Effect
<1>3. ASSUME NEW k \in EmbIds, RecoverHandoff(k) PROVE Effect
  <2>0. k \in Deliveries /\ k # 0
    BY EmbDeliveries
  <2>1. q'[k] = Published /\ OthersQueued({k})
    BY <1>3, <2>0, PublishedRow, SetDelivery, ZenonT(60) DEF RecoverHandoff, OthersQueued
  <2>2. Delivers(k)
    BY <1>3, <2>0, <2>1 DEF RecoverHandoff, Delivers, Published, Recorded
  <2>3. RowsKept
    BY <1>3, Kept DEF RecoverHandoff
  <2> QED BY Zenon, <2>0, <2>2, <2>3 DEF Effect
<1>4. ASSUME NEW d \in Deliveries, OpRetry(d) PROVE Effect
  <2>1. [state |-> "queued", left |-> q[d].left - 1] \in DeliveryRow
    BY Zenon, <1>4, DeliveryRows DEF OpRetry, Typed
  <2>2. q'[d] = [state |-> "queued", left |-> q[d].left - 1] /\ OthersQueued({d})
    BY <1>4, <2>1, SetDelivery, Zenon DEF OpRetry, OthersQueued
  <2>3. q'[d].state = "queued" /\ q'[d].left < q[d].left
    BY <2>2, RetriedRow
  <2>4. Delivers(d)
    BY Zenon, <1>4, <2>2, <2>3 DEF OpRetry, Delivers
  <2>5. RowsKept
    BY <1>4, Kept DEF OpRetry
  <2> QED BY Zenon, <2>4, <2>5 DEF Effect
<1>5. ASSUME NEW d \in Deliveries, OpTerminate(d) PROVE Effect
  <2>1. q'[d].state = "canceled" /\ q'[d].left = q[d].left /\ OthersQueued({d})
    BY <1>5, SetState, Zenon DEF OpTerminate, DeliveryState, OthersQueued
  <2>2. op'.target = d /\ DomainJob(d).status # "none"
    BY <1>5 DEF OpTerminate, Terminable
  <2>3. Delivers(d)
    BY <1>5, <2>1, <2>2 DEF OpTerminate, Delivers
  <2>4. RowsKept
    BY <1>5, Kept DEF OpTerminate
  <2> QED BY Zenon, <2>3, <2>4 DEF Effect
<1>6. CASE DeleteChunks \/ DeleteFails \/ OpLost
  <2>1. RowsKept
    BY <1>6, Kept DEF DeleteChunks, DeleteFails, OpLost
  <2>2. Still
    BY <1>0, <1>6, ZenonT(30) DEF DeleteChunks, DeleteFails, OpLost, Still
  <2> QED BY Zenon, <2>1, <2>2 DEF Effect
<1>7. CASE DeleteCommit
  <2>1. Still
    BY <1>7 DEF DeleteCommit, Still
  <2>2. VersionDeleted
    BY <1>7 DEF DeleteCommit, VersionDeleted, JobKept, EmbKept
  <2> QED BY Zenon, <2>1, <2>2 DEF Effect
<1>8. CASE OpMark
  <2>1. Still /\ op.pc = "mark"
    BY <1>0, <1>8 DEF OpMark, Still
  <2>2. CASE op.target = 0
    <3>1. FailIngestion(op.attempt, "failed_terminal", TRUE) /\ UNCHANGED <<chunks, vectors, emb>>
      BY <1>8, <2>2, Zenon DEF OpMark
    <3>2. PICK due \in BOOLEAN : due = TRUE
      BY Zenon
    <3>3. RowsKept \/ JobFails(op.attempt)
      BY <3>1, <3>2, FailsOrKept, Zenon DEF Failures
    <3> QED BY Zenon, <2>1, <3>3 DEF Effect
  <2>3. CASE op.target # 0
    <3>1. PICK k : k = op.target
      OBVIOUS
    <3>2. k \in EmbIds
      BY <1>0, <2>3, <3>1, PipelineAssumption DEF OpState, Deliveries, EmbIds
    <3>3. Created(k)
      BY Zenon, <2>1, <2>3, <3>1 DEF Indexed
    <3>4. RowsKept \/ EmbFails(k, op.attempt)
      BY <1>8, <2>3, <3>1, <3>2, <3>3, EmbFailsOrKept DEF OpMark, Failures
    <3> QED BY Zenon, <2>1, <3>2, <3>4 DEF Effect
  <2> QED BY <2>2, <2>3
<1> QED BY <1>1, <1>2, <1>3, <1>4, <1>5, <1>6, <1>7, <1>8

\* Every step of the pipeline is one of the writes that go with a move.
LEMMA Effects ==
  ASSUME Typed, Aimed, Indexed, [Next]_vars
  PROVE  Effect
<1>1. CASE UNCHANGED vars
  BY Zenon, <1>1, Kept DEF vars, rows, Effect, Still
<1>2. CASE Next
  BY <1>2, EffectUpload, EffectQueue, EffectParser, EffectRun, EffectRequest, EmbDeliveries, Zenon DEF Next
<1> QED BY <1>1, <1>2

-----------------------------------------------------------------------------
(* What is indexed.                                                         *)
\* An empty database is indexed.
LEMMA IndexedInit == Init => Indexed
<1> SUFFICES ASSUME Init PROVE Indexed
  OBVIOUS
<1>1. NewJob("none").status = "none" /\ ~NewJob("none").marked
  BY Zenon DEF NewJob
<1>2. IdleRun.pc = "idle" /\ IdleParser.pc = "idle"
  BY DEF IdleRun, IdleParser
<1>3. \A k \in EmbIds : q[k].state = "absent" /\ emb[k] = NewJob("none")
  BY EmbDeliveries DEF Init
<1> QED BY <1>1, <1>2, <1>3 DEF Init, Indexed, Created, ReadyIsIndexed

\* Some write of the rows.
SomeWrite ==
  \/ RowsKept \/ JobClaimed \/ JobParsed \/ VersionDeleted
  \/ \E a \in Nat : JobFails(a)
  \/ \E k \in EmbIds : \/ \E a \in Nat : EmbFails(k, a)
                       \/ JobChunked(k) \/ EmbClaimed(k) \/ EmbCommitted(k) \/ MadeReady(k)

\* Every effect is a write of one of the listed kinds.
LEMMA EffectWrites == ASSUME Typed, Effect PROVE SomeWrite
<1>1. job.attempt \in Nat /\ op.attempt \in Nat
  BY JobRows, Zenon DEF Typed, OpState
<1>2. \A p \in Parsers : par[p].attempt \in Nat
  BY ParserStates, Zenon DEF Typed
<1>3. \A e \in Embedders : run[e].attempt \in Nat
  BY RunStates, ZenonT(60) DEF Typed
<1> QED BY <1>1, <1>2, <1>3 DEF Effect, SomeWrite

\* An embedding job that exists is not forgotten, whatever is written.
LEMMA CreatedKept ==
  ASSUME SomeWrite, NEW x \in EmbIds, Created(x)
  PROVE  Created(x)'
<1> USE DEF Created, EmbKept, Failures
<1>1. CASE RowsKept \/ JobClaimed \/ JobParsed \/ VersionDeleted \/ \E a \in Nat : JobFails(a)
  BY <1>1 DEF RowsKept, JobClaimed, JobParsed, VersionDeleted, JobFails
<1>2. ASSUME NEW k \in EmbIds, NEW a \in Nat, EmbFails(k, a) PROVE Created(x)'
  BY <1>2 DEF EmbFails
<1>3. ASSUME NEW k \in EmbIds, JobChunked(k) \/ EmbClaimed(k) \/ EmbCommitted(k) \/ MadeReady(k)
      PROVE  Created(x)'
  BY <1>3 DEF JobChunked, EmbClaimed, EmbCommitted, MadeReady
<1> QED BY <1>1, <1>2, <1>3 DEF SomeWrite

\* The part of Indexed that is about the rows alone.
RowsIndexed ==
  /\ \A k \in EmbIds : /\ emb[k].marked => Created(k)
                       /\ Created(k) => chunks # "none"
                       /\ emb[k].status = "embedded" => vectors # "none"
                       /\ emb[k].status = "queued" => emb[k].marked /\ emb[k].attempt = 0
                       /\ emb[k].status \in {"none", "queued"} \/ Advanced(k)
  /\ chunks = "deleted" => version.deleted
  /\ vectors = "deleted" => version.deleted
  /\ version.deleted => vectors # "active" /\ version.status # "chunked"
  /\ ReadyIsIndexed

\* Every write keeps rows, chunks and vectors in step.
LEMMA RowsIndexedStep ==
  ASSUME Typed, RowsIndexed, SomeWrite
  PROVE  RowsIndexed'
<1> USE DEF RowsIndexed, Created, EmbKept, Failures, Advanced, ReadyIsIndexed
<1>1. CASE RowsKept
  BY <1>1 DEF RowsKept
<1>2. CASE JobClaimed
  BY <1>2 DEF JobClaimed
<1>3. CASE JobParsed
  BY <1>3 DEF JobParsed
<1>4. CASE VersionDeleted
  BY <1>4 DEF VersionDeleted
<1>5. ASSUME NEW a \in Nat, JobFails(a) PROVE RowsIndexed'
  BY <1>5 DEF JobFails
<1>6. ASSUME NEW k \in EmbIds, NEW a \in Nat, EmbFails(k, a) PROVE RowsIndexed'
  BY <1>6 DEF EmbFails
<1>7. ASSUME NEW k \in EmbIds, JobChunked(k) PROVE RowsIndexed'
  BY <1>7 DEF JobChunked
<1>8. ASSUME NEW k \in EmbIds, EmbClaimed(k) PROVE RowsIndexed'
  BY <1>8 DEF EmbClaimed
<1>9. ASSUME NEW k \in EmbIds, EmbCommitted(k) PROVE RowsIndexed'
  BY <1>9 DEF EmbCommitted
<1>10. ASSUME NEW k \in EmbIds, MadeReady(k) PROVE RowsIndexed'
  BY <1>10 DEF MadeReady, Typed, RowState
<1> QED BY <1>1, <1>2, <1>3, <1>4, <1>5, <1>6, <1>7, <1>8, <1>9, <1>10, Zenon DEF SomeWrite

\* The part that is about who refers to an embedding job.
Referred ==
  /\ \A k \in EmbIds : q[k].state # "absent" => Created(k)
  /\ \A e \in Embedders : run[e].pc # "idle" => Created(run[e].target)
  /\ \A p \in Parsers : par[p].pc = "enqueue" => Created(par[p].target)
  /\ op.pc = "mark" /\ op.target # 0 => Created(op.target)

\* Some move of deliveries and executions.
SomeMove ==
  \/ Still \/ Uploads \/ \E d \in Deliveries : Delivers(d)
  \/ \E p \in Parsers : \/ ParserStarts(p) \/ ParserGoes(p) \/ ParserStops(p)
                        \/ \E k \in EmbIds : ParserPublishes(p, k)
  \/ \E e \in Embedders, k \in EmbIds : RunStarted(e, k) \/ RunGoes(e) \/ RunStops(e, k)

\* Every effect goes with a move of deliveries and executions.
LEMMA EffectMoves == ASSUME Effect PROVE SomeMove
<1>1. \A k \in EmbIds : k \in Deliveries
  BY EmbDeliveries
<1> QED BY <1>1 DEF Effect, SomeMove

\* A move refers to jobs that existed before it.
RefersBack ==
  /\ \A k \in EmbIds : q'[k].state # "absent" => Created(k)
  /\ \A e \in Embedders : run'[e].pc # "idle" => Created(run'[e].target)
  /\ \A p \in Parsers : par'[p].pc = "enqueue" => Created(par'[p].target)
  /\ op'.pc = "mark" /\ op'.target # 0 => Created(op'.target)

\* What an execution refers to after a move was there before it.
LEMMA MovesReferBack ==
  ASSUME Typed, Aimed, Indexed, SomeMove
  PROVE  RefersBack
<1>0. Referred /\ \A k \in EmbIds : k \in Deliveries /\ k # 0
  BY EmbDeliveries DEF Indexed, Referred
<1>1. CASE Still
  BY <1>0, <1>1 DEF Still, Referred, RefersBack
<1>2. CASE Uploads
  BY <1>0, <1>2 DEF Uploads, OthersQueued, Referred, RefersBack
<1>3. ASSUME NEW d \in Deliveries, Delivers(d) PROVE RefersBack
  <2>1. \A k \in EmbIds : q'[k].state # "absent" => Created(k)
    BY <1>0, <1>3 DEF Delivers, OthersQueued, Referred, Created
  <2>2. op'.pc = "mark" /\ op'.target # 0 => Created(op'.target)
    BY Zenon, <1>0, <1>3 DEF Delivers, Referred, DomainJob, Created
  <2> QED BY Zenon, <1>0, <1>3, <2>1, <2>2 DEF Delivers, Referred, RefersBack
<1>4. ASSUME NEW p \in Parsers, ParserStarts(p) \/ ParserGoes(p) \/ ParserStops(p) PROVE RefersBack
  <2>1. \A k \in EmbIds : q'[k].state # "absent" => Created(k)
    BY Zenon, <1>0, <1>4 DEF ParserStarts, ParserGoes, ParserStops, OthersQueued, Referred
  <2>2. \A x \in Parsers : par'[x].pc = "enqueue" => Created(par'[x].target)
    BY <1>0, <1>4 DEF ParserStarts, ParserGoes, ParserStops, OthersParse, Referred, Created
  <2> QED BY Zenon, <1>0, <1>4, <2>1, <2>2 DEF ParserStarts, ParserGoes, ParserStops, Referred, RefersBack
<1>5. ASSUME NEW p \in Parsers, NEW k \in EmbIds, ParserPublishes(p, k) PROVE RefersBack
  <2>1. \A x \in EmbIds : q'[x].state # "absent" => Created(x)
    BY Zenon, <1>0, <1>5 DEF ParserPublishes, OthersQueued, Referred
  <2> QED BY <1>0, <1>5, <2>1 DEF ParserPublishes, OthersParse, Referred, RefersBack
<1>6. ASSUME NEW e \in Embedders, NEW k \in EmbIds, RunStarted(e, k) \/ RunGoes(e) \/ RunStops(e, k)
      PROVE  RefersBack
  <2>1. \A x \in EmbIds : q'[x].state # "absent" => Created(x)
    BY <1>0, <1>6 DEF RunStarted, RunGoes, RunStops, OthersQueued, Referred
  <2>2. \A x \in Embedders : run'[x].pc # "idle" => Created(run'[x].target)
    BY <1>0, <1>6 DEF RunStarted, RunGoes, RunStops, OthersRun, Referred
  <2> QED BY Zenon, <1>0, <1>6, <2>1, <2>2 DEF RunStarted, RunGoes, RunStops, Referred, RefersBack
<1> QED BY <1>1, <1>2, <1>3, <1>4, <1>5, <1>6 DEF SomeMove

\* Every step keeps rows, chunks, vectors and executions in step.
LEMMA IndexedStep ==
  ASSUME Typed, Aimed, Indexed, [Next]_vars
  PROVE  Typed' /\ Aimed' /\ Indexed'
<1>1. Typed' /\ Aimed' /\ Effect
  BY AimedStep, Effects
<1>2. RowsIndexed'
  BY <1>1, EffectWrites, RowsIndexedStep, Zenon DEF Indexed, RowsIndexed
<1>3. \A k \in EmbIds : Created(k) => Created(k)'
  BY <1>1, EffectWrites, CreatedKept
<1>4. RefersBack
  BY <1>1, EffectMoves, MovesReferBack
<1>5. Referred'
  <2>1. \A k \in EmbIds : Created(k) => emb'[k].status # "none"
    BY <1>3 DEF Created
  <2>2. \A e \in Embedders : run'[e].pc # "idle" => run'[e].target \in EmbIds
    BY <1>1 DEF Aimed
  <2>3. \A p \in Parsers : par'[p].pc = "enqueue" => par'[p].target \in EmbIds
    BY <1>1 DEF Aimed
  <2>4. op'.target # 0 => op'.target \in EmbIds
    BY <1>1, PipelineAssumption DEF Typed, OpState, Deliveries, EmbIds
  <2> QED BY <1>4, <2>1, <2>2, <2>3, <2>4 DEF RefersBack, Referred, Created
<1> QED BY <1>1, <1>2, <1>5, Zenon DEF Indexed, RowsIndexed, Referred

\* In every reachable state, with or without overlapping executions.
LEMMA PipelineIndexed == Spec => [](Typed /\ Aimed /\ Indexed)
BY AimedInit, IndexedInit, IndexedStep, PTL DEF Spec

\* A version marked ready has its chunks and vectors committed, however the
\* executions, retries, deletes and operator requests interleave.
THEOREM ReadyIndexed == Spec => []ReadyIsIndexed
<1>1. Indexed => ReadyIsIndexed
  BY DEF Indexed
<1> QED BY <1>1, PipelineIndexed, PTL

\* No vector of a deleted version is active.
THEOREM DeletedVectors == Spec => []VectorsDeleted
<1>1. Indexed => VectorsDeleted
  BY DEF Indexed, VectorsDeleted
<1> QED BY <1>1, PipelineIndexed, PTL

\* A failure is written over the attempt that failed and no other: every step
\* that fails a job in progress is the upload's, the operator's or the
\* execution's whose attempt the job is at.
THEOREM FailuresFenced == Spec => FailureFenced
<1> DEFINE
  JobFenced == job'.status \in Failures /\ job' # job /\ job.status = "parsing" =>
            \/ api = "unacked"
            \/ op.attempt = job.attempt /\ op.pc = "mark"
            \/ \E p \in Parsers : /\ par[p].attempt = job.attempt
                                  /\ par[p].pc # "idle"
                                  /\ par'[p].pc = "idle"
  EmbFenced == \A k \in EmbIds :
            emb'[k].status \in Failures /\ emb'[k] # emb[k]
                /\ emb[k].status = "embedding" =>
              \/ op.attempt = emb[k].attempt /\ op.pc = "mark"
              \/ \E e \in Embedders : /\ run[e].attempt = emb[k].attempt
                                      /\ run[e].target = k
                                      /\ run[e].pc # "idle"
                                      /\ run'[e].pc = "idle"
<1>1. ASSUME Typed, Aimed, Indexed, [Next]_vars PROVE JobFenced
  <2> SUFFICES ASSUME job'.status \in Failures, job.status = "parsing" PROVE JobFenced
    OBVIOUS
  <2>1. Effect
    BY <1>1, Effects
  <2>2. ~JobKept /\ job'.status \notin {"parsing", "parsed", "chunked"}
    BY DEF JobKept, Failures
  <2>3. \/ JobFails(job.attempt) /\ api = "unacked"
        \/ op.pc = "mark" /\ JobFails(op.attempt)
        \/ \E p \in Parsers : ParserStops(p) /\ JobFails(par[p].attempt)
    BY <2>1, <2>2, Zenon DEF Effect, RowsKept, VersionDeleted, EmbFails, MadeReady, JobClaimed, JobParsed,
       JobChunked, EmbClaimed, EmbCommitted
  <2> QED BY <2>3 DEF JobFails, ParserStops
<1>2. ASSUME Typed, Aimed, Indexed, [Next]_vars PROVE EmbFenced
  <2> SUFFICES ASSUME NEW k \in EmbIds, emb'[k].status \in Failures, emb[k].status = "embedding"
               PROVE  \/ op.attempt = emb[k].attempt /\ op.pc = "mark"
                      \/ \E e \in Embedders : /\ run[e].attempt = emb[k].attempt
                                              /\ run[e].target = k
                                              /\ run[e].pc # "idle"
                                              /\ run'[e].pc = "idle"
    OBVIOUS
  <2>1. Effect
    BY <1>2, Effects
  <2>2. emb'[k].status # emb[k].status /\ emb'[k].status \notin {"queued", "embedding", "embedded"}
    BY DEF Failures
  <2>3. \A x \in EmbIds : ~JobChunked(x) /\ ~EmbClaimed(x) /\ ~EmbCommitted(x) /\ ~MadeReady(x)
    BY Zenon, <2>2 DEF JobChunked, EmbClaimed, EmbCommitted, MadeReady, EmbKept
  <2>4. ~EmbKept(EmbIds) /\ \A a : \A x \in EmbIds : EmbFails(x, a) => x = k /\ emb[k].attempt = a
    BY <2>2 DEF EmbKept, EmbFails
  <2>5. \/ op.pc = "mark" /\ EmbFails(k, op.attempt)
        \/ \E e \in Embedders : RunStops(e, k) /\ EmbFails(k, run[e].attempt)
    BY <2>1, <2>3, <2>4, Zenon DEF Effect, RowsKept, VersionDeleted, JobFails, JobClaimed, JobParsed
  <2> QED BY <2>4, <2>5, ZenonT(60) DEF RunStops
<1>3. ASSUME Typed, Aimed, Indexed, [Next]_vars PROVE [JobFenced /\ EmbFenced]_vars
  BY <1>1, <1>2, <1>3, Zenon
<1> QED BY <1>3, PipelineIndexed, PTL DEF Spec, FailureFenced

-----------------------------------------------------------------------------
(* What holds when an execution given up as dead is dead.                   *)
\* Before the upload nothing is delivered, handed on or spent.
LEMMA AloneInit == Init => Alone /\ Once /\ Budgets
<1> SUFFICES ASSUME Init PROVE Alone /\ Once /\ Budgets
  OBVIOUS
<1>1. /\ NewJob("none").status = "none" /\ NewJob("none").attempt = 0
      /\ NewJob("uploaded").status = "uploaded" /\ NewJob("uploaded").attempt = 0
  BY DEF NewJob
<1>2. IdleRun.pc = "idle" /\ IdleParser.pc = "idle"
  BY DEF IdleRun, IdleParser
<1>3. /\ \A d \in Deliveries : q[d].state = "absent"
      /\ \A k \in EmbIds : emb[k] = NewJob("none")
      /\ \A p \in Parsers : par[p].pc = "idle"
      /\ \A e \in Embedders : run[e].pc = "idle"
  BY <1>2 DEF Init
<1>4. 0 \in Deliveries /\ \A k \in EmbIds : k \in Deliveries
  BY EmbDeliveries
<1>5. Alone
  BY <1>3, <1>4 DEF Alone, Init
<1>6. Once
  BY <1>1, <1>3 DEF Once, Init, Created, NoLostHandoff
<1>7. Budgets
  <2>1. ASSUME NEW d \in Deliveries PROVE Budgeted(d)
    <3>1. d # 0 => d \in EmbIds
      BY PipelineAssumption DEF Deliveries, EmbIds
    <3>2. Attempts(d) = 0
      BY <1>1, <1>3, <3>1 DEF Attempts, Init
    <3>3. ~Claiming(d)
      BY <1>3 DEF Claiming
    <3> QED BY <1>3, <3>2, <3>3 DEF Budgeted
  <2>2. Unpublished
    BY <1>3, Zenon DEF Unpublished
  <2> QED BY <2>1, <2>2 DEF Budgets
<1> QED BY <1>5, <1>6, <1>7

\* A delivery has one execution: another begins only after it was given up,
\* and then the first has ended.
LEMMA AloneStep ==
  ASSUME ~Overlap, Typed, Aimed, Alone, SomeMove
  PROVE  Alone'
<1>0. 0 \in Deliveries /\ 0 \notin EmbIds /\ \A k \in EmbIds : k \in Deliveries /\ k # 0
  BY EmbDeliveries
<1>a. \A e \in Embedders : run[e].pc # "idle" => run[e].target \in EmbIds
  BY DEF Aimed
<1>1. CASE Still
  BY <1>1 DEF Still, Alone
<1>2. CASE Uploads
  <2>1. q[0].state = "absent" /\ api' # "enqueue"
    BY <1>2 DEF Uploads, Alone
  <2>2. \A k \in EmbIds : q'[k] = q[k]
    BY Zenon, <1>0, <1>2 DEF Uploads, OthersQueued
  <2> QED BY <1>2, <1>a, <2>1, <2>2 DEF Uploads, Alone
<1>3. ASSUME NEW d \in Deliveries, Delivers(d) PROVE Alone'
  <2>1. q[d].state = "started" => ~Executing(d)
    BY Zenon, <1>3 DEF Delivers
  <2>2. \A p \in Parsers : par[p].pc # "idle" => q'[0].state = "started"
    BY Zenon, <1>0, <1>3, <2>1 DEF Delivers, OthersQueued, Alone, Executing
  <2>3. \A e \in Embedders : run[e].pc # "idle" => q'[run[e].target].state = "started"
    BY Zenon, <1>0, <1>3, <1>a, <2>1 DEF Delivers, OthersQueued, Alone, Executing
  <2>4. api' = "enqueue" => q'[0].state = "absent"
    BY <1>0, <1>3 DEF Delivers, OthersQueued, Alone
  <2> QED BY <1>3, <2>2, <2>3, <2>4 DEF Delivers, Alone
<1>4. ASSUME NEW p \in Parsers, ParserStarts(p) \/ ParserGoes(p) \/ ParserStops(p) PROVE Alone'
  <2>1. q[0].state # "absent" /\ \A x \in Parsers \ {p} : par[x].pc = "idle"
    BY Zenon, <1>4 DEF ParserStarts, ParserGoes, ParserStops, Alone
  <2>2. \A x \in Parsers \ {p} : par'[x].pc = "idle"
    BY Zenon, <1>4, <2>1 DEF ParserStarts, ParserGoes, ParserStops, OthersParse
  <2>3. par'[p].pc # "idle" => q'[0].state = "started"
    BY Zenon, <1>4 DEF ParserStarts, ParserGoes, ParserStops, Alone
  <2>4. \A k \in EmbIds : q'[k] = q[k]
    BY Zenon, <1>0, <1>4 DEF ParserStarts, ParserGoes, ParserStops, OthersQueued
  <2>5. run' = run /\ api' # "enqueue"
    BY <1>4, <2>1 DEF ParserStarts, ParserGoes, ParserStops, Alone
  <2> QED BY Zenon, <1>a, <2>2, <2>3, <2>4, <2>5 DEF Alone
<1>5. ASSUME NEW p \in Parsers, NEW k \in EmbIds, ParserPublishes(p, k) PROVE Alone'
  <2>1. q[0].state = "started" /\ \A x \in Parsers : par'[x].pc = "idle"
    BY SMTT(30), <1>5 DEF ParserPublishes, OthersParse, Alone
  <2>2. \A x \in EmbIds : q[x].state = "started" => q'[x].state = "started"
    BY Zenon, <1>0, <1>5 DEF ParserPublishes, OthersQueued, Recorded
  <2>3. run' = run /\ api' # "enqueue"
    BY Zenon, <1>5, <2>1 DEF ParserPublishes, Alone
  <2> QED BY Zenon, <1>a, <2>1, <2>2, <2>3 DEF Alone
<1>6. ASSUME NEW e \in Embedders, NEW k \in EmbIds, RunStarted(e, k) \/ RunStops(e, k) PROVE Alone'
  <2>1. \A x \in Embedders \ {e} : run'[x] = run[x] /\ (run[x].pc # "idle" => run[x].target # k)
    BY Zenon, <1>6 DEF RunStarted, RunStops, OthersRun, Alone
  <2>2. run'[e].pc # "idle" => run'[e].target = k /\ q'[k].state = "started"
    BY <1>6 DEF RunStarted, RunStops
  <2>3. \A d \in Deliveries \ {k} : q'[d] = q[d]
    BY <1>6, ZenonT(60) DEF RunStarted, RunStops, OthersQueued
  <2>4. UNCHANGED <<par, api>>
    BY Zenon, <1>6 DEF RunStarted, RunStops
  <2>5. \A x \in Embedders : run'[x].pc # "idle" => q'[run'[x].target].state = "started"
    BY <1>0, <1>a, <2>1, <2>2, <2>3 DEF Alone
  <2>6. \A x, y \in Embedders : run'[x].pc # "idle" /\ run'[y].pc # "idle" /\ run'[x].target = run'[y].target => x = y
    BY <2>1, <2>2 DEF Alone
  <2>7. q'[0] = q[0]
    BY Zenon, <1>0, <2>3
  <2> QED BY Zenon, <2>4, <2>5, <2>6, <2>7 DEF Alone
<1>7. ASSUME NEW e \in Embedders, RunGoes(e) PROVE Alone'
  <2>1. \A x \in Embedders : (run'[x].pc # "idle" <=> run[x].pc # "idle") /\ run'[x].target = run[x].target
    BY <1>7 DEF RunGoes, OthersRun
  <2> QED BY <1>7, <2>1 DEF RunGoes, Alone
<1> QED BY <1>1, <1>2, <1>3, <1>4, <1>5, <1>6, <1>7 DEF SomeMove

\* What a move does to deliveries and parse executions while the rows stay.
LEMMA OnceMoves ==
  ASSUME Typed, Aimed, Indexed, Once, SomeMove, RowsKept
  PROVE  Once'
<1>0. 1 \in EmbIds /\ 0 \in Deliveries /\ \A k \in EmbIds : k \in Deliveries /\ k # 0
  BY EmbDeliveries, PipelineAssumption DEF EmbIds
<1>1. \A k \in EmbIds : emb'[k].status = emb[k].status /\ emb'[k].marked = emb[k].marked
  BY DEF RowsKept, EmbKept
<1>2. job'.status = job.status /\ version' = version
  BY DEF RowsKept, JobKept
<1>3. /\ \A k \in EmbIds : Created(k)' => job'.status = "chunked" /\ k = 1
      /\ version'.status = "chunked" => emb'[1].marked
      /\ version'.status = "retrieval_ready" => job'.status = "chunked"
  BY <1>0, <1>1, <1>2 DEF Once, Created
<1>4. job'.status = "chunked" => \A p \in Parsers : par'[p].pc \in {"idle", "handoff", "enqueue"}
  <2> SUFFICES ASSUME job.status = "chunked"
               PROVE  \A p \in Parsers : par'[p].pc \in {"idle", "handoff", "enqueue"}
    BY <1>2
  <2>1. CASE par' = par
    BY <2>1 DEF Once
  <2>2. ASSUME NEW p \in Parsers,
               \/ ParserStarts(p) \/ ParserGoes(p) \/ ParserStops(p) \/ \E k \in EmbIds : ParserPublishes(p, k)
        PROVE  \A x \in Parsers : par'[x].pc \in {"idle", "handoff", "enqueue"}
    <3>1. par'[p].pc \in {"idle", "handoff", "enqueue"}
      BY <2>2, ZenonT(60) DEF Once, ParserStarts, ParserGoes, ParserStops, ParserPublishes
    <3>2. OthersParse(p)
      BY Zenon, <2>2 DEF ParserStarts, ParserGoes, ParserStops, ParserPublishes
    <3> QED BY <3>1, <3>2 DEF Once, OthersParse
  <2> QED BY <2>1, <2>2, ZenonT(60) DEF SomeMove, Still, Uploads, Delivers, RunStarted, RunGoes, RunStops
<1>5. ASSUME NEW k \in EmbIds, emb[k].status = "queued", q'[k].state = "absent", version.status = "chunked"
      PROVE  q'[0].state # "finished"
  <2>0. Created(k) /\ k = 1
    BY <1>5 DEF Once, Created
  <2>1. q[k].state = "absent" => q[0].state # "finished"
    BY <1>5 DEF Once, NoLostHandoff
  <2>2. CASE Still \/ Uploads
    BY <1>0, <1>5, <2>1, <2>2 DEF Still, Uploads, OthersQueued, Published
  <2>3. ASSUME NEW d \in Deliveries, Delivers(d) PROVE q'[0].state # "finished"
    BY Zenon, <1>0, <1>5, <2>1, <2>3 DEF Delivers, OthersQueued
  <2>4. ASSUME NEW p \in Parsers, ParserStarts(p) \/ ParserGoes(p) \/ ParserStops(p)
        PROVE  q'[0].state # "finished"
    <3>1. q'[k] = q[k]
      BY <1>0, <2>4 DEF ParserStarts, ParserGoes, ParserStops, OthersQueued
    <3> QED BY Zenon, <1>5, <2>1, <2>4, <3>1 DEF ParserStarts, ParserGoes, ParserStops, Spent
  <2>5. ASSUME NEW p \in Parsers, NEW x \in EmbIds, ParserPublishes(p, x) PROVE FALSE
    <3>1. x = 1
      BY <2>5 DEF ParserPublishes, Indexed, Once
    <3>2. q'[x].state # "absent"
      BY <2>5 DEF ParserPublishes, Recorded, Published
    <3> QED BY Zenon, <1>5, <2>0, <3>1, <3>2
  <2>6. ASSUME NEW e \in Embedders, NEW x \in EmbIds, RunStarted(e, x) \/ RunGoes(e) \/ RunStops(e, x)
        PROVE  q'[0].state # "finished"
    <3>1. q'[0] = q[0] /\ (x # k => q'[k] = q[k])
      BY Zenon, <1>0, <2>6 DEF RunStarted, RunGoes, RunStops, OthersQueued
    <3>2. q[k].state = "absent"
      BY Zenon, <1>5, <2>6, <3>1 DEF RunStarted, RunGoes, RunStops, Spent, Finished
    <3> QED BY Zenon, <2>1, <3>1, <3>2
  <2> QED BY <2>2, <2>3, <2>4, <2>5, <2>6, Zenon DEF SomeMove
<1>6. NoLostHandoff'
  BY <1>1, <1>2, <1>5 DEF NoLostHandoff
<1> QED BY <1>3, <1>4, <1>6 DEF Once

\* Every step keeps the handoff unique and its publisher alive.
LEMMA OnceStep ==
  ASSUME Typed, Aimed, Indexed, Alone, Once, Effect
  PROVE  Once'
<1>0. 1 \in EmbIds /\ 0 \in Deliveries /\ \A k \in EmbIds : k \in Deliveries /\ k # 0
  BY EmbDeliveries, PipelineAssumption DEF EmbIds
<1>1. CASE RowsKept
  BY <1>1, EffectMoves, OnceMoves
<1>2. ASSUME NEW a \in Nat, JobFails(a) PROVE Once'
  <2>1. \A k \in EmbIds : ~Created(k)'
    BY Zenon, <1>2 DEF JobFails, EmbKept, Once, Created
  <2>2. job'.status # "chunked" /\ version'.status \notin {"chunked", "retrieval_ready"}
    BY Zenon, <1>2 DEF JobFails, Failures
  <2> QED BY <2>1, <2>2, ZenonT(60) DEF Once, NoLostHandoff
<1>3. ASSUME NEW k \in EmbIds, NEW a \in Nat, EmbFails(k, a), UNCHANGED par,
             OthersQueued({k}) 
      PROVE  Once'
  <2>1. \A x \in EmbIds : Created(x)' => job'.status = "chunked" /\ x = 1
    BY Zenon, <1>3 DEF EmbFails, EmbKept, JobKept, Once, Created
  <2>2. version'.status = "chunked" => emb'[1].marked
    BY <1>0, <1>3 DEF EmbFails, EmbKept, Once, Failures
  <2>3. version'.status # "retrieval_ready"
    BY <1>3 DEF EmbFails, Failures
  <2>4. NoLostHandoff'
    <3>1. ASSUME NEW x \in EmbIds, emb'[x].status = "queued" PROVE x # k /\ emb[x].status = "queued"
      BY Zenon, <1>3, <3>1 DEF EmbFails, EmbKept, Failures
    <3>2. version'.status = "chunked" => version.status = "chunked"
      BY <1>3 DEF EmbFails, Failures
    <3>3. q'[0] = q[0] /\ \A x \in EmbIds \ {k} : q'[x] = q[x]
      BY Zenon, <1>0, <1>3 DEF OthersQueued
    <3> QED BY Zenon, <3>1, <3>2, <3>3 DEF Once, NoLostHandoff
  <2>5. job'.status = "chunked" => \A p \in Parsers : par'[p].pc \in {"idle", "handoff", "enqueue"}
    BY Zenon, <1>3 DEF EmbFails, JobKept, Once
  <2> QED BY Zenon, <2>1, <2>2, <2>3, <2>4, <2>5 DEF Once
<1>4. CASE VersionDeleted /\ Still
  BY Zenon, <1>4 DEF VersionDeleted, Still, EmbKept, JobKept, Once, Created, NoLostHandoff
<1>5. ASSUME NEW k \in EmbIds, MadeReady(k), UNCHANGED par PROVE Once'
  <2>1. job.status = "chunked"
    BY <1>5 DEF MadeReady, Once, Created
  <2> QED BY Zenon, <1>5, <2>1 DEF MadeReady, EmbKept, JobKept, Once, Created, NoLostHandoff
<1>6. CASE JobClaimed
  <2>1. \A k \in EmbIds : ~Created(k) /\ ~Created(k)'
    BY Zenon, <1>6 DEF JobClaimed, EmbKept, Once, Created
  <2>2. version.status \notin {"chunked", "retrieval_ready"}
    BY Zenon, <1>0, <1>6, <2>1 DEF JobClaimed, Indexed, Once
  <2> QED BY Zenon, <1>6, <2>1, <2>2 DEF JobClaimed, Once, NoLostHandoff
<1>7. ASSUME NEW p \in Parsers, par[p].pc = "parsed", JobParsed PROVE Once'
  <2>1. \A k \in EmbIds : ~Created(k)'
    BY Zenon, <1>7 DEF JobParsed, EmbKept, Once, Created
  <2> QED BY Zenon, <1>7, <2>1 DEF JobParsed, Once, NoLostHandoff
<1>8. ASSUME NEW p \in Parsers, par[p].pc = "commit", par'[p].pc = "handoff", ParserGoes(p),
             NEW k \in EmbIds, JobChunked(k)
      PROVE  Once'
  <2>1. \A x \in EmbIds : ~Created(x)
    BY Zenon, <1>8 DEF Once
  <2>2. k = 1
    BY <1>0, <1>8, <2>1, PipelineAssumption DEF JobChunked, NextEmb, EmbIds
  <2>3. \A x \in EmbIds : Created(x)' => x = 1
    BY Zenon, <1>8, <2>1, <2>2 DEF JobChunked, EmbKept, Created
  <2>4. \A x \in Parsers \ {p} : par'[x].pc = "idle"
    BY Zenon, <1>8 DEF ParserGoes, OthersParse, Alone
  <2>5. q'[0].state = "started"
    BY Zenon, <1>8 DEF ParserGoes, Alone
  <2>6. job'.status = "chunked" /\ version'.status = "chunked" /\ emb'[1].marked
    BY <1>8, <2>2 DEF JobChunked
  <2> QED BY Zenon, <1>8, <2>3, <2>4, <2>5, <2>6 DEF Once, NoLostHandoff
<1>9. ASSUME NEW e \in Embedders, NEW k \in EmbIds, RunGoes(e), run[e].target = k,
             EmbClaimed(k) \/ EmbCommitted(k)
      PROVE  Once'
  <2>1. Created(k) /\ job.status = "chunked" /\ k = 1
    BY <1>9 DEF RunGoes, Indexed, Once
  <2>2. CASE EmbClaimed(k)
    BY <1>9, <2>1, <2>2, ZenonT(60) DEF RunGoes, EmbClaimed, EmbKept, JobKept, Once, Created, NoLostHandoff
  <2>3. CASE EmbCommitted(k)
    BY Zenon, <1>9, <2>1, <2>3 DEF RunGoes, EmbCommitted, EmbKept, JobKept, Once, Created, NoLostHandoff
  <2> QED BY Zenon, <1>9, <2>2, <2>3
<1>10. \A a : JobFails(a) => a \in Nat
  BY JobRows, Zenon DEF JobFails, Typed
<1>11. \A a : \A k \in EmbIds : EmbFails(k, a) => a \in Nat
  BY JobRows, Zenon DEF EmbFails, Typed
<1>12. \A k \in EmbIds, e \in Embedders :
          /\ Still => UNCHANGED par /\ OthersQueued({k})
          /\ RunStops(e, k) => UNCHANGED par /\ OthersQueued({k})
          /\ Delivers(k) => UNCHANGED par
  BY Zenon DEF Still, RunStops, Delivers, OthersQueued
<1>13. ASSUME Still, \/ RowsKept \/ VersionDeleted
                     \/ JobFails(job.attempt) /\ api = "unacked"
                     \/ op.pc = "mark" /\ (JobFails(op.attempt) \/ \E k \in EmbIds : EmbFails(k, op.attempt))
       PROVE  Once'
  <2>1. ASSUME NEW k \in EmbIds, EmbFails(k, op.attempt) PROVE Once'
    <3>1. op.attempt \in Nat /\ UNCHANGED par /\ OthersQueued({k})
      BY <1>11, <1>13, <2>1 DEF Still, OthersQueued
    <3> QED BY <1>3, <2>1, <3>1
  <2> QED BY <1>1, <1>2, <1>4, <1>10, <1>13, <2>1
<1>14. ASSUME NEW e \in Embedders, NEW k \in EmbIds, RunStops(e, k), EmbFails(k, run[e].attempt)
       PROVE  Once'
  <2>1. run[e].attempt \in Nat /\ UNCHANGED par /\ OthersQueued({k})
    BY Zenon, <1>11, <1>14 DEF RunStops
  <2> QED BY Zenon, <1>3, <1>14, <2>1
<1>15. ASSUME NEW k \in EmbIds, Delivers(k), MadeReady(k) PROVE Once'
  BY <1>5, <1>12, <1>15, Zenon DEF Delivers
<1> QED BY <1>1, <1>2, <1>6, <1>7, <1>8, <1>9, <1>10, <1>13, <1>14, <1>15, Zenon DEF Effect

\* Nothing but a claim counts an attempt.
AttemptsKept == job'.attempt = job.attempt /\ \A k \in EmbIds : emb'[k].attempt = emb[k].attempt

\* An attempt is counted at the claim and nowhere else.
LEMMA WritesCount ==
  ASSUME Typed, Indexed, Budgets, Effect
  PROVE  \/ AttemptsKept /\ SomeMove
         \/ \E p \in Parsers : ParserGoes(p) /\ par[p].pc = "claim" /\ JobClaimed
         \/ \E e \in Embedders, k \in EmbIds :
              RunGoes(e) /\ run[e].target = k /\ run[e].pc = "claim" /\ EmbClaimed(k)
<1>1. RowsKept \/ JobParsed \/ VersionDeleted => AttemptsKept
  BY DEF RowsKept, JobParsed, VersionDeleted, JobKept, EmbKept, AttemptsKept
<1>2. \A a : JobFails(a) => AttemptsKept
  BY DEF JobFails, EmbKept, AttemptsKept
<1>3. \A a : \A k \in EmbIds : EmbFails(k, a) => AttemptsKept
  BY DEF EmbFails, JobKept, EmbKept, AttemptsKept
<1>4. \A k \in EmbIds : EmbCommitted(k) \/ MadeReady(k) => AttemptsKept
  BY Zenon DEF EmbCommitted, MadeReady, JobKept, EmbKept, AttemptsKept
<1>5. ASSUME NEW k \in EmbIds, JobChunked(k) PROVE AttemptsKept
  <2>1. k \in Deliveries /\ k # 0 /\ q[k].state = "absent"
    BY Zenon, <1>5, EmbDeliveries DEF JobChunked, NextEmb, Indexed
  <2>2. emb[k].attempt = 0
    BY <2>1 DEF Budgets, Budgeted, Attempts
  <2> QED BY Zenon, <1>5, <2>2 DEF JobChunked, EmbKept, AttemptsKept
<1>6. SomeMove
  BY EffectMoves
<1> QED BY <1>1, <1>2, <1>3, <1>4, <1>5, <1>6, ZenonT(60) DEF Effect

\* Only an execution that starts, of a queued delivery, is new at the claim.
LEMMA ClaimingMoves ==
  ASSUME SomeMove, NEW d \in Deliveries, Claiming(d)'
  PROVE  Claiming(d) \/ q[d].state = "queued"
<1>0. \A k \in EmbIds : k # 0
  BY EmbDeliveries
<1>1. CASE d = 0
  <2>1. PICK x \in Parsers : par'[x].pc = "claim"
    BY <1>1 DEF Claiming
  <2>2. \/ par' = par
        \/ \E p \in Parsers : \/ ParserStarts(p) \/ ParserGoes(p) \/ ParserStops(p)
                              \/ \E k \in EmbIds : ParserPublishes(p, k)
    BY Zenon DEF SomeMove, Still, Uploads, Delivers, RunStarted, RunGoes, RunStops
  <2>3. par[x].pc = "claim" \/ q[0].state = "queued"
    BY <2>1, <2>2, ZenonT(60) DEF ParserStarts, ParserGoes, ParserStops, ParserPublishes, OthersParse
  <2> QED BY <1>1, <2>3 DEF Claiming
<1>2. CASE d # 0
  <2>1. PICK x \in Embedders : run'[x].pc = "claim" /\ run'[x].target = d
    BY <1>2, Zenon DEF Claiming
  <2>2. run' = run \/ \E e \in Embedders, k \in EmbIds : RunStarted(e, k) \/ RunGoes(e) \/ RunStops(e, k)
    BY Zenon DEF SomeMove, Still, Uploads, Delivers, ParserStarts, ParserGoes, ParserStops, ParserPublishes
  <2>3. (run[x].pc = "claim" /\ run[x].target = d) \/ q[d].state = "queued"
    BY <2>1, <2>2, ZenonT(60) DEF RunStarted, RunGoes, RunStops, OthersRun
  <2> QED BY <1>2, <2>3 DEF Claiming
<1> QED BY <1>1, <1>2

\* A handoff about to be published belongs to a job nobody has claimed.
LEMMA UnpublishedStep ==
  ASSUME Typed, Aimed, Indexed, Unpublished, AttemptsKept, SomeMove
  PROVE  Unpublished'
<1> SUFFICES ASSUME NEW p \in Parsers, NEW k \in EmbIds, par'[p].pc = "enqueue", par'[p].target = k,
                    q'[k].state \in {"absent", "expired"}
             PROVE  emb[k].attempt = 0
  BY DEF Unpublished, AttemptsKept, Recorded
<1>0. 0 \in Deliveries /\ \A x \in EmbIds : x \in Deliveries /\ x # 0
  BY Zenon, EmbDeliveries
<1>a. par[p].pc = "enqueue" /\ par[p].target = k /\ q[k].state \in {"absent", "expired"} => emb[k].attempt = 0
  BY DEF Unpublished, Recorded
<1>1. CASE Still \/ Uploads
  BY Zenon, <1>0, <1>1, <1>a DEF Still, Uploads, OthersQueued
<1>2. ASSUME NEW d \in Deliveries, Delivers(d) PROVE emb[k].attempt = 0
  BY <1>0, <1>2, <1>a DEF Delivers, OthersQueued
<1>3. ASSUME NEW x \in Parsers, ParserStarts(x) \/ ParserGoes(x) \/ ParserStops(x)
      PROVE  emb[k].attempt = 0
  <2>1. q'[k] = q[k]
    BY <1>0, <1>3 DEF ParserStarts, ParserGoes, ParserStops, OthersQueued
  <2>2. CASE x = p
    <3>1. emb[k].status = "queued"
      BY <1>3, <2>2, Zenon DEF ParserStarts, ParserGoes, ParserStops
    <3> QED BY <3>1, Zenon DEF Indexed
  <2>3. CASE x # p
    BY <1>3, <1>a, <2>1, <2>3, Zenon DEF ParserStarts, ParserGoes, ParserStops, OthersParse
  <2> QED BY Zenon, <2>2, <2>3
<1>4. ASSUME NEW x \in Parsers, NEW j \in EmbIds, ParserPublishes(x, j) PROVE emb[k].attempt = 0
  <2>1. x # p /\ par'[p] = par[p]
    BY Zenon, <1>4 DEF ParserPublishes, OthersParse
  <2>2. q'[k] = q[k]
    <3>1. CASE k = j
      <4>1. q'[k] = q[k] \/ q'[k] = Published
        BY <1>4, <3>1, Zenon DEF ParserPublishes
      <4>2. Published.state = "queued"
        BY DEF Published
      <4> QED BY <4>1, <4>2
    <3>2. CASE k # j
      BY <1>0, <1>4, <3>2, Zenon DEF ParserPublishes, OthersQueued
    <3> QED BY <3>1, <3>2
  <2> QED BY <1>a, <2>1, <2>2, ZenonT(60)
<1>5. ASSUME NEW e \in Embedders, NEW j \in EmbIds, RunStarted(e, j) \/ RunGoes(e) \/ RunStops(e, j)
      PROVE  emb[k].attempt = 0
  <2>1. par' = par
    BY <1>5, Zenon DEF RunStarted, RunGoes, RunStops
  <2>2. q'[k] = q[k]
    BY <1>0, <1>5, ZenonT(60) DEF RunStarted, RunGoes, RunStops, Spent, Finished, OthersQueued
  <2> QED BY <1>a, <2>1, <2>2
<1> QED BY Zenon, <1>1, <1>2, <1>3, <1>4, <1>5 DEF SomeMove

\* A delivery goes on as it was, spends what it has, or is published for the
\* first time.
Spends(d) ==
  /\ q[d].state # "absent" /\ q'[d].state # "absent" /\ q'[d].left \in Nat
  /\ \/ q'[d].left < q[d].left
     \/ /\ q'[d].left <= q[d].left
        /\ q'[d].state \in {"queued", "scheduled"} => q[d].state \in {"queued", "scheduled"}
     \/ q'[d].left = 0 /\ q'[d].state = "failed"

Proceeds(d) == q'[d] = q[d] \/ Spends(d) \/ (q'[d] = Published /\ Attempts(d) = 0)

\* Every move makes every delivery proceed in one of these ways.
LEMMA MovesSpend ==
  ASSUME Typed, Aimed, Typed', Alone, Budgets, SomeMove, NEW d \in Deliveries
  PROVE  Proceeds(d)
<1>0. 0 \in Deliveries /\ \A x \in EmbIds : x \in Deliveries /\ x # 0
  BY EmbDeliveries
<1>a. q'[d].left \in Nat /\ q[d].left \in Nat
  <2>1. q'[d] \in DeliveryRow /\ q[d] \in DeliveryRow
    BY Zenon DEF Typed
  <2> QED BY <2>1, PipelineAssumption DEF DeliveryRow
<1>b. ASSUME Spent(d) \/ Finished(d), q[d].state # "absent" PROVE Proceeds(d)
  BY <1>a, <1>b DEF Spent, Finished, Proceeds, Spends
<1>1. CASE Still
  BY <1>1 DEF Still, Proceeds
<1>2. CASE Uploads
  <2>1. CASE d = 0
    <3>1. q[0].state = "absent"
      BY <1>2, ZenonT(60) DEF Uploads, Alone
    <3>2. Attempts(0) = 0
      BY <1>0, <3>1 DEF Budgets, Budgeted
    <3> QED BY <1>2, <2>1, <3>2 DEF Uploads, Proceeds
  <2>2. CASE d # 0
    BY <1>2, <2>2 DEF Uploads, OthersQueued, Proceeds
  <2> QED BY <2>1, <2>2
<1>3. ASSUME NEW x \in Deliveries, Delivers(x) PROVE Proceeds(d)
  <2>1. CASE d = x
    <3>1. CASE d \in EmbIds /\ emb[d].attempt = 0 /\ q'[d] = Published
      <4>1. Attempts(d) = 0
        BY <1>0, <3>1 DEF Attempts
      <4> QED BY <3>1, <4>1 DEF Proceeds
    <3>2. CASE ~(d \in EmbIds /\ emb[d].attempt = 0 /\ q'[d] = Published)
      <4>1. /\ q[d].state # "absent" /\ q'[d].state # "absent"
            /\ \/ q'[d].left < q[d].left
               \/ /\ q'[d].left = q[d].left
                  /\ q'[d].state \in {"queued", "scheduled"} => q[d].state \in {"queued", "scheduled"}
               \/ q'[d].left = 0 /\ q'[d].state = "failed"
        BY <1>3, <2>1, <3>2, Zenon DEF Delivers
      <4>2. Spends(d)
        BY <1>a, <4>1 DEF Spends
      <4> QED BY <4>2 DEF Proceeds
    <3> QED BY <3>1, <3>2
  <2>2. CASE d # x
    BY <1>3, <2>2, Zenon DEF Delivers, OthersQueued, Proceeds
  <2> QED BY <2>1, <2>2
<1>4. ASSUME NEW p \in Parsers, ParserStarts(p) \/ ParserGoes(p) \/ ParserStops(p) PROVE Proceeds(d)
  <2>1. CASE d = 0
    <3>1. CASE ParserStarts(p)
      <4>1. q[d].state = "queued" /\ q'[d].state = "started" /\ q'[d].left = q[d].left
        BY <2>1, <3>1, Zenon DEF ParserStarts
      <4>2. Spends(d)
        BY <1>a, <4>1 DEF Spends
      <4> QED BY <4>2 DEF Proceeds
    <3>2. CASE ParserGoes(p)
      BY <3>2, Zenon DEF ParserGoes, Proceeds
    <3>3. CASE ParserStops(p)
      BY <1>b, <2>1, <3>3, Zenon DEF ParserStops, Alone
    <3> QED BY <1>4, <3>1, <3>2, <3>3
  <2>2. CASE d # 0
    BY <1>4, <2>2, Zenon DEF ParserStarts, ParserGoes, ParserStops, OthersQueued, Proceeds
  <2> QED BY <2>1, <2>2
<1>5. ASSUME NEW p \in Parsers, NEW k \in EmbIds, ParserPublishes(p, k) PROVE Proceeds(d)
  <2>1. CASE d = 0
    BY Zenon, <1>5, <1>b, <2>1 DEF ParserPublishes, Alone
  <2>2. CASE d = k
    <3>1. ~Recorded(k) => Attempts(k) = 0
      BY <1>0, <1>5, ZenonT(60) DEF ParserPublishes, Budgets, Unpublished, Attempts
    <3> QED BY <1>5, <2>2, <3>1 DEF ParserPublishes, Proceeds
  <2>3. CASE d \notin {0, k}
    BY <1>5, <2>3 DEF ParserPublishes, OthersQueued, Proceeds
  <2> QED BY Zenon, <2>1, <2>2, <2>3
<1>6. ASSUME NEW e \in Embedders, NEW k \in EmbIds, RunStarted(e, k) \/ RunGoes(e) \/ RunStops(e, k)
      PROVE  Proceeds(d)
  <2>1. CASE RunStarted(e, k) /\ d = k
    <3>1. q[d].state = "queued" /\ q'[d].state = "started" /\ q'[d].left = q[d].left
      BY <2>1, Zenon DEF RunStarted
    <3>2. Spends(d)
      BY <1>a, <3>1 DEF Spends
    <3> QED BY <3>2 DEF Proceeds
  <2>2. CASE RunStops(e, k) /\ d = k
    BY Zenon, <1>b, <2>2 DEF RunStops, Alone
  <2>3. CASE RunGoes(e) \/ d # k
    BY Zenon, <1>6, <2>3 DEF RunGoes, RunStarted, RunStops, OthersQueued, Proceeds
  <2> QED BY Zenon, <1>6, <2>1, <2>2, <2>3
<1> QED BY Zenon, <1>1, <1>2, <1>3, <1>4, <1>5, <1>6 DEF SomeMove

\* Attempts and retries left stay within one budget.
LEMMA BudgetStep ==
  ASSUME Typed, Aimed, Typed', Indexed, Alone, Budgets, Effect
  PROVE  Budgets'
<1>0. 0 \in Deliveries /\ \A x \in EmbIds : x \in Deliveries /\ x # 0
  BY EmbDeliveries
<1>a. ASSUME NEW d \in Deliveries PROVE d # 0 => d \in EmbIds
  BY PipelineAssumption DEF Deliveries, EmbIds
<1>b. ASSUME NEW d \in Deliveries PROVE Attempts(d) \in Nat /\ q[d].left \in Nat /\ Budgeted(d)
  <2>1. d = 0 => job.attempt \in Nat
    BY JobRows, Zenon DEF Typed
  <2>2. d # 0 => emb[d].attempt \in Nat
    BY <1>a, JobRows, ZenonT(60) DEF Typed
  <2>3. q[d].left \in Nat
    BY RetriedRow
  <2> QED BY <2>1, <2>2, <2>3 DEF Attempts, Budgets
<1>1. ASSUME AttemptsKept, SomeMove PROVE Budgets'
  <2>1. Unpublished'
    BY Zenon, <1>1, UnpublishedStep DEF Budgets
  <2>2. ASSUME NEW d \in Deliveries PROVE Budgeted(d)'
    <3>1. Attempts(d)' = Attempts(d)
      BY Zenon, <1>1, <1>a DEF AttemptsKept, Attempts
    <3>2. Claiming(d)' => Claiming(d) \/ q[d].state = "queued"
      BY <1>1, ClaimingMoves
    <3>3. Proceeds(d)
      BY Zenon, <1>1, MovesSpend
    <3>4. CASE q'[d] = q[d]
      BY Zenon, <1>b, <3>1, <3>2, <3>4 DEF Budgeted
    <3>5. CASE Spends(d)
      BY SMTT(30), <1>b, <3>1, <3>2, <3>5, PipelineAssumption DEF Budgeted, Spends
    <3>6. CASE q'[d] = Published /\ Attempts(d) = 0
      BY <3>1, <3>6, PipelineAssumption DEF Budgeted, Published
    <3> QED BY Zenon, <3>3, <3>4, <3>5, <3>6 DEF Proceeds
  <2> QED BY <2>1, <2>2 DEF Budgets
<1>2. ASSUME NEW p \in Parsers, ParserGoes(p), par[p].pc = "claim", JobClaimed PROVE Budgets'
  <2>1. q[0].state = "started" /\ Claiming(0) /\ ~Claiming(0)'
    BY <1>2, ZenonT(60) DEF ParserGoes, OthersParse, Alone, Claiming
  <2>2. Attempts(0)' = Attempts(0) + 1
    BY Zenon, <1>2 DEF JobClaimed, Attempts
  <2>3. Budgeted(0)'
    <3>1. Attempts(0) \in Nat /\ q[0].left \in Nat /\ Attempts(0) + q[0].left <= RetryMax
      BY Zenon, <1>0, <1>b, <2>1 DEF Budgeted
    <3>2. q' = q
      BY Zenon, <1>2 DEF ParserGoes
    <3> QED BY <2>1, <2>2, <3>1, <3>2, PipelineAssumption DEF Budgeted
  <2>4. ASSUME NEW d \in Deliveries \ {0} PROVE Budgeted(d)'
    <3>1. Attempts(d)' = Attempts(d)
      BY ZenonT(30), <1>2, <1>a DEF JobClaimed, EmbKept, Attempts
    <3>2. (Claiming(d)' <=> Claiming(d)) /\ q' = q
      BY <1>2 DEF ParserGoes, Claiming
    <3> QED BY Zenon, <1>b, <3>1, <3>2 DEF Budgeted
  <2>5. Unpublished'
    <3> SUFFICES ASSUME NEW x \in Parsers, NEW k \in EmbIds, par'[x].pc = "enqueue", par'[x].target = k,
                        ~Recorded(k)'
                 PROVE  emb'[k].attempt = 0
      BY Zenon DEF Unpublished
    <3>1. q' = q /\ emb'[k].attempt = emb[k].attempt
      BY <1>2 DEF ParserGoes, JobClaimed, EmbKept
    <3>2. ~Recorded(k)
      BY <3>1 DEF Recorded
    <3>3. CASE x = p
      <4>1. emb[k].status = "queued"
        BY <1>2, <3>3, ZenonT(30) DEF ParserGoes
      <4> QED BY Zenon, <3>1, <4>1 DEF Indexed
    <3>4. CASE x # p
      <4>1. par[x].pc = "enqueue" /\ par[x].target = k
        BY Zenon, <1>2, <3>4 DEF ParserGoes, OthersParse
      <4> QED BY Zenon, <3>1, <3>2, <4>1 DEF Budgets, Unpublished
    <3> QED BY <3>3, <3>4
  <2> QED BY <2>3, <2>4, <2>5 DEF Budgets
<1>3. ASSUME NEW e \in Embedders, NEW k \in EmbIds, RunGoes(e), run[e].target = k, run[e].pc = "claim",
             EmbClaimed(k)
      PROVE  Budgets'
  <2>0. k \in Deliveries /\ k # 0
    BY <1>0
  <2>1. q[k].state = "started" /\ Claiming(k) /\ ~Claiming(k)'
    BY <1>3, <2>0, ZenonT(60) DEF RunGoes, OthersRun, Alone, Claiming
  <2>2. Attempts(k)' = Attempts(k) + 1
    BY Zenon, <1>3, <2>0 DEF EmbClaimed, Attempts
  <2>3. Budgeted(k)'
    <3>1. Attempts(k) \in Nat /\ q[k].left \in Nat /\ Attempts(k) + q[k].left <= RetryMax
      BY Zenon, <1>b, <2>0, <2>1 DEF Budgeted
    <3>2. q' = q
      BY Zenon, <1>3 DEF RunGoes
    <3> QED BY <2>1, <2>2, <3>1, <3>2, PipelineAssumption DEF Budgeted
  <2>4. ASSUME NEW d \in Deliveries \ {k} PROVE Budgeted(d)'
    <3>1. Attempts(d)' = Attempts(d)
      BY <1>3, <1>a, ZenonT(60) DEF EmbClaimed, EmbKept, JobKept, Attempts
    <3>2. (Claiming(d)' => Claiming(d)) /\ q' = q
      BY <1>3 DEF RunGoes, OthersRun, Claiming
    <3> QED BY <1>b, <3>1, <3>2 DEF Budgeted
  <2>5. Unpublished'
    <3>1. Recorded(k) /\ par' = par /\ q' = q
      BY <1>3, <2>1 DEF Recorded, RunGoes
    <3> QED BY <1>3, <3>1, ZenonT(60) DEF Budgets, Unpublished, EmbClaimed, EmbKept, Recorded
  <2> QED BY Zenon, <2>3, <2>4, <2>5 DEF Budgets
<1> QED BY <1>1, <1>2, <1>3, WritesCount

-----------------------------------------------------------------------------
\* Every step keeps the three, where executions do not overlap.
LEMMA SequentialStep ==
  ASSUME ~Overlap, Typed, Aimed, Indexed, Alone, Once, Budgets, [Next]_vars
  PROVE  (Typed /\ Aimed /\ Indexed /\ Alone /\ Once /\ Budgets)'
<1>1. Typed' /\ Aimed' /\ Indexed' /\ Effect
  BY IndexedStep, Effects
<1>2. Alone'
  BY <1>1, EffectMoves, AloneStep
<1>3. Once'
  BY <1>1, OnceStep
<1>4. Budgets'
  BY <1>1, BudgetStep
<1> QED BY Zenon, <1>1, <1>2, <1>3, <1>4

\* In every reachable state, where executions do not overlap.
LEMMA PipelineSequential ==
  ASSUME ~Overlap
  PROVE  Spec => [](Typed /\ Aimed /\ Indexed /\ Alone /\ Once /\ Budgets)
<1>1. Init => Typed /\ Aimed /\ Indexed /\ Alone /\ Once /\ Budgets
  BY AimedInit, IndexedInit, AloneInit
<1>2. ASSUME Typed, Aimed, Indexed, Alone, Once, Budgets, [Next]_vars
      PROVE  (Typed /\ Aimed /\ Indexed /\ Alone /\ Once /\ Budgets)'
  BY <1>2, SequentialStep
<1> QED BY <1>1, <1>2, PTL DEF Spec

\* Until the delivery of a committed embedding job has been published, the
\* ingestion delivery that must publish it has not finished.
THEOREM HandoffNotLost == ASSUME ~Overlap PROVE Spec => []NoLostHandoff
<1>1. Once => NoLostHandoff
  BY DEF Once
<1> QED BY <1>1, PipelineSequential, PTL

\* A chunked version has exactly one embedding job to hand on.
THEOREM HandoffUnique == ASSUME ~Overlap PROVE Spec => []OneHandoff
<1>1. ASSUME Indexed, Once PROVE OneHandoff
  <2> SUFFICES ASSUME version.status = "chunked" PROVE \E k \in EmbIds : Marked = {k}
    BY DEF OneHandoff
  <2>1. 1 \in EmbIds
    BY PipelineAssumption DEF EmbIds
  <2>2. Marked = {1}
    BY <1>1, <2>1, Zenon DEF Once, Indexed, Marked
  <2> QED BY <2>1, <2>2
<1> QED BY <1>1, PipelineSequential, PTL

\* No job is claimed more often than its first delivery and RQ's retries allow.
THEOREM BudgetHeld == ASSUME ~Overlap PROVE Spec => []ClaimsWithinBudget
<1>1. ASSUME Typed, Budgets PROVE ClaimsWithinBudget
  <2>1. ASSUME NEW d \in Deliveries, Attempts(d) \in Nat PROVE Attempts(d) <= RetryMax + 1
    <3>1. Budgeted(d) /\ q[d].left \in Nat
      BY <1>1, RetriedRow DEF Budgets
    <3> QED BY <2>1, <3>1, PipelineAssumption DEF Budgeted
  <2>2. job.attempt <= RetryMax + 1
    <3>1. 0 \in Deliveries /\ job.attempt \in Nat
      BY <1>1, EmbDeliveries, JobRows, Zenon DEF Typed
    <3> QED BY <2>1, <3>1 DEF Attempts
  <2>3. ASSUME NEW k \in EmbIds PROVE emb[k].attempt <= RetryMax + 1
    <3>1. k \in Deliveries /\ k # 0 /\ emb[k].attempt \in Nat
      BY <1>1, EmbDeliveries, JobRows, Zenon DEF Typed
    <3> QED BY <2>1, <3>1 DEF Attempts
  <2> QED BY Zenon, <2>2, <2>3 DEF ClaimsWithinBudget
<1> QED BY <1>1, PipelineSequential, PTL

\* A ready version is left only by deleting it: no late parse, failure or
\* handoff writes over it.
THEOREM ReadyKept == ASSUME ~Overlap PROVE Spec => ReadyIsFinal
<1>1. ASSUME Typed, Aimed, Indexed, Once, [Next]_vars, version.status = "retrieval_ready"
      PROVE  version'.status \in {"retrieval_ready", "deleted"}
  <2>1. Effect /\ job.status = "chunked"
    BY Zenon, <1>1, Effects DEF Once
  <2>2. \A p \in Parsers : par[p].pc \notin {"parsed", "commit"}
    BY <1>1, <2>1 DEF Once
  <2> QED BY <1>1, <2>1, <2>2, ZenonT(60) DEF Effect, RowsKept, VersionDeleted, JobFails, EmbFails, MadeReady,
             JobClaimed, EmbClaimed, EmbCommitted
<1>2. ASSUME Typed, Aimed, Indexed, Once, [Next]_vars
      PROVE  [version.status = "retrieval_ready" => version'.status \in {"retrieval_ready", "deleted"}]_vars
  BY <1>1, <1>2
<1> QED BY <1>2, PipelineSequential, PTL DEF Spec, ReadyIsFinal
===============================================================================
