------------------------------ MODULE RagAnswer ------------------------------
(***************************************************************************)
(* The answer path: RagQueryApplicationService (query, stream_query),      *)
(* ChatApplicationService around it (chat, stream_chat), the chat memory   *)
(* they write, and the accounting provider they pay with.  One request is  *)
(* one coroutine or one async generator; a step ends at an await that      *)
(* leaves the process or at a yield.  The client may go away at any of     *)
(* them: at an await the coroutine is cancelled, at a yield it is closed.  *)
(***************************************************************************)
EXTENDS CostAccounting, Sequences

CONSTANTS Requests,     \* concurrent requests; each makes at most one call
          NoOne,        \* the session row is not locked
          KindsOf,      \* the entry points each request may use
          MaxTokens     \* bound: token events per stream

ASSUME RequestsAssumption == Requests \subseteq Calls /\ NoOne \notin Requests

VARIABLES kind,      \* entry point of each request
          pc,        \* where the request stands
          sent,      \* events the client has been sent
          audits,    \* statuses of the query's audit rows
          prepared,  \* stream_query: prepared is not None
          verdict,   \* of the query layer: "none", "success" or "error"
          messages,  \* committed rows of the chat session, in commit order
          draft,     \* rows flushed and not committed, per request
          lock,      \* holder of SELECT ... FOR UPDATE on the session
          ledgerErr  \* the ledger failed or timed out under this request

memVars == <<messages, draft, lock>>
reqVars == <<kind, pc, sent, audits, prepared, verdict, ledgerErr>>
answerVars == <<reqVars, memVars, costVars>>

Kinds == {"query", "query_stream", "chat", "chat_stream"}
IsStream(r) == kind[r] \in {"query_stream", "chat_stream"}
IsChat(r) == kind[r] \in {"chat", "chat_stream"}

(* Every way a request may be over.                                         *)
Ends == {"returned", "raised", "ended", "gone"}
Over(r) == pc[r] \in Ends

Row(r, role, n) == [req |-> r, role |-> role, seq |-> n]
Events == {"citation", "token", "error", "final"}

\* A request is at one of its steps, with at most one draft of an answer and
\* at most one audit record of each outcome.
AnswerTypeOK ==
  /\ CostTypeOK
  /\ kind \in [Requests -> Kinds]
  /\ pc \in [Requests -> Ends \cup {"start", "opened", "asked", "retrieve", "ready", "cited",
               "calling", "resettle", "answered", "extracted", "query_failed", "query_error_sent",
               "query_raised", "query_done", "replying", "replied", "saved", "failing",
               "error_sent", "closing"}]
  /\ \A r \in Requests : sent[r] \in Seq(Events)
  /\ audits \in [Requests -> SUBSET {"success", "failure"}]
  /\ prepared \in [Requests -> BOOLEAN]
  /\ verdict \in [Requests -> {"none", "success", "error"}]
  /\ \A r \in Requests : Len(draft[r]) <= 1
  /\ lock \in Requests \cup {NoOne}
  /\ ledgerErr \in [Requests -> BOOLEAN]

AnswerInit ==
  /\ CostInit
  /\ kind \in {k \in [Requests -> Kinds] : \A r \in Requests : k[r] \in KindsOf[r]}
  /\ pc = [r \in Requests |-> "start"]
  /\ sent = [r \in Requests |-> <<>>]
  /\ audits = [r \in Requests |-> {}]
  /\ prepared = [r \in Requests |-> FALSE]
  /\ verdict = [r \in Requests |-> "none"]
  /\ messages = <<>>
  /\ draft = [r \in Requests |-> <<>>]
  /\ lock = NoOne
  /\ ledgerErr = [r \in Requests |-> FALSE]

-----------------------------------------------------------------------------
(* Small steps shared by the handlers.                                      *)
Goto(r, l) == pc' = [pc EXCEPT ![r] = l]
Send(r, e) == sent' = [sent EXCEPT ![r] = Append(@, e)]
Same(r) == UNCHANGED <<kind, prepared, verdict, ledgerErr>>

(* A best-effort audit (suppressed, or behind BoundedBestEffortAuditPort)   *)
(* is written or lost; a mandatory one is written.  Denials and the rows of *)
(* the chat layer are all best effort and read by nobody here.              *)
Audit(r, status) == audits' = [audits EXCEPT ![r] = @ \cup {status}]
AuditOrNot(r, status) == Audit(r, status) \/ audits' = audits

(* Ending the transaction of the request's session.                         *)
Commit(r) == /\ messages' = messages \o draft[r]
             /\ draft' = [draft EXCEPT ![r] = <<>>]
             /\ lock' = IF lock = r THEN NoOne ELSE lock
Rollback(r) == /\ draft' = [draft EXCEPT ![r] = <<>>]
               /\ lock' = IF lock = r THEN NoOne ELSE lock
               /\ UNCHANGED messages

(* _next_sequence_no: one more than the largest committed row.              *)
NextSequenceNo ==
  LET numbers == {0} \cup {messages[i].seq : i \in DOMAIN messages}
  IN  (CHOOSE n \in numbers : \A m \in numbers : n >= m) + 1

(* append_message: SELECT ... FOR UPDATE waits for the row, then numbers    *)
(* and flushes the message.                                                 *)
SessionFree(r) == lock = NoOne
AppendMessage(r, role) ==
  /\ SessionFree(r)
  /\ lock' = r
  /\ draft' = [draft EXCEPT ![r] = <<Row(r, role, NextSequenceNo)>>]
  /\ UNCHANGED messages

-----------------------------------------------------------------------------
(* Entry: the permission check, then the session of a chat or the retrieval *)
(* of a query.                                                              *)
Denied(r) ==
  /\ pc[r] = "start"
  /\ IF IsStream(r) THEN Goto(r, "failing") ELSE Goto(r, "raised")
  /\ UNCHANGED <<sent, audits>> /\ Same(r) /\ UNCHANGED memVars /\ UNCHANGED costVars

Enter(r) ==
  /\ pc[r] = "start"
  /\ Goto(r, IF IsChat(r) THEN "opened" ELSE "retrieve")
  /\ UNCHANGED <<sent, audits>> /\ Same(r) /\ UNCHANGED memVars /\ UNCHANGED costVars

(* A storage error (session not found, flush or commit failed), an identity *)
(* mismatch or the error of the query itself: roll back, audit, report.     *)
ChatFails(r) ==
  /\ IsChat(r) /\ pc[r] \in {"start", "opened", "asked", "query_raised", "replying", "replied"}
  /\ Rollback(r)
  /\ Goto(r, IF IsStream(r) THEN "failing" ELSE "raised")
  /\ UNCHANGED <<sent, audits>> /\ Same(r) /\ UNCHANGED costVars

(* append_user_message, then the commit that makes it durable before the    *)
(* query starts.                                                            *)
AppendUser(r) ==
  /\ pc[r] = "opened"
  /\ AppendMessage(r, "user")
  /\ Goto(r, "asked")
  /\ UNCHANGED <<sent, audits>> /\ Same(r) /\ UNCHANGED costVars
CommitUser(r) ==
  /\ pc[r] = "asked"
  /\ Commit(r)
  /\ Goto(r, "retrieve")
  /\ UNCHANGED <<sent, audits>> /\ Same(r) /\ UNCHANGED costVars

(* _prepare_query_context: retrieval, hydration, packing and the prompt; no *)
(* candidates or an empty context is the no-answer response.                *)
Prepare(r) ==
  /\ pc[r] = "retrieve"
  /\ prepared' = [prepared EXCEPT ![r] = TRUE]
  /\ \/ Goto(r, "extracted") /\ verdict' = [verdict EXCEPT ![r] = "success"]
     \/ Goto(r, IF IsStream(r) THEN "ready" ELSE "cited") /\ UNCHANGED verdict
  /\ UNCHANGED <<kind, sent, audits, ledgerErr>> /\ UNCHANGED memVars /\ UNCHANGED costVars
PrepareFails(r) ==
  /\ pc[r] = "retrieve"
  /\ Goto(r, "query_failed")
  /\ UNCHANGED <<sent, audits>> /\ Same(r) /\ UNCHANGED memVars /\ UNCHANGED costVars

(* One citation event per distinct source of the packed context.            *)
SendCitation(r) ==
  /\ pc[r] = "ready"
  /\ Send(r, "citation") /\ Goto(r, "cited")
  /\ UNCHANGED audits /\ Same(r) /\ UNCHANGED memVars /\ UNCHANGED costVars

-----------------------------------------------------------------------------
(* AccountingLLMProvider.generate and .stream: no reservation, no call.     *)
BeginCharge(r) ==
  /\ pc[r] = "cited"
  /\ \E f \in Forecasts : Reserve(r, f)
  /\ Goto(r, "calling")
  /\ UNCHANGED <<sent, audits>> /\ Same(r) /\ UNCHANGED memVars

(* The budget is exhausted, or the ledger failed: nothing is written, or a  *)
(* commit whose answer was lost left a hold nobody will settle.             *)
BeginFails(r) ==
  /\ pc[r] = "cited"
  /\ \/ UNCHANGED costVars /\ UNCHANGED ledgerErr
     \/ /\ \E f \in Forecasts : Reserve(r, f)
        /\ ledgerErr' = [ledgerErr EXCEPT ![r] = TRUE]
  /\ Goto(r, "query_failed")
  /\ UNCHANGED <<kind, sent, audits, prepared, verdict>> /\ UNCHANGED memVars

SendToken(r) ==
  /\ pc[r] = "calling" /\ IsStream(r)
  /\ Cardinality({i \in DOMAIN sent[r] : sent[r][i] = "token"}) < MaxTokens
  /\ Send(r, "token")
  /\ UNCHANGED <<pc, audits>> /\ Same(r) /\ UNCHANGED memVars /\ UNCHANGED costVars

(* The response, or the final chunk: its usage is settled before it is      *)
(* handed on.                                                               *)
ProviderAnswers(r) ==
  /\ pc[r] = "calling"
  /\ Finish(r, "completed")
  /\ Goto(r, "answered")
  /\ UNCHANGED <<sent, audits>> /\ Same(r) /\ UNCHANGED memVars

(* The provider raised, or the stream stopped without a final chunk.        *)
ProviderFails(r) ==
  /\ pc[r] = "calling"
  /\ \/ FinishUnknown(r, "failed")
     \/ IsStream(r) /\ FinishUnknown(r, "incomplete")
  /\ Goto(r, "query_failed")
  /\ UNCHANGED <<sent, audits>> /\ Same(r) /\ UNCHANGED memVars

(* The settlement itself failed, or committed and timed out; a stream tries *)
(* once more in its finally, with no usage.                                 *)
SettlementFails(r) ==
  /\ pc[r] = "calling"
  /\ UNCHANGED costVars \/ Finish(r, "completed")
  /\ ledgerErr' = [ledgerErr EXCEPT ![r] = TRUE]
  /\ Goto(r, IF IsStream(r) THEN "resettle" ELSE "query_failed")
  /\ UNCHANGED <<kind, sent, audits, prepared, verdict>> /\ UNCHANGED memVars
Resettle(r) ==
  /\ pc[r] = "resettle"
  /\ FinishUnknown(r, "failed") \/ UNCHANGED costVars
  /\ Goto(r, "query_failed")
  /\ UNCHANGED <<sent, audits>> /\ Same(r) /\ UNCHANGED memVars

(* Citation extraction over the final text.                                 *)
Extract(r) ==
  /\ pc[r] = "answered"
  /\ \/ Goto(r, "extracted") /\ verdict' = [verdict EXCEPT ![r] = "success"]
     \/ Goto(r, "query_failed") /\ UNCHANGED verdict
  /\ UNCHANGED <<kind, sent, audits, prepared, ledgerErr>>
  /\ UNCHANGED memVars /\ UNCHANGED costVars

(* _record_audit is mandatory for a plain query, whose failure is an error  *)
(* of the query; _record_stream_audit only logs its failure.                *)
RecordSuccess(r) ==
  /\ pc[r] = "extracted"
  /\ IF IsStream(r) THEN AuditOrNot(r, "success") ELSE Audit(r, "success")
  /\ Goto(r, "query_done")
  /\ UNCHANGED sent /\ Same(r) /\ UNCHANGED memVars /\ UNCHANGED costVars
RecordFails(r) ==
  /\ pc[r] = "extracted" /\ ~IsStream(r)
  /\ Goto(r, "query_failed")
  /\ UNCHANGED <<sent, audits>> /\ Same(r) /\ UNCHANGED memVars /\ UNCHANGED costVars

(* query: audit the failure and raise.  stream_query: an error event, the   *)
(* audit, then the error final event.                                       *)
RaiseQueryError(r) ==
  /\ pc[r] = "query_failed" /\ ~IsStream(r)
  /\ AuditOrNot(r, "failure")
  /\ verdict' = [verdict EXCEPT ![r] = "error"]
  /\ Goto(r, IF IsChat(r) THEN "query_raised" ELSE "raised")
  /\ UNCHANGED <<kind, sent, prepared, ledgerErr>> /\ UNCHANGED memVars /\ UNCHANGED costVars
SendQueryError(r) ==
  /\ pc[r] = "query_failed" /\ IsStream(r)
  /\ Send(r, "error") /\ Goto(r, "query_error_sent")
  /\ UNCHANGED audits /\ Same(r) /\ UNCHANGED memVars /\ UNCHANGED costVars
RecordStreamFailure(r) ==
  /\ pc[r] = "query_error_sent"
  /\ AuditOrNot(r, "failure")
  /\ verdict' = [verdict EXCEPT ![r] = "error"]
  /\ Goto(r, "query_done")
  /\ UNCHANGED <<kind, sent, prepared, ledgerErr>> /\ UNCHANGED memVars /\ UNCHANGED costVars

(* The query layer hands over its response or its final event.              *)
Respond(r) ==
  /\ pc[r] = "query_done"
  /\ CASE IsChat(r) -> Goto(r, "replying") /\ UNCHANGED sent
       [] kind[r] = "query" -> Goto(r, "returned") /\ UNCHANGED sent
       [] OTHER -> Goto(r, "ended") /\ Send(r, "final")
  /\ UNCHANGED audits /\ Same(r) /\ UNCHANGED memVars /\ UNCHANGED costVars

(* The chat stores the reply (the answer, or the error of a stream), and    *)
(* only then audits and hands it on.                                        *)
AppendAssistant(r) ==
  /\ pc[r] = "replying"
  /\ AppendMessage(r, "assistant")
  /\ Goto(r, "replied")
  /\ UNCHANGED <<sent, audits>> /\ Same(r) /\ UNCHANGED costVars
NeverCommits(r) ==                                               \* seeded fault
  /\ pc[r] = "replied"
  /\ Goto(r, "saved")
  /\ UNCHANGED <<sent, audits>> /\ Same(r) /\ UNCHANGED memVars /\ UNCHANGED costVars
CommitAssistant(r) ==
  /\ pc[r] = "replied"
  /\ Commit(r)
  /\ Goto(r, "saved")
  /\ UNCHANGED <<sent, audits>> /\ Same(r) /\ UNCHANGED costVars
Reply(r) ==
  /\ pc[r] = "saved"
  /\ IF IsStream(r) THEN Goto(r, "ended") /\ Send(r, "final")
                    ELSE Goto(r, "returned") /\ UNCHANGED sent
  /\ UNCHANGED audits /\ Same(r) /\ UNCHANGED memVars /\ UNCHANGED costVars

(* The error pair that ends a denied stream and a failed chat stream.       *)
SendError(r) ==
  /\ pc[r] = "failing"
  /\ Send(r, "error") /\ Goto(r, "error_sent")
  /\ UNCHANGED audits /\ Same(r) /\ UNCHANGED memVars /\ UNCHANGED costVars
SendErrorFinal(r) ==
  /\ pc[r] = "error_sent"
  /\ Send(r, "final") /\ Goto(r, "ended")
  /\ UNCHANGED audits /\ Same(r) /\ UNCHANGED memVars /\ UNCHANGED costVars

-----------------------------------------------------------------------------
(* The client goes away at an await: CancelledError.  query lets it pass,   *)
(* stream_query and both chats audit it; a row being written may be there   *)
(* or not.  A call in flight is settled under a shield, a reservation in    *)
(* flight may have been committed.                                          *)
QueryRuns == {"retrieve", "cited", "calling", "resettle", "extracted"}
QueryAudits(r) == \/ pc[r] \in QueryRuns \cup {"ready"}
                  \/ pc[r] = "query_error_sent" /\ prepared[r]
CancelRows(r) ==
  (IF IsStream(r) /\ QueryAudits(r) THEN {"failure"} ELSE {})
    \cup (IF pc[r] = "extracted" THEN {"success"} ELSE {})

(* What cancelling a call does to its charge.                               *)
ReserveCancelled(r) ==
  \/ UNCHANGED costVars /\ UNCHANGED ledgerErr
  \/ /\ \E f \in Forecasts : Reserve(r, f)
     /\ ledgerErr' = [ledgerErr EXCEPT ![r] = TRUE]
NoFinally(r) == UNCHANGED costVars /\ UNCHANGED ledgerErr        \* seeded fault
CallAbandoned(r) ==
  \/ /\ FinishUnknown(r, IF IsStream(r) THEN "incomplete" ELSE "failed")
     /\ UNCHANGED ledgerErr
  \/ /\ UNCHANGED costVars
     /\ ledgerErr' = [ledgerErr EXCEPT ![r] = TRUE]

Cancel(r) ==
  /\ pc[r] \in QueryRuns \cup {"start", "opened", "asked", "query_error_sent", "replying",
                               "replied", "saved"}
  /\ \E rows \in SUBSET CancelRows(r) : audits' = [audits EXCEPT ![r] = @ \cup rows]
  /\ CASE pc[r] = "cited" -> ReserveCancelled(r)
       [] pc[r] \in {"calling", "resettle"} -> CallAbandoned(r)
       [] OTHER -> UNCHANGED costVars /\ UNCHANGED ledgerErr
  /\ Goto(r, "closing")
  /\ UNCHANGED <<kind, sent, prepared, verdict>> /\ UNCHANGED memVars

(* The client goes away at a yield: GeneratorExit.  Only the finally blocks *)
(* run: the call is settled as incomplete, and stream_query audits unless   *)
(* it had completed or had prepared nothing.                                *)
LastSent(r) == IF sent[r] = <<>> THEN "none" ELSE sent[r][Len(sent[r])]
AtYield(r) == \/ pc[r] = "cited" /\ LastSent(r) = "citation"
              \/ pc[r] = "calling" /\ LastSent(r) = "token"
              \/ pc[r] \in {"query_error_sent", "error_sent"}
Close(r) ==
  /\ IsStream(r) /\ AtYield(r)
  /\ IF QueryAudits(r) THEN AuditOrNot(r, "failure") ELSE UNCHANGED audits
  /\ IF pc[r] = "calling" THEN CallAbandoned(r) ELSE UNCHANGED costVars /\ UNCHANGED ledgerErr
  /\ Goto(r, "closing")
  /\ UNCHANGED <<kind, sent, prepared, verdict>> /\ UNCHANGED memVars

(* The request's database session is closed with whatever it had open.      *)
Cleanup(r) ==
  /\ pc[r] = "closing"
  /\ Rollback(r)
  /\ Goto(r, "gone")
  /\ UNCHANGED <<sent, audits>> /\ Same(r) /\ UNCHANGED costVars

-----------------------------------------------------------------------------
Advance(r) ==
  \/ Denied(r) \/ Enter(r) \/ AppendUser(r) \/ CommitUser(r) \/ ChatFails(r)
  \/ Prepare(r) \/ PrepareFails(r) \/ SendCitation(r) \/ BeginCharge(r) \/ BeginFails(r)
  \/ SendToken(r) \/ ProviderAnswers(r) \/ ProviderFails(r) \/ SettlementFails(r) \/ Resettle(r)
  \/ Extract(r) \/ RecordSuccess(r) \/ RecordFails(r) \/ RaiseQueryError(r)
  \/ SendQueryError(r) \/ RecordStreamFailure(r) \/ Respond(r)
  \/ AppendAssistant(r) \/ CommitAssistant(r) \/ Reply(r) \/ SendError(r) \/ SendErrorFinal(r)
  \/ Cleanup(r)

AnswerNext == \E r \in Requests : Advance(r) \/ Cancel(r) \/ Close(r)

AnswerSpec == AnswerInit /\ [][AnswerNext]_answerVars
AnswerFair == \A r \in Requests : WF_answerVars(Advance(r))

-----------------------------------------------------------------------------
(* A stream sends one final event, as its last, and a stream that ended by  *)
(* itself has sent it; a chat stream holds the inner final back until its   *)
(* reply is stored, even when storing it fails (stream_query, stream_chat). *)
StreamShape ==
  \A r \in Requests :
    /\ \A i \in DOMAIN sent[r] : sent[r][i] = "final" => i = Len(sent[r]) /\ pc[r] = "ended"
    /\ pc[r] = "ended" => LastSent(r) = "final"

(* An answer that leaves through query or chat has a success row in the     *)
(* audit log, and no failure row of the query stands against it             *)
(* (query's mandatory _record_audit).                                       *)
AnswerAudited ==
  \A r \in Requests : pc[r] = "returned" => /\ "success" \in audits[r]
                                            /\ "failure" \notin audits[r]

(* The chat session is numbered without gaps or repeats, whatever requests  *)
(* share it, and no reply is stored before its question (append_message).   *)
Transcript ==
  /\ \A i \in DOMAIN messages : messages[i].seq = i
  /\ \A i \in DOMAIN messages : messages[i].role = "assistant" =>
       \E j \in 1 .. i - 1 : messages[j].role = "user" /\ messages[j].req = messages[i].req

(* What a chat hands on is already durable: a returned answer or an ended   *)
(* stream whose query layer finished has both its messages stored, unless   *)
(* the stream reported a storage error (chat, stream_chat).                 *)
Stored(r, role) == \E i \in DOMAIN messages : messages[i].req = r /\ messages[i].role = role
ReplyStored ==
  \A r \in Requests :
    IsChat(r) /\ pc[r] \in {"returned", "saved"} => Stored(r, "user") /\ Stored(r, "assistant")

(* Whatever ends a request, its charge is not left reserved, unless the     *)
(* ledger itself failed under it or was interrupted while reserving         *)
(* (AccountingLLMProvider._finish and the finally of stream).               *)
HoldSettled ==
  \A r \in Requests : Over(r) /\ charge[r].status = "reserved" => ledgerErr[r]

(* Every request comes to an end and no request keeps the session locked.   *)
RequestsEnd == \A r \in Requests : <>(Over(r) /\ lock # r)
=============================================================================
