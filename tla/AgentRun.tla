------------------------------- MODULE AgentRun -------------------------------
(***************************************************************************)
(* A request-bound agent run: AgentRunApplicationService.stream and .run   *)
(* with their two mandatory storage phases, the AgentRuntime loop with its *)
(* budgets and repeat guard, ToolRegistry.execute as the task the runtime  *)
(* waits for, and the bounded event queue a client reads.  The client may  *)
(* leave, the deadline may pass and storage may fail at every await.       *)
(***************************************************************************)
EXTENDS Naturals, Sequences, FiniteSetsExt

CONSTANTS Actions,        \* a tool with its arguments, as _action_hash tells them apart
          MaxSteps, MaxCalls, Threshold,
          QueueSize       \* AgentStreamSink.queue

ASSUME AgentRunAssumption == /\ MaxSteps \in Nat \ {0} /\ MaxCalls \in Nat
                             /\ Threshold \in Nat \ {0} /\ QueueSize \in Nat \ {0}

VARIABLES at,          \* where the run stands
          result,      \* the status the run is about to persist and report
          row,         \* agent_runs.status, committed
          initialAck,  \* _PersistenceState: initial and terminal commits acknowledged
          termAck,
          committing,  \* commit_started and not commit_acknowledged
          storageBad,  \* history: a storage operation failed or was interrupted
          steps, calls, seen, act, cites,
          evidence,    \* a rag_search observation succeeded
          expired,     \* the deadline has passed
          reg,         \* the ToolRegistry.execute task
          revoked,     \* ToolDispatchState.revoked
          handlers,    \* history: handlers started, per action
          recorded,    \* tool_calls rows
          queue, heard,  \* events waiting, events the client has
          overflowed,
          leaving      \* the client is gone and the run has been cancelled

storeVars == <<row, initialAck, termAck, committing, storageBad>>
loopVars == <<result, steps, calls, seen, act, cites, evidence>>
toolVars == <<reg, revoked, handlers, recorded>>
wireVars == <<queue, heard, overflowed>>
runVars == <<at, storeVars, loopVars, toolVars, wireVars, expired, leaving>>

Terminal == {"completed", "stopped", "failed"}
Ended == {"finished", "gone"}
Statuses == {"success", "denied", "failure"}

\* Steps, tool calls and repeats of an action stay within their limits, and the
\* stored row is absent, running or in one of its final states.
RunTypeOK ==
  /\ at \in Ended \cup {"start", "create", "create_commit", "deciding", "tool", "dispatch",
                        "waiting", "validating", "terminal", "term_commit", "replying", "erring",
                        "cancel_write", "cancel_commit"}
  /\ result \in Terminal \cup {"none"} /\ row \in Terminal \cup {"absent", "running"}
  /\ {initialAck, termAck, committing, storageBad, cites, evidence, expired, revoked,
      overflowed, leaving} \subseteq BOOLEAN
  /\ steps \in 0 .. MaxSteps /\ calls \in 0 .. MaxCalls
  /\ seen \in [Actions -> 0 .. Threshold] /\ handlers \in [Actions -> Nat] 
  /\ recorded \in [Statuses -> 0 .. MaxCalls]
  /\ act \in Actions
  /\ reg \in {"none", "gates", "limited", "handler", "ok", "failure", "error"}
  /\ Len(queue) <= QueueSize

RunInit ==
  /\ at = "start" /\ result = "none" /\ row = "absent"
  /\ initialAck = FALSE /\ termAck = FALSE /\ committing = FALSE /\ storageBad = FALSE
  /\ steps = 0 /\ calls = 0 /\ seen = [a \in Actions |-> 0]
  /\ act = (CHOOSE a \in Actions : TRUE) /\ cites = FALSE /\ evidence = FALSE /\ expired = FALSE
  /\ reg = "none" /\ revoked = FALSE /\ handlers = [a \in Actions |-> 0] 
  /\ recorded = [s \in Statuses |-> 0]
  /\ queue = <<>> /\ heard = <<>> /\ overflowed = FALSE /\ leaving = FALSE

-----------------------------------------------------------------------------
(* AgentStreamSink._put: progress is dropped when the queue is full, and    *)
(* the loss is remembered; nothing is put for a client that has left.       *)
Put(e) == IF leaving THEN UNCHANGED <<queue, overflowed>>
          ELSE IF Len(queue) = QueueSize THEN overflowed' = TRUE /\ UNCHANGED queue
          ELSE queue' = Append(queue, e) /\ UNCHANGED overflowed
NoPut == UNCHANGED <<queue, overflowed>>

(* _finish: the outcome, on its way to the terminal storage phase.          *)
Outcome(status) == result' = status /\ at' = "terminal"

(* run: the permission check, then the initial storage phase.               *)
Begin ==
  /\ at = "start"
  /\ at' \in {"create", "erring"}
  /\ UNCHANGED <<storeVars, loopVars, toolVars, wireVars, expired, leaving>>

(* _persist_phase: the write, then the commit; a failure, a late answer and *)
(* an interruption of the commit leave it unknown whether it was applied.   *)
InitialWrite ==
  /\ at = "create"
  /\ \/ at' = "create_commit" /\ committing' = TRUE /\ UNCHANGED storageBad
     \/ at' = "erring" /\ storageBad' = TRUE /\ UNCHANGED committing
  /\ UNCHANGED <<row, initialAck, termAck, loopVars, toolVars, wireVars, expired, leaving>>
InitialCommit ==
  /\ at = "create_commit"
  /\ \/ /\ row' = "running" /\ initialAck' = TRUE /\ committing' = FALSE
        /\ at' = "deciding" /\ Put("started") /\ UNCHANGED storageBad
     \/ /\ row' \in {row, "running"} /\ storageBad' = TRUE
        /\ at' = "erring" /\ NoPut /\ UNCHANGED <<initialAck, committing>>
  /\ UNCHANGED <<termAck, loopVars, toolVars, heard, expired, leaving>>

-----------------------------------------------------------------------------
Deadline == /\ at \notin Ended
            /\ expired' = TRUE
            /\ UNCHANGED <<at, storeVars, loopVars, toolVars, wireVars, leaving>>

(* _decide: the step budget, the deadline, then the stepper.                *)
Decide ==
  /\ at = "deciding"
  /\ \/ /\ steps >= MaxSteps \/ expired
        /\ Outcome("stopped") /\ UNCHANGED <<steps, act, cites>>
     \/ /\ steps < MaxSteps /\ ~expired /\ steps' = steps + 1
        /\ \/ act' \in Actions /\ at' = "tool" /\ UNCHANGED cites
           \/ cites' \in BOOLEAN /\ at' = "validating" /\ UNCHANGED act
        /\ UNCHANGED result
     \/ /\ steps < MaxSteps /\ ~expired
        /\ Outcome("failed") /\ UNCHANGED <<steps, act, cites>>
  /\ UNCHANGED <<storeVars, calls, seen, evidence, toolVars, wireVars, expired, leaving>>

(* _execute_tool: the call budget, the deadline, the repeat guard.          *)
Repeated(a) == seen[a] + 1 >= Threshold
GuardTool ==
  /\ at = "tool"
  /\ CASE calls >= MaxCalls ->
            Outcome("stopped") /\ Put("result") /\ UNCHANGED <<calls, seen>>
       [] calls < MaxCalls /\ expired ->
            Outcome("stopped") /\ NoPut /\ UNCHANGED <<calls, seen>>
       [] OTHER ->
            /\ seen' = [seen EXCEPT ![act] = @ + 1]
            /\ IF Repeated(act)
               THEN Outcome("stopped") /\ Put("result") /\ UNCHANGED calls
               ELSE /\ calls' = calls + 1 /\ Put("call")
                    /\ at' = "dispatch" /\ UNCHANGED result
  /\ UNCHANGED <<storeVars, steps, act, cites, evidence, toolVars, heard, expired, leaving>>
Dispatch ==
  /\ at = "dispatch"
  /\ IF expired THEN Outcome("stopped") /\ UNCHANGED <<reg, revoked>>
     ELSE at' = "waiting" /\ reg' = "gates" /\ revoked' = FALSE /\ UNCHANGED result
  /\ UNCHANGED <<storeVars, steps, calls, seen, act, cites, evidence, handlers, recorded,
                 wireVars, expired, leaving>>

(* ToolRegistry.execute: registration, approval, input schema, permission;  *)
(* the rate limiter, which is awaited; the dispatch check; the handler and  *)
(* its output schema.  Every refusal and every end is a tool_calls row with *)
(* its status, and a recorder that fails is an error of the call.           *)
Record(status) == recorded' = [recorded EXCEPT ![status] = @ + 1]
Refused(status) == reg' = "error" /\ (Record(status) \/ UNCHANGED recorded)
RegistrationGate == Refused("denied") \/ Refused("failure")   \* unknown tool, malformed call
ApprovalGate == Refused("denied")
InputGate == Refused("failure")
PermissionGate == Refused("denied")
Gate ==
  /\ reg = "gates"
  /\ \/ reg' = "limited" /\ UNCHANGED recorded
     \/ RegistrationGate \/ ApprovalGate \/ InputGate \/ PermissionGate
  /\ UNCHANGED <<at, storeVars, loopVars, revoked, handlers, wireVars, expired, leaving>>
LimiterGate == Refused("denied")
NotRevocable == TRUE                                             \* seeded fault
MayDispatch == ~revoked
EnterHandler ==
  /\ reg = "limited"
  /\ \/ /\ MayDispatch
        /\ handlers' = [handlers EXCEPT ![act] = @ + 1]
        /\ reg' = "handler" /\ UNCHANGED recorded
     \/ LimiterGate /\ UNCHANGED handlers
     \/ ~MayDispatch /\ reg' = "error" /\ UNCHANGED <<handlers, recorded>>
  /\ UNCHANGED <<at, storeVars, loopVars, revoked, wireVars, expired, leaving>>
HandlerFails == Refused("failure")                               \* timeout or exception
OutputGate == Refused("failure")
HandlerReturns ==
  \/ reg' = "ok" /\ Record("success")
  \/ reg' = "failure" /\ Record("failure")
  \/ reg' = "error" /\ UNCHANGED recorded
HandlerEnds ==
  /\ reg = "handler"
  /\ HandlerFails \/ OutputGate \/ HandlerReturns
  /\ UNCHANGED <<at, storeVars, loopVars, revoked, handlers, wireVars, expired, leaving>>
Registry == Gate \/ EnterHandler \/ HandlerEnds

(* The result is observed, reported and judged; a search may bring evidence.*)
GathersEvidence == evidence' \in {evidence, TRUE}
Observe ==
  /\ at = "waiting" /\ reg \in {"ok", "failure", "error"}
  /\ revoked' = TRUE /\ reg' = "none" /\ Put("result")
  /\ IF reg = "ok" THEN /\ at' = "deciding" /\ UNCHANGED result
                        /\ GathersEvidence
                   ELSE Outcome("failed") /\ UNCHANGED evidence
  /\ UNCHANGED <<storeVars, steps, calls, seen, act, cites, handlers, recorded, heard, expired,
                 leaving>>

(* _await_with_timeout: the task is revoked and cancelled; before its       *)
(* handler it may suppress the cancellation and go on by itself.            *)
Abandon == /\ revoked' = TRUE
           /\ \/ reg' = "none" /\ UNCHANGED recorded
              \/ reg = "handler" /\ reg' = "none" /\ Record("failure")
              \/ reg \in {"gates", "limited"} /\ UNCHANGED <<reg, recorded>>
WaitTimesOut ==
  /\ at = "waiting" /\ expired
  /\ Abandon /\ Put("result") /\ Outcome("stopped")
  /\ UNCHANGED <<storeVars, steps, calls, seen, act, cites, evidence, handlers, heard, expired,
                 leaving>>

(* _validate_result: citations need a successful search behind them.        *)
Supported == cites => evidence
Accepted == ~expired /\ Supported
Validate ==
  /\ at = "validating"
  /\ \/ expired /\ Outcome("stopped")
     \/ Accepted /\ Outcome("completed")
     \/ Outcome("failed")
  /\ UNCHANGED <<storeVars, steps, calls, seen, act, cites, evidence, toolVars, wireVars, expired,
                 leaving>>

(* The runtime itself raises: _mark_failed_after_runtime_exception.         *)
RuntimeRaises ==
  /\ at \in {"deciding", "dispatch"}
  /\ Outcome("failed")
  /\ UNCHANGED <<storeVars, steps, calls, seen, act, cites, evidence, toolVars, wireVars, expired,
                 leaving>>

-----------------------------------------------------------------------------
(* The terminal storage phase, the reply, and the error that replaces it.   *)
RepliesFirst ==                                                  \* seeded fault
  /\ at = "terminal" /\ at' = "replying"
  /\ UNCHANGED <<storeVars, loopVars, toolVars, wireVars, expired, leaving>>
TerminalWrite ==
  /\ at = "terminal"
  /\ \/ at' = "term_commit" /\ committing' = TRUE /\ UNCHANGED storageBad
     \/ at' = "erring" /\ storageBad' = TRUE /\ UNCHANGED committing
  /\ UNCHANGED <<row, initialAck, termAck, loopVars, toolVars, wireVars, expired, leaving>>
TerminalCommit ==
  /\ at = "term_commit"
  /\ \/ /\ row' = result /\ termAck' = TRUE /\ committing' = FALSE
        /\ at' = "replying" /\ UNCHANGED storageBad
     \/ /\ row' \in {row, result} /\ storageBad' = TRUE
        /\ at' = "erring" /\ UNCHANGED <<termAck, committing>>
  /\ UNCHANGED <<initialAck, loopVars, toolVars, wireVars, expired, leaving>>

(* sink.finish and sink.fail wait for room; an overflow is never a final.   *)
FinalEvent == IF overflowed THEN "error" ELSE "final"
FinishRun(e) == /\ Len(queue) < QueueSize
                /\ queue' = Append(queue, e) /\ at' = "finished"
                /\ UNCHANGED <<storeVars, loopVars, toolVars, heard, overflowed, expired, leaving>>
Reply == at = "replying" /\ ~leaving /\ FinishRun(FinalEvent)
Fail == at = "erring" /\ ~leaving /\ FinishRun("error")

(* CancelledError: of the client, or of a provider that cancels itself.     *)
(* Cancellation is persisted only when the row is known to be running and   *)
(* no commit is in doubt.                                                   *)
MayPersistCancel == initialAck /\ ~committing
CommitInFlight == at \in {"create_commit", "term_commit"}
Interrupted ==
  /\ IF at = "waiting" THEN Abandon ELSE UNCHANGED <<reg, revoked, recorded>>
  /\ IF at # "erring" /\ ~termAck /\ MayPersistCancel
     THEN at' = "cancel_write" /\ UNCHANGED storageBad
     ELSE at' = "gone" /\ storageBad' = (storageBad \/ CommitInFlight)
  /\ IF CommitInFlight THEN row' \in {row, IF initialAck THEN result ELSE "running"}
                       ELSE UNCHANGED row
  /\ UNCHANGED <<initialAck, termAck, committing, loopVars, handlers, wireVars, expired, leaving>>
CancelHits ==
  leaving /\ at \notin Ended \cup {"cancel_write", "cancel_commit"} /\ Interrupted
SelfCancelled == ~leaving /\ at \in {"deciding", "waiting"} /\ Interrupted

(* _finish_cancellation: rollback and update, then the commit; a second     *)
(* cancellation does not interrupt it.                                      *)
AfterRunCancel == IF leaving THEN "gone" ELSE "erring"
CancelWrite ==
  /\ at = "cancel_write"
  /\ \/ at' = "cancel_commit" /\ committing' = TRUE /\ UNCHANGED storageBad
     \/ at' = AfterRunCancel /\ storageBad' = TRUE /\ UNCHANGED committing
  /\ UNCHANGED <<row, initialAck, termAck, loopVars, toolVars, wireVars, expired, leaving>>
CancelCommit ==
  /\ at = "cancel_commit"
  /\ \/ /\ row' = "stopped" /\ termAck' = TRUE /\ committing' = FALSE /\ UNCHANGED storageBad
     \/ row' \in {row, "stopped"} /\ storageBad' = TRUE /\ UNCHANGED <<termAck, committing>>
  /\ at' = AfterRunCancel
  /\ UNCHANGED <<initialAck, loopVars, toolVars, wireVars, expired, leaving>>

-----------------------------------------------------------------------------
(* The client: stream's loop hands it the next event, or it goes away,      *)
(* which closes the sink and cancels a run still going.                     *)
Received == heard # <<>> /\ heard[Len(heard)] \in {"final", "error"}
Deliver ==
  /\ ~leaving /\ queue # <<>>
  /\ heard' = Append(heard, Head(queue)) /\ queue' = Tail(queue)
  /\ UNCHANGED <<at, storeVars, loopVars, toolVars, overflowed, expired, leaving>>
Leave ==
  /\ ~leaving /\ ~Received
  /\ leaving' = TRUE /\ queue' = <<>>
  /\ UNCHANGED <<at, storeVars, loopVars, toolVars, heard, overflowed, expired>>

Step == \/ Begin \/ InitialWrite \/ InitialCommit \/ Decide \/ GuardTool \/ Dispatch \/ Observe
        \/ WaitTimesOut \/ Validate \/ RuntimeRaises \/ TerminalWrite \/ TerminalCommit
        \/ Reply \/ Fail \/ CancelHits \/ CancelWrite \/ CancelCommit

RunNext == Step \/ SelfCancelled \/ Registry \/ Deadline \/ Deliver \/ Leave
RunFair == WF_runVars(Step) /\ WF_runVars(Registry) /\ WF_runVars(Deliver)

-----------------------------------------------------------------------------
Started == MapThenSumSet(LAMBDA a : handlers[a], Actions)
GotFinal == heard # <<>> /\ heard[Len(heard)] = "final"

(* The client is told a result only after that result is committed: the     *)
(* final event reports the status of the row (stream, _persist_phase).      *)
FinalIsDurable == GotFinal => row = result /\ row \in Terminal

(* A terminal status is written once: no cancellation, late commit or error *)
(* path overwrites it, even when its acknowledgement was lost (run's        *)
(* handling of CancelledError).                                             *)
NoOverwrite == [][(row \in Terminal) => (row' = row)]_runVars

(* A run that is over is left "running" only if storage failed or a commit  *)
(* was interrupted (_finish_cancellation, _mark_failed_after_...).          *)
LeftRunning == at \in Ended /\ row = "running" => storageBad

(* A client that heard a final event heard every tool call that was announced:  *)
(* progress lost to a full queue is never a success (AgentStreamSink).      *)
LossNeverFinal == GotFinal => Cardinality({i \in DOMAIN heard : heard[i] = "call"}) = calls

(* No run starts more handlers than it has been charged calls, nor one      *)
(* action as often as the threshold (_execute_tool, RepeatedActionDetector).*)
WithinBudget == Started <= calls /\ \A a \in Actions : handlers[a] < Threshold

(* A handler starts only while the runtime waits for it: an execution that  *)
(* outlives its timeout or its client dispatches nothing (dispatch_state).  *)
NoLateHandler == [][handlers' # handlers => at = "waiting"]_runVars

(* The tool_calls rows of a completed run are one success per announced     *)
(* call and nothing else, and each had its handler (_record_tool_call): no  *)
(* call that was refused, failed or went unrecorded lets a run complete.    *)
CallsRecorded ==
  row = "completed" => /\ Started = calls
                       /\ recorded = [s \in Statuses |-> IF s = "success" THEN calls ELSE 0]

(* Every run comes to an end, whatever times out, fails or leaves.          *)
RunEnds == <>(at \in Ended)
=============================================================================
