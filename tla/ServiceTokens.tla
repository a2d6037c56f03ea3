--------------------------- MODULE ServiceTokens ---------------------------
(***************************************************************************)
(* The OpenAI-compatible adapter (packages/rag/service_token.py) and its   *)
(* tool bridge (packages/agent/service_token_bridge.py): one request, with *)
(* or without declared tools, streamed or not.  A declared tool that the   *)
(* request selects is executed in place of the chat, under an agent run of *)
(* its own; without one the chat service answers, as RagAnswer models it.  *)
(* The caller may be cancelled at every await and, when it streams, at     *)
(* every frame.                                                            *)
(***************************************************************************)
EXTENDS Naturals, Sequences, SequencesExt

CONSTANTS
    ToolNames,    \* tools a request may declare
    Registered    \* the ones the registry has

ASSUME TokenAssumption == Registered \subseteq ToolNames

VARIABLES
    request,      \* the posted body and the caller's permission
    stage,        \* where the call is
    chosen,       \* the tool the bridge chose
    handler,      \* the tool's handler: "none", "entered"
    run,          \* status of the committed agent run row
    execution,    \* what the tool answered, "none" before
    verdict,      \* the audit status the call would record now
    frames,       \* what was sent: stream frames, or the one answer
    audit         \* adapter audits: attempts, and the statuses recorded

tokenVars == <<request, stage, chosen, handler, run, execution, verdict, frames, audit>>

Modes == {"auto", "required", "none"}

NoRequest == [stream |-> FALSE, tools |-> <<>>, functions |-> <<>>, choice |-> "auto",
              permitted |-> FALSE]

Declarations == {<<>>} \cup {<<t>> : t \in ToolNames} \cup {<<t, u>> : t, u \in ToolNames}

\* Every call is at a place of the adapter or the bridge, and sends at most
\* the call, result and final frames and the terminal marker.
TokenTypeOK ==
    /\ stage \in {"idle", "select", "create", "tool", "refuse", "settle", "bridged", "chat",
                  "raised", "audit", "unwind", "done", "closed"}
    /\ chosen \in ToolNames \cup {"none"}
    /\ handler \in {"none", "entered"} /\ execution \in {"none", "success", "error"}
    /\ run \in {"none", "running", "stopped", "completed", "failed"}
    /\ verdict \in {"SUCCESS", "FAILURE", "DENIED"}
    /\ Len(frames) <= 5
    /\ audit.tried \in 0..1 /\ audit.kept \subseteq {"SUCCESS", "FAILURE", "DENIED"}

TokenInit ==
    /\ request = NoRequest
    /\ stage = "idle"
    /\ chosen = "none" /\ handler = "none" /\ run = "none"
    /\ execution = "none" /\ verdict = "SUCCESS"
    /\ frames = <<>>
    /\ audit = [tried |-> 0, kept |-> {}]

\* Not both forms of declaration, and no tool declared twice.
Candidates(r) == r.tools \o r.functions
ValidCandidates(r) ==
    /\ r.tools = <<>> \/ r.functions = <<>>
    /\ IsInjective(Candidates(r))

\* A mode, or the name of a declared tool.
ValidChoice(r) == r.choice \in Modes \cup ToSet(Candidates(r))

\* A body that fails validation is answered 422 before the adapter is called.
Post ==
    /\ stage = "idle"
    /\ \E stream, permitted \in BOOLEAN, tools, functions \in Declarations,
          choice \in Modes \cup ToolNames :
        /\ Len(tools) + Len(functions) <= 2
        /\ request' = [stream |-> stream, tools |-> tools, functions |-> functions,
                       choice |-> choice, permitted |-> permitted]
    /\ stage' = IF ValidCandidates(request') /\ ValidChoice(request') THEN "select" ELSE "closed"
    /\ UNCHANGED <<chosen, handler, run, execution, verdict, frames, audit>>

Raise(status) == stage' = "raised" /\ verdict' = status

\* _select_tool_name: the named tool, or the only one declared.
SelectToolName(r) ==
    IF r.choice \in ToolNames THEN r.choice
    ELSE IF Len(Candidates(r)) = 1 THEN Candidates(r)[1] ELSE "none"

\* The caller may run agents and the registry has the tool.
Forbidden(name) == ~request.permitted \/ name \notin Registered

\* _execute_tool_bridge_if_needed and the checks execute makes before it
\* creates a run; both refusals leave a bridge audit behind and are 403s.
SelectTool ==
    /\ stage = "select"
    /\ IF Candidates(request) = <<>> \/ request.choice = "none"
       THEN stage' = "chat" /\ UNCHANGED <<chosen, verdict>>
       ELSE LET name == SelectToolName(request)
            IN IF name = "none" THEN Raise("FAILURE") /\ UNCHANGED chosen
               ELSE IF Forbidden(name)
               THEN Raise("DENIED") /\ UNCHANGED chosen
               ELSE stage' = "create" /\ chosen' = name /\ UNCHANGED verdict
    /\ UNCHANGED <<request, handler, run, execution, frames, audit>>

CreateRun ==
    /\ stage = "create"
    /\ \/ run' = "running" /\ stage' = "tool" /\ UNCHANGED verdict
       \/ Raise("FAILURE") /\ UNCHANGED run
    /\ UNCHANGED <<request, chosen, handler, execution, frames, audit>>

\* _build_execution: an error code in the tool's result is an error.
ToolAnswers == {"success", "error"}

\* The registry refuses, the handler answers (with a success or an error of
\* its own), or its call record cannot be written after it answered.
ExecuteTool ==
    /\ stage = "tool"
    /\ \/ stage' = "refuse" /\ UNCHANGED <<handler, execution>>
       \/ stage' = "refuse" /\ handler' = "entered" /\ UNCHANGED execution
       \/ stage' = "settle" /\ handler' = "entered" /\ execution' \in ToolAnswers
    /\ UNCHANGED <<request, chosen, run, verdict, frames, audit>>

\* AgentToolError: the run is stopped, committed and audited, and the error
\* becomes a 403. A storage failure rolls back and leaves the run as it was.
Refuse ==
    /\ stage = "refuse"
    /\ \/ run' = "stopped" /\ Raise("DENIED")
       \/ Raise("FAILURE") /\ UNCHANGED run
    /\ UNCHANGED <<request, chosen, handler, execution, frames, audit>>

Leaves == UNCHANGED run   \* seeded fault
Updated == run' = IF execution = "success" THEN "completed" ELSE "failed"

\* The run's outcome is committed and audited before anything is returned.
Settle ==
    /\ stage = "settle"
    /\ \/ Updated /\ stage' = "bridged" /\ UNCHANGED verdict
       \/ Raise("FAILURE") /\ UNCHANGED run
    /\ UNCHANGED <<request, chosen, handler, execution, frames, audit>>

SendFrame(frame) == frames' = Append(frames, frame)

BridgeFrames == <<"tool_call", "tool_result",
                  IF execution = "success" THEN "final" ELSE "final_error">>

BridgeVerdict == verdict' = IF execution = "success" THEN "SUCCESS" ELSE "FAILURE"

\* The one completion of a bridged call.
PlainBridged ==
    /\ stage = "bridged" /\ ~request.stream
    /\ SendFrame(BridgeFrames[3]) /\ BridgeVerdict /\ stage' = "audit"
    /\ UNCHANGED <<request, chosen, handler, run, execution, audit>>

\* The tool's call, result and final frames. The stream takes over the tool's
\* status only when it resumes after the final frame.
StreamBridged ==
    /\ stage = "bridged" /\ request.stream
    /\ IF Len(frames) < 3 THEN SendFrame(BridgeFrames[Len(frames) + 1]) /\ UNCHANGED <<verdict, stage>>
       ELSE BridgeVerdict /\ stage' = "audit" /\ UNCHANGED frames
    /\ UNCHANGED <<request, chosen, handler, run, execution, audit>>

\* The plain chat returns its answer or raises.
PlainChat ==
    /\ stage = "chat" /\ ~request.stream
    /\ \/ SendFrame("final") /\ stage' = "audit" /\ UNCHANGED verdict
       \/ (\E s \in {"FAILURE", "DENIED"} : Raise(s)) /\ UNCHANGED frames
    /\ UNCHANGED <<request, chosen, handler, run, execution, audit>>

\* The chat service's events pass through: tokens, then one final event,
\* preceded by an error event when its status is error; or it raises.
StreamChat ==
    /\ stage = "chat" /\ request.stream
    /\ \/ /\ frames = <<>>
          /\ SendFrame("token") /\ UNCHANGED <<stage, verdict>>
       \/ /\ "error" \notin ToSet(frames)
          /\ SendFrame("error") /\ UNCHANGED <<stage, verdict>>
       \/ /\ "error" \notin ToSet(frames)
          /\ SendFrame("final") /\ stage' = "audit" /\ UNCHANGED verdict
       \/ /\ "error" \in ToSet(frames)
          /\ SendFrame("final_error") /\ stage' = "audit" /\ verdict' = "FAILURE"
       \/ /\ "error" \notin ToSet(frames)
          /\ (\E s \in {"FAILURE", "DENIED"} : Raise(s)) /\ UNCHANGED frames
    /\ UNCHANGED <<request, chosen, handler, run, execution, audit>>

\* A DomainError or any other Exception: an error chunk when streaming.
Caught ==
    /\ stage = "raised"
    /\ SendFrame(IF request.stream THEN "error_chunk" ELSE "error")
    /\ stage' = "audit"
    /\ UNCHANGED <<request, chosen, handler, run, execution, verdict, audit>>

\* The audit is tried once; a failure of it is logged and swallowed.
Record(kept) == audit' = [tried |-> audit.tried + 1, kept |-> kept]

RecordCall ==
    /\ stage \in {"audit", "unwind"}
    /\ \E kept \in {{}, {verdict}} : Record(kept)
    /\ stage' = IF stage = "audit" /\ request.stream THEN "done" ELSE "closed"
    /\ UNCHANGED <<request, chosen, handler, run, execution, verdict, frames>>

\* The terminal marker of a stream that was not unwound.
Done ==
    /\ stage = "done"
    /\ SendFrame("[DONE]") /\ stage' = "closed"
    /\ UNCHANGED <<request, chosen, handler, run, execution, verdict, audit>>

\* Cancellation is no Exception: a stream's finally still audits, a plain
\* call ends with no answer. The run's row stays as last committed.
Unwound == stage' = IF request.stream /\ audit.tried = 0 THEN "unwind" ELSE "closed"

LeaveStream ==
    /\ stage \notin {"idle", "closed", "unwind"}
    /\ Unwound
    /\ frames' = IF request.stream THEN frames ELSE <<>>
    /\ UNCHANGED <<request, chosen, handler, run, execution, verdict, audit>>

TokenNext ==
    \/ Post \/ SelectTool \/ CreateRun \/ ExecuteTool \/ Refuse \/ Settle
    \/ PlainBridged \/ StreamBridged \/ PlainChat \/ StreamChat
    \/ Caught \/ RecordCall \/ Done \/ LeaveStream

-----------------------------------------------------------------------------
\* A handler runs only for a caller that may run agents, for a registered
\* tool the request itself declared and either named or declared alone, and
\* never before the run that accounts for it is committed (execute's order).
BridgeGuarded ==
    handler = "entered" =>
        /\ request.permitted /\ chosen \in Registered
        /\ chosen \in ToSet(Candidates(request))
        /\ request.choice = chosen \/ Len(Candidates(request)) = 1
        /\ run # "none"

\* [DONE] marks a complete stream: the frame before it is the only terminal
\* one, the audit was tried before, and what it kept agrees with that frame
\* ("A terminal marker is for normal completion only").
DoneIsComplete ==
    "[DONE]" \in ToSet(frames) =>
        LET n == Len(frames)
            terminal == {"final", "final_error", "error_chunk"}
        IN /\ frames[n] = "[DONE]" /\ frames[n-1] \in terminal
           /\ \A i \in 1..(n-2) : frames[i] \notin terminal
           /\ audit.tried = 1
           /\ \A s \in audit.kept : (s = "SUCCESS") = (frames[n-1] = "final")

\* Every stream that reached the adapter is audited once when it closes, and
\* so is every plain call that was not cancelled (finally, _record_audit).
AuditedOnce ==
    stage = "closed" /\ ValidCandidates(request) /\ ValidChoice(request)
                     /\ (request.stream \/ frames # <<>>)
        => audit.tried = 1

\* A success shown to the client of a bridged call is a completed run, an
\* error shown of a tool that answered is a failed one: nothing is returned
\* before the outcome is committed.
RunMatchesAnswer ==
    chosen # "none" =>
        /\ "final" \in ToSet(frames) => run = "completed"
        /\ "final_error" \in ToSet(frames) => run = "failed"
        /\ "tool_result" \in ToSet(frames) => run # "running"
=============================================================================
