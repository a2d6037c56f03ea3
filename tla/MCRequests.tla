----------------------------- MODULE MCRequests -----------------------------
(***************************************************************************)
(* Two kinds of work behind a request, each in behaviours of its own: an   *)
(* agent run streamed to a client, and retrievals sharing cache and tasks. *)
(***************************************************************************)
EXTENDS AgentRun, RetrievalFlow
CONSTANTS x, y

VARIABLE focus      \* which part moves in this behaviour

(* y's retrieval is the same as x's, differs in identity only, or also in   *)
(* its cache key.                                                           *)
MCGroupings == {[c \in {x, y} |-> IF c = x THEN 1 ELSE i] : i \in {1, 2, 3}}
MCKeyOf == <<1, 1, 2>>

vars == <<runVars, flowVars, focus>>

Init == /\ focus \in {"run", "flow"} /\ RunInit /\ FlowInit
        /\ focus = "run" => ident[y] = 1      \* one initial state of the part at rest

OfRun(A) == focus = "run" /\ A /\ UNCHANGED <<flowVars, focus>>
OfFlow(A) == focus = "flow" /\ A /\ UNCHANGED <<runVars, focus>>

Next == OfRun(RunNext) \/ OfFlow(FlowNext)

Spec == /\ Init /\ [][Next]_vars
        /\ WF_vars(OfRun(Step)) /\ WF_vars(OfRun(Registry)) /\ WF_vars(OfRun(Deliver))
        /\ \A i \in Idents : WF_vars(OfFlow(TaskStep(i)))
        /\ \A c \in Callers : WF_vars(OfFlow(CallStep(c)))

(* RunEnds and CallsEnd, each where its part moves.                         *)
EveryRunEnds == focus = "run" => RunEnds
EveryCallEnds == focus = "flow" => CallsEnd
=============================================================================
