------------------------------ MODULE MCServing ------------------------------
(***************************************************************************)
(* For TLC, each in behaviours of its own: the answer path with its        *)
(* ledger, the ledger alone with free calls and month ends, the fusion of  *)
(* two branches of results, and the packing of a context.                  *)
(***************************************************************************)
EXTENDS RagAnswer, RankFusion, ContextPacking
CONSTANTS r1, r2

VARIABLE focus      \* which part moves in this behaviour

MCKindsOf == (r1 :> Kinds) @@ (r2 :> {"chat"})

\* Branches of up to three results, two of them with repeats.
MCBranches ==
    {<<>>, <<1>>, <<2>>, <<1, 2>>, <<2, 1>>, <<1, 3>>, <<3, 2>>, <<1, 2, 3>>, <<2, 1, 3>>, <<1, 3, 2>>,
     <<1, 2, 1>>, <<3, 3>>}
MCWeights == <<1, 1>>

MCDocumentOf == <<1, 1, 1, 2>>
MCPlaceOf == <<2, 1, 3, 4>>
MCParentOf == <<0, 1, 1, 0>>
MCQuestions ==
    {[given |-> g, past |-> <<>>] : g \in {<<>>, <<1, 2>>, <<1, 1, 3>>, <<2, 3>>, <<1, 2, 4>>, <<1, 2, 3>>}}
    \cup {[given |-> <<1>>, past |-> h] : h \in {<<2, 1, 2>>, <<1, 1, 3, 1>>}}

vars == <<answerVars, fusionVars, packVars, focus>>

\* The parts that do not move need no choice of kinds.
Init == /\ focus \in {"answers", "ledger", "fusion", "pack"}
        /\ AnswerInit /\ FusionInit /\ PackInit
        /\ focus # "answers" => \A r \in Requests : kind[r] = "chat"

Next == /\ UNCHANGED focus
        /\ \/ focus = "answers" /\ AnswerNext /\ UNCHANGED <<fusionVars, packVars>>
           \/ focus = "ledger" /\ CostNext /\ UNCHANGED <<reqVars, memVars, fusionVars, packVars>>
           \/ focus = "fusion" /\ FusionNext /\ UNCHANGED <<answerVars, packVars>>
           \/ focus = "pack" /\ PackNext /\ UNCHANGED <<answerVars, fusionVars>>

Spec == Init /\ [][Next]_vars
    /\ \A r \in Requests : WF_vars(focus = "answers" /\ Advance(r) /\ UNCHANGED <<fusionVars, packVars, focus>>)

(* RequestsEnd in the behaviours in which requests move.                    *)
AnswersEnd == focus = "answers" => RequestsEnd
=============================================================================
