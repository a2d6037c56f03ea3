----------------------------- MODULE MCOperations -----------------------------
(***************************************************************************)
(* Limits, operators and evaluation, for TLC: each part in behaviours of   *)
(* its own, the others at rest.  The callers that open a ticket are        *)
(* interchangeable.                                                        *)
(***************************************************************************)
EXTENDS RateLimits, ServiceTokens, SupportTickets, ReviewQueue, QueueControl,
        EvalEvidence, UpgradePreflight
CONSTANTS actor1, actor2, actor3

VARIABLE focus      \* the part that moves in this behaviour

AnyActor == Permutations({actor1, actor2, actor3})

-----------------------------------------------------------------------------
MCLimiters == <<"path", "general">>
MCMaxRequests == <<1, 2>>

\* Up to three, two and two deliveries in the registries an operator walks.
MCShelvings == {<<SubSeq(<<1, 2, 3>>, 1, i), SubSeq(<<4, 5>>, 1, j), SubSeq(<<6, 7>>, 1, k)>> :
                    i \in 0..3, j \in 0..2, k \in 0..2}

-----------------------------------------------------------------------------
Question(q, r) == [question |-> q, reference |-> r]
MCDatasets == {<<Question("a", TRUE), Question("b", TRUE)>>, <<Question("a", FALSE), Question("b", TRUE)>>}
MCMarks == {<<2, 2>>, <<2, MarkFailed>>}
MCForeign == {[kind |-> "gate", at |-> 1, decided |-> FALSE, failing |-> {1}],
              [kind |-> "unknown"], [kind |-> "illtyped", at |-> 2], [kind |-> "binary"],
              [kind |-> "dataset", at |-> 0]}

MCQueueOf == [t \in Tasks |-> 1]
Sound == [valid |-> TRUE, rev |-> 3, bad |-> "none", vectors |-> "fine", audit |-> "same", auditFiltered |-> FALSE]
MCSetups == {Sound, [Sound EXCEPT !.audit = "none", !.vectors = "wide"],
             [Sound EXCEPT !.audit = "other", !.rev = 2, !.vectors = "invalid"]}

-----------------------------------------------------------------------------
OperationsInit ==
    /\ focus \in {"limits", "tokens", "tickets", "reviews", "queues", "evidence",
                  "upgrade"}
    /\ RateInit /\ TokenInit /\ TicketInit /\ ReviewInit /\ ControlInit
    /\ EvidenceInit /\ PreflightInit

OperationsNext ==
    /\ UNCHANGED focus
    /\ IF focus = "limits" THEN RateNext ELSE UNCHANGED rateVars
    /\ IF focus = "tokens" THEN TokenNext ELSE UNCHANGED tokenVars
    /\ IF focus = "tickets" THEN TicketNext ELSE UNCHANGED ticketVars
    /\ IF focus = "reviews" THEN ReviewNext ELSE UNCHANGED reviewVars
    /\ IF focus = "queues" THEN ControlNext ELSE UNCHANGED controlVars
    /\ IF focus = "evidence" THEN EvidenceNext ELSE UNCHANGED evidenceVars
    /\ IF focus = "upgrade" THEN PreflightNext ELSE UNCHANGED preflightVars

OperationsSpec ==
    OperationsInit
    /\ [][OperationsNext]_<<rateVars, tokenVars, ticketVars, reviewVars, controlVars,
                            evidenceVars, preflightVars, focus>>
===============================================================================
