---------------------------- MODULE EvalEvidence ----------------------------
(***************************************************************************)
(* Judged evaluations and the evidence API that shows them:                *)
(* src/evaluation/evaluate.py, src/packages/eval/ragas_evaluator.py and    *)
(* src/packages/eval/service.py.  Evaluation commands judge the cases of a *)
(* dataset one after the other, from answers captured before or from the   *)
(* live API, and write a report named after the second they started in.    *)
(* The report directory is shared with the API process, which reads it     *)
(* file by file while other processes write to it.                         *)
(*                                                                         *)
(* A judge's marks are a constant set of metric tuples; a mark is a score  *)
(* or MarkFailed.  Texts, latencies and the rest of a report's numbers are *)
(* left out.                                                               *)
(***************************************************************************)
EXTENDS Integers, Sequences, FiniteSets, SequencesExt

CONSTANTS
    Judges,      \* evaluation commands
    Datasets,    \* datasets: a sequence of [question, reference] each
    Marks,       \* what judging an answer may give: a sequence, one per metric
    Threshold,   \* pass_threshold, in units of a score
    Foreign,     \* reports of the other runners that may appear in the directory
    Requests,    \* requests to the evidence API
    ListLimit,   \* the limit of list_reports
    MaxSecond    \* bound: the clock, in seconds

ASSUME EvidenceAssumption ==
    ListLimit \in Nat \ {0} /\ MaxSecond \in Nat /\ Threshold \in Nat

MarkFailed == -1

VARIABLES
    second,    \* the clock
    judged,    \* judge |-> the state of its command
    reports,   \* file |-> what is in it
    evidence,     \* request |-> its state
    evidenceLog \* request |-> the audit records it made

evidenceVars == <<second, judged, reports, evidence, evidenceLog>>

Other == -1                          \* the file of another runner
ReportFiles == {Other} \cup (0..MaxSecond)
NoReportFile == [kind |-> "none"]
Partial == [kind |-> "partial"]
NoJudge == [stage |-> "idle"]
NotAsked == [stage |-> "idle"]

EvidenceInit ==
    /\ second = 0
    /\ judged = [j \in Judges |-> NoJudge]
    /\ reports = [f \in ReportFiles |-> NoReportFile]
    /\ evidence = [q \in Requests |-> NotAsked]
    /\ evidenceLog = [q \in Requests |-> <<>>]

-----------------------------------------------------------------------------
(* An evaluation command. *)

\* main refuses a dataset with a case that has no reference answer.
Unreferenced(cases) == \E c \in DOMAIN cases : ~cases[c].reference

StartJudging(j) ==
    /\ judged[j] = NoJudge
    /\ \E cases \in Datasets, captured \in BOOLEAN :
          judged' = [judged EXCEPT ![j] =
             IF Unreferenced(cases) THEN [stage |-> "refused"]
             ELSE [stage |-> "judging", id |-> second, cases |-> cases, captured |-> captured,
                   cursor |-> 1, results |-> <<>>]]
    /\ UNCHANGED <<second, reports, evidence, evidenceLog>>

NotJudged(stage) == [passed |-> FALSE, stage |-> stage, marks |-> <<>>]

TotalOf(marks) == FoldSeq(LAMBDA m, acc : acc + (IF m = MarkFailed THEN 0 ELSE m), 0, marks)

\* seeded fault
AverageAlone(marks) ==
    [passed |-> TotalOf(marks) >= Threshold * Len(marks), stage |-> "none", marks |-> marks]

\* A metric that failed, timed out or is not finite scores 0 and fails the case.
CaseResult(marks) ==
    LET broken == \E i \in DOMAIN marks : marks[i] = MarkFailed
    IN  [passed |-> ~broken /\ TotalOf(marks) >= Threshold * Len(marks),
         stage |-> IF broken THEN "runner" ELSE "none", marks |-> marks]

\* run_case: captured answers are handed out in dataset order, and the
\* cursor moves before the question is compared.
Handed(J, case) ==
    J.captured /\ J.cursor <= Len(J.cases) /\ J.cases[J.cursor].question = case.question

\* One case of evaluate.
JudgeCase(j) ==
    LET J == judged[j]
        case == J.cases[Len(J.results) + 1]
        moved == IF J.captured THEN J.cursor + 1 ELSE J.cursor
        Record(r, cursor) ==
            judged' = [judged EXCEPT ![j].results = Append(@, r), ![j].cursor = cursor]
    IN  /\ J.stage = "judging" /\ Len(J.results) < Len(J.cases)
        /\ \/ ~case.reference /\ Record(NotJudged("dataset"), J.cursor)
           \/ /\ case.reference /\ ~Handed(J, case)
              /\ Record(NotJudged("generation"), moved)
           \/ /\ case.reference /\ (Handed(J, case) \/ ~J.captured)
              /\ \E marks \in Marks : Record(CaseResult(marks), moved)
        /\ UNCHANGED <<second, reports, evidence, evidenceLog>>

\* RagasConfigurationError leaves evaluate without a report.
JudgeAborts(j) ==
    /\ judged[j].stage = "judging"
    /\ judged' = [judged EXCEPT ![j] = [stage |-> "refused"]]
    /\ UNCHANGED <<second, reports, evidence, evidenceLog>>

Passed(results) == Cardinality({c \in DOMAIN results : results[c].passed})

\* EvalReport, as to_evidence_report writes it.
to_evidence_report(J, at) ==
    [kind |-> "quality", at |-> at, count |-> Len(J.cases), passed |-> Passed(J.results),
     failed |-> Len(J.results) - Passed(J.results),
     cases |-> [c \in DOMAIN J.results |-> J.results[c].passed]]

\* write_text truncates the file before it fills it.
OpenReport(j) ==
    LET J == judged[j]
    IN  /\ J.stage = "judging" /\ Len(J.results) = Len(J.cases)
        /\ judged' = [judged EXCEPT ![j] = [stage |-> "writing", id |-> J.id,
                        report |-> to_evidence_report(J, second), results |-> J.results,
                        captured |-> J.captured]]
        /\ reports' = [reports EXCEPT ![J.id] = Partial]
        /\ UNCHANGED <<second, evidence, evidenceLog>>

FillReport(j) ==
    /\ judged[j].stage = "writing"
    /\ reports' = [reports EXCEPT ![judged[j].id] = judged[j].report]
    /\ judged' = [judged EXCEPT ![j].stage = "written"]
    /\ UNCHANGED <<second, evidence, evidenceLog>>

\* The other runners and whoever keeps the directory.
ChangeOther ==
    /\ \E c \in Foreign \cup {NoReportFile} : reports' = [reports EXCEPT ![Other] = c]
    /\ UNCHANGED <<second, judged, evidence, evidenceLog>>

Second ==
    /\ second < MaxSecond
    /\ second' = second + 1
    /\ UNCHANGED <<judged, reports, evidence, evidenceLog>>
-----------------------------------------------------------------------------
(* Reading a report. *)

\* _load_payload and the required integers of _quality_summary.  Bytes that
\* are not UTF-8 raise an error that no handler expects.
LoadOutcome(content) ==
    CASE content.kind = "none"                  -> "not_found"
      [] content.kind \in {"partial", "illtyped"} -> "parse_failed"
      [] content.kind = "binary"                -> "raises"
      [] OTHER                                  -> "loaded"

Decision(content) ==
    CASE content.kind = "dataset" -> "dataset"
      [] content.kind = "quality" -> IF content.failed = 0 THEN "passed" ELSE "failed"
      [] content.kind = "gate"    -> IF content.decided THEN "passed" ELSE "failed"
      [] OTHER                    -> "unsupported"

\* generated_at; a report without a readable one sorts last.
GeneratedAt(content) == IF "at" \in DOMAIN content THEN content.at ELSE -1

summary_from_payload(f, content) ==
    [file |-> f, at |-> GeneratedAt(content), type |-> content.kind, decision |-> Decision(content)]

\* _resolve_payload: the failed cases of a quality report, the ids a gate names.
FailedCases(content) ==
    CASE content.kind = "quality" -> {c \in DOMAIN content.cases : ~content.cases[c]}
      [] content.kind = "gate"    -> content.failing
      [] OTHER                    -> {}

-----------------------------------------------------------------------------
(* The API.  _record_audit runs before the answer or the error leaves, and *)
(* when it raises, its error is what leaves.                               *)

Finishes(q, over, record) ==
    \/ /\ evidence' = [evidence EXCEPT ![q] = over]
       /\ evidenceLog' = [evidenceLog EXCEPT ![q] = Append(@, record)]
    \/ /\ evidence' = [evidence EXCEPT ![q] = [stage |-> "over", how |-> "broken"]]
       /\ UNCHANGED evidenceLog

RefusedFor(code) == [stage |-> "over", how |-> "refused", code |-> code]
AuditEntry(status, items) == [status |-> status, items |-> items]

RefuseWith(q, code) ==
    Finishes(q, RefusedFor(code), AuditEntry(IF code = "forbidden" THEN "denied" ELSE "failure", 0))

Bursts(q) ==
    /\ evidence' = [evidence EXCEPT ![q] = [stage |-> "over", how |-> "broken"]]
    /\ UNCHANGED evidenceLog

\* list_reports up to the candidates.
StartList(q) ==
    /\ evidence[q] = NotAsked
    /\ \/ \E code \in {"forbidden", "storage"} : RefuseWith(q, code)
       \/ /\ evidence' = [evidence EXCEPT ![q] =
                [stage |-> "listing", left |-> {f \in ReportFiles : reports[f] # NoReportFile}, found |-> {}]]
          /\ UNCHANGED evidenceLog
    /\ UNCHANGED <<second, judged, reports>>

\* One candidate: skipped when it cannot be read or shown.
ReadCandidate(q) ==
    /\ evidence[q].stage = "listing"
    /\ \E f \in evidence[q].left :
          \/ /\ LoadOutcome(reports[f]) = "raises"
             /\ Bursts(q)
          \/ /\ LoadOutcome(reports[f]) # "raises"
             /\ \E readable \in BOOLEAN :
                   evidence' = [evidence EXCEPT
                      ![q].left = @ \ {f},
                      ![q].found = IF readable /\ LoadOutcome(reports[f]) = "loaded"
                                   THEN @ \cup {summary_from_payload(f, reports[f])} ELSE @]
             /\ UNCHANGED evidenceLog
    /\ UNCHANGED <<second, judged, reports>>

\* The newest first, cut at the limit; equal times are in directory order.
Listings(found) ==
    {S \in SUBSET found :
        /\ Cardinality(S) = IF Cardinality(found) < ListLimit THEN Cardinality(found) ELSE ListLimit
        /\ \A s \in S, r \in found \ S : s.at >= r.at}

list_reports(q) ==
    /\ evidence[q].stage = "listing" /\ evidence[q].left = {}
    /\ \E S \in Listings(evidence[q].found) :
          Finishes(q, [stage |-> "over", how |-> "list", items |-> S, found |-> evidence[q].found],
               AuditEntry("success", Cardinality(S)))
    /\ UNCHANGED <<second, judged, reports>>

\* resolve_report: every outcome is audited, then raised or returned.
resolve_report(q, f) ==
    /\ evidence[q] = NotAsked
    /\ \/ \E code \in {"forbidden", "invalid_filename", "storage"} : RefuseWith(q, code)
       \/ LoadOutcome(reports[f]) \in {"not_found", "parse_failed"} /\ RefuseWith(q, LoadOutcome(reports[f]))
       \/ LoadOutcome(reports[f]) = "raises" /\ Bursts(q)
       \/ /\ LoadOutcome(reports[f]) = "loaded"
          /\ Finishes(q, [stage |-> "over", how |-> "report", summary |-> summary_from_payload(f, reports[f]),
                      failing |-> FailedCases(reports[f])],
                  AuditEntry("success", Cardinality(FailedCases(reports[f]))))
    /\ UNCHANGED <<second, judged, reports>>

EvidenceNext ==
    \/ \E j \in Judges : \/ StartJudging(j) \/ JudgeCase(j) \/ JudgeAborts(j)
                         \/ OpenReport(j) \/ FillReport(j)
    \/ ChangeOther
    \/ Second
    \/ \E q \in Requests : \/ StartList(q) \/ ReadCandidate(q) \/ list_reports(q)
                           \/ \E f \in ReportFiles : resolve_report(q, f)

EvidenceSpec == EvidenceInit /\ [][EvidenceNext]_evidenceVars

-----------------------------------------------------------------------------
\* Every command and request is at a place of its function, results never
\* outnumber cases, and a list is no longer than its limit.
EvidenceTypeOK ==
    /\ second \in 0..MaxSecond
    /\ \A j \in Judges :
          /\ judged[j].stage \in {"idle", "judging", "refused", "writing", "written"}
          /\ judged[j].stage = "judging" => Len(judged[j].results) <= Len(judged[j].cases)
    /\ \A q \in Requests :
          /\ evidence[q].stage \in {"idle", "listing", "over"}
          /\ Len(evidenceLog[q]) <= 1
          /\ (evidence[q].stage = "over" /\ evidence[q].how = "list") => Cardinality(evidence[q].items) <= ListLimit

\* An answer or an evidence error leaves the API only with its audit record,
\* whose status and item count are those of what left (_record_audit).
AuditMatchesAnswer ==
    \A q \in Requests : (evidence[q].stage = "over" /\ evidence[q].how # "broken") =>
        /\ Len(evidenceLog[q]) = 1
        /\ evidenceLog[q][1] =
              CASE evidence[q].how = "list"    -> AuditEntry("success", Cardinality(evidence[q].items))
                [] evidence[q].how = "report"  -> AuditEntry("success", Cardinality(evidence[q].failing))
                [] evidence[q].how = "refused" -> AuditEntry(IF evidence[q].code = "forbidden" THEN "denied" ELSE "failure", 0)

\* A list is of the newest reports the request could read: nothing older is
\* shown while something newer it had read is cut (list_reports).
NewestShown ==
    \A q \in Requests : (evidence[q].stage = "over" /\ evidence[q].how = "list") =>
        /\ \A s \in evidence[q].items, r \in evidence[q].found \ evidence[q].items : r.at <= s.at
        /\ evidence[q].found # evidence[q].items => Cardinality(evidence[q].items) = ListLimit

ShownBy(q) ==
    CASE evidence[q].stage = "over" /\ evidence[q].how = "list"   -> evidence[q].items
      [] evidence[q].stage = "over" /\ evidence[q].how = "report" -> {evidence[q].summary}
      [] OTHER                                              -> {}

\* Nothing half-written is ever shown: a quality report on the page is one
\* that some command finished, and it has a type that a runner writes
\* (_load_payload refuses what does not parse).
NothingHalfWritten ==
    \A q \in Requests : \A s \in ShownBy(q) :
        IF s.file = Other THEN \E c \in Foreign : s.type = c.kind
        ELSE \E j \in Judges : judged[j].stage = "written" /\ judged[j].id = s.file /\ judged[j].report.at = s.at

\* From the judge to the page: a report the API shows as passed was written
\* by a command all of whose cases passed with every metric measured, and it
\* lists no failed case; one shown as failed lists one (evaluate,
\* to_evidence_report, _quality_summary, _resolve_payload).
VerdictAgrees ==
    /\ \A q \in Requests : (evidence[q].stage = "over" /\ evidence[q].how = "report") =>
          (evidence[q].summary.type = "quality" =>
              (evidence[q].summary.decision = "passed") = (evidence[q].failing = {}))
    /\ \A j \in Judges : judged[j].stage = "written" =>
          (Decision(judged[j].report) = "passed" =>
              \A c \in DOMAIN judged[j].results :
                 LET marks == judged[j].results[c].marks
                 IN  marks # <<>> /\ \A i \in DOMAIN marks : marks[i] # MarkFailed)

\* A captured answer is never lost to the cursor: judged from captures, no
\* case is reported as a failed generation ("RagasEvaluator invokes run_fn
\* once per case in dataset order", run_case).
CapturesMatched ==
    \A j \in Judges : (judged[j].stage = "writing" /\ judged[j].captured) =>
        \A c \in DOMAIN judged[j].results : judged[j].results[c].stage # "generation"
=============================================================================
