-------------------------- MODULE DomainEvaluation --------------------------
(***************************************************************************)
(* The frozen-domain regression gate, src/packages/eval/domain_dataset.py, *)
(* domain_runner.py and domain_cli.py.  Several command line runs share a  *)
(* dataset directory and a report file with an operator who edits the      *)
(* inputs and adopts reports as the baseline.  A run loads the locked      *)
(* dataset, then the profile, then the baseline; it asks one captured      *)
(* query per case, scores it, gates the report against the baseline and    *)
(* writes it to a new file.                                                *)
(*                                                                         *)
(* Scores are whole multiples of 1 / Unit and a mean is the pair of a sum  *)
(* and a count, so the 1e-12 tolerances of the code have no counterpart.   *)
(* An input file is known by the number of its version, which stands for   *)
(* its digest.                                                             *)
(***************************************************************************)
EXTENDS Integers, FiniteSets, Sequences, FiniteSetsExt

CONSTANTS
    Runs,      \* the command line runs
    Cases,     \* case |-> [noAnswer, expected, groups], the frozen cases
    Policies,  \* profile version |-> [mode, minimum, drop]
    Captures,  \* what query_with_capture may return
    Unit,      \* the score of a perfect answer
    MaxChanges   \* bound: edits of the inputs, and adoptions, by the operator

ASSUME EvaluationAssumption ==
    /\ Unit \in Nat \ {0} /\ MaxChanges \in Nat
    /\ \A c \in DOMAIN Cases :
          Cases[c].noAnswer = (Cases[c].expected = {}) /\ Cases[c].noAnswer = (Cases[c].groups = 0)
    /\ \E c \in DOMAIN Cases : Cases[c].noAnswer

VARIABLES
    inputs,   \* [data, locked, profile, edits]: what is on disk
    shelf,    \* file |-> the report in it, or NoReport
    gate      \* run |-> the state of its command line

domainVars == <<inputs, shelf, gate>>

Metrics == {"no_answer", "citations", "terms"}
NoReport == [kind |-> "none"]
Failed == [kind |-> "query_failed"]
NoScore == -1
NotStarted == [stage |-> "idle"]
Exit(exit) == [stage |-> "over", exit |-> exit, reported |-> FALSE]

DomainInit ==
    /\ inputs = [data |-> 1, locked |-> TRUE, profile |-> 1, edits |-> 0]
    /\ shelf = [f \in {"baseline", "output"} |-> NoReport]
    /\ gate = [r \in Runs |-> NotStarted]

-----------------------------------------------------------------------------
(* Scoring. *)

\* _capture_matches_corpus is the drifted flag of a capture.
Consistent(cap) ==
    /\ cap.cited \subseteq cap.packed
    /\ ~cap.unsupported
    /\ cap.noAnswer => cap.cited = {}
    /\ (cap.packed # {}) = cap.prompted
    /\ ~cap.drifted

\* The zero scores of a case whose query failed or timed out.
FailedScores(case) ==
    [m \in Metrics |-> IF m # "no_answer" /\ case.noAnswer THEN NoScore ELSE 0]

CaptureScores(case, cap) ==
    [no_answer |-> IF cap.noAnswer = case.noAnswer THEN Unit ELSE 0,
     citations |-> IF case.noAnswer THEN NoScore
                   ELSE IF Consistent(cap)
                        THEN (Unit * Cardinality(case.expected \cap cap.cited))
                                \div Cardinality(case.expected)
                        ELSE 0,
     terms     |-> IF case.noAnswer THEN NoScore
                   ELSE (Unit * cap.terms) \div case.groups]

\* seeded fault
IgnoresCapture(case, cap, policy) ==
    [passed |-> \A m \in Metrics : CaptureScores(case, cap)[m] # NoScore
                                      => CaptureScores(case, cap)[m] >= policy.minimum[m],
     scores |-> CaptureScores(case, cap)]

score_domain_capture(case, cap, policy) ==
    [passed |-> /\ Consistent(cap)
                /\ \A m \in Metrics : CaptureScores(case, cap)[m] # NoScore
                                         => CaptureScores(case, cap)[m] >= policy.minimum[m],
     scores |-> CaptureScores(case, cap)]

Evidence(case, seen, policy) ==
    IF seen = Failed THEN [passed |-> FALSE, scores |-> FailedScores(case)]
    ELSE score_domain_capture(case, seen, policy)

Scored(cases, m) == {c \in DOMAIN cases : cases[c].scores[m] # NoScore}

\* _mean, as a sum and a count: 0 / 1 of nothing.
Mean(cases, m) ==
    LET S == Scored(cases, m)
    IN  IF S = {} THEN <<0, 1>>
        ELSE <<MapThenSumSet(LAMBDA c : cases[c].scores[m], S), Cardinality(S)>>

SameMean(a, b) == a[1] * b[2] = b[1] * a[2]
AtLeast(a, floor) == a[1] >= floor * a[2]
WithinDrop(a, b, drop) == (a[1] + drop * a[2]) * b[2] >= b[1] * a[2]

Report(identity, cases) ==
    [kind |-> "report", identity |-> identity, count |-> Cardinality(DOMAIN cases),
     passed |-> Cardinality({c \in DOMAIN cases : cases[c].passed}),
     aggregate |-> [m \in Metrics |-> Mean(cases, m)], cases |-> cases]

-----------------------------------------------------------------------------
(* The baseline. *)

\* load_domain_report: counts and means are recomputed, and every metric
\* needs a case that has it.
Loads(report) ==
    /\ report # NoReport
    /\ report.count = Cardinality(DOMAIN report.cases)
    /\ report.passed = Cardinality({c \in DOMAIN report.cases : report.cases[c].passed})
    /\ \A m \in Metrics : /\ Scored(report.cases, m) # {}
                          /\ SameMean(report.aggregate[m], Mean(report.cases, m))

HasSlipped(now, before, policy) ==
    \E m \in Metrics : /\ now.scores[m] # NoScore
                       /\ now.scores[m] + policy.drop[m] < before.scores[m]

compare_domain_baseline(report, base, policy) ==
    IF \/ report.identity # base.identity
       \/ DOMAIN report.cases # DOMAIN base.cases
       \/ \E c \in DOMAIN report.cases, m \in Metrics :
             (report.cases[c].scores[m] = NoScore) # (base.cases[c].scores[m] = NoScore)
    THEN "incomparable"
    ELSE IF /\ \A c \in DOMAIN report.cases :
                  report.cases[c].passed /\ ~HasSlipped(report.cases[c], base.cases[c], policy)
            /\ \A m \in Metrics :
                  /\ AtLeast(report.aggregate[m], policy.minimum[m])
                  /\ WithinDrop(report.aggregate[m], base.aggregate[m], policy.drop[m])
    THEN "pass" ELSE "fail"

-----------------------------------------------------------------------------
(* The command line.  Exit codes: 0 passed, 1 failed, 2 refused, 3 broken, *)
(* 4 without a baseline.                                                   *)

Quit(r, exit) == gate' = [gate EXCEPT ![r] = Exit(exit)]

\* load_domain_dataset: a file that is not the locked one is refused.
LoadDataset(r) ==
    /\ gate[r] = NotStarted
    /\ \/ ~inputs.locked /\ Quit(r, 2)
       \/ inputs.locked /\ gate' = [gate EXCEPT ![r] = [stage |-> "dataset", data |-> inputs.data]]
    /\ UNCHANGED <<inputs, shelf>>

IdentityOf(g) == [data |-> g.data, profile |-> g.profile]
Policy(g) == Policies[g.profile]

\* A baseline must load and be of the same inputs.
BaselineAccepted(base, g) == Loads(base) /\ base.identity = IdentityOf(g)

\* The rest of main's preparation: profile, baseline, output file, factory.
\* The offline gate always has a baseline; a live run may go without.
Prepare(r, args) ==
    LET policy == Policies[inputs.profile]
        needed == args.baseline \/ policy.mode = "offline"
        g == [stage |-> "running", data |-> gate[r].data, profile |-> inputs.profile,
              base |-> IF needed THEN shelf["baseline"] ELSE NoReport,
              output |-> args.output, seen |-> <<>>]
    IN  /\ gate[r].stage = "dataset"
        /\ IF \/ needed /\ ~BaselineAccepted(g.base, g)
              \/ args.output /\ shelf["output"] # NoReport
              \/ args.factory = (policy.mode = "offline")
           THEN Quit(r, 2)
           ELSE gate' = [gate EXCEPT ![r] = g]
        /\ UNCHANGED <<inputs, shelf>>

\* run_domain_evaluation refuses a binding with other digests; a factory may
\* raise anything.
BindingRefused(r) ==
    /\ gate[r].stage = "running" /\ gate[r].seen = <<>>
    /\ \E exit \in {2, 3} : Quit(r, exit)
    /\ UNCHANGED <<inputs, shelf>>

\* One query_with_capture under the timeout.
AskCase(r) ==
    /\ gate[r].stage = "running" /\ Len(gate[r].seen) < Len(Cases)
    /\ \E c \in Captures \cup {Failed} :
          gate' = [gate EXCEPT ![r].seen = Append(@, c)]
    /\ UNCHANGED <<inputs, shelf>>

ReportOf(g) ==
    Report(IdentityOf(g), [c \in DOMAIN Cases |-> Evidence(Cases[c], g.seen[c], Policy(g))])

ExitCode(g, report) ==
    IF g.base = NoReport THEN 4
    ELSE LET decision == compare_domain_baseline(report, g.base, Policy(g))
         IN  CASE decision = "pass" -> 0 [] decision = "fail" -> 1 [] decision = "incomparable" -> 2

\* open("x"): the file was absent when main looked, and must be still.
OpensNew(file) == shelf[file] = NoReport

\* Gate, write, emit, return.
Conclude(r) ==
    LET g == gate[r]
    IN  /\ g.stage = "running" /\ Len(g.seen) = Len(Cases)
        /\ IF g.output /\ ~OpensNew("output")
           THEN Quit(r, 3) /\ UNCHANGED shelf
           ELSE LET report == ReportOf(g)
                IN  /\ gate' = [gate EXCEPT ![r] =
                                   [stage |-> "over", exit |-> ExitCode(g, report), reported |-> TRUE,
                                    base |-> g.base, seen |-> g.seen, report |-> report]]
                    /\ shelf' = IF g.output THEN [shelf EXCEPT !["output"] = report] ELSE shelf
        /\ UNCHANGED inputs

-----------------------------------------------------------------------------
(* The operator: edits an input, with or without locking it again, and     *)
(* moves the written report to the baseline, as it is or edited by hand.   *)

EditInputs ==
    /\ inputs.edits < MaxChanges
    /\ \/ \E locked \in BOOLEAN :
             inputs' = [inputs EXCEPT !.data = @ + 1, !.locked = locked, !.edits = @ + 1]
       \/ \E v \in DOMAIN Policies \ {inputs.profile} :
             inputs' = [inputs EXCEPT !.profile = v, !.edits = @ + 1]
    /\ UNCHANGED <<shelf, gate>>

Rewritten(report) ==
    {report, [report EXCEPT !.passed = @ + 1], [report EXCEPT !.aggregate["terms"] = <<Unit, 1>>]}
    \cup {Report(report.identity, [c \in DOMAIN report.cases \ {d} |-> report.cases[c]]) :
             d \in DOMAIN report.cases}

Adopt ==
    /\ inputs.edits < MaxChanges /\ shelf["output"] # NoReport
    /\ \E report \in Rewritten(shelf["output"]) :
          shelf' = [baseline |-> report, output |-> NoReport]
    /\ inputs' = [inputs EXCEPT !.edits = @ + 1]
    /\ UNCHANGED gate

Arguments == [baseline : BOOLEAN, output : BOOLEAN, factory : BOOLEAN]

DomainNext ==
    \/ \E r \in Runs : \/ LoadDataset(r) \/ BindingRefused(r) \/ AskCase(r) \/ Conclude(r)
                       \/ \E args \in Arguments : Prepare(r, args)
    \/ EditInputs
    \/ Adopt

DomainSpec == DomainInit /\ [][DomainNext]_domainVars

-----------------------------------------------------------------------------
Finished(r) == gate[r].stage = "over" /\ gate[r].reported
Exited(r, codes) == Finished(r) /\ gate[r].exit \in codes

\* Every run is at a place of main, with one answer per case asked so far,
\* and a report's counts and means stay in their ranges.
DomainTypeOK ==
    /\ inputs.edits \in 0..MaxChanges
    /\ \A r \in Runs :
          /\ gate[r].stage \in {"idle", "dataset", "running", "over"}
          /\ gate[r].stage = "running" => gate[r].seen \in Seq(Captures \cup {Failed})
          /\ gate[r].stage = "over" => gate[r].exit \in 0..4
          /\ Finished(r) => \A m \in Metrics : LET a == gate[r].report.aggregate[m]
                                               IN  a[1] \in 0..(Unit * a[2]) /\ a[2] \in 1..Len(Cases)

\* A run that exits 0 had every one of its queries answered, from contexts of
\* the frozen corpus, citing only what was packed, with no unsupported claim
\* and no citation in a refusal (score_domain_capture, compare_domain_baseline).
GreenIsClean ==
    \A r \in Runs : Exited(r, {0}) =>
        \A c \in DOMAIN Cases :
            LET s == gate[r].seen[c]
            IN  s # Failed /\ s.cited \subseteq s.packed /\ ~s.unsupported /\ ~s.drifted
                  /\ (s.noAnswer => s.cited = {})

\* A run that exits 0 compared itself with a baseline of the same cases, and
\* no case lost more than the profile allows even where the mean did not:
\* "gate aggregate AND per-case drops" (compare_domain_baseline).
NoCaseSlips ==
    \A r \in Runs : Exited(r, {0}) =>
        LET now == gate[r].report
            before == gate[r].base
        IN  /\ DOMAIN before.cases = DOMAIN Cases
            /\ \A c \in DOMAIN Cases, m \in Metrics :
                  now.cases[c].scores[m] # NoScore =>
                     before.cases[c].scores[m] - now.cases[c].scores[m]
                        <= Policies[now.identity.profile].drop[m]

\* A failed query never helps: it is in every mean it belongs to, and each
\* mean of a report is at most the mean over the cases that were answered
\* ("Keep a failed case in every applicable denominator", run_domain_evaluation).
FailuresCount ==
    \A r \in Runs : Finished(r) =>
        LET all == gate[r].report.cases
            answered == [c \in {d \in DOMAIN Cases : gate[r].seen[d] # Failed} |-> all[c]]
        IN  \A m \in Metrics :
               /\ Scored(all, m) = {c \in DOMAIN Cases : m = "no_answer" \/ ~Cases[c].noAnswer}
               /\ Scored(answered, m) # {} =>
                     Mean(all, m)[1] * Mean(answered, m)[2] <= Mean(answered, m)[1] * Mean(all, m)[2]

\* A report somebody edited by hand never decides a gate: the baseline of a
\* run that exits 0 or 1 has the counts and the means of its own cases, and
\* was made from the inputs the run loaded (load_domain_report, main).
BaselineHonest ==
    \A r \in Runs : Exited(r, {0, 1}) =>
        LET b == gate[r].base
        IN  /\ b.identity = gate[r].report.identity
            /\ b.passed = Cardinality({c \in DOMAIN b.cases : b.cases[c].passed})
            /\ \A m \in Metrics : SameMean(b.aggregate[m], Mean(b.cases, m))

\* What a run writes, a later run can load as its baseline.
WrittenLoads == shelf["output"] # NoReport => Loads(shelf["output"])

\* A run never rewrites the baseline, nor a report another run has written
\* after the first looked for the file (--baseline "never rewritten",
\* --output "exclusive creation").
ReportsKept ==
    [][\A f \in DOMAIN shelf :
          (shelf[f] # NoReport /\ shelf'[f] # shelf[f]) => inputs'.edits > inputs.edits]_domainVars
=============================================================================
