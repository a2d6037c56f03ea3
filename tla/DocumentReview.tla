---------------------------- MODULE DocumentReview ----------------------------
(***************************************************************************)
(* The review pages over the documents of a tenant: the list with its      *)
(* status filter and offset cursor, the detail, and the two projections of *)
(* a document's status they rely on, one in SQL and one in Python          *)
(* (packages/data/lifecycle.py, packages/data/storage/repositories.py).    *)
(* Uploads, ingestion, retries and deletes go on between the reads.        *)
(***************************************************************************)
EXTENDS Naturals, Sequences, FiniteSets, SequencesExt

CONSTANTS
    Docs,          \* document numbers, in the order of created_at and id
    VersionsOf,    \* document -> its version numbers, in the order of their id
    ReviewLimit,   \* documents per page
    MaxMoves       \* bound on the changes made

ASSUME ReviewPageAssumption == ReviewLimit \in Nat \ {0} /\ Docs \subseteq Nat

VARIABLES
    docs,          \* documents whose row exists
    versionRows,   \* document -> version -> its row
    walk,          \* an operator's pass over the list
    moves          \* changes made

reviewPageVars == <<docs, versionRows, walk, moves>>

Absent == [on |-> FALSE, status |-> "uploaded", gone |-> FALSE, created |-> 0, jobs |-> <<>>]
NoWalk == [at |-> "away", filter |-> "any", cursor |-> 0, start |-> {}, listed |-> {}, todo |-> <<>>, latest |-> 0]
Filters == {"any", "uploaded", "failed_retryable", "retrieval_ready", "deleted"}

ReviewPageInit ==
    /\ docs = {} /\ walk = NoWalk /\ moves = 0
    /\ versionRows = [d \in Docs |-> [v \in VersionsOf[d] |-> Absent]]

Has(d) == {v \in VersionsOf[d] : versionRows[d][v].on}
Live(r) == ~r.gone /\ r.status # "deleted"

-----------------------------------------------------------------------------
\* What changes between two reads.
MayMoveOn == moves < MaxMoves /\ moves' = moves + 1 /\ UNCHANGED walk

\* A row is committed in any order; created_at may tie between versions.
AddVersion(d, v) ==
    /\ MayMoveOn /\ ~versionRows[d][v].on
    /\ docs' = docs \cup {d}
    /\ \E t \in 1..2 : versionRows' = [versionRows EXCEPT ![d][v] = [Absent EXCEPT !.on = TRUE, !.created = t]]

\* A stage read the row before a delete committed and writes after it.
SetStatus(d, v) ==
    /\ MayMoveOn /\ versionRows[d][v].on
    /\ versionRows' = [versionRows EXCEPT ![d][v].status = "retrieval_ready"]
    /\ UNCHANGED docs

\* An embedding job is created, or the newest one changes status.
SetJob(d, v) ==
    /\ MayMoveOn /\ versionRows[d][v].on
    /\ \E status \in {"embedding", "failed_retryable", "succeeded"} :
        LET jobs == versionRows[d][v].jobs
        IN \/ Len(jobs) < 2 /\ versionRows' = [versionRows EXCEPT ![d][v].jobs = Append(jobs, status)]
           \/ jobs # <<>> /\ versionRows' = [versionRows EXCEPT ![d][v].jobs[Len(jobs)] = status]
    /\ UNCHANGED docs

MarkDeleted(d, v) ==
    /\ MayMoveOn /\ versionRows[d][v].on
    /\ versionRows' = [versionRows EXCEPT ![d][v].status = "deleted", ![d][v].gone = TRUE]
    /\ UNCHANGED docs

-----------------------------------------------------------------------------
LatestJob(r) == IF r.jobs = <<>> THEN "none" ELSE Last(r.jobs)

\* _effective_version_status: an unfinished embedding job overrides the
\* status of a live version that is neither embedded nor ready.
EffectiveVersion(r) ==
    IF /\ ~r.gone /\ r.status \notin {"deleted", "embedded", "retrieval_ready"}
       /\ LatestJob(r) \in {"embedding", "failed_retryable", "failed_terminal"}
    THEN LatestJob(r) ELSE r.status

\* The SQL expression orders all versions by live first, then created_at and
\* id, newest first, and takes the first row's projected status.
SqlBefore(d, v, w) ==
    LET a == versionRows[d][v]  b == versionRows[d][w]
    IN \/ Live(a) /\ ~Live(b)
       \/ Live(a) = Live(b) /\ (a.created > b.created \/ (a.created = b.created /\ v > w))
EffectiveDocument(d) ==
    LET first == CHOOSE v \in Has(d) : \A w \in Has(d) \ {v} : SqlBefore(d, v, w)
    IN EffectiveVersion(versionRows[d][first])

AnyNewest(vs) ==   \* seeded fault
    CHOOSE v \in DOMAIN vs : \A w \in DOMAIN vs : vs[w].created < vs[v].created \/ (vs[w].created = vs[v].created /\ w <= v)
\* _latest_review_version over the rows one list_versions returned.
LatestReviewVersion(vs) ==
    LET live == {v \in DOMAIN vs : Live(vs[v])}
        from == IF live = {} THEN DOMAIN vs ELSE live
    IN CHOOSE v \in from : \A w \in from :
         vs[w].created < vs[v].created \/ (vs[w].created = vs[v].created /\ w <= v)

-----------------------------------------------------------------------------
StartWalk ==
    /\ walk.at = "away"
    /\ \E f \in Filters : walk' = [NoWalk EXCEPT !.at = "page", !.filter = f, !.start = docs]
    /\ UNCHANGED <<docs, versionRows, moves>>

\* get_review_document_detail: one document, the same two reads; the version
\* asked for, or the newest.
OpenDetail(d) ==
    /\ walk.at = "away" /\ d \in docs
    /\ walk' = [NoWalk EXCEPT !.at = "versions", !.filter = "detail", !.todo = <<d>>]
    /\ UNCHANGED <<docs, versionRows, moves>>

\* list_documents: the filter applies to the projection, before the offset.
Matching == SetToSortSeq({d \in docs : walk.filter = "any" \/ EffectiveDocument(d) = walk.filter}, <)
\* One document more than the page tells whether there is a next page.
NextCursor(cursor) == cursor + ReviewLimit

PageEnd(cursor) == Min({cursor + ReviewLimit, Len(Matching)})

ListDocuments ==
    /\ walk.at = "page"
    /\ LET page == SubSeq(Matching, walk.cursor + 1, PageEnd(walk.cursor))
           more == Len(Matching) > walk.cursor + ReviewLimit
       IN walk' = [walk EXCEPT !.at = IF page = <<>> THEN "done" ELSE "versions", !.todo = page,
                               !.cursor = IF more THEN NextCursor(walk.cursor) ELSE 0]
    /\ UNCHANGED <<docs, versionRows, moves>>

\* Each item reads the versions, then the status of the newest.
ListVersionRows ==
    /\ walk.at = "versions"
    /\ LET d == Head(walk.todo)
       IN walk' = [walk EXCEPT !.at = "status", !.latest = LatestReviewVersion([v \in Has(d) |-> versionRows[d][v]])]
    /\ UNCHANGED <<docs, versionRows, moves>>

ReviewItem ==
    /\ walk.at = "status"
    /\ LET left == Tail(walk.todo)
       IN walk' = [walk EXCEPT !.listed = @ \cup {Head(walk.todo)}, !.todo = left, !.latest = 0,
                               !.at = CASE left # <<>> -> "versions" [] walk.cursor = 0 -> "done" [] OTHER -> "page"]
    /\ UNCHANGED <<docs, versionRows, moves>>

EndWalk == walk.at = "done" /\ walk' = NoWalk /\ UNCHANGED <<docs, versionRows, moves>>

ReviewPageNext ==
    \/ \E d \in Docs : OpenDetail(d)
    \/ \E d \in Docs : \E v \in VersionsOf[d] : AddVersion(d, v) \/ SetStatus(d, v) \/ SetJob(d, v) \/ MarkDeleted(d, v)
    \/ StartWalk \/ ListDocuments \/ ListVersionRows \/ ReviewItem \/ EndWalk

-----------------------------------------------------------------------------
\* A page holds at most its limit of existing documents; the cursor stays
\* within the list.
ReviewPageTypeOK ==
    /\ docs \subseteq Docs /\ moves \in 0..MaxMoves
    /\ walk.cursor \in 0..Cardinality(Docs) /\ walk.listed \subseteq docs /\ walk.start \subseteq docs
    /\ Len(walk.todo) <= ReviewLimit /\ \A i \in 1..Len(walk.todo) : walk.todo[i] \in docs

\* The filter and the page agree: for every document the status the SQL
\* expression filters by is the status the page computes in Python from the
\* same rows, with ties of created_at, superseded jobs and versions whose
\* status was overwritten after their delete
\* (_effective_document_status_expression: "SQL equivalent of the
\* version-status projection used by review reads").
ProjectionAgrees ==
    \A d \in docs :
        EffectiveDocument(d) = EffectiveVersion(versionRows[d][LatestReviewVersion([v \in Has(d) |-> versionRows[d][v]])])

\* A pass over all pages without a filter lists every document there was when
\* it began, whatever is committed between its pages.
WalkComplete == walk.at = "done" /\ walk.filter = "any" => walk.start \subseteq walk.listed
=============================================================================
