---------------------------- MODULE ReviewQueue ----------------------------
(***************************************************************************)
(* packages/review: an item of the human review queue, moved between       *)
(* statuses by reviewers and turned into an evaluation candidate.  A call  *)
(* reads the item, validates the transition against what it read, writes   *)
(* status and the whole history, and commits with its audit record; no     *)
(* revision fences the write, so a reviewer may overwrite a newer decision.*)
(***************************************************************************)
EXTENDS Naturals, Sequences

CONSTANTS
    Reviewers,   \* calls in progress at the same time
    MaxReviews   \* bound on the calls made

ASSUME ReviewAssumption == MaxReviews \in Nat /\ "none" \notin Reviewers

VARIABLES
    item,        \* the committed item: status history and candidate
    written,     \* the item as flushed by the transaction that holds the row
    writer,      \* the reviewer that holds the row
    review,      \* reviewer -> where its call is and what it read
    audited,     \* audit records: <<old status, new status, candidate>>
    reviews      \* calls begun

reviewVars == <<item, written, writer, review, audited, reviews>>

AllowedTransitions ==
    [open |-> {"accepted", "rejected", "needs_followup"},
     needs_followup |-> {"accepted", "rejected", "converted_to_eval_case"},
     accepted |-> {"converted_to_eval_case"},
     rejected |-> {},
     converted_to_eval_case |-> {}]

ReviewStatuses == DOMAIN AllowedTransitions

NoItem == [status |-> "none", history |-> <<>>, candidate |-> 0]
Unseen == [at |-> "away", to |-> "open", converts |-> 0, read |-> NoItem]

\* Only the call that holds the row writes its audit record, and the history
\* is no longer than the statuses allow.
ReviewTypeOK ==
    /\ item.candidate \in 0..MaxReviews
    /\ item.status \in ReviewStatuses \cup {"none"}
    /\ Len(item.history) \in 0..4
    /\ writer \in Reviewers \cup {"none"}
    /\ \A r \in Reviewers :
        /\ review[r].at \in {"away", "read", "write", "audit"}
        /\ (review[r].at = "audit") = (writer = r)
    /\ reviews \in 0..MaxReviews

ReviewInit ==
    /\ item = NoItem
    /\ written = NoItem
    /\ writer = "none"
    /\ review = [r \in Reviewers |-> Unseen]
    /\ audited = {}
    /\ reviews = 0

\* create_item: the row and its first history entry are flushed together.
CreateItem(r) ==
    /\ review[r].at = "away" /\ item = NoItem /\ writer = "none" /\ reviews < MaxReviews
    /\ reviews' = reviews + 1
    /\ written' = [status |-> "open", history |-> <<"open">>, candidate |-> 0]
    /\ writer' = r
    /\ review' = [review EXCEPT ![r].at = "audit"]
    /\ UNCHANGED <<item, audited>>

\* update_status may ask for any status; convert_to_eval_candidate asks for
\* the conversion and brings a new candidate.
AskReview(r) ==
    /\ review[r].at = "away" /\ item # NoItem /\ reviews < MaxReviews
    /\ reviews' = reviews + 1
    /\ \E s \in ReviewStatuses, convert \in BOOLEAN :
        /\ convert => s = "converted_to_eval_case"
        /\ review' = [review EXCEPT ![r] =
                        [Unseen EXCEPT !.at = "read", !.to = s,
                                       !.converts = IF convert THEN reviews' ELSE 0]]
    /\ UNCHANGED <<item, written, writer, audited>>

AssertTransition(r) == review[r].to \in AllowedTransitions[item.status]

GetRecord(r) ==
    /\ review[r].at = "read"
    /\ review' = [review EXCEPT ![r] = IF AssertTransition(r)
                                       THEN [@ EXCEPT !.at = "write", !.read = item]
                                       ELSE Unseen]
    /\ UNCHANGED <<item, written, writer, audited, reviews>>

HistoryOnTop(r) ==   \* seeded fault
    [status |-> review[r].to,
     history |-> Append(item.history, review[r].to),
     candidate |-> IF review[r].converts # 0 THEN review[r].converts ELSE item.candidate]
\* The row that is written: status and history come from what was read, the
\* candidate of the stored row stays unless this call brings one.
Overwrite(r) ==
    [status |-> review[r].to,
     history |-> Append(review[r].read.history, review[r].to),
     candidate |-> IF review[r].converts # 0 THEN review[r].converts ELSE item.candidate]

\* The row lock of the UPDATE: another transaction's write is waited out.
ItemFree == writer = "none"

UpdateStatus(r) ==
    /\ review[r].at = "write" /\ ItemFree
    /\ written' = Overwrite(r)
    /\ writer' = r
    /\ review' = [review EXCEPT ![r].at = "audit"]
    /\ UNCHANGED <<item, audited, reviews>>

AuditRow(r) == <<review[r].read.status, written.status, review[r].converts>>

RecordReview(r) == audited' = audited \cup {AuditRow(r)}

\* The audit port shares the session and commits: item and record in one.
CommitReview(r) ==
    /\ review[r].at = "audit"
    /\ item' = written
    /\ RecordReview(r)
    /\ writer' = "none" /\ written' = NoItem
    /\ review' = [review EXCEPT ![r] = Unseen]
    /\ UNCHANGED reviews

\* A statement fails, or the call is cancelled: the transaction rolls back.
FailReview(r) ==
    /\ review[r].at # "away"
    /\ IF writer = r THEN writer' = "none" /\ written' = NoItem ELSE UNCHANGED <<writer, written>>
    /\ review' = [review EXCEPT ![r] = Unseen]
    /\ UNCHANGED <<item, audited, reviews>>

ReviewNext ==
    \E r \in Reviewers :
        \/ CreateItem(r) \/ AskReview(r) \/ GetRecord(r) \/ UpdateStatus(r)
        \/ CommitReview(r) \/ FailReview(r)

-----------------------------------------------------------------------------
\* Although reviewers overwrite each other, what is stored is always one
\* coherent decision: the history is a path of allowed transitions from open
\* that ends in the item's status (status and history come from one read).
HistoryLegal ==
    item # NoItem =>
        LET h == item.history
        IN /\ h[1] = "open" /\ h[Len(h)] = item.status
           /\ \A i \in 1..(Len(h) - 1) : h[i+1] \in AllowedTransitions[h[i]]

\* Nothing is stored without its audit record, even when the store later
\* forgets it: every step of the history and every candidate was committed
\* with the record of the call that made it (the audit port commits both).
ReviewAudited ==
    /\ \A i \in 1..(Len(item.history) - 1) :
        \E a \in audited : a[1] = item.history[i] /\ a[2] = item.history[i+1]
    /\ item.candidate # 0 => \E a \in audited : a[3] = item.candidate
=============================================================================
