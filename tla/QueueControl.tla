---------------------------- MODULE QueueControl ----------------------------
(* Operators and producers of one queue delivery: QueueOperationsService    *)
(* (list, retry, terminate) over RQQueueOperations, the idempotent enqueue  *)
(* with its Redis lease, and the recovery of a lost handoff.  The delivery  *)
(* is a record in Redis; its job is a row in PostgreSQL.  A request reads   *)
(* the one, then the other, then writes the first under WATCH and last the  *)
(* second, while the worker and other requests go on.                       *)
(*                                                                          *)
(* IngestionPipeline has the worker in full; here it is one execution that  *)
(* claims, succeeds or fails.  RQ itself is external.                       *)
EXTENDS Integers, Sequences, FiniteSets, SequencesExt

CONSTANTS
    Operators,    \* concurrent operator requests
    Producers,    \* concurrent enqueues of the delivery
    Recoverers,   \* those of them that come from HandoffRecoveryService
    RetryMax,     \* QUEUE_RETRY_MAX
    MaxAsks,      \* bound on the requests of a behaviour
    Shelvings,    \* what the registries may hold when a listing starts
    PageLimits,   \* the page sizes asked for
    Attention     \* the identifiers whose delivery needs attention

VARIABLES
    record,   \* the delivery in Redis: state, retries left
    row,      \* the job in the database: status, attempt, due
    gone,     \* the document has been deleted
    exec,     \* the execution
    stop,     \* a stop command is on its way to the worker
    ask,      \* the operator requests
    push,     \* the enqueues: pc
    pushLease, \* the idempotency lease
    spent,    \* retries used up, by RQ or by an operator
    ended,    \* an operator has been told "terminated"
    asked,    \* requests so far
    listing   \* a listing: registries, page size, cursor, what it listed

controlVars == <<record, row, gone, exec, stop, ask, push, pushLease, spent, ended,
                 asked, listing>>

NoListing == [on |-> FALSE]
IdleAsk == [pc |-> "idle", act |-> "none", want |-> <<"none", 0>>,
            seen |-> [state |-> "absent", left |-> 0], attempt |-> 0, dirty |-> FALSE]

ControlInit ==
    /\ record = [state |-> "absent", left |-> 0]
    /\ row = [status |-> "queued", attempt |-> 0, due |-> TRUE]
    /\ gone = FALSE /\ stop = FALSE /\ ended = FALSE
    /\ exec = "idle"
    /\ ask = [o \in Operators |-> IdleAsk]
    /\ push = [p \in Producers |-> "idle"]
    /\ pushLease = "none" /\ spent = 0 /\ asked = 0
    /\ listing = NoListing

\* A write of the delivery fails every transaction that watches it.
Dirtied(f) == [o \in Operators |-> [f[o] EXCEPT !.dirty = @ \/ f[o].pc = "exec"]]

----------------------------------------------------------------------------
(* _enqueue_idempotently and RQEmbeddingJobQueue.recover_embedding_handoff. *)

PushOnly == UNCHANGED <<row, gone, exec, stop, ended, listing>>

\* HandoffRecoveryService.recover: only a handoff nobody has started.
Recoverable == row.status = "queued" /\ row.attempt = 0 /\ ~gone

\* The first look.  What is there is returned, or for a recovery confirmed
\* or refused; it is not touched.
Look(p) ==
    /\ asked < MaxAsks /\ push[p] \in {"idle", "done"}
    /\ p \in Recoverers => Recoverable
    /\ push' = [push EXCEPT ![p] = IF record.state = "absent" THEN "lease" ELSE "done"]
    /\ asked' = asked + 1
    /\ UNCHANGED <<record, ask, pushLease, spent>> /\ PushOnly

\* SET NX: a lease that is held ends the enqueue.
TakeLease(p) ==
    /\ push[p] = "lease"
    /\ IF pushLease = "none"
       THEN /\ pushLease' = p
            /\ push' = [push EXCEPT ![p] = IF p \in Recoverers THEN "check" ELSE "push"]
       ELSE push' = [push EXCEPT ![p] = "done"] /\ UNCHANGED pushLease
    /\ UNCHANGED <<record, ask, spent, asked>> /\ PushOnly

\* A recovery looks again under the lease, which stays until its time ends.
Recheck(p) ==
    /\ push[p] = "check"
    /\ push' = [push EXCEPT ![p] = IF record.state = "absent" THEN "push" ELSE "done"]
    /\ UNCHANGED <<record, ask, pushLease, spent, asked>> /\ PushOnly

Publish(p) ==
    /\ push[p] = "push"
    /\ record' = [state |-> "queued", left |-> RetryMax]
    /\ ask' = Dirtied(ask)
    /\ push' = [push EXCEPT ![p] = "done"]
    /\ UNCHANGED <<pushLease, spent, asked>> /\ PushOnly

\* An ordinary enqueue sets the lease right after its first look and does
\* not look again: nothing that takes a timeout or longer comes between.
\* A recovery may be that late.
Prompt == \A p \in Producers \ Recoverers : push[p] # "lease"

\* enqueue raises, without effect or, after a timeout, with it;
\* _release_idempotency_lock gives back the lease if it is still this one's.
PublishFails(p) ==
    /\ push[p] = "push"
    /\ \/ /\ Prompt
          /\ record' = [state |-> "queued", left |-> RetryMax] /\ ask' = Dirtied(ask)
       \/ UNCHANGED <<record, ask>>
    /\ pushLease' = IF pushLease = p THEN "none" ELSE pushLease
    /\ push' = [push EXCEPT ![p] = "done"]
    /\ UNCHANGED <<spent, asked>> /\ PushOnly

\* The lease lasts minutes: its holder is through by then.
LeaseEnds ==
    /\ pushLease # "none" /\ push[pushLease] \notin {"check", "push"}
    /\ Prompt
    /\ pushLease' = "none"
    /\ UNCHANGED <<record, ask, push, spent, asked>> /\ PushOnly

----------------------------------------------------------------------------
(* RQ and the worker.                                                       *)

ExecOnly == UNCHANGED <<push, pushLease, ended, asked, listing>>

Startable(stale) ==
    /\ ~gone
    /\ \/ row.status = "queued"
       \/ row.status = "failed_retryable" /\ row.due
       \/ row.status = "running" /\ stale

RunDelivery ==
    /\ record.state = "queued" /\ exec = "idle"
    /\ record' = [record EXCEPT !.state = "started"]
    /\ exec' = "claim"
    /\ ask' = Dirtied(ask)
    /\ UNCHANGED <<row, gone, stop, spent>> /\ ExecOnly

ClaimJob(stale) ==
    /\ exec = "claim"
    /\ IF Startable(stale)
       THEN /\ row' = [row EXCEPT !.status = "running", !.attempt = @ + 1]
            /\ exec' = "run"
       ELSE exec' = "raise" /\ UNCHANGED row
    /\ UNCHANGED <<record, gone, stop, ask, spent>> /\ ExecOnly

\* The job succeeds, or its failure is written: terminal without a retry.
EndJob(ok) ==
    /\ exec = "run"
    /\ exec' = IF ok THEN "return" ELSE "raise"
    /\ row' = IF ok THEN [row EXCEPT !.status = "done"]
              ELSE [row EXCEPT !.status = IF record.left > 0 THEN "failed_retryable"
                                          ELSE "failed_terminal", !.due = FALSE]
    /\ UNCHANGED <<record, gone, stop, ask, spent>> /\ ExecOnly

\* RQ files the execution's end; one without a heartbeat raises.
FileEnd ==
    /\ record.state = "started" /\ exec \in {"return", "raise", "dead"}
    /\ IF exec = "return" THEN record' = [record EXCEPT !.state = "finished"]
                                  /\ UNCHANGED spent
       ELSE IF record.left > 0
       THEN record' = [state |-> "scheduled", left |-> record.left - 1]
            /\ spent' = spent + 1
       ELSE record' = [record EXCEPT !.state = "failed"] /\ UNCHANGED spent
    /\ exec' = "idle"
    /\ stop' = FALSE
    /\ ask' = Dirtied(ask)
    /\ UNCHANGED <<row, gone>> /\ ExecOnly

\* The stop command reaches a running work horse.
StopJob ==
    /\ stop /\ exec \in {"claim", "run", "raise"}
    /\ record' = [record EXCEPT !.state = "stopped"]
    /\ exec' = "idle"
    /\ stop' = FALSE
    /\ ask' = Dirtied(ask)
    /\ UNCHANGED <<row, gone, spent>> /\ ExecOnly

ExecDies ==
    /\ exec \in {"claim", "run", "return"}
    /\ exec' = "dead"
    /\ UNCHANGED <<record, row, gone, stop, ask, spent>> /\ ExecOnly

RetryTime ==
    /\ ~row.due \/ record.state = "scheduled"
    /\ row' = [row EXCEPT !.due = TRUE]
    /\ record' = IF record.state = "scheduled" THEN [record EXCEPT !.state = "queued"]
                 ELSE record
    /\ ask' = IF record.state = "scheduled" THEN Dirtied(ask) ELSE ask
    /\ UNCHANGED <<gone, exec, stop, spent>> /\ ExecOnly

DocumentGoes ==
    /\ ~gone /\ asked < MaxAsks
    /\ gone' = TRUE /\ asked' = asked + 1
    /\ UNCHANGED <<record, row, exec, stop, ask, push, pushLease, spent, ended, listing>>

----------------------------------------------------------------------------
(* QueueOperationsService._operate and RQQueueOperations.                   *)

AskOnly == UNCHANGED <<gone, exec, push, pushLease, listing>>

\* The command names the attempt and the state the operator saw.
Command(o, act) ==
    /\ asked < MaxAsks /\ ask[o].pc = "idle"
    /\ record.state \in {"queued", "scheduled", "started", "failed", "stopped", "canceled"}
    /\ ask' = [ask EXCEPT ![o] = [IdleAsk EXCEPT !.pc = "get", !.act = act,
                                  !.want = <<record.state, row.attempt>>]]
    /\ asked' = asked + 1
    /\ UNCHANGED <<record, row, stop, spent, ended>> /\ AskOnly

Marking(o) == [IdleAsk EXCEPT !.pc = "mark", !.attempt = ask[o].attempt]

\* _failure: rollback, the refusal on the audit trail, and the error raised;
\* _record: the success there, committed.
Failure(o) == ask' = [ask EXCEPT ![o] = IdleAsk]
RecordSuccess(o) == ask' = [ask EXCEPT ![o] = IdleAsk]

GetDelivery(o) ==
    /\ ask[o].pc = "get"
    /\ ask' = [ask EXCEPT ![o].pc = "load", ![o].seen = record]
    /\ UNCHANGED <<record, row, stop, spent, ended, asked>> /\ AskOnly

RetryAllowed(seen) ==
    /\ seen.state \in {"failed", "stopped"} /\ seen.left > 0
    /\ row.status = "failed_retryable" /\ row.due

TerminateAllowed(seen) ==
    /\ seen.state \in {"queued", "scheduled", "started", "failed", "stopped", "canceled"}
    /\ row.status # "done"

LoadJob(o) ==
    /\ ask[o].pc = "load"
    /\ LET allowed == IF ask[o].act = "retry" THEN RetryAllowed(ask[o].seen)
                      ELSE TerminateAllowed(ask[o].seen)
       IN  ask' = IF ~gone /\ ask[o].want = <<ask[o].seen.state, row.attempt>> /\ allowed
                  THEN [ask EXCEPT ![o].pc = "watch", ![o].attempt = row.attempt,
                                    ![o].want = IdleAsk.want]
                  ELSE [ask EXCEPT ![o] = IdleAsk]
    /\ UNCHANGED <<record, row, stop, spent, ended, asked>> /\ AskOnly

ConfirmUnchanged(o) == record = ask[o].seen

\* WATCH, fetch and _confirm_unchanged; a running delivery is only asked to
\* stop, a canceled one needs no write.
WatchDelivery(o) ==
    /\ ask[o].pc = "watch"
    /\ IF ~ConfirmUnchanged(o) THEN Failure(o) /\ UNCHANGED stop
       ELSE IF ask[o].act = "retry" \/ record.state \notin {"started", "canceled"}
       THEN ask' = [ask EXCEPT ![o].pc = "exec", ![o].dirty = FALSE] /\ UNCHANGED stop
       ELSE IF record.state = "started" THEN stop' = TRUE /\ RecordSuccess(o)
       ELSE ask' = [ask EXCEPT ![o] = Marking(o)] /\ UNCHANGED stop
    /\ UNCHANGED <<record, row, spent, ended, asked>> /\ AskOnly

WatchError(o) == ask[o].dirty

ManualBudget(left) == left - 1

\* EXEC, and whether its answer arrives.
ExecuteWrite(o, acked) ==
    /\ ask[o].pc = "exec"
    /\ IF WatchError(o)
       THEN acked /\ Failure(o) /\ UNCHANGED <<record, spent>>
       ELSE IF ask[o].act = "retry"
       THEN /\ record' = [state |-> "queued", left |-> ManualBudget(ask[o].seen.left)]
            /\ spent' = spent + 1
            /\ ask' = Dirtied([ask EXCEPT ![o] = IdleAsk])
       ELSE /\ record' = [record EXCEPT !.state = "canceled"]
            /\ UNCHANGED spent
            /\ ask' = Dirtied([ask EXCEPT ![o] = IF acked THEN Marking(o) ELSE IdleAsk])
    /\ UNCHANGED <<row, stop, ended, asked>> /\ AskOnly

\* What mark_*_failed leaves alone.
Settled(o) == row.status \in {"done", "failed_terminal"} \/ row.attempt # ask[o].attempt \/ gone

\* seeded fault: the answer is given without looking at the row
TakesAnyRow(status) == TRUE

MarkTook(status) == status = "failed_terminal"

\* The row is failed for good, the audit event written, and both committed.
MarkTerminated(o) ==
    /\ ask[o].pc = "mark"
    /\ LET new == IF Settled(o) THEN row ELSE [row EXCEPT !.status = "failed_terminal"]
       IN  IF MarkTook(new.status)
           THEN row' = new /\ RecordSuccess(o) /\ ended' = TRUE
           ELSE Failure(o) /\ UNCHANGED <<row, ended>>
    /\ UNCHANGED <<record, stop, spent, asked>> /\ AskOnly

\* A database or Redis call fails.
CallFails(o) ==
    /\ ask[o].pc \in {"load", "mark"} /\ Failure(o)
    /\ UNCHANGED <<record, row, stop, spent, ended, asked>> /\ AskOnly

----------------------------------------------------------------------------
(* RQQueueOperations._scan: a listing through the registries in pages.     *)

WalkOnly == UNCHANGED <<record, row, gone, exec, stop, ask, push, pushLease, spent, ended, asked>>

StartListing(shelves, limit) ==
    /\ ~listing.on /\ asked = 0
    /\ listing' = [on |-> TRUE, shelves |-> shelves, limit |-> limit, source |-> 1,
                offset |-> 0, scanned |-> 0, listed |-> <<>>]
    /\ WalkOnly

NextOffset(remaining) == listing.offset + remaining

\* One pass of the loop: one more entry than fits is asked for, to know
\* whether the registry goes on.
ScanRegistry ==
    /\ listing.on /\ listing.source <= Len(listing.shelves) /\ listing.scanned < listing.limit
    /\ LET shelf == listing.shelves[listing.source]
           remaining == listing.limit - listing.scanned
           last(n) == IF listing.offset + n < Len(shelf) THEN listing.offset + n ELSE Len(shelf)
           taken == SubSeq(shelf, listing.offset + 1, last(remaining))
           more == last(remaining + 1) > last(remaining)
       IN  listing' = [listing EXCEPT
               !.listed = @ \o SelectSeq(taken, LAMBDA id : id \in Attention),
               !.scanned = @ + Len(taken),
               !.source = IF more THEN @ ELSE @ + 1,
               !.offset = IF more THEN NextOffset(remaining) ELSE 0]
    /\ WalkOnly

\* The client comes back with next_cursor.
NextPage ==
    /\ listing.on /\ listing.source <= Len(listing.shelves) /\ listing.scanned >= listing.limit
    /\ listing' = [listing EXCEPT !.scanned = 0]
    /\ WalkOnly

ControlNext ==
    \/ /\ ~listing.on
       /\ \/ \E p \in Producers : Look(p) \/ TakeLease(p) \/ Recheck(p) \/ Publish(p)
                                  \/ PublishFails(p)
          \/ LeaseEnds \/ RunDelivery \/ FileEnd \/ StopJob \/ ExecDies
          \/ RetryTime \/ DocumentGoes
          \/ \E yes \in BOOLEAN : ClaimJob(yes) \/ EndJob(yes)
          \/ \E o \in Operators :
                \/ \E act \in {"retry", "terminate"} : Command(o, act)
                \/ GetDelivery(o) \/ LoadJob(o) \/ WatchDelivery(o) \/ MarkTerminated(o)
                \/ CallFails(o)
                \/ \E acked \in BOOLEAN : ExecuteWrite(o, acked)
    \/ \E s \in Shelvings, l \in PageLimits : StartListing(s, l)
    \/ ScanRegistry \/ NextPage

----------------------------------------------------------------------------
(* Properties.                                                              *)

\* A task runs only while RQ has the delivery started, and an operator's
\* transaction is prepared only for a state its action applies to.
ControlTypeOK ==
    /\ record.state \in {"absent", "queued", "started", "scheduled", "failed", "stopped",
                         "canceled", "finished"}
    /\ record.left \in 0 .. RetryMax
    /\ row.status \in {"queued", "running", "failed_retryable", "failed_terminal", "done"}
    /\ exec # "idle" => record.state = "started"
    /\ \A o \in Operators : ask[o].pc = "exec" =>
          ask[o].seen.state \in {"queued", "scheduled", "failed", "stopped"}

\* However retries, stops, replays and recoveries interleave, every retry of
\* a delivery is counted once and none is given back ("Operators may consume
\* a remaining RQ retry, but cannot replenish it").
BudgetConserved == record.state # "absent" => record.left + spent = RetryMax

\* Once an operator has been told "terminated" the delivery is never queued
\* or run again and its job never leaves failed_terminal: no retry, replay or
\* recovery under way at that time undoes it.
TerminatedStays == ended => record.state = "canceled" /\ row.status = "failed_terminal"

\* A delivery that had ended is queued again only while its job is waiting
\* for a retry, although the job is read before the delivery is written.
RetryRespectsJob ==
    [][(record.state \notin {"absent", "scheduled", "queued"} /\ record'.state = "queued")
         => row.status = "failed_retryable"]_controlVars

\* Following the cursors of a listing to its end names every delivery that
\* needs attention, once each and in order, on pages of at most the size
\* asked for.
WalkListsAll ==
    listing.on =>
        /\ listing.scanned <= listing.limit
        /\ listing.source > Len(listing.shelves) =>
              listing.listed = SelectSeq(FlattenSeq(listing.shelves), LAMBDA id : id \in Attention)
=============================================================================
