--------------------------- MODULE SupportTickets ---------------------------
(***************************************************************************)
(* packages/support_ticket: the ticket one client reference stands for,    *)
(* created once however often and however concurrently the request is      *)
(* made, and moved from open to in_progress to resolved by managers whose  *)
(* updates are fenced by the revision they read.                           *)
(*                                                                         *)
(* Every call owns its SQL session: what it flushes is seen by the others  *)
(* only once it commits, and until then it holds the row (or the unique    *)
(* owner/reference entry), so that another writer waits.                   *)
(***************************************************************************)
EXTENDS Naturals, Sequences

CONSTANTS
    Callers,    \* requests in progress at the same time
    Prints,     \* request fingerprints sent under the one client reference
    MaxCalls    \* bound on the calls made

ASSUME TicketAssumption ==
    /\ MaxCalls \in Nat /\ Prints # {}
    /\ "none" \notin Callers /\ {"none", "moved"} \cap Prints = {}

VARIABLES
    ticket,     \* the committed row, with the audit rows committed with it
    draft,      \* what the holder has flushed and not yet committed
    holder,     \* the caller whose transaction holds the row or index entry
    caller,     \* caller -> where it is and what it knows
    answers,    \* what callers were told: <<fingerprint or "moved", row>>
    calls       \* calls begun

ticketVars == <<ticket, draft, holder, caller, answers, calls>>

Statuses == <<"open", "in_progress", "resolved">>

NoTicket == [id |-> 0, print |-> "none", status |-> "none", revision |-> 0,
             audit |-> <<>>]

Away == [at |-> "away", print |-> "none", revision |-> 0, status |-> "none"]

\* A ticket has moved through at most as many revisions as there are statuses,
\* and only the holder of the row commits.
TicketTypeOK ==
    /\ ticket.id \in 0..MaxCalls /\ draft.id \in 0..MaxCalls
    /\ ticket.revision \in 0..Len(Statuses)
    /\ ticket.status \in {"none"} \cup {Statuses[i] : i \in 1..Len(Statuses)}
    /\ holder \in Callers \cup {"none"}
    /\ \A c \in Callers :
        /\ caller[c].at \in {"away", "new", "insert", "retry", "commit", "refresh",
                             "manage", "move"}
        /\ (caller[c].at = "commit") = (holder = c)
    /\ calls \in 0..MaxCalls

TicketInit ==
    /\ ticket = NoTicket
    /\ draft = NoTicket
    /\ holder = "none"
    /\ caller = [c \in Callers |-> Away]
    /\ answers = {}
    /\ calls = 0

Goes(c, at) == caller' = [caller EXCEPT ![c].at = at]
Gone(c) == caller' = [caller EXCEPT ![c] = Away]

\* A caller that holds no permission is refused before it opens a session.
TicketAsk(c) ==
    /\ caller[c].at = "away" /\ calls < MaxCalls
    /\ calls' = calls + 1
    /\ \/ \E p \in Prints : caller' = [caller EXCEPT ![c] = [Away EXCEPT !.at = "new", !.print = p]]
       \/ \E r \in 1..Len(Statuses) : caller' = [caller EXCEPT ![c] = [Away EXCEPT !.at = "manage", !.revision = r]]
    /\ UNCHANGED <<ticket, draft, holder, answers>>

TakesAny(c) == answers' = answers \cup {<<caller[c].print, ticket>>}   \* seeded fault
Existing(c) ==
    IF ticket.print = caller[c].print
    THEN answers' = answers \cup {<<caller[c].print, ticket>>}
    ELSE UNCHANGED answers

\* The first look-up, and the one after the unique index refused the insert.
ByReference(c) ==
    /\ caller[c].at \in {"new", "retry"}
    /\ IF ticket # NoTicket THEN Existing(c) /\ Gone(c)
       ELSE /\ UNCHANGED answers
            /\ IF caller[c].at = "new" THEN Goes(c, "insert") ELSE Gone(c)
    /\ UNCHANGED <<ticket, draft, holder, calls>>

\* The flush of a new row: the owner/reference index is the fence.
Flush(c) ==
    IF ticket = NoTicket
    THEN /\ draft' = [id |-> calls, print |-> caller[c].print, status |-> "open",
                      revision |-> 1, audit |-> <<Statuses[1]>>]
         /\ holder' = c
         /\ Goes(c, "commit")
    ELSE Goes(c, "retry") /\ UNCHANGED <<draft, holder>>

Insert(c) ==
    /\ caller[c].at = "insert" /\ holder = "none"
    /\ Flush(c)
    /\ UNCHANGED <<ticket, answers, calls>>

MayMove(c) ==
    /\ ticket # NoTicket /\ ticket.revision = caller[c].revision
    /\ ticket.status # "resolved"

\* update_status reads the row and refuses a stale revision or any move that
\* is not the next one; `status` keeps what it read for the guarded update.
GetTicket(c) ==
    /\ caller[c].at = "manage"
    /\ IF MayMove(c)
       THEN caller' = [caller EXCEPT ![c].at = "move", ![c].status = ticket.status]
       ELSE Gone(c)
    /\ UNCHANGED <<ticket, draft, holder, answers, calls>>

NextStatus(status) == IF status = "open" THEN "in_progress" ELSE "resolved"

Matches(c) == ticket.revision = caller[c].revision /\ ticket.status = caller[c].status

\* The UPDATE waits for the row and then compares the committed row; the
\* audit row is added in the same transaction, from the refreshed row.
Transition(c) ==
    /\ caller[c].at = "move" /\ holder = "none"
    /\ IF Matches(c)
       THEN LET moved == NextStatus(caller[c].status)
            IN /\ draft' = [ticket EXCEPT !.status = moved, !.revision = caller[c].revision + 1,
                                          !.audit = Append(@, moved)]
               /\ holder' = c
               /\ Goes(c, "commit")
       ELSE Gone(c) /\ UNCHANGED <<draft, holder>>
    /\ UNCHANGED <<ticket, answers, calls>>

Committed == ticket' = draft

\* commit() returns. A creator refreshes its row before it answers, a manager
\* answers from the row it refreshed in the transaction.
CommitTicket(c) ==
    /\ caller[c].at = "commit"
    /\ Committed
    /\ holder' = "none" /\ draft' = NoTicket
    /\ IF caller[c].print = "none"
       THEN answers' = answers \cup {<<"moved", draft>>} /\ Gone(c)
       ELSE Goes(c, "refresh") /\ UNCHANGED answers
    /\ UNCHANGED calls

\* refresh() reads the row again, which a manager may have moved meanwhile.
Refresh(c) ==
    /\ caller[c].at = "refresh"
    /\ answers' = answers \cup {<<caller[c].print, ticket>>}
    /\ Gone(c)
    /\ UNCHANGED <<ticket, draft, holder, calls>>

\* A statement fails, or the call is cancelled: the session rolls back. A
\* commit may fail before or after the server applied it: either way a 503.
FailTicket(c) ==
    /\ caller[c].at # "away"
    /\ \/ UNCHANGED ticket
       \/ caller[c].at = "commit" /\ Committed
    /\ IF holder = c THEN holder' = "none" /\ draft' = NoTicket ELSE UNCHANGED <<holder, draft>>
    /\ Gone(c)
    /\ UNCHANGED <<answers, calls>>

TicketNext ==
    \E c \in Callers :
        \/ TicketAsk(c) \/ ByReference(c) \/ Insert(c) \/ GetTicket(c) \/ Transition(c)
        \/ CommitTicket(c) \/ Refresh(c) \/ FailTicket(c)

-----------------------------------------------------------------------------
\* One ticket per reference: every caller that was given a ticket, first
\* creators, repeated requests and losers of a race alike, was given the row
\* that is stored, and only for the fingerprint it was created with (create,
\* _existing and the unique owner/reference index).
OneTicket ==
    \A a \in answers : /\ a[2].id = ticket.id
                       /\ a[1] # "moved" => a[1] = ticket.print

\* The committed audit rows are the ticket's life: one per revision, each with
\* the status that revision has, whatever commits were lost and whichever
\* managers raced (_audit in the transaction of the change it records).
TicketAudited ==
    /\ Len(ticket.audit) = ticket.revision
    /\ ticket # NoTicket => ticket.audit[Len(ticket.audit)] = ticket.status
    /\ \A i \in 1..Len(ticket.audit) : ticket.audit[i] = Statuses[i]

\* A ticket is never moved backwards, moved twice from one revision, or
\* replaced once it exists (transition's revision and status conditions).
TicketForward ==
    [][ ticket # NoTicket /\ ticket' # ticket
        => /\ ticket'.id = ticket.id /\ ticket'.print = ticket.print
           /\ ticket'.revision = ticket.revision + 1
           /\ ticket'.status = Statuses[ticket'.revision] ]_ticketVars
=============================================================================
