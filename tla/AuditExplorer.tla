---------------------------- MODULE AuditExplorer ----------------------------
(* The audit trail and its explorer: SqlAlchemyAuditPort, AuditLogRepository *)
(* and AuditExplorerService.  Units of work flush events and commit later,   *)
(* so rows become visible out of the order of created_at; an explorer        *)
(* request reads the newest rows of its tenant, then looks up a tool call    *)
(* for each of them, and an export is itself put on the trail before it is   *)
(* handed out.                                                               *)
(*                                                                           *)
(* A value in a tool call's summary is a tree: a leaf that may be shown or   *)
(* not, a mapping of entries under keys that may be shown or not, or a list. *)
EXTENDS Integers, FiniteSets

CONSTANTS
    Recorders,    \* transactions that record an event
    Visits,       \* requests to the explorer
    Tenants,
    RequestIds,
    Tools,
    Summaries,    \* what a tool call's summary may hold
    MaxLimit,     \* rows a request may ask for
    MaxInstant,   \* bound on the clock
    MaxEvents,    \* bound on the events in the table
    MaxToolRows   \* bound on the tool calls stored

VARIABLES
    instant,   \* the clock
    trail,     \* audit_logs: committed rows
    flushed,   \* a writer's event, not yet committed
    callRows,  \* tool_calls: committed rows
    visit,     \* the explorer requests
    handed     \* the exports handed out

explorerVars == <<instant, trail, flushed, callRows, visit, handed>>

NoDraft == [at |-> 0]
NoToolCall == [at |-> 0]
IdleVisit == [pc |-> "idle"]

ExplorerInit ==
    /\ instant = 1 /\ trail = {} /\ callRows = {} /\ handed = {}
    /\ flushed = [w \in Recorders |-> NoDraft]
    /\ visit = [v \in Visits |-> IdleVisit]

----------------------------------------------------------------------------
(* Rows.                                                                    *)

\* build_audit_log_model: created_at is the event's, not the commit's.  tool
\* is the tool its metadata names, by whoever recorded it.
EventRow(tenant, req, tool, by) ==
    [at |-> instant, tenant |-> tenant, req |-> req, tool |-> tool, by |-> by]

\* A unit of work creates its event and flushes it.
CreateEvent(w, tenant, req, tool) ==
    /\ flushed[w] = NoDraft /\ Cardinality(trail) < MaxEvents
    /\ flushed' = [flushed EXCEPT ![w] = EventRow(tenant, req, tool, w)]
    /\ UNCHANGED <<instant, trail, callRows, visit, handed>>

\* It commits, or is rolled back with its event.
EndWork(w, committed) ==
    /\ flushed[w] # NoDraft
    /\ trail' = IF committed THEN trail \cup {flushed[w]} ELSE trail
    /\ flushed' = [flushed EXCEPT ![w] = NoDraft]
    /\ UNCHANGED <<instant, callRows, visit, handed>>

\* A tool call is stored; their instants tell the calls apart.
RecordToolCall(tenant, req, tool, summary) ==
    /\ Cardinality(callRows) < MaxToolRows /\ \A c \in callRows : c.at # instant
    /\ callRows' = callRows \cup {[at |-> instant, tenant |-> tenant, req |-> req,
                                     tool |-> tool, summary |-> summary]}
    /\ UNCHANGED <<instant, trail, flushed, visit, handed>>

TickInstant ==
    /\ instant < MaxInstant /\ instant' = instant + 1
    /\ UNCHANGED <<trail, flushed, callRows, visit, handed>>

----------------------------------------------------------------------------
(* What of a tool call's summary is shown.                                  *)

RECURSIVE SafeNestedValue(_)
SafeItems(items) == UNION {SafeNestedValue(u) : u \in items}
SafeMapping(entries) ==
    UNION {{[key |-> "shown", val |-> u] : u \in SafeNestedValue(e.val)} :
              e \in {f \in entries : f.key = "shown"}}
\* The value that is left, if any is.
SafeNestedValue(v) ==
    CASE v.kind = "leaf" -> IF v.ok THEN {v} ELSE {}
      [] v.kind = "map" -> {[v EXCEPT !.sub = SafeMapping(v.sub)]}
      [] v.kind = "list" -> {[v EXCEPT !.sub = SafeItems(v.sub)]}

----------------------------------------------------------------------------
(* AuditExplorerService.                                                    *)

\* ORDER BY created_at DESC, id DESC; the id is random, so ties fall anyhow.
ListedBefore(r, s) == r.at > s.at

\* The pages list_records may return.
ListRecords(rows, limit) ==
    {s \in SUBSET rows :
        /\ Cardinality(s) = IF Cardinality(rows) <= limit THEN Cardinality(rows) ELSE limit
        /\ \A r \in s, o \in rows \ s : ~ListedBefore(o, r)}

\* The filters of the statement.
Filtered(rows, tenant, req) == {r \in rows : r.tenant = tenant /\ (req # "any" => r.req = req)}

\* What is asked for.
Requested(kind, tenant, req, limit) ==
    [pc |-> "read", kind |-> kind, tenant |-> tenant, req |-> req, limit |-> limit,
     items |-> {}, todo |-> {}, links |-> {}, earlier |-> handed]

\* A request is over; its answer, if it has one, is as it last stood.
Closed(how, v) == [pc |-> how, tenant |-> visit[v].tenant]

\* The request arrives; _assert_permission.
OpenExplorer(v, kind, tenant, req, limit, permitted) ==
    /\ visit[v] = IdleVisit
    /\ visit' = [visit EXCEPT ![v] =
          IF permitted THEN Requested(kind, tenant, req, limit)
          ELSE [pc |-> "refused", tenant |-> tenant]]
    /\ UNCHANGED <<instant, trail, flushed, callRows, handed>>

ReadLogs(v) ==
    /\ visit[v].pc = "read"
    /\ \E page \in ListRecords(Filtered(trail, visit[v].tenant, visit[v].req), visit[v].limit) :
          visit' = [visit EXCEPT ![v].pc = "associate", ![v].items = page, ![v].todo = page]
    /\ UNCHANGED <<instant, trail, flushed, callRows, handed>>

\* The rows list_tool_calls is asked for; a row that names no tool takes any.
CallsOf(r) ==
    {c \in callRows : c.tenant = r.tenant /\ c.req = r.req /\ r.tool \in {c.tool, "run"}}

\* The first of them.
FindToolCall(r) ==
    IF CallsOf(r) = {} THEN NoToolCall
    ELSE CHOOSE c \in CallsOf(r) : \A d \in CallsOf(r) : c.at <= d.at

\* The association of one row, read in a statement of its own; a row that is
\* of no agent run and no tool has none.
Associate(v) ==
    /\ visit[v].pc = "associate"
    /\ \E r \in visit[v].todo :
         /\ \A s \in visit[v].todo : ~ListedBefore(s, r)
         /\ visit' = [visit EXCEPT
               ![v].todo = @ \ {r},
               ![v].links = IF r.tool = "none" THEN @
                            ELSE @ \cup {[row |-> r, call |-> FindToolCall(r)]}]
    /\ UNCHANGED <<instant, trail, flushed, callRows, handed>>

\* A read fails: no part of the answer is given.
ReadFails(v) ==
    /\ visit[v].pc = "read" \/ (visit[v].pc = "associate" /\ visit[v].todo # {})
    /\ visit' = [visit EXCEPT ![v] = Closed("failed", v)]
    /\ UNCHANGED <<instant, trail, flushed, callRows, handed>>

ListAnswered(v) ==
    /\ visit[v].pc = "associate" /\ visit[v].todo = {} /\ visit[v].kind = "list"
    /\ visit' = [visit EXCEPT ![v] = Closed("answered", v)]
    /\ UNCHANGED <<instant, trail, flushed, callRows, handed>>

\* seeded fault: the payload is handed out although its event was not stored
HandsOutAnyway(v, stored) ==
    /\ visit' = [visit EXCEPT ![v] = Closed("answered", v)]
    /\ handed' = handed \cup {v}

\* _record_export_audit raises when the event is not stored.
ExportAnswered(v, stored) ==
    /\ visit' = [visit EXCEPT ![v] = Closed(IF stored THEN "answered" ELSE "failed", v)]
    /\ handed' = IF stored THEN handed \cup {v} ELSE handed

RecordExportAudit(v, stored) ==
    /\ visit[v].pc = "associate" /\ visit[v].todo = {} /\ visit[v].kind = "export"
    /\ trail' = IF stored THEN trail \cup {EventRow(visit[v].tenant, "export", "none", v)}
                ELSE trail
    /\ ExportAnswered(v, stored)
    /\ UNCHANGED <<instant, flushed, callRows>>

ExplorerNext ==
    \/ \E w \in Recorders :
          \/ \E c \in BOOLEAN : EndWork(w, c)
          \/ \E t \in Tenants, q \in RequestIds, n \in Tools \cup {"run", "none"} :
                CreateEvent(w, t, q, n)
    \/ \E t \in Tenants, q \in RequestIds, n \in Tools, s \in Summaries :
          RecordToolCall(t, q, n, s)
    \/ TickInstant
    \/ \E v \in Visits :
          \/ \E k \in {"list", "export"}, t \in Tenants, q \in RequestIds \cup {"any"},
                l \in 1 .. MaxLimit, p \in BOOLEAN : OpenExplorer(v, k, t, q, l, p)
          \/ ReadLogs(v) \/ Associate(v) \/ ReadFails(v) \/ ListAnswered(v)
          \/ \E stored \in BOOLEAN : RecordExportAudit(v, stored)

----------------------------------------------------------------------------
(* Properties.                                                              *)

\* The requests whose answer is being put together.
HasRead == {v \in Visits : visit[v].pc = "associate"}

\* The clock, the rows and the requests stay in range, and no page is longer
\* than the limit it was asked for (list_records).
ExplorerTypeOK ==
    /\ instant \in 1 .. MaxInstant
    /\ \A r \in trail : r.at \in 1 .. instant /\ r.tenant \in Tenants
    /\ \A w \in Recorders : flushed[w] = NoDraft \/ flushed[w].at \in 1 .. instant
    /\ \A v \in Visits : visit[v].pc \in {"idle", "read", "associate", "refused", "failed",
                                          "answered"}
    /\ \A v \in HasRead : /\ Cardinality(visit[v].items) <= visit[v].limit
                          /\ visit[v].todo \subseteq visit[v].items
    /\ handed \subseteq Visits

\* An export that was handed out (export_logs) is seen by whoever looks at
\* the tenant's trail afterwards: its event is on the page, or the page is
\* full of events that are no older.
ExportSeenLater ==
    \A v \in HasRead : \A x \in visit[v].earlier :
        (visit[x].tenant = visit[v].tenant /\ visit[v].req = "any") =>
            \/ \E r \in visit[v].items : r.by = x
            \/ /\ Cardinality(visit[v].items) = visit[v].limit
               /\ \E o \in trail : o.by = x /\ \A r \in visit[v].items : r.at >= o.at

\* Everything in an answer, the tool calls looked up for it included, is of
\* the caller's tenant, and a tool call is shown with an event of its own
\* request (_find_tool_call), whenever either was stored.
AnswerOfOneTenant ==
    \A v \in HasRead :
        /\ \A r \in visit[v].items : r.tenant = visit[v].tenant
        /\ \A k \in visit[v].links : k.call # NoToolCall =>
              k.call.tenant = visit[v].tenant /\ k.call.req = k.row.req

RECURSIVE AllShown(_)
AllShown(v) ==
    CASE v.kind = "leaf" -> v.ok
      [] v.kind = "map" -> \A e \in v.sub : e.key = "shown" /\ AllShown(e.val)
      [] v.kind = "list" -> \A u \in v.sub : AllShown(u)

\* No entry under a key that may not be shown, and no text that may not be
\* shown, is in an answer, at any depth of a tool call's summary
\* (_safe_mapping, _safe_nested_value).
NothingUnsafe ==
    \A v \in HasRead : \A k \in visit[v].links :
        k.call # NoToolCall => \A e \in SafeMapping(k.call.summary) : e.key = "shown" /\ AllShown(e.val)
=============================================================================
