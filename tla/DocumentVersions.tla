-------------------------- MODULE DocumentVersions --------------------------
(***************************************************************************)
(* One document and its versions between object storage and PostgreSQL:    *)
(* uploads and connector imports that write the object first and the rows  *)
(* after (packages/data/service.py), soft deletes of a version or of the   *)
(* document (packages/data/lifecycle.py) and the resolution of a cited     *)
(* source (packages/rag/source_resolver.py).                               *)
(*                                                                         *)
(* READ COMMITTED: each read is a step, the last flush of a transaction    *)
(* and its commit are one.  Ingestion itself is IngestionPipeline's; here  *)
(* a worker indexes an active version or fails it for want of its object.  *)
(***************************************************************************)
EXTENDS Naturals, FiniteSets, FiniteSetsExt

CONSTANTS
    Versions,     \* version ids
    ImportIds,    \* the ids an import derives from the content's checksum
    Actors,       \* calls in progress at the same time
    MaxActs       \* bound on the calls made

ASSUME VersionsAssumption == ImportIds \subseteq Versions /\ MaxActs \in Nat

VARIABLES
    doc,          \* the document row: exists, status, deleted_at set
    vers,         \* version -> status and order of creation (0: no row)
    chunk,        \* version -> its chunks: "none", "active", "deleted"
    blob,         \* versions whose object is stored
    act,          \* actor -> its call: where it is and what it has read
    acked,        \* versions whose (plain) upload was acknowledged
    granted,      \* resolutions granted: was the whole chain live during the call
    acts          \* calls begun

versionVars == <<doc, vers, chunk, blob, act, acked, granted, acts>>

NoVersion == [status |-> "none", order |-> 0]
Ready == "retrieval_ready"
Quiet == [at |-> "away", v |-> 0, existing |-> FALSE, status |-> "none",
          seen |-> {}, dead |-> {}, live |-> FALSE]

VersionsInit ==
    /\ doc = [row |-> FALSE, status |-> "none", gone |-> FALSE]
    /\ vers = [v \in Versions |-> NoVersion]
    /\ chunk = [v \in Versions |-> "none"]
    /\ blob = {} /\ acked = {} /\ granted = {}
    /\ act = [c \in Actors |-> Quiet]
    /\ acts = 0

Rows == {v \in Versions : vers[v].order # 0}
LiveRows == {v \in Rows : vers[v].status # "deleted"}
DocLive == doc.row /\ ~doc.gone /\ doc.status # "deleted"
\* _latest_non_deleted_version_model, among the given rows.
LatestOf(S) == CHOOSE v \in S : \A w \in S : vers[w].order <= vers[v].order

To(c, at) == act' = [act EXCEPT ![c].at = at]
Over(c) == act' = [act EXCEPT ![c] = Quiet]
Begins(c, call) ==
    /\ act[c] = Quiet /\ acts < MaxActs
    /\ acts' = acts + 1
    /\ act' = [act EXCEPT ![c] = call]
    /\ UNCHANGED <<doc, vers, chunk, blob, acked, granted>>

-----------------------------------------------------------------------------
\* upload: a plain call draws fresh ids; an import derives them from the file
\* and looks the version up before it uploads.
AskUpload(c, v) ==
    /\ v \notin ImportIds \cup Rows \cup blob /\ \A b \in Actors : act[b].v # v
    /\ Begins(c, [Quiet EXCEPT !.at = "document", !.v = v])
AskImport(c, v) == v \in ImportIds /\ Begins(c, [Quiet EXCEPT !.at = "preflight", !.v = v])

Preflight(c) ==
    /\ act[c].at = "preflight"
    /\ IF act[c].v \in Rows THEN Over(c) ELSE To(c, "document")
    /\ UNCHANGED <<doc, vers, chunk, blob, acked, granted, acts>>

UploadGetDocument(c) ==
    /\ act[c].at = "document"
    /\ IF doc.row /\ ~DocLive THEN Over(c)
       ELSE act' = [act EXCEPT ![c].at = "put", ![c].existing = doc.row]
    /\ UNCHANGED <<doc, vers, chunk, blob, acked, granted, acts>>

\* The object's key holds tenant, document, version and file name. A failed
\* put may have stored the object; nothing removes it then.
PutObject(c) ==
    /\ act[c].at = "put"
    /\ \/ blob' = blob \cup {act[c].v} /\ To(c, "records")
       \/ blob' = blob \cup {act[c].v} /\ Over(c)
       \/ UNCHANGED blob /\ Over(c)
    /\ UNCHANGED <<doc, vers, chunk, acked, granted, acts>>

\* create_document_version_records reads the document again.
UploadRecords(c) ==
    /\ act[c].at = "records"
    /\ To(c, IF act[c].existing /\ ~DocLive THEN "undo" ELSE "flush")
    /\ UNCHANGED <<doc, vers, chunk, blob, acked, granted, acts>>

\* The version's key refuses a second row, the document's a second document.
Refused(c) == act[c].v \in Rows \/ (~act[c].existing /\ doc.row)

NewOrder == Cardinality(Rows) + 1
NewRows(c) ==
    /\ vers' = [vers EXCEPT ![act[c].v] = [status |-> "uploaded", order |-> NewOrder]]
    /\ doc' = [doc EXCEPT !.row = TRUE, !.status = "uploaded"]

\* Flush and commit: refused, committed, lost before the server applied it,
\* or applied and reported as failed. Any error compensates.
UploadCommit(c) ==
    /\ act[c].at = "flush"
    /\ IF Refused(c) THEN To(c, "undo") /\ UNCHANGED <<doc, vers>>
       ELSE \/ NewRows(c) /\ To(c, "enqueue")
            \/ NewRows(c) /\ To(c, "undo")
            \/ To(c, "undo") /\ UNCHANGED <<doc, vers>>
    /\ UNCHANGED <<chunk, blob, acked, granted, acts>>

RemovesPrefix(c) == {}   \* seeded fault
\* _delete_object removes the object under this call's key, and may fail.
RemovesKey(c) == blob \ {act[c].v}
DeleteObject(c) ==
    /\ act[c].at = "undo"
    /\ blob' \in {blob, RemovesKey(c)}
    /\ Over(c)
    /\ UNCHANGED <<doc, vers, chunk, acked, granted, acts>>

\* An enqueue error marks the job failed and keeps object and rows.
EnqueueUpload(c) ==
    /\ act[c].at = "enqueue"
    /\ acked' \in {acked \cup ({act[c].v} \ ImportIds), acked}
    /\ Over(c)
    /\ UNCHANGED <<doc, vers, chunk, blob, granted, acts>>

-----------------------------------------------------------------------------
\* The pipeline's outcome: an active version with its object gets chunks and
\* is ready; without the object parsing fails. The document mirrors the
\* newest live version.
Mirror(v, status) == IF v = LatestOf(LiveRows) THEN [doc EXCEPT !.status = status] ELSE doc

Index(v) ==
    /\ DocLive /\ vers[v].status = "uploaded"
    /\ LET status == IF v \in blob THEN Ready ELSE "failed"
       IN /\ vers' = [vers EXCEPT ![v].status = status]
          /\ doc' = Mirror(v, status)
          /\ chunk' = [chunk EXCEPT ![v] = IF v \in blob THEN "active" ELSE @]
    /\ act' = [c \in Actors |-> IF act[c].v = v THEN [act[c] EXCEPT !.live = v \in blob] ELSE act[c]]
    /\ UNCHANGED <<blob, acked, granted, acts>>

-----------------------------------------------------------------------------
\* delete without a version: chunks of the versions listed, then the versions
\* found live, the document and the vectors, in one transaction.
AskDelete(c) == Begins(c, [Quiet EXCEPT !.at = "list"])

ListVersions(c) ==
    /\ act[c].at = "list"
    /\ IF doc.row THEN act' = [act EXCEPT ![c].at = "select", ![c].seen = Rows] ELSE Over(c)
    /\ UNCHANGED <<doc, vers, chunk, blob, acked, granted, acts>>

SelectVersions(c) ==
    /\ act[c].at = "select"
    /\ act' = [act EXCEPT ![c].at = "sweep", ![c].dead = LiveRows]
    /\ UNCHANGED <<doc, vers, chunk, blob, acked, granted, acts>>

SoftDeleteChunks(S) == [v \in Versions |-> IF v \in S /\ chunk[v] = "active" THEN "deleted" ELSE chunk[v]]

SoftDeleteDocument(c) ==
    /\ act[c].at = "sweep"
    /\ vers' = [v \in Versions |-> IF v \in act[c].dead THEN [vers[v] EXCEPT !.status = "deleted"] ELSE vers[v]]
    /\ chunk' = SoftDeleteChunks(act[c].seen)
    /\ doc' = [doc EXCEPT !.status = "deleted", !.gone = TRUE]
    /\ Over(c)
    /\ UNCHANGED <<blob, acked, granted, acts>>

\* delete of a version: what remains is counted before the commit.
AskDeleteVersion(c, v) == Begins(c, [Quiet EXCEPT !.at = "remaining", !.v = v])

CountRemaining(c) ==
    /\ act[c].at = "remaining"
    /\ LET v == act[c].v
           rest == LiveRows \ {v}
       IN IF v \notin LiveRows THEN Over(c)
          ELSE act' = [act EXCEPT ![c].at = "cut", ![c].seen = rest,
                                  ![c].status = IF rest = {} THEN "deleted" ELSE vers[LatestOf(rest)].status]
    /\ UNCHANGED <<doc, vers, chunk, blob, acked, granted, acts>>

SoftDeleteVersion(c) ==
    /\ act[c].at = "cut"
    /\ vers' = [vers EXCEPT ![act[c].v].status = "deleted"]
    /\ chunk' = SoftDeleteChunks({act[c].v})
    /\ doc' = [doc EXCEPT !.status = act[c].status, !.gone = @ \/ act[c].seen = {}]
    /\ Over(c)
    /\ UNCHANGED <<blob, acked, granted, acts>>

-----------------------------------------------------------------------------
ChainLive(v) == DocLive /\ vers[v].status = Ready /\ chunk[v] = "active"

\* resolve reads document, version and chunk one after the other; `live`
\* notes whether the whole chain was live at some instant of the call.
Reads(c, found, next) ==
    /\ act' = [act EXCEPT ![c] = IF found THEN [@ EXCEPT !.at = next, !.live = @ \/ ChainLive(act[c].v)]
                                 ELSE Quiet]
    /\ UNCHANGED <<doc, vers, chunk, blob, acked, granted, acts>>

AskResolve(c, v) == Begins(c, [Quiet EXCEPT !.at = "source", !.v = v])
DocumentVisible == DocLive
ResolveDocument(c) == act[c].at = "source" /\ Reads(c, DocumentVisible, "version")

VersionVisible(c) == vers[act[c].v].status = Ready
ResolveVersion(c) == act[c].at = "version" /\ Reads(c, VersionVisible(c), "chunk")

ChunkVisible(c) == chunk[act[c].v] = "active"

\* The audit record must be written before the source is answered.
ResolveChunk(c) ==
    /\ act[c].at = "chunk"
    /\ granted' = IF ChunkVisible(c) THEN granted \cup {act[c].live \/ ChainLive(act[c].v)} ELSE granted
    /\ Over(c)
    /\ UNCHANGED <<doc, vers, chunk, blob, acked, acts>>

\* A read or write fails, or the process dies: no transaction is committed
\* and no compensation is made.
FailAct(c) ==
    /\ act[c] # Quiet
    /\ Over(c)
    /\ UNCHANGED <<doc, vers, chunk, blob, acked, granted, acts>>

VersionsNext ==
    \/ \E v \in Versions : Index(v)
    \/ \E c \in Actors :
        \/ \E v \in Versions : AskUpload(c, v) \/ AskImport(c, v) \/ AskDeleteVersion(c, v) \/ AskResolve(c, v)
        \/ Preflight(c) \/ UploadGetDocument(c) \/ PutObject(c) \/ UploadRecords(c) \/ UploadCommit(c)
        \/ DeleteObject(c) \/ EnqueueUpload(c)
        \/ AskDelete(c) \/ ListVersions(c) \/ SelectVersions(c) \/ SoftDeleteDocument(c)
        \/ CountRemaining(c) \/ SoftDeleteVersion(c)
        \/ ResolveDocument(c) \/ ResolveVersion(c) \/ ResolveChunk(c) \/ FailAct(c)

-----------------------------------------------------------------------------
\* At most one row per version, in an order of their own, whichever calls
\* write it.
VersionsTypeOK ==
    /\ doc.status \in {"none", "uploaded", Ready, "failed", "deleted"}
    /\ \A v \in Versions : vers[v].order \in 0..Cardinality(Versions) /\ chunk[v] \in {"none", "active", "deleted"}
    /\ blob \subseteq Versions /\ acked \subseteq Versions /\ acts \in 0..MaxActs
    /\ \A v, w \in Versions : vers[v].order = vers[w].order => v = w \/ vers[v].order = 0

\* What an upload acknowledged it keeps: the object of an acknowledged plain
\* upload is never removed, whichever calls fail and compensate beside it
\* (_delete_object runs only before the commit is acknowledged).
AckedKeepsObject == \A v \in acked : v \in blob

\* A granted source was whole: at some instant of the call document, version
\* and chunk were all live, although the three are read one after the other
\* beside uploads and deletes (resolve's order; a delete commits all three).
ResolvedLive == FALSE \notin granted
=============================================================================
