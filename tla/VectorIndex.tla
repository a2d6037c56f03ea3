---------------------------- MODULE VectorIndex ----------------------------
(* The vector index: PgVectorStore and its two searches, the store used   *)
(* without a database, and the keyword search of PostgresSparseRetriever. *)
(*                                                                         *)
(* A writer embeds the chunks of one document: it reads the answer of the  *)
(* embedding service, pairs vectors with chunks and upserts the records,   *)
(* looking each one up before it inserts or updates it.  A deleter marks   *)
(* the live records of a document.  Both work in a transaction of their    *)
(* own and see what others have committed.  A search is a function of the  *)
(* committed rows; it exists three times, as SQL, over rows loaded by      *)
(* SQLAlchemy and over a dictionary, and has to mean the same each time.   *)
EXTENDS Integers, Sequences, FiniteSets, SequencesExt

CONSTANTS
    Writers,    \* concurrent transactions on the index
    DocOf,      \* the document of each chunk, chunks numbered in order
    EmbeddingVersions, \* embedding versions; 0 is None
    Acls,       \* access lists a document can carry
    Answers,    \* what the service may answer: positions of the texts, tagged
    Queries,    \* search requests
    IndexDim,   \* the dimension the index is configured for
    MaxRows,    \* bound on the rows ever inserted
    MaxTxns     \* bound on the transactions

VARIABLES
    index,      \* vector_records, by id
    txn,        \* the transaction of each writer
    cleared,    \* documents deleted alone, and not indexed since
    txns        \* transactions so far

indexVars == <<index, txn, cleared, txns>>

ChunkIds == DOMAIN DocOf
DocIds == {DocOf[c] : c \in ChunkIds}
ListKeys == {"denied_users", "allowed_users", "allowed_roles",
             "allowed_departments", "allowed_permissions"}

NoTxn == [op |-> "none", doc |-> 0, version |-> 0, acl |-> [vis |-> "tenant"],
          found |-> <<>>, vecs |-> <<>>, doomed |-> {},
          dim |-> 0, alone |-> TRUE]

IndexInit ==
    /\ index = <<>>
    /\ txn = [w \in Writers |-> NoTxn]
    /\ cleared = {}
    /\ txns = 0

----------------------------------------------------------------------------
(* From the service's answer to records.                                   *)

\* list_chunks_for_version: the chunks of a document, in order.
ChunksOf(d) == SelectSeq([c \in ChunkIds |-> c], LAMBDA c : DocOf[c] = d)

\* _vectors_from_body: an item without an index takes its position; the
\* vectors are sorted by index.
VectorsFromBody(answer) ==
    SortSeq([i \in 1 .. Len(answer) |->
                [answer[i] EXCEPT !.index = IF @ = 0 THEN i ELSE @]],
            LAMBDA a, b : a.index < b.index)

\* _validate_response: as many vectors as chunks, index i at place i, none
\* empty, all of the dimension of the first.
ValidateResponse(vectors, n) ==
    /\ Len(vectors) = n
    /\ \A i \in 1 .. n : /\ vectors[i].index = i
                         /\ vectors[i].dim = vectors[1].dim
                         /\ vectors[i].dim > 0

\* _validate_record_batch; one document and one embedding by construction.
ValidateRecordBatch(vectors) == \A i \in DOMAIN vectors : vectors[i].dim = IndexDim

\* map_embedding_response_to_vector_records: the vector with the chunk's id,
\* or else the one at the chunk's place.
Paired(chunks, vectors) ==
    [i \in DOMAIN chunks |->
        LET same == {k \in DOMAIN vectors : chunks[vectors[k].index] = chunks[i]}
        IN  IF same = {} THEN chunks[vectors[i].vec]
            ELSE chunks[vectors[CHOOSE k \in same : \A o \in same : o <= k].vec]]

----------------------------------------------------------------------------
(* PgVectorStore.upsert and delete_by_document.                            *)

LiveRow(r) == r.status = "active"

\* _find_existing: scalar() takes one of the rows with the record's key.
FindExisting(c, v) ==
    {i \in DOMAIN index : index[i].chunk = c /\ index[i].version = v}

BeginTxn(w) ==
    /\ txn[w].op = "none"
    /\ txns < MaxTxns
    /\ txns' = txns + 1

Others(w) == {o \in Writers \ {w} : txn[o].op # "none"}

\* Whoever is at work when another begins is no longer alone.
Joined(w, t) ==
    [o \in Writers |-> IF o = w THEN t
                       ELSE [txn[o] EXCEPT !.alone = FALSE]]

\* upsert up to the flush: the batch is validated and looked up.  An answer
\* that does not fit the batch raises before the store is reached.
BeginUpsert(w, d, v, acl, answer) ==
    /\ BeginTxn(w)
    /\ LET chunks == ChunksOf(d)
           vectors == VectorsFromBody(answer)
       IN  IF ~(ValidateResponse(vectors, Len(chunks)) /\ ValidateRecordBatch(vectors))
           THEN UNCHANGED <<index, txn, cleared>>
           ELSE \E found \in [1 .. Len(chunks) -> {0} \cup DOMAIN index] :
                  /\ \A i \in DOMAIN found :
                       IF FindExisting(chunks[i], v) = {} THEN found[i] = 0
                       ELSE found[i] \in FindExisting(chunks[i], v)
                  /\ txn' = Joined(w,
                       [op |-> "upsert", doc |-> d, version |-> v, acl |-> acl,
                        found |-> found, doomed |-> {},
                        dim |-> vectors[1].dim, vecs |-> Paired(chunks, vectors),
                        alone |-> Others(w) = {}])
                  /\ UNCHANGED <<index, cleared>>

\* _model_from_record and _update_model_from_record: every column, status
\* and deleted_at with them, is the record's.
VectorRow(t, c, vec) ==
    [chunk |-> c, version |-> t.version, status |-> "active",
     acl |-> t.acl, vec |-> vec, dim |-> t.dim]

\* uq_vector_records_chunk_embedding_version, where NULL equals nothing.
KeyTaken(t, chunks) ==
    /\ t.version # 0
    /\ \E i \in DOMAIN chunks :
          t.found[i] = 0 /\ FindExisting(chunks[i], t.version) # {}

\* The flush and the commit after it; a conflict rolls the batch back.
FlushUpsert(w) ==
    LET t == txn[w]
        chunks == ChunksOf(t.doc)
        new == SelectSeq([i \in 1 .. Len(chunks) |-> i], LAMBDA i : t.found[i] = 0)
    IN  /\ t.op = "upsert"
        /\ txn' = [txn EXCEPT ![w] = NoTxn]
        /\ UNCHANGED txns
        /\ IF KeyTaken(t, chunks)
           THEN UNCHANGED <<index, cleared>>
           ELSE /\ Len(index) + Len(new) <= MaxRows
                /\ index' = [j \in DOMAIN index |->
                              IF \E i \in DOMAIN chunks : t.found[i] = j
                              THEN LET i == CHOOSE i \in DOMAIN chunks : t.found[i] = j
                                   IN  VectorRow(t, chunks[i], t.vecs[i])
                              ELSE index[j]]
                           \o [j \in 1 .. Len(new) |->
                                 VectorRow(t, chunks[new[j]], t.vecs[new[j]])]
                /\ cleared' = cleared \ {t.doc}

\* delete_by_document: the live records of the document, all versions of
\* the embedding.
Doomed(d) == {i \in DOMAIN index : DocOf[index[i].chunk] = d /\ LiveRow(index[i])}

BeginDelete(w, d) ==
    /\ BeginTxn(w)
    /\ txn' = Joined(w, [NoTxn EXCEPT !.op = "delete", !.doc = d,
                            !.doomed = Doomed(d), !.alone = Others(w) = {}])
    /\ UNCHANGED <<index, cleared>>

FlushDelete(w) ==
    /\ txn[w].op = "delete"
    /\ index' = [j \in DOMAIN index |->
                  IF j \in txn[w].doomed
                  THEN [index[j] EXCEPT !.status = "deleted"] ELSE index[j]]
    /\ cleared' = IF txn[w].alone THEN cleared \cup {txn[w].doc} ELSE cleared
    /\ txn' = [txn EXCEPT ![w] = NoTxn]
    /\ UNCHANGED txns

\* A flush that fails is rolled back: nothing of the batch is kept.
FailFlush(w) ==
    /\ txn[w].op # "none"
    /\ txn' = [txn EXCEPT ![w] = NoTxn]
    /\ UNCHANGED <<index, cleared, txns>>

IndexNext ==
    \E w \in Writers :
        \/ \E d \in DocIds :
              \/ BeginDelete(w, d)
              \/ \E v \in EmbeddingVersions, acl \in Acls, answer \in Answers :
                    BeginUpsert(w, d, v, acl, answer)
        \/ FlushUpsert(w) \/ FlushDelete(w) \/ FailFlush(w)

----------------------------------------------------------------------------
(* Who may see a record.  A list is a set of names, or one bare name.      *)

\* acl.get(key): a key that is absent is an empty list.
Entry(acl, key) == IF key \in DOMAIN acl THEN acl[key] ELSE [names |-> {}, bare |-> FALSE]

\* acl_allows, with _text_set reading a list and a bare name alike.
AclAllows(acl, who) ==
    /\ who.user \notin Entry(acl, "denied_users").names
    /\ \/ acl.vis \in {"public", "tenant"}
       \/ who.user \in Entry(acl, "allowed_users").names
       \/ who.roles \cap Entry(acl, "allowed_roles").names # {}
       \/ who.departments \cap Entry(acl, "allowed_departments").names # {}
       \/ who.permissions \cap Entry(acl, "allowed_permissions").names # {}

\* jsonb @> {key: [value]}: a bare name contains no list.
JsonContains(acl, key, values) ==
    ~Entry(acl, key).bare /\ values \cap Entry(acl, key).names # {}

\* The sparse statement's form: the array holds the name, or is the name.
ArrayOrText(acl, key, values) == values \cap Entry(acl, key).names # {}

\* The WHERE clause of both statements; only the sparse one reads a bare
\* name as a list.
SqlAllows(acl, who, bareToo) ==
    LET Holds(key, values) == IF bareToo THEN ArrayOrText(acl, key, values)
                                         ELSE JsonContains(acl, key, values)
    IN  /\ ~Holds("denied_users", {who.user})
        /\ \/ acl.vis \in {"public", "tenant"}
           \/ Holds("allowed_users", {who.user})
           \/ Holds("allowed_roles", who.roles)
           \/ Holds("allowed_departments", who.departments)
           \/ Holds("allowed_permissions", who.permissions)

----------------------------------------------------------------------------
(* The searches: rows in, a page of rows out.                              *)

Score(q, r) == q.near[r.vec]

\* A page: the best first, the chunk id between equals, at most top_k.
Better(q, i, j) ==
    LET a == <<Score(q, index[i]), index[i].chunk>>
        b == <<Score(q, index[j]), index[j].chunk>>
    IN  \/ a[1] > b[1]
        \/ a[1] = b[1] /\ a[2] < b[2]
        \/ a = b /\ i < j

Page(q, ids) ==
    LET n == Cardinality(ids)
        At(k) == CHOOSE i \in ids :
                    Cardinality({j \in ids : Better(q, j, i)}) = k - 1
    IN  [k \in 1 .. (IF n < q.top_k THEN n ELSE q.top_k) |-> index[At(k)]]

\* The columns: live unless deleted ones are asked for, and the version
\* when one is named.
InScope(q) ==
    {i \in DOMAIN index : /\ index[i].dim = IndexDim
                          /\ q.include_deleted \/ LiveRow(index[i])
                          /\ q.version \in {0, index[i].version}}

\* PgVectorStore.search without PostgreSQL, and FakeVectorStore.search.
SearchPython(q) ==
    Page(q, {i \in InScope(q) : AclAllows(index[i].acl, q.who)
                                /\ Score(q, index[i]) >= q.floor})

\* seeded fault: the threshold cuts the page, not the rows
FloorAfterLimit(q) ==
    SelectSeq(Page(q, {i \in InScope(q) : SqlAllows(index[i].acl, q.who, FALSE)}),
              LAMBDA r : Score(q, r) > q.floor)

\* _postgres_search_query.
SearchSql(q) ==
    Page(q, {i \in InScope(q) : SqlAllows(index[i].acl, q.who, FALSE)
                                /\ Score(q, index[i]) >= q.floor})

\* SqlAlchemySparseSearchBackend._search_python_fallback: the ids the caller
\* may see are collected first, their rows loaded, filtered and ranked.
SparseFallback(q) ==
    LET allowed == {i \in InScope(q) : AclAllows(index[i].acl, q.who)}
    IN  Page(q, {i \in allowed : Score(q, index[i]) >= q.floor})

\* _postgres_search_statement: the rows the keyword search selects.
SparseRows(q) ==
    {i \in InScope(q) : SqlAllows(index[i].acl, q.who, TRUE)
                        /\ Score(q, index[i]) >= q.floor}

\* _filter_records
FilterRecords(q, page) ==
    SelectSeq(page, LAMBDA r : AclAllows(r.acl, q.who) /\ Score(q, r) >= q.floor)

\* PostgresSparseRetriever.retrieve: the page the database returns is
\* filtered once more.
SparseSearch(q) == FilterRecords(q, Page(q, SparseRows(q)))

----------------------------------------------------------------------------
(* Properties.                                                             *)

\* Every record has the index's dimension and is active or deleted.
IndexTypeOK ==
    /\ \A i \in DOMAIN index : index[i].chunk \in ChunkIds /\ index[i].vec \in ChunkIds
                              /\ index[i].status \in {"active", "deleted"}
    /\ cleared \subseteq DocIds
    /\ \A i \in DOMAIN index : index[i].dim = IndexDim
    /\ Len(index) <= MaxRows

\* A record never carries the vector of another chunk's text, however the
\* service orders or repeats its items (_vectors_from_body,
\* _validate_response, map_embedding_response_to_vector_records).
OwnVector == \A i \in DOMAIN index : index[i].vec = index[i].chunk

\* Two executions that both looked a chunk up before either wrote it leave
\* one row of a named embedding version.
OneRowPerVersion ==
    \A i, j \in DOMAIN index :
        (index[i].version # 0 /\ index[i].version = index[j].version
         /\ index[i].chunk = index[j].chunk) => i = j

\* A document deleted with nobody else at work has no live record, in any
\* embedding version, until it is indexed again.
ClearedStaysOut ==
    \A i \in DOMAIN index : LiveRow(index[i]) => DocOf[index[i].chunk] \notin cleared

ListsOnly(acl) == \A k \in DOMAIN acl \cap ListKeys : ~acl[k].bare

\* The SQL of the dense search and the loop it replaces return the same
\* page for every caller, where access lists are lists.
SqlAgrees ==
    (\A i \in DOMAIN index : ListsOnly(index[i].acl))
        => \A q \in Queries : SearchSql(q) = SearchPython(q)

\* The second filter of the keyword search costs no hit: what LIMIT let
\* through is what the caller may see, so no permitted record is crowded
\* out of the page by one that is then dropped.
SparseLosesNothing == \A q \in Queries : SparseSearch(q) = SparseFallback(q)

\* No search returns a record that denies its caller, whatever else the
\* record's lists say.
DenyWins ==
    \A q \in Queries : \A r \in ToSet(SearchPython(q)) :
        q.who.user \notin Entry(r.acl, "denied_users").names

\* Of an access list made at upload the visibility alone decides: its
\* users, roles and departments are under keys that no search reads.
VisibilityDecides ==
    \A i \in DOMAIN index : \A q \in Queries :
        (DOMAIN index[i].acl \cap ListKeys = {})
            => (AclAllows(index[i].acl, q.who) <=> index[i].acl.vis = "tenant")
=============================================================================
