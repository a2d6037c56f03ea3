---------------------------- MODULE RetrievalFlow ----------------------------
(***************************************************************************)
(* The retrieval application: RetrieveApplicationService around            *)
(* RetrievalService, CachedRetriever with its shared cache and its         *)
(* single-flight tasks, and under them routing, query rewriting, the two   *)
(* hybrid branches, the merge and the reranker.  A candidate is a chunk;   *)
(* what the merge and the reranker do to order and scores is RankFusion.   *)
(***************************************************************************)
EXTENDS Naturals, FiniteSets, Sequences, SequencesExt

CONSTANTS Callers,       \* calls of RetrieveApplicationService.retrieve
          Idents,        \* identities: cache key, request id and trace id
          Keys,          \* cache keys: query and complete authorization filters
          Groupings,     \* bound: the ways callers share identities, one per behaviour
          KeyOf,         \* key of each identity
          Hydrating,     \* callers whose application has a content hydrator
          Chunks,        \* the indexed chunks
          AllowDegraded, \* settings.hybrid_degraded_mode
          Parallel,      \* hybrid_parallel_enabled and no shared session
          MaxSize,       \* entries of the in-memory cache
          Ttl,           \* ttl_seconds
          FetchLimit     \* bound: how long provider timeouts let a task run

ASSUME FlowAssumption ==
  /\ Groupings \subseteq [Callers -> Idents] /\ KeyOf \in [Idents -> Keys]
  /\ Hydrating \subseteq Callers
  /\ {MaxSize, Ttl, FetchLimit} \subseteq Nat \ {0}

VARIABLES ident,    \* identity of each caller
          access,   \* chunks the stores still show to the callers' filters
          gone,     \* how long ago each of the others was lost (saturating)
          cache,    \* key -> entry, the keys present only
          order,    \* _access_order
          closed,   \* the cache was closed at shutdown
          flight,   \* _inflight, by identity
          stage,    \* where each caller stands
          got       \* candidates each caller holds until it is done

cacheVars == <<cache, order, closed>>
callVars == <<ident, stage, got>>
flowVars == <<access, gone, cacheVars, flight, callVars>>

NoFlight == [at |-> "none", dense |-> "off", sparse |-> "off", found |-> {},
             age |-> 0, waiters |-> {}, abandoned |-> FALSE]
NewFlight(c) == [NoFlight EXCEPT !.at = "get", !.waiters = {c}]
Running(i) == flight[i].at # "none"
Done == {"returned", "raised", "gone", "cut"}
TooOld == Ttl + FetchLimit + 1
Busy == \E c \in Callers : stage[c] \notin Done      \* bound: the world stops with the callers

\* A flight is awaited by attached callers of its own identity only, and the
\* cache holds chunks no older than its lifetime and a tick.
FlowTypeOK ==
  /\ ident \in [Callers -> Idents]
  /\ access \subseteq Chunks
  /\ gone \in [Chunks -> 0..TooOld]
  /\ \A k \in DOMAIN cache : cache[k].found \subseteq Chunks /\ cache[k].age \in 0..Ttl + 1
  /\ closed \in BOOLEAN
  /\ \A i \in Idents :
       /\ flight[i].at \in {"none", "get", "route", "search", "rerank", "set"}
       /\ flight[i].waiters \subseteq {c \in Callers : ident[c] = i /\ stage[c] = "attached"}
  /\ stage \in [Callers -> Done \cup
                 {"start", "attached", "draining", "hydrate", "record", "failing"}]
  /\ got \in [Callers -> SUBSET Chunks]

FlowInit ==
  /\ ident \in Groupings
  /\ access = Chunks
  /\ gone = [x \in Chunks |-> 0]
  /\ cache = <<>> /\ order = <<>> /\ closed = FALSE
  /\ flight = [i \in Idents |-> NoFlight]
  /\ stage = [c \in Callers |-> "start"]
  /\ got = [c \in Callers |-> {}]

-----------------------------------------------------------------------------
(* The world: time passes, a chunk is deleted or taken from the readers,    *)
(* the process shuts down.  Ages stop growing where they stop mattering.    *)
Older(n, most) == IF n < most THEN n + 1 ELSE n
Time ==
  /\ Busy
  /\ \A i \in Idents : Running(i) => flight[i].age < FetchLimit
  /\ flight' = [i \in Idents |-> IF Running(i) THEN [flight[i] EXCEPT !.age = @ + 1] ELSE NoFlight]
  /\ cache' = [k \in DOMAIN cache |-> [cache[k] EXCEPT !.age = Older(@, Ttl + 1)]]
  /\ gone' = [x \in Chunks |-> IF x \in access THEN 0 ELSE Older(gone[x], TooOld)]
  /\ UNCHANGED <<access, order, closed>> /\ UNCHANGED callVars

LoseAccess(x) ==
  /\ Busy /\ x \in access
  /\ access' = access \ {x}
  /\ UNCHANGED <<gone, flight>> /\ UNCHANGED cacheVars /\ UNCHANGED callVars

Aclose ==
  /\ Busy /\ ~closed
  /\ closed' = TRUE /\ cache' = <<>> /\ order' = <<>>
  /\ UNCHANGED <<access, gone, flight>> /\ UNCHANGED callVars

-----------------------------------------------------------------------------
(* RetrievalCache.                                                          *)
Without(f, k) == [x \in DOMAIN f \ {k} |-> f[x]]
TouchLru(s, k) == Append(Remove(s, k), k)

NeverExpires(e) == TRUE                                          \* seeded fault
Fresh(e) == e.age <= Ttl

(* get: an expired entry is dropped; a hit is moved to the end.             *)
Lookup(k) ==
  IF k \notin DOMAIN cache THEN [hit |-> FALSE, cache |-> cache, order |-> order]
  ELSE IF ~Fresh(cache[k]) THEN [hit |-> FALSE, cache |-> Without(cache, k), order |-> Remove(order, k)]
  ELSE [hit |-> TRUE, cache |-> cache, order |-> TouchLru(order, k)]

(* _evict_lru makes room for a key that is not there yet.                   *)
EvictLru(k) ==
  IF k \notin DOMAIN cache /\ Cardinality(DOMAIN cache) >= MaxSize
  THEN [cache |-> Without(cache, Head(order)), order |-> Tail(order)]
  ELSE [cache |-> cache, order |-> order]

(* set; nothing is stored once the cache is closed.                         *)
Store(k, found) ==
  IF closed THEN UNCHANGED <<cache, order>>
  ELSE LET room == EvictLru(k)
       IN /\ cache' = [x \in DOMAIN room.cache \cup {k} |->
                         IF x = k THEN [found |-> found, age |-> 0] ELSE room.cache[x]]
          /\ order' = TouchLru(room.order, k)

-----------------------------------------------------------------------------
(* A caller enters.  A metadata filter that names another tenant is refused *)
(* before any search.                                                       *)
Refuse(c) ==
  /\ stage[c] = "start"
  /\ stage' = [stage EXCEPT ![c] = "failing"]
  /\ UNCHANGED <<access, gone, flight, ident, got>> /\ UNCHANGED cacheVars

(* CachedRetriever.retrieve: join the flight of the identity, or start one; *)
(* an abandoned flight is waited for, never joined.                         *)
Joinable(i) == ~flight[i].abandoned
Attach(c) ==
  LET i == ident[c]
  IN /\ stage[c] = "start"
     /\ Joinable(i)
     /\ flight' = [flight EXCEPT ![i] = IF Running(i) THEN [@ EXCEPT !.waiters = @ \cup {c}]
                                        ELSE NewFlight(c)]
     /\ stage' = [stage EXCEPT ![c] = "attached"]
     /\ UNCHANGED <<access, gone, ident, got>> /\ UNCHANGED cacheVars

(* RetrievalService.retrieve hands on what its filters still admit: they    *)
(* look at the candidates' own copy of the ACL, so nothing is lost here.    *)
Serve(c, found) == IF c \in Hydrating /\ found # {} THEN "hydrate" ELSE "record"

(* The task is over: _finished drops the flight, the waiters resume with    *)
(* its result, its error or its cancellation, and the caller that drained   *)
(* an abandoned task lets its own cancellation go on.                       *)
Finish(i, outcome, found) ==
  LET ws == flight[i].waiters
  IN /\ flight' = [flight EXCEPT ![i] = NoFlight]
     /\ stage' = [c \in Callers |->
          IF c \in ws THEN CASE outcome = "ok" -> Serve(c, found)
                             [] outcome = "error" -> "failing"
                             [] OTHER -> "cut"
          ELSE IF stage[c] = "draining" /\ ident[c] = i THEN "gone"
          ELSE stage[c]]
     /\ got' = [c \in Callers |-> IF c \in ws /\ outcome = "ok" THEN found ELSE got[c]]
     /\ UNCHANGED ident

Advance(i, f) == /\ flight' = [flight EXCEPT ![i] = f] /\ UNCHANGED callVars
Steps(i, at) == flight[i].at = at /\ ~flight[i].abandoned
World == UNCHANGED <<access, gone>>

(* _retrieve_cached, first half.  A Redis that does not answer is a miss.   *)
CacheGet(i) ==
  LET k == KeyOf[i]
      hit == Lookup(k)
  IN /\ Steps(i, "get") /\ World
     /\ \/ /\ ~closed
           /\ cache' = hit.cache /\ order' = hit.order
           /\ IF hit.hit THEN Finish(i, "ok", cache[k].found)
              ELSE Advance(i, [flight[i] EXCEPT !.at = "route"])
        \/ /\ Advance(i, [flight[i] EXCEPT !.at = "route"])
           /\ UNCHANGED <<cache, order>>
     /\ UNCHANGED closed

(* RoutingRetriever: the keyword rules, or the model where they are unsure  *)
(* and its error is ignored, pick the path: dense alone for a factual query *)
(* or, for the others, the hybrid search of a rewritten query.              *)
Classified == {"off", "run"}    \* what becomes of the sparse branch
Route(i) ==
  /\ Steps(i, "route") /\ World /\ UNCHANGED cacheVars
  /\ \E sparse \in Classified :
       Advance(i, [flight[i] EXCEPT !.at = "search", !.dense = "run", !.sparse = sparse])

(* HybridRetriever.retrieve after both branches: one soft failure may be    *)
(* left out; the factual path has the dense branch alone.                   *)
Usable(f) ==
  LET failed == {f.dense, f.sparse} \ {"ok", "off"}
  IN \/ failed = {}
     \/ AllowDegraded /\ failed = {"soft"} /\ "ok" \in {f.dense, f.sparse}

(* The merge follows the last branch without a pause; of the merged paths   *)
(* the complex one reranks and the comparison one does not.                 *)
Merge(i, f) ==
  IF "run" \in {f.dense, f.sparse} THEN Advance(i, f)
  ELSE IF ~Usable(f) THEN Finish(i, "error", {})
  ELSE \/ Advance(i, [f EXCEPT !.at = "set"])
       \/ f.sparse # "off" /\ f.found # {} /\ Advance(i, [f EXCEPT !.at = "rerank"])

(* A branch answers with what the store shows to the filters, or fails with *)
(* an error that may be degraded ("soft": the embedding provider or the     *)
(* search backend) or one that may not ("hard": an invalid query vector,    *)
(* embedding version or record).                                            *)
EmbedOutcomes == {"ok", "soft", "hard"}
SearchOutcomes == {"ok", "soft", "hard"}
Shown(o, found) == IF o = "ok" THEN found \cup access ELSE found
Dense(i) ==
  /\ Steps(i, "search") /\ flight[i].dense = "run" /\ World /\ UNCHANGED cacheVars
  /\ \E o \in EmbedOutcomes : Merge(i, [flight[i] EXCEPT !.dense = o, !.found = Shown(o, @)])
Sparse(i) ==
  /\ Steps(i, "search") /\ flight[i].sparse = "run" /\ World /\ UNCHANGED cacheVars
  /\ Parallel \/ flight[i].dense # "run"
  /\ \E o \in SearchOutcomes : Merge(i, [flight[i] EXCEPT !.sparse = o, !.found = Shown(o, @)])

(* RerankingRetriever: a timeout, an error or an invalid answer of the      *)
(* reranker falls back to the upstream order; an upstream candidate out of  *)
(* scope, or failure_policy "fail_closed", is an error.                     *)
Rerank(i) ==
  /\ Steps(i, "rerank") /\ World /\ UNCHANGED cacheVars
  /\ \/ Advance(i, [flight[i] EXCEPT !.at = "set"])
     \/ Finish(i, "error", {})

(* _retrieve_cached, second half.  A Redis that fails stores nothing.       *)
CacheSet(i) ==
  /\ Steps(i, "set") /\ World
  /\ Store(KeyOf[i], flight[i].found) \/ UNCHANGED <<cache, order>>
  /\ UNCHANGED closed
  /\ Finish(i, "ok", flight[i].found)

(* The cancellation of an abandoned task has unwound its upstream.          *)
Unwind(i) ==
  /\ flight[i].abandoned /\ World /\ UNCHANGED cacheVars
  /\ Finish(i, "cancelled", {})

-----------------------------------------------------------------------------
(* A client goes away: the finally of CachedRetriever.retrieve.  The last   *)
(* waiter cancels the task and stays until the task has ended.  A caller    *)
(* that has not got further than "start" waits for an abandoned flight.     *)
AfterCancel(c, last) == IF last THEN "draining" ELSE "gone"
IsLastWaiter(i, c) == flight[i].waiters = {c}
Cancel(c) ==
  LET i == ident[c]
      last == IsLastWaiter(i, c)
  IN /\ stage[c] \notin Done \cup {"draining"}
     /\ stage[c] = "start" => ~Joinable(i)
     /\ IF stage[c] = "attached"
        THEN /\ flight' = [flight EXCEPT ![i].waiters = @ \ {c}, ![i].abandoned = @ \/ last]
             /\ stage' = [stage EXCEPT ![c] = AfterCancel(c, last)]
        ELSE stage' = [stage EXCEPT ![c] = "gone"] /\ UNCHANGED flight
     /\ got' = [got EXCEPT ![c] = {}]
     /\ UNCHANGED ident /\ World /\ UNCHANGED cacheVars

(* RetrievalCandidateHydrator.hydrate reads every chunk again and refuses   *)
(* the whole answer when one is gone, inactive or no longer permitted.      *)
Hydrate(c) ==
  /\ stage[c] = "hydrate"
  /\ stage' = [stage EXCEPT ![c] = IF got[c] \subseteq access
                                   THEN "record" ELSE "failing"]
  /\ UNCHANGED <<flight, ident, got>> /\ World /\ UNCHANGED cacheVars

(* _record_success: log row, audit row, commit; its error is the caller's.  *)
RecordSuccess(c) ==
  /\ stage[c] = "record"
  /\ \E end \in {"returned", "raised"} : stage' = [stage EXCEPT ![c] = end]
  /\ got' = [got EXCEPT ![c] = {}]
  /\ UNCHANGED <<flight, ident>> /\ World /\ UNCHANGED cacheVars

(* _record_failure, or its rollback; the error is raised either way.        *)
RecordFailure(c) ==
  /\ stage[c] = "failing"
  /\ stage' = [stage EXCEPT ![c] = "raised"]
  /\ got' = [got EXCEPT ![c] = {}]
  /\ UNCHANGED <<flight, ident>> /\ World /\ UNCHANGED cacheVars

TaskStep(i) ==
  CacheGet(i) \/ Route(i) \/ Dense(i) \/ Sparse(i) \/ Rerank(i)
  \/ CacheSet(i) \/ Unwind(i)
CallStep(c) ==
  Attach(c) \/ Hydrate(c) \/ RecordSuccess(c) \/ RecordFailure(c)

FlowNext ==
  \/ Time \/ Aclose
  \/ \E x \in Chunks : LoseAccess(x)
  \/ \E i \in Idents : TaskStep(i)
  \/ \E c \in Callers : CallStep(c) \/ Refuse(c) \/ Cancel(c)

-----------------------------------------------------------------------------
(* The request's session is not closed under its own search: as long as a   *)
(* task runs, a caller of its identity is still inside retrieve, waiting    *)
(* for the result or for the cancelled task to end.                         *)
SessionOutlivesTask ==
  \A i \in Idents : Running(i) =>
    \E c \in Callers : ident[c] = i /\ stage[c] \in {"attached", "draining"}

(* A shared search is never taken from under a caller: whoever is cut off   *)
(* by a cancellation was cancelled itself, however the other callers of the *)
(* same identity come and go.                                               *)
OnlyOwnCancellation == \A c \in Callers : stage[c] # "cut"

(* What the cache can still show of a chunk the reader has lost is bounded: *)
(* when a search ends, each candidate is permitted now or was lost no       *)
(* longer ago than an entry lives plus the time one search may take.        *)
BoundedStaleness ==
  [][\A c \in Callers : (stage[c] = "attached" /\ stage'[c] \in {"hydrate", "record"}) =>
       \A x \in got'[c] : x \in access \/ gone[x] <= Ttl + FetchLimit]_flowVars

(* The LRU order lists exactly the keys that are cached, each once, within  *)
(* the limit, and a closed cache stays empty although tasks still finish.   *)
CacheInStep ==
  /\ ToSet(order) = DOMAIN cache /\ Len(order) = Cardinality(DOMAIN cache)
  /\ Len(order) <= MaxSize
  /\ closed => order = <<>>

(* Degradation is honest: a result that will be cached and served comes     *)
(* from a search in which no branch failed for good, at least one answered  *)
(* and a failed one was allowed to be left out.                             *)
OnlySoftDegradation ==
  \A i \in Idents : flight[i].at \in {"rerank", "set"} =>
    /\ "ok" \in {flight[i].dense, flight[i].sparse}
    /\ "hard" \notin {flight[i].dense, flight[i].sparse}

(* Every call ends, in particular one that has to wait for the task another *)
(* caller abandoned.                                                        *)
CallsEnd == \A c \in Callers : <>(stage[c] \in Done)
=============================================================================
