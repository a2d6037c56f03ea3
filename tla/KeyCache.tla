------------------------------- MODULE KeyCache -------------------------------
(***************************************************************************)
(* OidcJwtVerifier (packages/auth/oidc.py): token verification against the *)
(* identity provider's key set, cached for a while, fetched again when a   *)
(* key id is unknown or a signature fails, under one lock and a minimum    *)
(* gap between forced fetches.  The provider rotates keys, also under the  *)
(* same key id, and the fetch may fail or time out.                        *)
(***************************************************************************)
EXTENDS Integers, FiniteSets

CONSTANTS
    Verifiers,     \* verifications in progress at the same time
    Kids, Keys,    \* key ids and key material
    FirstKey,      \* the key published under each id to begin with
    CacheTime, ForceGap, FetchTime,
    MaxKeyTime,    \* bound on the clock
    MaxVerifies,   \* bound on verifications
    MaxRotations   \* bound on the provider's changes

ASSUME KeyCacheAssumption ==
    /\ {CacheTime, ForceGap, FetchTime, MaxKeyTime, MaxVerifies, MaxRotations} \subseteq Nat
    /\ CacheTime # 0 /\ FirstKey \in Keys
    /\ "none" \notin Keys /\ "nobody" \notin Verifiers

VARIABLES
    ktime,         \* the monotonic clock
    published,     \* key id -> its key at the provider
    since, until,  \* key id and key -> when it was last published, last retired
    cache,         \* the keys loaded, when, and the last forced load (-1: never)
    fetch,         \* who holds the lock and fetches, what was answered, since when
    verify,        \* verifier -> its call
    verifies,      \* calls begun
    rotations      \* changes made

keyVars == <<ktime, published, since, until, cache, fetch, verify, verifies, rotations>>

NoKeys == [k \in Kids |-> "none"]
NoFetch == [by |-> "nobody", served |-> FALSE, answer |-> NoKeys, sent |-> 0]
NoVerify == [at |-> "away", kid |-> "none", key |-> "none", keys |-> NoKeys,
             force |-> FALSE, now |-> 0, prev |-> -1, started |-> 0, fails |-> FALSE]

KeyInit ==
    /\ ktime = 0 /\ verifies = 0 /\ rotations = 0
    /\ published = [k \in Kids |-> FirstKey]
    /\ since = [k \in Kids |-> [m \in Keys |-> -1]] /\ until = since
    /\ cache = [keys |-> NoKeys, loaded |-> -1, forced |-> -1]
    /\ fetch = NoFetch
    /\ verify = [v \in Verifiers |-> NoVerify]

\* wait_for bounds a fetch: time passes it only once it has ended.
TickKeys ==
    /\ ktime < MaxKeyTime
    /\ fetch.by # "nobody" => ktime - fetch.sent < FetchTime
    /\ ktime' = ktime + 1
    /\ UNCHANGED <<published, since, until, cache, fetch, verify, verifies, rotations>>

\* The provider publishes a key under a key id, replacing the one there.
Rotate(k, m) ==
    /\ published[k] # m /\ rotations < MaxRotations /\ rotations' = rotations + 1
    /\ published' = [published EXCEPT ![k] = m]
    /\ since' = [since EXCEPT ![k][m] = ktime]
    /\ until' = [until EXCEPT ![k] = [x \in Keys |-> IF x = published[k] THEN ktime ELSE @[x]]]
    /\ UNCHANGED <<ktime, cache, fetch, verify, verifies>>

-----------------------------------------------------------------------------
Verify(v, k, m) ==
    /\ verify[v] = NoVerify /\ verifies < MaxVerifies
    /\ verifies' = verifies + 1
    /\ verify' = [verify EXCEPT ![v] = [NoVerify EXCEPT !.at = "lock", !.kid = k, !.key = m,
                                                        !.now = ktime, !.started = ktime]]
    /\ UNCHANGED <<ktime, published, since, until, cache, fetch, rotations>>

\* The cases in which _get_keys answers without a fetch, judged under the
\* lock with the clock read before it.
LoadedSince(c) == c.force /\ c.prev # -1 /\ cache.loaded # c.prev
AlwaysFresh(c) == ~c.force /\ cache.loaded # -1   \* seeded fault
StillCached(c) == ~c.force /\ cache.loaded # -1 /\ c.now - cache.loaded < CacheTime
ForcedLately(c) == c.force /\ c.prev = cache.loaded /\ cache.forced # -1 /\ c.now - cache.forced < ForceGap

LockFree == fetch.by = "nobody"

GetKeys(v) ==
    /\ verify[v].at = "lock" /\ LockFree
    /\ LET c == verify[v]
       IN IF StillCached(c) \/ LoadedSince(c) \/ ForcedLately(c)
          THEN /\ verify' = [verify EXCEPT ![v].at = "keys", ![v].keys = cache.keys]
               /\ UNCHANGED fetch
          ELSE /\ verify' = [verify EXCEPT ![v].at = "fetching"]
               /\ fetch' = [NoFetch EXCEPT !.by = v, !.sent = ktime]
    /\ UNCHANGED <<ktime, published, since, until, cache, verifies, rotations>>

\* The provider answers with what it publishes then; the answer travels on.
Served(v) ==
    /\ fetch.by = v /\ ~fetch.served
    /\ fetch' = [fetch EXCEPT !.served = TRUE, !.answer = published]
    /\ UNCHANGED <<ktime, published, since, until, cache, verify, verifies, rotations>>

Fetched(v) ==
    /\ fetch.by = v /\ fetch.served
    /\ cache' = [keys |-> fetch.answer, loaded |-> verify[v].now,
                 forced |-> IF verify[v].force THEN verify[v].now ELSE cache.forced]
    /\ verify' = [verify EXCEPT ![v].at = "keys", ![v].keys = fetch.answer]
    /\ fetch' = NoFetch
    /\ UNCHANGED <<ktime, published, since, until, verifies, rotations>>

\* No answer, an error or the timeout: the token is refused.
FetchFails(v) ==
    /\ fetch.by = v
    /\ verify' = [verify EXCEPT ![v].at = "refused", ![v].fails = TRUE]
    /\ fetch' = NoFetch
    /\ UNCHANGED <<ktime, published, since, until, cache, verifies, rotations>>

\* Unknown key id or failed signature: one forced fetch, then the verdict.
Final(c) == c.force
Decide(v) ==
    /\ verify[v].at = "keys"
    /\ LET c == verify[v]
           found == c.keys[c.kid]
       IN verify' = [verify EXCEPT ![v] =
            IF found = c.key THEN [c EXCEPT !.at = "accepted"]
            ELSE IF Final(c) THEN [c EXCEPT !.at = "refused"]
            ELSE [c EXCEPT !.at = "lock", !.force = TRUE, !.prev = cache.loaded, !.now = ktime]]
    /\ UNCHANGED <<ktime, published, since, until, cache, fetch, verifies, rotations>>

RespondWith(v) ==
    /\ verify[v].at \in {"accepted", "refused"}
    /\ verify' = [verify EXCEPT ![v] = NoVerify]
    /\ UNCHANGED <<ktime, published, since, until, cache, fetch, verifies, rotations>>

KeyNext ==
    \/ TickKeys
    \/ \E k \in Kids, m \in Keys : Rotate(k, m) \/ \E v \in Verifiers : Verify(v, k, m)
    \/ \E v \in Verifiers : GetKeys(v) \/ Served(v) \/ Fetched(v) \/ FetchFails(v) \/ Decide(v) \/ RespondWith(v)

-----------------------------------------------------------------------------
\* The lock admits one fetch, made by the call that waits for it, and a forced
\* load is a load.
KeyTypeOK ==
    /\ cache.loaded \in -1..ktime /\ cache.forced \in -1..cache.loaded
    /\ (fetch.by # "nobody" => fetch.by \in Verifiers /\ verify[fetch.by].at = "fetching")
    /\ Cardinality({v \in Verifiers : verify[v].at = "fetching"}) <= 1

\* A retired key stops being accepted: a token is accepted only if its key
\* is published, or was retired less than the cache time before the call
\* began, however fetches and waits for the lock overlap.
RetiredKeyDies ==
    \A v \in Verifiers :
        LET c == verify[v]
        IN c.at = "accepted" => published[c.kid] = c.key \/ c.started - until[c.kid][c.key] < CacheTime

\* A rotated key is found: when the provider answers, a token whose key has
\* been published since the longer of the minimum gap and the fetch timeout
\* before the call is not refused, a key id unknown to the cache or reused
\* for a new key included.
RotationSeen ==
    \A v \in Verifiers :
        LET c == verify[v]
        IN c.at = "refused" /\ ~c.fails /\ published[c.kid] = c.key =>
             c.started - since[c.kid][c.key] <= IF ForceGap < FetchTime THEN FetchTime ELSE ForceGap
=============================================================================
