---------------------------- MODULE AccessProofs ----------------------------
(***************************************************************************)
(* Proofs about KeyCache and AuthSessions: by which keys and for how long  *)
(* a caller is believed. KeyInv says of every verification how recent the  *)
(* keys are that it works with; AuthInv says what a session, a refresh, a  *)
(* logout and an authentication in progress have read, and what may have   *)
(* changed since.                                                          *)
(***************************************************************************)
EXTENDS KeyCache, AuthSessions, TLAPS

-----------------------------------------------------------------------------
(* The cache of the identity provider's keys *)
\* The key cache by itself.
KeySpec == KeyInit /\ [][KeyNext]_keyVars

KeySets == [Kids -> Keys \cup {"none"}]
Longest == IF ForceGap < FetchTime THEN FetchTime ELSE ForceGap

\* The keys are what the provider published at a time not before t.
Seen(keys, t) ==
    \A k \in Kids, m \in Keys :
        /\ keys[k] = m => published[k] = m \/ until[k][m] >= t
        /\ published[k] = m /\ keys[k] # m => since[k][m] >= t

CacheRow == [keys : KeySets, loaded : Int, forced : Int]
FetchRow == [by : Verifiers \cup {"nobody"}, served : BOOLEAN, answer : KeySets, sent : Nat]
VerifyRow == [at : {"away", "lock", "fetching", "keys", "accepted", "refused"},
              kid : Kids \cup {"none"}, key : Keys \cup {"none"}, keys : KeySets,
              force : BOOLEAN, now : Nat, prev : Int, started : Nat, fails : BOOLEAN]

KeyTyped ==
    /\ ktime \in Nat /\ published \in [Kids -> Keys]
    /\ since \in [Kids -> [Keys -> Int]] /\ until \in [Kids -> [Keys -> Int]]
    /\ cache \in CacheRow /\ fetch \in FetchRow /\ verify \in [Verifiers -> VerifyRow]
    /\ verifies \in Nat /\ rotations \in Nat

CacheOK ==
    /\ -1 <= cache.forced /\ cache.forced <= cache.loaded /\ cache.loaded <= ktime
    /\ Seen(cache.keys, cache.loaded)

FetchOK ==
    fetch.by # "nobody" =>
        /\ cache.loaded <= verify[fetch.by].now /\ verify[fetch.by].now <= fetch.sent
        /\ fetch.sent <= ktime /\ ktime <= fetch.sent + FetchTime
        /\ fetch.served => Seen(fetch.answer, fetch.sent)

\* What the call c of verifier v knows, by the place it is at.
VerifyOK(v, c) ==
    /\ c.started <= c.now /\ c.now <= ktime
    /\ c.at = "fetching" <=> fetch.by = v
    /\ c.at # "away" => c.kid \in Kids /\ c.key \in Keys
    /\ c.fails => c.at = "refused"
    /\ c.at \in {"lock", "fetching"} /\ ~c.force => c.now = c.started
    /\ c.at \in {"keys", "accepted"} \/ c.force =>
          cache.loaded >= 0 /\ cache.loaded > c.started - CacheTime
    /\ c.at \in {"lock", "fetching"} /\ c.force =>
          /\ 0 <= c.prev /\ c.prev <= c.now /\ c.prev <= cache.loaded
          /\ cache.loaded # c.prev => Seen(cache.keys, c.started - FetchTime)
    /\ c.at \in {"keys", "accepted"} => Seen(c.keys, c.started - CacheTime + 1)
    /\ c.at \in {"keys", "refused"} /\ c.force /\ ~c.fails => Seen(c.keys, c.started - Longest)
    /\ c.at = "accepted" => c.keys[c.kid] = c.key
    /\ c.at = "refused" /\ ~c.fails => c.force /\ c.keys[c.kid] # c.key

KeyInv == KeyTyped /\ CacheOK /\ FetchOK /\ \A v \in Verifiers : VerifyOK(v, verify[v])

-----------------------------------------------------------------------------
\* What was seen not before a time stays seen, while time and rotations go on.
SeenKept == \A keys \in KeySets, t \in Int : t <= ktime /\ Seen(keys, t) => Seen(keys, t)'

\* A step that changes nothing keeps the invariant.
LEMMA KeyStutter ==
    ASSUME KeyInv, UNCHANGED keyVars
    PROVE  KeyInv'
BY DEF keyVars, KeyInv, KeyTyped, CacheOK, FetchOK, VerifyOK, Seen

\* What is recent enough for one time is so for an earlier one.
LEMMA SeenEarlier ==
    ASSUME KeyTyped, NEW keys \in KeySets, NEW t \in Int, NEW s \in Int, s <= t, Seen(keys, t)
    PROVE  Seen(keys, s)
BY DEF KeyTyped, Seen

\* Without a rotation, what was seen stays seen.
LEMMA ProviderStill == UNCHANGED <<published, since, until>> => SeenKept
BY ZenonT(30) DEF SeenKept, Seen

\* A rotation retires a key now: it ages no key set read before.
LEMMA RotateKeeps ==
    ASSUME KeyTyped, NEW k \in Kids, NEW m \in Keys, Rotate(k, m)
    PROVE  SeenKept
<1> SUFFICES ASSUME NEW keys \in KeySets, NEW t \in Int, t <= ktime, Seen(keys, t),
                    NEW j \in Kids, NEW x \in Keys
             PROVE  /\ keys[j] = x => published'[j] = x \/ until'[j][x] >= t
                    /\ published'[j] = x /\ keys[j] # x => since'[j][x] >= t
    BY DEF SeenKept, Seen
<1> USE DEF KeyTyped
<1>1. /\ keys[j] = x => published[j] = x \/ until[j][x] >= t
      /\ published[j] = x /\ keys[j] # x => since[j][x] >= t
    BY Zenon DEF Seen
<1>2. CASE j = k
    <2>1. published'[j] = m /\ since'[j][m] = ktime
        BY Zenon, <1>2 DEF Rotate
    <2>2. until'[j][x] = IF x = published[j] THEN ktime ELSE until[j][x]
        BY Zenon, <1>2 DEF Rotate
    <2> QED
        BY Zenon, <1>1, <2>1, <2>2
<1>3. CASE j # k
    <2>1. published'[j] = published[j] /\ since'[j] = since[j] /\ until'[j] = until[j]
        BY <1>3 DEF Rotate
    <2> QED
        BY Zenon, <1>1, <2>1
<1> QED
    BY Zenon, <1>2, <1>3

\* The first state.
LEMMA KeyInitial == KeyInit => KeyInv
<1> SUFFICES ASSUME KeyInit PROVE KeyInv
    OBVIOUS
<1> USE KeyCacheAssumption
<1>0. NoKeys \in KeySets
    BY Zenon DEF NoKeys, KeySets
<1>1. KeyTyped
    BY <1>0 DEF KeyInit, KeyTyped, CacheRow, FetchRow, VerifyRow, NoFetch, NoVerify
<1>2. Seen(NoKeys, -1)
    BY DEF Seen, KeyInit, NoKeys
<1>3. CacheOK /\ FetchOK
    BY <1>2 DEF CacheOK, FetchOK, KeyInit, NoFetch
<1>4. \A v \in Verifiers : VerifyOK(v, verify[v])
    BY DEF VerifyOK, KeyInit, NoVerify, NoFetch
<1> QED
    BY Zenon, <1>1, <1>3, <1>4 DEF KeyInv

\* A call another step leaves alone keeps what it knows.
LEMMA OtherCall ==
    ASSUME KeyTyped, KeyTyped', SeenKept, NEW v \in Verifiers, VerifyOK(v, verify[v]),
           verify'[v] = verify[v], ktime' >= ktime, cache'.loaded >= cache.loaded,
           fetch'.by = v <=> fetch.by = v,
           \/ cache' = cache
           \/ Seen(cache.keys, verify[v].started - FetchTime)'
    PROVE  VerifyOK(v, verify[v])'
<1> DEFINE c == verify[v]
<1>1. /\ c \in VerifyRow /\ c' = c /\ cache \in CacheRow /\ cache' \in CacheRow
      /\ ktime \in Nat /\ ktime' \in Nat
    BY Zenon DEF KeyTyped
<1>2. /\ c.started \in Nat /\ c.now \in Nat /\ c.prev \in Int /\ c.keys \in KeySets
      /\ cache.loaded \in Int /\ cache'.loaded \in Int /\ cache.keys \in KeySets
    BY Zenon, <1>1 DEF VerifyRow, CacheRow
<1>3. /\ CacheTime \in Nat /\ CacheTime # 0 /\ FetchTime \in Nat /\ Longest \in Nat
    BY Zenon, KeyCacheAssumption DEF Longest
<1>4. c.started - CacheTime + 1 <= ktime /\ c.started - Longest <= ktime /\ c.started - FetchTime <= ktime
    BY <1>1, <1>2, <1>3 DEF VerifyOK
<1>5. Seen(c.keys, c.started - CacheTime + 1) => Seen(c.keys, c.started - CacheTime + 1)'
    BY <1>1, <1>2, <1>3, <1>4 DEF SeenKept
<1>6. Seen(c.keys, c.started - Longest) => Seen(c.keys, c.started - Longest)'
    BY <1>1, <1>2, <1>3, <1>4 DEF SeenKept
<1>7. cache.loaded # c.prev /\ Seen(cache.keys, c.started - FetchTime) /\ cache' = cache
         => Seen(cache.keys, c.started - FetchTime)'
    BY <1>1, <1>2, <1>3, <1>4 DEF SeenKept
<1> QED
    BY <1>1, <1>2, <1>3, <1>5, <1>6, <1>7 DEF VerifyOK

\* Time passes; a fetch in flight has its timeout.
LEMMA TickKeysStep == KeyInv /\ TickKeys => KeyInv'
<1> SUFFICES ASSUME KeyInv, TickKeys PROVE KeyInv'
    BY Zenon
<1> USE DEF KeyInv
<1>1. KeyTyped' /\ ktime' = ktime + 1
    BY DEF TickKeys, KeyTyped
<1>2. SeenKept
    BY Zenon, ProviderStill DEF TickKeys
<1>3. \A v \in Verifiers : VerifyOK(v, verify[v])'
    <2> TAKE v \in Verifiers
    <2> QED
        BY <1>1, <1>2, OtherCall DEF TickKeys, KeyTyped, CacheRow
<1>4. CacheOK'
    <2>1. Seen(cache.keys, cache.loaded)'
        BY Zenon, <1>2 DEF CacheOK, TickKeys, KeyTyped, CacheRow, SeenKept
    <2> QED
        BY <1>1, <2>1 DEF CacheOK, TickKeys, KeyTyped, CacheRow
<1>5. FetchOK'
    <2>1. fetch.by # "nobody" /\ fetch.served => Seen(fetch.answer, fetch.sent)'
        BY <1>2 DEF FetchOK, TickKeys, KeyTyped, FetchRow, SeenKept
    <2>2. fetch.sent \in Nat /\ ktime \in Nat /\ FetchTime \in Nat
        BY Zenon, KeyCacheAssumption DEF KeyTyped, FetchRow
    <2> QED
        BY <1>1, <2>1, <2>2 DEF FetchOK, TickKeys
<1> QED
    BY Zenon, <1>1, <1>3, <1>4, <1>5

\* The provider replaces a key.
LEMMA RotateKeyStep ==
    ASSUME NEW k \in Kids, NEW m \in Keys PROVE KeyInv /\ Rotate(k, m) => KeyInv'
<1> SUFFICES ASSUME KeyInv, Rotate(k, m) PROVE KeyInv'
    BY Zenon
<1> USE DEF KeyInv
<1>1. KeyTyped'
    <2>1. published' \in [Kids -> Keys] /\ since' \in [Kids -> [Keys -> Int]]
        BY DEF Rotate, KeyTyped
    <2>2. until' \in [Kids -> [Keys -> Int]]
        BY DEF Rotate, KeyTyped
    <2> QED
        BY <2>1, <2>2 DEF Rotate, KeyTyped
<1>2. SeenKept
    BY Zenon, RotateKeeps
<1>3. \A v \in Verifiers : VerifyOK(v, verify[v])'
    <2> TAKE v \in Verifiers
    <2> QED
        BY <1>1, <1>2, OtherCall DEF Rotate, KeyTyped, CacheRow
<1>4. CacheOK'
    <2>1. Seen(cache.keys, cache.loaded)'
        BY Zenon, <1>2 DEF CacheOK, Rotate, KeyTyped, CacheRow, SeenKept
    <2> QED
        BY Zenon, <1>1, <2>1 DEF CacheOK, Rotate, KeyTyped, CacheRow
<1>5. FetchOK'
    <2>1. fetch.by # "nobody" /\ fetch.served => Seen(fetch.answer, fetch.sent)'
        BY <1>2 DEF FetchOK, Rotate, KeyTyped, FetchRow, SeenKept
    <2> QED
        BY Zenon, <2>1 DEF FetchOK, Rotate
<1> QED
    BY Zenon, <1>1, <1>3, <1>4, <1>5

\* A step of one call that leaves the provider, the clock and the cache alone.
LEMMA KeyCallStep ==
    ASSUME KeyInv, NEW v \in Verifiers, NEW d \in VerifyRow, verify' = [verify EXCEPT ![v] = d],
           UNCHANGED <<ktime, published, since, until, cache, rotations>>, verifies' \in Nat,
           fetch' \in FetchRow, \A u \in Verifiers \ {v} : fetch'.by = u <=> fetch.by = u,
           FetchOK', VerifyOK(v, d)'
    PROVE  KeyInv'
<1> USE DEF KeyInv
<1>1. KeyTyped'
    BY Zenon DEF KeyTyped
<1>2. SeenKept
    BY Zenon, ProviderStill
<1>3. \A u \in Verifiers : VerifyOK(u, verify[u])'
    <2> SUFFICES ASSUME NEW u \in Verifiers PROVE VerifyOK(u, verify[u])'
        BY ZenonT(30)
    <2>1. CASE u = v
        <3>1. verify'[u] = d
            BY Zenon, <2>1 DEF KeyTyped
        <3> QED
            BY <2>1, <3>1 DEF VerifyOK, Seen
    <2>2. CASE u # v
        <3>1. verify'[u] = verify[u]
            BY Zenon, <2>2 DEF KeyTyped
        <3> QED
            BY <1>1, <1>2, <2>2, <3>1, OtherCall DEF KeyTyped, CacheRow
    <2> QED
        BY Zenon, <2>1, <2>2
<1>4. CacheOK'
    BY Zenon DEF CacheOK, Seen
<1> QED
    BY Zenon, <1>1, <1>3, <1>4

\* The rows of a call and of a fetch that are not there.
LEMMA RowsNone == NoVerify \in VerifyRow /\ NoFetch \in FetchRow /\ NoKeys \in KeySets
BY DEF NoVerify, VerifyRow, NoFetch, FetchRow, NoKeys, KeySets

\* verify begins: it will ask for the keys.
LEMMA VerifyStep ==
    ASSUME NEW v \in Verifiers, NEW k \in Kids, NEW m \in Keys
    PROVE  KeyInv /\ Verify(v, k, m) => KeyInv'
<1> SUFFICES ASSUME KeyInv, Verify(v, k, m) PROVE KeyInv'
    BY Zenon
<1> PICK d : d = [NoVerify EXCEPT !.at = "lock", !.kid = k, !.key = m, !.now = ktime, !.started = ktime]
    BY Zenon
<1>1. ktime \in Nat /\ fetch \in FetchRow /\ verifies \in Nat /\ verify[v] = NoVerify
    BY DEF KeyInv, KeyTyped, Verify
<1>2. d \in VerifyRow
    BY Zenon, <1>1, RowsNone DEF VerifyRow
<1>3. /\ d.at = "lock" /\ d.kid = k /\ d.key = m /\ d.now = ktime /\ d.started = ktime
      /\ d.force = FALSE /\ d.fails = FALSE
    BY DEF NoVerify
<1>4. verify' = [verify EXCEPT ![v] = d] /\ UNCHANGED <<ktime, published, since, until, cache, fetch, rotations>>
    BY DEF Verify
<1>5. fetch.by # v
    BY <1>1 DEF KeyInv, VerifyOK, NoVerify
<1>6. VerifyOK(v, d)'
    BY <1>1, <1>3, <1>4, <1>5 DEF VerifyOK
<1>7. FetchOK'
    <2>1. fetch.by # "nobody" => verify'[fetch.by] = verify[fetch.by]
        BY Zenon, <1>4, <1>5 DEF KeyInv, KeyTyped, FetchRow
    <2> QED
        BY Zenon, <1>4, <2>1 DEF KeyInv, FetchOK, Seen
<1>8. verifies' \in Nat
    BY <1>1 DEF Verify
<1> QED
    BY Zenon, <1>1, <1>2, <1>4, <1>6, <1>7, <1>8, KeyCallStep

\* The keys are at hand: accept, refuse, or ask once more with force.
LEMMA DecideStep == ASSUME NEW v \in Verifiers PROVE KeyInv /\ Decide(v) => KeyInv'
<1> SUFFICES ASSUME KeyInv, Decide(v) PROVE KeyInv'
    OBVIOUS
<1> DEFINE c == verify[v]
<1> PICK d : d = IF c.keys[c.kid] = c.key THEN [c EXCEPT !.at = "accepted"]
                 ELSE IF c.force THEN [c EXCEPT !.at = "refused"]
                 ELSE [c EXCEPT !.at = "lock", !.force = TRUE, !.prev = cache.loaded, !.now = ktime]
    BY Zenon
<1>1. /\ ktime \in Nat /\ fetch \in FetchRow /\ verifies \in Nat /\ c \in VerifyRow /\ c.at = "keys"
      /\ cache.loaded \in Int /\ VerifyOK(v, c) /\ CacheOK
    BY Zenon DEF KeyInv, KeyTyped, Decide, CacheRow
<1>2. d \in VerifyRow
    BY Zenon, <1>1 DEF VerifyRow
<1>4. verify' = [verify EXCEPT ![v] = d] /\ UNCHANGED <<ktime, published, since, until, cache, fetch, rotations>>
    BY DEF Decide, Final
<1>5. fetch.by # v
    BY Zenon, <1>1 DEF VerifyOK
<1>6. VerifyOK(v, d)'
    <2>1. CASE c.keys[c.kid] = c.key
        <3>1. d = [c EXCEPT !.at = "accepted"]
            BY Zenon, <2>1
        <3>2. /\ d.at = "accepted" /\ d.kid = c.kid /\ d.key = c.key /\ d.keys = c.keys /\ d.force = c.force
              /\ d.now = c.now /\ d.started = c.started /\ d.fails = c.fails
            BY Zenon, <1>1, <3>1 DEF VerifyRow
        <3> QED
            BY ZenonT(30), <1>1, <1>4, <1>5, <2>1, <3>2 DEF VerifyOK, Seen
    <2>2. CASE c.keys[c.kid] # c.key /\ c.force
        <3>1. d = [c EXCEPT !.at = "refused"]
            BY Zenon, <2>2
        <3>2. /\ d.at = "refused" /\ d.kid = c.kid /\ d.key = c.key /\ d.keys = c.keys /\ d.force = c.force
              /\ d.now = c.now /\ d.started = c.started /\ d.fails = c.fails
            BY ZenonT(30), <1>1, <3>1 DEF VerifyRow
        <3> QED
            BY ZenonT(30), <1>1, <1>4, <1>5, <2>2, <3>2 DEF VerifyOK, Seen
    <2>3. CASE c.keys[c.kid] # c.key /\ ~c.force
        <3>1. d = [c EXCEPT !.at = "lock", !.force = TRUE, !.prev = cache.loaded, !.now = ktime]
            BY Zenon, <2>3
        <3>2. /\ d.at = "lock" /\ d.kid = c.kid /\ d.key = c.key /\ d.force = TRUE /\ d.prev = cache.loaded
              /\ d.now = ktime /\ d.started = c.started /\ d.fails = c.fails
            BY Zenon, <1>1, <3>1 DEF VerifyRow
        <3>3. c.started \in Nat /\ c.now \in Nat
            BY <1>1 DEF VerifyRow
        <3> QED
            BY SMT, SMTT(20), <1>1, <1>4, <1>5, <3>2, <3>3 DEF VerifyOK, CacheOK
    <2> QED
        BY Zenon, <2>1, <2>2, <2>3
<1>7. FetchOK'
    <2>1. fetch.by # "nobody" => verify'[fetch.by] = verify[fetch.by]
        BY Zenon, <1>4, <1>5 DEF KeyInv, KeyTyped, FetchRow
    <2> QED
        BY Zenon, <1>4, <2>1 DEF KeyInv, FetchOK, Seen
<1> QED
    BY Zenon, <1>1, <1>2, <1>4, <1>6, <1>7, KeyCallStep DEF Decide

\* A decided call ends.
LEMMA RespondStep == ASSUME NEW v \in Verifiers PROVE KeyInv /\ RespondWith(v) => KeyInv'
<1> SUFFICES ASSUME KeyInv, RespondWith(v) PROVE KeyInv'
    OBVIOUS
<1> PICK d : d = NoVerify
    BY Zenon
<1>1. ktime \in Nat /\ fetch \in FetchRow /\ verifies \in Nat /\ VerifyOK(v, verify[v])
    BY Zenon DEF KeyInv, KeyTyped
<1>4. verify' = [verify EXCEPT ![v] = d] /\ UNCHANGED <<ktime, published, since, until, cache, fetch, rotations>>
    BY Zenon DEF RespondWith
<1>5. fetch.by # v
    BY ZenonT(30), <1>1 DEF VerifyOK, RespondWith
<1>6. VerifyOK(v, d)'
    BY SMT, SMTT(20), <1>1, <1>4, <1>5 DEF VerifyOK, NoVerify
<1>7. FetchOK'
    <2>1. fetch.by # "nobody" => verify'[fetch.by] = verify[fetch.by]
        BY Zenon, <1>4, <1>5 DEF KeyInv, KeyTyped, FetchRow
    <2> QED
        BY Zenon, <1>4, <2>1 DEF KeyInv, FetchOK, Seen
<1> QED
    BY Zenon, <1>1, <1>4, <1>6, <1>7, KeyCallStep, RowsNone DEF RespondWith

\* Keys answered without a fetch are fresh enough for the call that asked.
LEMMA AnsweredFresh ==
    ASSUME KeyInv, NEW v \in Verifiers, verify[v].at = "lock",
           StillCached(verify[v]) \/ LoadedSince(verify[v]) \/ ForcedLately(verify[v])
    PROVE  /\ cache.loaded >= 0 /\ cache.loaded > verify[v].started - CacheTime
           /\ Seen(cache.keys, verify[v].started - CacheTime + 1)
           /\ verify[v].force => Seen(cache.keys, verify[v].started - Longest)
<1> DEFINE c == verify[v]
<1>1. /\ c \in VerifyRow /\ cache \in CacheRow /\ ktime \in Nat /\ VerifyOK(v, c) /\ CacheOK /\ KeyTyped
    BY Zenon DEF KeyInv, KeyTyped
<1>2. /\ c.started \in Nat /\ c.now \in Nat /\ c.prev \in Int /\ cache.keys \in KeySets
      /\ cache.loaded \in Int /\ cache.forced \in Int /\ c.force \in BOOLEAN
    BY Zenon, <1>1 DEF VerifyRow, CacheRow
<1>3. /\ CacheTime \in Nat /\ CacheTime # 0 /\ FetchTime \in Nat /\ ForceGap \in Nat
      /\ Longest \in Nat /\ FetchTime <= Longest /\ ForceGap <= Longest
    BY SMT, SMTT(20), KeyCacheAssumption DEF Longest
<1>4. cache.loaded >= 0 /\ cache.loaded > c.started - CacheTime
    <2>1. CASE c.force
        BY Zenon, <1>1, <2>1 DEF VerifyOK
    <2>2. CASE ~c.force
        BY SMT, SMTT(20), <1>1, <1>2, <1>3, <2>2 DEF VerifyOK, StillCached, LoadedSince, ForcedLately, CacheOK
    <2> QED
        BY Zenon, <1>2, <2>1, <2>2
<1>5. Seen(cache.keys, cache.loaded)
    BY Zenon, <1>1 DEF CacheOK
<1>6. c.started - CacheTime + 1 \in Int /\ c.started - CacheTime + 1 <= cache.loaded
    BY SMT, SMTT(20), <1>2, <1>3, <1>4
<1>7. Seen(cache.keys, c.started - CacheTime + 1)
    BY Zenon, <1>1, <1>2, <1>5, <1>6, SeenEarlier
<1>8. ASSUME c.force PROVE Seen(cache.keys, c.started - Longest)
    <2>1. CASE LoadedSince(c)
        <3>1. Seen(cache.keys, c.started - FetchTime)
            BY Zenon, <1>1, <1>8, <2>1 DEF VerifyOK, LoadedSince
        <3>2. c.started - Longest <= c.started - FetchTime /\ c.started - Longest \in Int /\ c.started - FetchTime \in Int
            BY SMT, SMTT(20), <1>2, <1>3
        <3> QED
            BY Zenon, <1>1, <1>2, <3>1, <3>2, SeenEarlier
    <2>2. CASE ForcedLately(c)
        <3>1. c.started - Longest <= cache.loaded /\ c.started - Longest \in Int
            BY SMT, SMTT(20), <1>1, <1>2, <1>3, <2>2 DEF ForcedLately, VerifyOK, CacheOK
        <3> QED
            BY ZenonT(30), <1>1, <1>2, <1>5, <3>1, SeenEarlier
    <2> QED
        BY Zenon, <1>8, <2>1, <2>2 DEF StillCached
<1> QED
    BY Zenon, <1>4, <1>7, <1>8

\* Under the lock, the cached keys are served or a fetch begins.
LEMMA GetKeysStep == ASSUME NEW v \in Verifiers PROVE KeyInv /\ GetKeys(v) => KeyInv'
<1> SUFFICES ASSUME KeyInv, GetKeys(v) PROVE KeyInv'
    OBVIOUS
<1> DEFINE c == verify[v]
<1>1. /\ ktime \in Nat /\ fetch \in FetchRow /\ verifies \in Nat /\ c \in VerifyRow /\ c.at = "lock"
      /\ cache \in CacheRow /\ VerifyOK(v, c) /\ CacheOK /\ fetch.by = "nobody"
      /\ UNCHANGED <<ktime, published, since, until, cache, verifies, rotations>>
    BY Zenon DEF KeyInv, KeyTyped, GetKeys, LockFree
<1>2. CASE StillCached(c) \/ LoadedSince(c) \/ ForcedLately(c)
    <2> PICK d : d = [c EXCEPT !.at = "keys", !.keys = cache.keys]
        OBVIOUS
    <2>1. d \in VerifyRow
        BY Zenon, <1>1 DEF VerifyRow, CacheRow
    <2>2. /\ d.at = "keys" /\ d.kid = c.kid /\ d.key = c.key /\ d.keys = cache.keys /\ d.force = c.force
          /\ d.now = c.now /\ d.started = c.started /\ d.fails = c.fails
        BY Zenon, <1>1 DEF VerifyRow
    <2>3. verify' = [verify EXCEPT ![v] = d] /\ fetch' = fetch
        BY Zenon, <1>2 DEF GetKeys, KeyInv, KeyTyped
    <2>4. VerifyOK(v, d)'
        BY SMT, SMTT(20), <1>1, <1>2, <2>2, <2>3, AnsweredFresh DEF VerifyOK, Seen
    <2>5. FetchOK'
        BY Zenon, <1>1, <2>3 DEF FetchOK
    <2> QED
        BY Zenon, <1>1, <2>1, <2>3, <2>4, <2>5, KeyCallStep
<1>3. CASE ~(StillCached(c) \/ LoadedSince(c) \/ ForcedLately(c))
    <2> PICK d : d = [c EXCEPT !.at = "fetching"]
        BY Zenon
    <2>1. d \in VerifyRow
        BY Zenon, <1>1 DEF VerifyRow
    <2>2. /\ d.at = "fetching" /\ d.kid = c.kid /\ d.key = c.key /\ d.force = c.force /\ d.prev = c.prev
          /\ d.now = c.now /\ d.started = c.started /\ d.fails = c.fails
        BY Zenon, <1>1 DEF VerifyRow
    <2>3. verify' = [verify EXCEPT ![v] = d] /\ fetch' = [NoFetch EXCEPT !.by = v, !.sent = ktime]
        BY Zenon, <1>3 DEF GetKeys, KeyInv, KeyTyped
    <2>4. fetch' \in FetchRow /\ fetch'.by = v /\ fetch'.sent = ktime /\ fetch'.served = FALSE
        BY Zenon, <1>1, <2>3, RowsNone DEF FetchRow, NoFetch
    <2>5. VerifyOK(v, d)'
        BY ZenonT(30), <1>1, <2>2, <2>4 DEF VerifyOK, Seen
    <2>6. cache.loaded <= c.now
        <3>1. /\ c.started \in Nat /\ c.now \in Nat /\ c.prev \in Int /\ cache.loaded \in Int /\ c.force \in BOOLEAN
            BY Zenon, <1>1 DEF VerifyRow, CacheRow
        <3>2. CASE c.force
            BY SMT, SMTT(20), <1>1, <1>3, <3>1, <3>2 DEF VerifyOK, LoadedSince
        <3>3. CASE ~c.force
            BY SMT, SMTT(20), <1>3, <3>1, <3>3, KeyCacheAssumption DEF StillCached
        <3> QED
            BY Zenon, <3>1, <3>2, <3>3
    <2>7. FetchOK'
        <3>1. verify'[v] = d
            BY <2>3 DEF KeyInv, KeyTyped
        <3> QED
            BY SMT, SMTT(20), <1>1, <2>2, <2>4, <2>6, <3>1, KeyCacheAssumption DEF FetchOK, VerifyOK
    <2>8. \A u \in Verifiers \ {v} : fetch'.by = u <=> fetch.by = u
        BY Zenon, <1>1, <2>4, KeyCacheAssumption
    <2> QED
        BY Zenon, <1>1, <2>1, <2>3, <2>4, <2>5, <2>7, <2>8, KeyCallStep
<1> QED
    BY Zenon, <1>2, <1>3

\* The provider answers the request of a fetch.
LEMMA ServedStep == ASSUME NEW v \in Verifiers PROVE KeyInv /\ Served(v) => KeyInv'
<1> SUFFICES ASSUME KeyInv, Served(v) PROVE KeyInv'
    OBVIOUS
<1> PICK d : d = verify[v]
    BY Zenon
<1>1. /\ fetch \in FetchRow /\ fetch.by = v /\ published \in [Kids -> Keys] /\ d \in VerifyRow /\ verifies \in Nat
      /\ VerifyOK(v, d) /\ v # "nobody"
    BY Zenon, KeyCacheAssumption DEF KeyInv, KeyTyped, Served
<1>2. fetch' \in FetchRow
    <2>1. published \in KeySets
        BY Zenon, <1>1 DEF KeySets
    <2> QED
        BY Zenon, <1>1, <2>1 DEF Served, FetchRow
<1>3. fetch'.by = v /\ fetch'.sent = fetch.sent /\ fetch'.answer = published
    BY <1>1 DEF Served, FetchRow
<1>4. Seen(published, fetch.sent)
    BY Zenon, <1>1 DEF Seen
<1>5. /\ UNCHANGED <<ktime, published, since, until, cache, verify, verifies, rotations>>
      /\ verify' = [verify EXCEPT ![v] = d]
    BY Zenon DEF Served, KeyInv, KeyTyped
<1>6. FetchOK'
    BY Zenon, <1>1, <1>3, <1>4, <1>5 DEF FetchOK, KeyInv, Seen
<1>7. VerifyOK(v, d)'
    BY Zenon, <1>1, <1>3, <1>5 DEF VerifyOK, Seen
<1> QED
    BY Zenon, <1>1, <1>2, <1>3, <1>5, <1>6, <1>7, KeyCallStep

\* A fetch fails or times out; the cache stays as it was.
LEMMA FetchFailsStep == ASSUME NEW v \in Verifiers PROVE KeyInv /\ FetchFails(v) => KeyInv'
<1> SUFFICES ASSUME KeyInv, FetchFails(v) PROVE KeyInv'
    OBVIOUS
<1> DEFINE c == verify[v]
<1> PICK d : d = [c EXCEPT !.at = "refused", !.fails = TRUE]
    OBVIOUS
<1>1. /\ fetch \in FetchRow /\ fetch.by = v /\ c \in VerifyRow /\ verifies \in Nat
      /\ VerifyOK(v, c) /\ v # "nobody"
    BY Zenon, KeyCacheAssumption DEF KeyInv, KeyTyped, FetchFails
<1>2. d \in VerifyRow
    BY Zenon, <1>1 DEF VerifyRow
<1>3. /\ d.at = "refused" /\ d.kid = c.kid /\ d.key = c.key /\ d.force = c.force
      /\ d.now = c.now /\ d.started = c.started /\ d.fails = TRUE
    BY <1>1 DEF VerifyRow
<1>4. /\ UNCHANGED <<ktime, published, since, until, cache, verifies, rotations>>
      /\ verify' = [verify EXCEPT ![v] = d] /\ fetch' = NoFetch
    BY Zenon DEF FetchFails, KeyInv, KeyTyped
<1>5. fetch'.by = "nobody" /\ fetch' \in FetchRow
    BY <1>4, RowsNone DEF NoFetch
<1>6. FetchOK'
    BY <1>5 DEF FetchOK
<1>7. VerifyOK(v, d)'
    BY Zenon, <1>1, <1>3, <1>4, <1>5 DEF VerifyOK
<1>8. \A u \in Verifiers \ {v} : fetch'.by = u <=> fetch.by = u
    BY Zenon, <1>1, <1>5, KeyCacheAssumption
<1> QED
    BY Zenon, <1>1, <1>2, <1>4, <1>5, <1>6, <1>7, <1>8, KeyCallStep

\* The answer arrives and replaces the cache.
LEMMA FetchedStep == ASSUME NEW v \in Verifiers PROVE KeyInv /\ Fetched(v) => KeyInv'
<1> SUFFICES ASSUME KeyInv, Fetched(v) PROVE KeyInv'
    OBVIOUS
<1> DEFINE c == verify[v]
<1> PICK d : d = [c EXCEPT !.at = "keys", !.keys = fetch.answer]
    BY Zenon
<1>1. /\ fetch \in FetchRow /\ fetch.by = v /\ c \in VerifyRow /\ cache \in CacheRow /\ v # "nobody"
      /\ VerifyOK(v, c) /\ FetchOK /\ CacheOK /\ KeyTyped /\ fetch.served
    BY Zenon, KeyCacheAssumption DEF KeyInv, KeyTyped, Fetched
<1>2. /\ fetch.answer \in KeySets /\ fetch.sent \in Nat /\ c.now \in Nat /\ c.started \in Nat /\ c.prev \in Int
      /\ cache.loaded \in Int /\ cache.forced \in Int /\ ktime \in Nat
    BY Zenon, <1>1 DEF FetchRow, VerifyRow, CacheRow, KeyTyped
<1>3. d \in VerifyRow
    BY Zenon, <1>1, <1>2 DEF VerifyRow
<1>4. /\ d.at = "keys" /\ d.kid = c.kid /\ d.key = c.key /\ d.force = c.force /\ d.keys = fetch.answer
      /\ d.now = c.now /\ d.started = c.started /\ d.fails = c.fails
    BY <1>1 DEF VerifyRow
<1>5. /\ UNCHANGED <<ktime, published, since, until, verifies, rotations>>
      /\ verify' = [verify EXCEPT ![v] = d] /\ fetch' = NoFetch
    BY Zenon DEF Fetched, KeyInv, KeyTyped
<1>6. /\ cache' \in CacheRow /\ cache'.keys = fetch.answer /\ cache'.loaded = c.now
      /\ cache'.forced = IF c.force THEN c.now ELSE cache.forced
    BY <1>2 DEF Fetched, CacheRow
<1>7. fetch'.by = "nobody" /\ fetch' \in FetchRow
    BY Zenon, <1>5, RowsNone DEF NoFetch
<1>8. KeyTyped'
    BY Zenon, <1>1, <1>3, <1>5, <1>6, <1>7 DEF KeyTyped
<1>9. /\ cache.loaded <= c.now /\ c.now <= fetch.sent /\ fetch.sent <= ktime /\ ktime <= fetch.sent + FetchTime
      /\ Seen(fetch.answer, fetch.sent)
    BY Zenon, <1>1 DEF FetchOK
<1>10. \A t \in Int : t <= fetch.sent => Seen(fetch.answer, t)
    BY SMT, SMTT(20), <1>1, <1>2, <1>9, SeenEarlier
<1>11. \A t \in Int : t <= fetch.sent => Seen(cache.keys, t)'
    BY Zenon, <1>5, <1>6, <1>10 DEF Seen
<1>12. CacheOK'
    <2>1. Seen(cache.keys, cache.loaded)'
        BY SMT, SMTT(20), <1>2, <1>6, <1>9, <1>11 DEF Seen
    <2>2. /\ -1 <= cache'.forced /\ cache'.forced <= cache'.loaded /\ cache'.loaded <= ktime'
        BY SMT, SMTT(20), <1>1, <1>2, <1>5, <1>6, <1>9 DEF CacheOK
    <2> QED
        BY Zenon, <2>1, <2>2 DEF CacheOK
<1>13. FetchOK'
    BY Zenon, <1>7 DEF FetchOK
<1>14. CacheTime \in Nat /\ CacheTime # 0 /\ FetchTime \in Nat /\ Longest \in Nat
    BY Zenon, KeyCacheAssumption DEF Longest
<1>15. VerifyOK(v, verify[v])'
    <2>1. verify'[v] = d
        BY Zenon, <1>1, <1>5 DEF KeyTyped
    <2>2. c.started <= c.now /\ c.now <= ktime
        BY Zenon, <1>1 DEF VerifyOK
    <2>3. /\ c.started - CacheTime + 1 \in Int /\ c.started - CacheTime + 1 <= fetch.sent
          /\ c.started - Longest \in Int /\ c.started - Longest <= fetch.sent
          /\ c.now >= 0 /\ c.now > c.started - CacheTime
        BY SMT, SMTT(20), <1>2, <1>9, <1>14, <2>2
    <2>4. /\ Seen(verify[v].keys, verify[v].started - CacheTime + 1)'
          /\ Seen(verify[v].keys, verify[v].started - Longest)'
        BY SMT, SMTT(20), <1>4, <1>6, <1>11, <2>1, <2>3 DEF Seen
    <2>5. /\ verify'[v].started <= verify'[v].now /\ verify'[v].now <= ktime'
          /\ cache'.loaded >= 0 /\ cache'.loaded > verify'[v].started - CacheTime
        BY Zenon, <1>4, <1>5, <1>6, <2>1, <2>2, <2>3
    <2>6. /\ verify'[v].kid \in Kids /\ verify'[v].key \in Keys /\ ~verify'[v].fails
          /\ verify'[v].at = "keys" /\ fetch'.by # v
        BY ZenonT(30), <1>1, <1>4, <1>7, <2>1 DEF VerifyOK
    <2> QED
        BY Zenon, <2>4, <2>5, <2>6 DEF VerifyOK
<1>16. ASSUME NEW u \in Verifiers, u # v PROVE VerifyOK(u, verify[u])'
    <2>1. verify'[u] = verify[u] /\ verify[u] \in VerifyRow /\ VerifyOK(u, verify[u])
        BY Zenon, <1>1, <1>5, <1>16 DEF KeyTyped, KeyInv
    <2>2. verify[u].started \in Nat /\ verify[u].started <= ktime
        BY <1>2, <2>1 DEF VerifyRow, VerifyOK
    <2>3. verify[u].started - FetchTime \in Int /\ verify[u].started - FetchTime <= fetch.sent
        BY <1>2, <1>9, <1>14, <2>2
    <2>4. Seen(cache.keys, verify[u].started - FetchTime)'
        BY <1>11, <2>1, <2>3
    <2>5. fetch'.by = u <=> fetch.by = u
        BY <1>1, <1>7, <1>16, KeyCacheAssumption
    <2>6. SeenKept
        BY <1>5, ProviderStill
    <2> QED
        BY <1>1, <1>2, <1>5, <1>6, <1>8, <1>9, <2>1, <2>4, <2>5, <2>6, OtherCall
<1> QED
    BY Zenon, <1>8, <1>12, <1>13, <1>15, <1>16 DEF KeyInv

\* The inductive invariant holds in every reachable state.
LEMMA KeyInvariant == KeySpec => []KeyInv
<1>1. KeyInv /\ [KeyNext]_keyVars => KeyInv'
    <2> SUFFICES ASSUME KeyInv, [KeyNext]_keyVars PROVE KeyInv'
        BY Zenon
    <2>1. CASE UNCHANGED keyVars
        BY Zenon, <2>1, KeyStutter
    <2>2. CASE TickKeys
        BY Zenon, <2>2, TickKeysStep
    <2>3. CASE \E k \in Kids, m \in Keys : Rotate(k, m) \/ \E v \in Verifiers : Verify(v, k, m)
        BY Zenon, <2>3, RotateKeyStep, VerifyStep
    <2>4. CASE \E v \in Verifiers : GetKeys(v) \/ Served(v) \/ Fetched(v) \/ FetchFails(v) \/ Decide(v) \/ RespondWith(v)
        BY Zenon, <2>4, GetKeysStep, ServedStep, FetchedStep, FetchFailsStep, DecideStep, RespondStep
    <2> QED
        BY Zenon, <2>1, <2>2, <2>3, <2>4 DEF KeyNext
<1> QED
    BY <1>1, KeyInitial, PTL DEF KeySpec

\* A retired key stops being accepted within the cache time, for any number of
\* verifiers and keys and any timing (oidc.py, _keys).
THEOREM KeysRetire == KeySpec => []RetiredKeyDies
<1>1. KeyInv => RetiredKeyDies
    <2> SUFFICES ASSUME KeyInv, NEW v \in Verifiers, verify[v].at = "accepted"
                 PROVE  published[verify[v].kid] = verify[v].key
                        \/ verify[v].started - until[verify[v].kid][verify[v].key] < CacheTime
        BY Zenon DEF RetiredKeyDies
    <2> DEFINE c == verify[v]
    <2>1. /\ c \in VerifyRow /\ VerifyOK(v, c) /\ until \in [Kids -> [Keys -> Int]] /\ CacheTime \in Nat
        BY Zenon, KeyCacheAssumption DEF KeyInv, KeyTyped
    <2>2. /\ Seen(c.keys, c.started - CacheTime + 1) /\ c.kid \in Kids /\ c.key \in Keys /\ c.keys[c.kid] = c.key
        BY Zenon, <2>1 DEF VerifyOK
    <2>3. published[c.kid] = c.key \/ until[c.kid][c.key] >= c.started - CacheTime + 1
        BY Zenon, <2>2 DEF Seen
    <2>4. c.started \in Nat /\ until[c.kid][c.key] \in Int
        BY Zenon, <2>1, <2>2 DEF VerifyRow
    <2> QED
        BY SMT, SMTT(20), <2>1, <2>3, <2>4
<1> QED
    BY <1>1, KeyInvariant, PTL

\* A key published for long enough is found, whatever the cache held (the
\* forced second fetch).
THEOREM KeysRotate == KeySpec => []RotationSeen
<1>1. KeyInv => RotationSeen
    <2> SUFFICES ASSUME KeyInv, NEW v \in Verifiers, verify[v].at = "refused", ~verify[v].fails,
                        published[verify[v].kid] = verify[v].key
                 PROVE  verify[v].started - since[verify[v].kid][verify[v].key] <= Longest
        BY Zenon DEF RotationSeen, Longest
    <2> DEFINE c == verify[v]
    <2>1. /\ c \in VerifyRow /\ VerifyOK(v, c) /\ since \in [Kids -> [Keys -> Int]] /\ Longest \in Nat
        BY Zenon, KeyCacheAssumption DEF KeyInv, KeyTyped, Longest
    <2>2. /\ Seen(c.keys, c.started - Longest) /\ c.kid \in Kids /\ c.key \in Keys /\ c.keys[c.kid] # c.key
        BY Zenon, <2>1 DEF VerifyOK
    <2>3. since[c.kid][c.key] >= c.started - Longest
        BY Zenon, <2>2 DEF Seen
    <2>4. c.started \in Nat /\ since[c.kid][c.key] \in Int
        BY Zenon, <2>1, <2>2 DEF VerifyRow
    <2> QED
        BY SMT, SMTT(20), <2>1, <2>3, <2>4
<1> QED
    BY <1>1, KeyInvariant, PTL

-----------------------------------------------------------------------------
(* Local sessions *)
\* The sessions by themselves.
AuthSpec == AuthInit /\ [][AuthNext]_authVars

TokenRow == [jti : 1..MaxJti, type : {"access", "refresh"}, sid : Sessions, exp : Nat, sexp : Nat,
             ver : Nat, perm : BOOLEAN, from : Nat]

\* The same row before it is a token of a session.
WideRow == [jti : Nat, type : {"none", "access", "refresh"}, sid : Sessions \cup {0}, exp : Nat, sexp : Nat,
            ver : Nat, perm : BOOLEAN, from : Nat]

\* What each issued token is, whatever the others are.
TokenOK(t) ==
  /\ t.exp <= t.sexp /\ t.sexp <= now + RefreshLife
  /\ t.type = "refresh" => t.exp = t.sexp
  /\ t.perm => t.ver = 1
  /\ t.from # 0 => /\ revokedAt[t.from] >= t.exp
                   /\ \E u \in tokens : u.jti = t.from /\ u.type = "refresh"

\* Tokens are told apart by their jti, and a family has one deadline.
Distinct ==
  \A t, u \in tokens : /\ t.jti = u.jti => t = u
                       /\ t.sid = u.sid => t.sexp = u.sexp

UserOK == user.version = IF user.group THEN 1 ELSE 2

\* A refresh in progress works for a refresh token that was issued, and what
\* it will issue ends with the session.
ClientOK(x) ==
  x.pc # "idle" =>
    /\ x.tok \in tokens /\ x.tok.type = "refresh"
    /\ x.pc = "rotate" => /\ x.perm => x.tok.ver = 1
                          /\ x.at \in Nat /\ x.at <= now /\ x.tok.sexp <= x.at + RefreshLife

\* A logout that has begun holds the whole family until its deadline.
LogoutOK(s) ==
  logout[s].step # "none" =>
    /\ \E t \in tokens : t.sid = s
    /\ \A t \in tokens : t.sid = s => t.sexp <= familyEnd[s]
    /\ logout[s].step = "family" => \E t \in tokens : t.jti = logout[s].jti /\ t.type = "access"

\* What an authentication has established, by the read it has reached.
CheckOK(x) ==
  x.pc # "idle" =>
    /\ x.tok \in tokens
    /\ user.group => x.group
    /\ x.tok.sid \in x.over => logout[x.tok.sid].step = "done"
    /\ x.pc # "family" => (x.tok.sid \in x.over => Expired(x.tok))
    /\ x.pc = "admitted" => (x.tok.perm => x.group)

ClientRow == [pc : {"idle", "family", "user", "rotate"}, tok : TokenRow \cup {None}, at : Nat, perm : BOOLEAN]
CheckRow == [pc : {"idle", "family", "session", "admitted"}, tok : TokenRow \cup {None},
             over : SUBSET Sessions, group : BOOLEAN]
LogoutRow == [step : {"none", "family", "done"}, jti : 0 .. MaxJti]
UserRow == [version : Nat, group : BOOLEAN]

AuthTyped ==
  /\ now \in Nat /\ tokens \subseteq TokenRow /\ user \in UserRow
  /\ revokedAt \in [1..MaxJti -> Nat] /\ familyEnd \in [Sessions -> Nat]
  /\ client \in [Clients -> ClientRow] /\ check \in [Checks -> CheckRow]
  /\ logout \in [Sessions -> LogoutRow]

AuthInv ==
  /\ AuthTyped /\ Distinct /\ UserOK
  /\ \A t \in tokens : TokenOK(t)
  /\ \A c \in Clients : ClientOK(client[c])
  /\ \A s \in Sessions : LogoutOK(s)
  /\ \A k \in Checks : CheckOK(check[k])

\* The fields of a token.
LEMMA TokenFields ==
  ASSUME NEW t \in TokenRow
  PROVE  /\ t.jti \in 1..MaxJti /\ t.jti \in Nat /\ t.exp \in Nat /\ t.sexp \in Nat /\ t.sid \in Sessions
         /\ t.from \in Nat /\ t.perm \in BOOLEAN /\ t.ver \in Nat
BY DEF TokenRow

\* The jti of the next token is above those issued.
LEMMA FreshFacts ==
  ASSUME AuthInv
  PROVE  Fresh \in Nat /\ Fresh >= 1 /\ \A t \in tokens : t.jti < Fresh
<1>1. MaxJti \in Nat /\ \A t \in tokens : t.jti \in 1..MaxJti
  BY Zenon, AuthAssumption, TokenFields DEF AuthInv, AuthTyped
<1>2. MaxJti + 1 \in 1 .. MaxJti + 1 /\ \A t \in tokens : t.jti < MaxJti + 1
  BY SMT, SMTT(20), <1>1
<1>3. Fresh \in 1 .. MaxJti + 1 /\ \A t \in tokens : t.jti < Fresh
  BY Zenon, <1>2 DEF Fresh
<1> QED BY SMT, SMTT(20), <1>1, <1>3

\* A client or a request that does nothing.
LEMMA IdleRows ==
  /\ NoClient \in ClientRow /\ NoClient.pc = "idle"
  /\ NoCheck \in CheckRow /\ NoCheck.pc = "idle"
BY Zenon DEF NoClient, NoCheck, ClientRow, CheckRow

\* Issued tokens stay as they are while time passes, tokens are added and
\* the markers of refresh tokens are prolonged.
LEMMA TokensStay ==
  ASSUME AuthInv, tokens \subseteq tokens', now' \in Nat, now <= now',
         NEW t \in tokens, revokedAt' \in [1..MaxJti -> Nat],
         \A u \in tokens : u.type = "refresh" => revokedAt[u.jti] <= revokedAt'[u.jti]
  PROVE  TokenOK(t)'
<1>1. TokenOK(t) /\ t \in TokenRow /\ now \in Nat /\ RefreshLife \in Nat
  BY Zenon, AuthAssumption DEF AuthInv, AuthTyped
<1>2. t.exp \in Nat /\ t.sexp \in Nat /\ t.jti \in Nat
  BY Zenon, <1>1, TokenFields
<1>3. t.exp <= t.sexp /\ t.sexp <= now' + RefreshLife
  BY SMT, SMTT(20), <1>1, <1>2 DEF TokenOK
<1>6. ASSUME t.from # 0
      PROVE  revokedAt'[t.from] >= t.exp /\ \E u \in tokens' : u.jti = t.from /\ u.type = "refresh"
  <2>1. PICK u \in tokens : u.jti = t.from /\ u.type = "refresh"
    BY Zenon, <1>1, <1>6 DEF TokenOK
  <2>2. u.jti \in 1..MaxJti
    BY Zenon, TokenFields DEF AuthInv, AuthTyped
  <2>3. revokedAt[t.from] \in Nat /\ revokedAt'[t.from] \in Nat
    BY Zenon, <2>1, <2>2 DEF AuthInv, AuthTyped
  <2>4. revokedAt[t.from] <= revokedAt'[t.from] /\ revokedAt[t.from] >= t.exp
    BY Zenon, <1>1, <1>6, <2>1 DEF TokenOK
  <2> QED BY SMT, SMTT(20), <1>2, <2>1, <2>3, <2>4
<1> QED BY Zenon, <1>1, <1>3, <1>6 DEF TokenOK

\* A refresh that this step is not about goes on as it was.
LEMMA ClientStays ==
  ASSUME AuthInv, tokens \subseteq tokens', now' \in Nat, now <= now', NEW c \in Clients,
         client'[c] = client[c]
  PROVE  ClientOK(client[c])'
BY SMT, SMTT(20) DEF AuthInv, AuthTyped, ClientOK

\* An authentication that this step is not about knows what it knew.
LEMMA CheckStays ==
  ASSUME AuthInv, tokens \subseteq tokens', now' \in Nat, now <= now', NEW k \in Checks,
         user'.group => user.group,
         \A s \in Sessions : logout[s].step = "done" => logout'[s].step = "done",
         check'[k] = check[k]
  PROVE  CheckOK(check[k])'
<1>1. CheckOK(check[k]) /\ now \in Nat /\ check[k] \in CheckRow
  BY Zenon DEF AuthInv, AuthTyped
<1> SUFFICES ASSUME check[k].pc # "idle" PROVE CheckOK(check[k])'
  BY Zenon DEF CheckOK
<1>2. check[k].tok \in TokenRow /\ check[k].tok \in tokens
  BY Zenon, <1>1 DEF CheckOK, AuthInv, AuthTyped
<1>3. Expired(check[k].tok) => Expired(check[k].tok)'
  BY SMT, SMTT(20), <1>1, <1>2, TokenFields DEF Expired
<1> QED BY Zenon, <1>1, <1>2, <1>3, TokenFields DEF CheckOK

\* A logout holds its family while no other kind of family member appears.
LEMMA LogoutStays ==
  ASSUME AuthInv, tokens \subseteq tokens', tokens' \subseteq TokenRow, familyEnd' \in [Sessions -> Nat],
         NEW s \in Sessions, logout'[s] = logout[s], familyEnd[s] <= familyEnd'[s],
         \A t \in tokens' \ tokens :
            t.sid = s /\ (\E u \in tokens : u.sid = s) => \E u \in tokens : u.sid = s /\ u.sexp = t.sexp
  PROVE  LogoutOK(s)'
<1> SUFFICES ASSUME logout[s].step # "none"
             PROVE  LogoutOK(s)'
  BY Zenon DEF LogoutOK
<1>1. /\ LogoutOK(s) /\ \E t \in tokens : t.sid = s
      /\ \A t \in tokens : t.sid = s => t.sexp <= familyEnd[s]
      /\ familyEnd[s] \in Nat /\ familyEnd'[s] \in Nat
  BY Zenon DEF AuthInv, AuthTyped, LogoutOK
<1>2. ASSUME NEW t \in tokens', t.sid = s PROVE t.sexp <= familyEnd'[s]
  <2>1. \E u \in tokens : u.sid = s /\ u.sexp = t.sexp
    BY Zenon, <1>1, <1>2
  <2>2. t.sexp <= familyEnd[s] /\ t.sexp \in Nat
    BY Zenon, <1>1, <2>1, TokenFields
  <2> QED BY SMT, SMTT(20), <1>1, <2>2
<1> QED BY Zenon, <1>1, <1>2 DEF LogoutOK

\* A step of one refresh that issues nothing.
LEMMA RefreshMoves ==
  ASSUME AuthInv, NEW c \in Clients, NEW x \in ClientRow, client' = [client EXCEPT ![c] = x],
         UNCHANGED <<now, tokens, user, familyEnd, check, logout>>, ClientOK(x),
         revokedAt' \in [1..MaxJti -> Nat], \A j \in 1..MaxJti : revokedAt[j] <= revokedAt'[j]
  PROVE  AuthInv'
<1>1. AuthTyped'
  BY Zenon DEF AuthInv, AuthTyped
<1>2. now' \in Nat /\ now <= now' /\ tokens \subseteq tokens'
  BY SMT, SMTT(20) DEF AuthInv, AuthTyped
<1>4. \A t \in tokens : t.jti \in 1..MaxJti
  BY Zenon, TokenFields DEF AuthInv, AuthTyped
<1>5. \A t \in tokens' : TokenOK(t)'
  BY Zenon, <1>2, <1>4, TokensStay
<1>6. \A d \in Clients : ClientOK(client[d])'
  <2> TAKE d \in Clients
  <2>1. CASE d = c
    <3>1. client'[d] = x
      BY Zenon, <2>1 DEF AuthInv, AuthTyped
    <3> QED BY SMT, SMTT(20), <3>1 DEF ClientOK
  <2>2. CASE d # c
    <3>1. client'[d] = client[d]
      BY Zenon, <2>2 DEF AuthInv, AuthTyped
    <3> QED BY Zenon, <1>2, <3>1, ClientStays
  <2> QED BY Zenon, <2>1, <2>2
<1>7. \A k \in Checks : CheckOK(check[k])'
  BY Zenon DEF AuthInv, CheckOK, Expired
<1>8. \A s \in Sessions : LogoutOK(s)'
  BY ZenonT(30) DEF AuthInv, LogoutOK
<1>9. Distinct' /\ UserOK'
  BY Zenon DEF AuthInv, Distinct, UserOK
<1> QED BY Zenon, <1>1, <1>5, <1>6, <1>7, <1>8, <1>9 DEF AuthInv

\* A step of one authentication.
LEMMA CheckMoves ==
  ASSUME AuthInv, NEW k \in Checks, NEW x \in CheckRow, check' = [check EXCEPT ![k] = x],
         UNCHANGED <<now, tokens, user, revokedAt, familyEnd, client, logout>>, CheckOK(x)
  PROVE  AuthInv'
<1>1. AuthTyped'
  BY Zenon DEF AuthInv, AuthTyped
<1>2. \A t \in tokens' : TokenOK(t)'
  BY Zenon DEF AuthInv, TokenOK
<1>3. \A d \in Clients : ClientOK(client[d])'
  BY ZenonT(30) DEF AuthInv, ClientOK
<1>4. \A d \in Checks : CheckOK(check[d])'
  <2> TAKE d \in Checks
  <2>1. CheckOK(check'[d])
    BY ZenonT(30) DEF AuthInv, AuthTyped
  <2> QED BY Zenon, <2>1 DEF CheckOK, Expired
<1>5. \A s \in Sessions : LogoutOK(s)'
  BY Zenon DEF AuthInv, LogoutOK
<1>6. Distinct' /\ UserOK'
  BY Zenon DEF AuthInv, Distinct, UserOK
<1> QED BY <1>1, <1>2, <1>3, <1>4, <1>5, <1>6 DEF AuthInv

\* The reads of one authentication (get_auth_context): each adds to what it
\* has established.
LEMMA CheckSteps ==
  ASSUME AuthInv, NEW k \in Checks,
         (\E t \in tokens : CheckStart(k, t)) \/ CheckFamily(k) \/ CheckSession(k) \/ CheckEnds(k)
  PROVE  AuthInv'
<1>0. check[k] \in CheckRow /\ CheckOK(check[k]) /\ check \in [Checks -> CheckRow] /\ now \in Nat
  BY Zenon DEF AuthInv, AuthTyped
<1>a. CheckOK(NoCheck)
  BY Zenon, IdleRows DEF CheckOK
<1>1. ASSUME NEW t \in tokens, CheckStart(k, t) PROVE AuthInv'
  <2> DEFINE x == [pc |-> "family", tok |-> t, over |-> LoggedOut, group |-> user.group]
  <2>1. t \in TokenRow /\ user.group \in BOOLEAN /\ LoggedOut \in SUBSET Sessions
    BY Zenon DEF AuthInv, AuthTyped, LoggedOut, UserRow
  <2>2. x \in CheckRow
    BY ZenonT(30), <2>1 DEF CheckRow
  <2>3. CheckOK(x)
    BY Zenon DEF CheckOK, LoggedOut
  <2> QED BY Zenon, <1>1, <2>2, <2>3, CheckMoves DEF CheckStart
<1>2. CASE CheckFamily(k)
  <2>1. check[k].pc = "family" /\ check[k].tok \in tokens /\ check[k].tok \in TokenRow
    BY Zenon, <1>0, <1>2 DEF CheckFamily, CheckOK, AuthInv, AuthTyped
  <2>2. CASE IsFamilyRevoked(check[k].tok.sid)
    <3>1. check' = [check EXCEPT ![k] = NoCheck]
      BY Zenon, <1>0, <1>2, <2>2 DEF CheckFamily
    <3> QED BY Zenon, <1>2, <1>a, <3>1, IdleRows, CheckMoves DEF CheckFamily
  <2>3. CASE ~IsFamilyRevoked(check[k].tok.sid)
    <3> DEFINE x == [check[k] EXCEPT !.pc = "session"]
    <3>1. check' = [check EXCEPT ![k] = x]
      BY Zenon, <1>0, <1>2, <2>3 DEF CheckFamily
    <3>2. x \in CheckRow
      BY Zenon, <1>0 DEF CheckRow
    <3>3. /\ x.pc = "session" /\ x.tok = check[k].tok /\ x.over = check[k].over
          /\ x.group = check[k].group
      BY Zenon, <1>0 DEF CheckRow
    <3>4. check[k].tok.sid \in check[k].over => Expired(check[k].tok)
      <4> SUFFICES ASSUME check[k].tok.sid \in check[k].over PROVE Expired(check[k].tok)
        BY Zenon
      <4> DEFINE t == check[k].tok
      <4>1. t.sid \in Sessions /\ t.exp \in Nat /\ t.sexp \in Nat
        BY Zenon, <2>1, TokenFields
      <4>2. logout[t.sid].step = "done"
        BY Zenon, <1>0, <2>1 DEF CheckOK
      <4>3. t.sexp <= familyEnd[t.sid] /\ familyEnd[t.sid] \in Nat
        BY Zenon, <2>1, <4>1, <4>2 DEF AuthInv, AuthTyped, LogoutOK
      <4>4. familyEnd[t.sid] <= now
        BY SMT, SMTT(20), <1>0, <2>3, <4>3 DEF IsFamilyRevoked
      <4>5. t.exp <= t.sexp
        BY Zenon, <2>1 DEF AuthInv, TokenOK
      <4> QED BY SMT, SMTT(20), <1>0, <4>1, <4>3, <4>4, <4>5 DEF Expired
    <3>5. CheckOK(x)
      BY Zenon, <1>0, <2>1, <3>3, <3>4 DEF CheckOK
    <3> QED BY Zenon, <1>2, <3>1, <3>2, <3>5, CheckMoves DEF CheckFamily
  <2> QED BY Zenon, <2>2, <2>3
<1>3. CASE CheckSession(k)
  <2>1. CASE check[k].tok.ver = user.version
    <3> DEFINE x == [check[k] EXCEPT !.pc = "admitted"]
    <3>1. check' = [check EXCEPT ![k] = x] /\ check[k].pc = "session"
      BY Zenon, <1>0, <1>3, <2>1 DEF CheckSession
    <3>2. x \in CheckRow
      BY Zenon, <1>0 DEF CheckRow
    <3>3. /\ x.pc = "admitted" /\ x.tok = check[k].tok /\ x.over = check[k].over
          /\ x.group = check[k].group
      BY Zenon, <1>0 DEF CheckRow
    <3>4. check[k].tok.perm => check[k].group
      BY SMT, SMTT(20), <1>0, <2>1, <3>1 DEF CheckOK, AuthInv, TokenOK, UserOK
    <3>5. CheckOK(x)
      BY Zenon, <1>0, <3>1, <3>3, <3>4 DEF CheckOK
    <3> QED BY Zenon, <1>3, <3>1, <3>2, <3>5, CheckMoves DEF CheckSession
  <2>2. CASE check[k].tok.ver # user.version
    <3>1. check' = [check EXCEPT ![k] = NoCheck]
      BY Zenon, <1>0, <1>3, <2>2 DEF CheckSession
    <3> QED BY Zenon, <1>3, <1>a, <3>1, IdleRows, CheckMoves DEF CheckSession
  <2> QED BY Zenon, <2>1, <2>2
<1>4. CASE CheckEnds(k)
  BY Zenon, <1>4, <1>a, IdleRows, CheckMoves DEF CheckEnds
<1> QED BY Zenon, <1>1, <1>2, <1>3, <1>4

\* A marker set once only prolongs what was there, and covers the token's life.
LEMMA MarkerGrows ==
  ASSUME AuthInv, NEW j \in 1..MaxJti, NEW e \in Nat, RevokeOnce(j),
         revokedAt' = [revokedAt EXCEPT ![j] = Marker(e)]
  PROVE  /\ revokedAt' \in [1..MaxJti -> Nat] /\ revokedAt'[j] >= e
         /\ \A i \in 1..MaxJti : revokedAt[i] <= revokedAt'[i]
         /\ revokedAt[j] <= now
<1>1. revokedAt \in [1..MaxJti -> Nat] /\ now \in Nat
  BY Zenon DEF AuthInv, AuthTyped
<1>2. Marker(e) \in Nat /\ Marker(e) >= e /\ Marker(e) > now
  BY SMT, SMTT(20), <1>1 DEF Marker
<1>3. revokedAt[j] <= now /\ revokedAt[j] \in Nat
  BY SMT, SMTT(20), <1>1 DEF RevokeOnce, IsRevoked
<1>4. \A i \in 1..MaxJti : revokedAt[i] \in Nat
  BY Zenon, <1>1
<1> QED BY SMT, SMTT(20), <1>1, <1>2, <1>3, <1>4

\* The reads of refresh, up to the rotation; RefreshLost is the loser of the
\* revoke_once race.
LEMMA RefreshSteps ==
  ASSUME AuthInv, NEW c \in Clients,
         (\E t \in tokens : RefreshStart(c, t)) \/ RefreshFamily(c) \/ RefreshUser(c) \/ RefreshLost(c)
  PROVE  AuthInv'
<1>0. /\ client[c] \in ClientRow /\ ClientOK(client[c]) /\ client \in [Clients -> ClientRow] /\ now \in Nat
      /\ revokedAt \in [1..MaxJti -> Nat] /\ \A j \in 1..MaxJti : revokedAt[j] <= revokedAt[j]
  BY SMT, SMTT(20) DEF AuthInv, AuthTyped
<1>a. ClientOK(NoClient)
  BY Zenon, IdleRows DEF ClientOK
<1>1. ASSUME NEW t \in tokens, RefreshStart(c, t) PROVE AuthInv'
  <2> DEFINE x == [NoClient EXCEPT !.pc = "family", !.tok = t]
  <2>1. t \in TokenRow /\ t.type = "refresh"
    BY Zenon, <1>1 DEF AuthInv, AuthTyped, RefreshStart
  <2>2. x \in ClientRow
    BY Zenon, <2>1, IdleRows DEF ClientRow
  <2>3. x.pc = "family" /\ x.tok = t
    BY Zenon, IdleRows DEF ClientRow
  <2>4. ClientOK(x)
    BY Zenon, <2>1, <2>3 DEF ClientOK
  <2> QED BY Zenon, <1>0, <1>1, <2>2, <2>4, RefreshMoves DEF RefreshStart
<1>2. CASE RefreshFamily(c)
  <2>1. CASE Answered(c)
    BY Zenon, <1>0, <1>2, <1>a, <2>1, IdleRows, RefreshMoves DEF RefreshFamily, Answered
  <2>2. CASE client' = [client EXCEPT ![c].pc = "user"]
    <3> DEFINE x == [client[c] EXCEPT !.pc = "user"]
    <3>1. client' = [client EXCEPT ![c] = x]
      BY Zenon, <1>0, <2>2
    <3>2. x \in ClientRow
      BY Zenon, <1>0 DEF ClientRow
    <3>3. x.pc = "user" /\ x.tok = client[c].tok
      BY Zenon, <1>0 DEF ClientRow
    <3>4. ClientOK(x)
      BY Zenon, <1>0, <1>2, <3>3 DEF ClientOK, RefreshFamily
    <3> QED BY Zenon, <1>0, <1>2, <3>1, <3>2, <3>4, RefreshMoves DEF RefreshFamily
  <2> QED BY Zenon, <1>2, <2>1, <2>2 DEF RefreshFamily
<1>3. CASE RefreshUser(c)
  <2>1. CASE Answered(c)
    BY Zenon, <1>0, <1>3, <1>a, <2>1, IdleRows, RefreshMoves DEF RefreshUser, Answered
  <2>2. CASE ~Answered(c)
    <3> DEFINE x == [client[c] EXCEPT !.pc = "rotate", !.at = now, !.perm = user.group]
    <3>0. client' = [client EXCEPT ![c].pc = "rotate", ![c].at = now, ![c].perm = user.group]
      BY Zenon, <1>3, <2>2 DEF RefreshUser
    <3>1. client' = [client EXCEPT ![c] = x]
      BY Zenon, <1>0, <3>0
    <3>5. user.group \in BOOLEAN
      BY Zenon DEF AuthInv, AuthTyped, UserRow
    <3>2. x \in ClientRow
      BY Zenon, <1>0, <3>5 DEF ClientRow
    <3>3. x.pc = "rotate" /\ x.tok = client[c].tok /\ x.at = now /\ x.perm = user.group
      BY Zenon, <1>0 DEF ClientRow
    <3>4. client[c].tok.ver = user.version /\ client[c].tok \in tokens /\ client[c].tok.type = "refresh"
      BY Zenon, <1>0, <1>3, <2>2 DEF RefreshUser, ClientOK
    <3>6. client[c].tok.sexp <= now + RefreshLife
      BY Zenon, <3>4 DEF AuthInv, TokenOK
    <3>7. user.group => client[c].tok.ver = 1
      BY Zenon, <3>4 DEF AuthInv, UserOK
    <3>8. ClientOK(x)
      BY SMT, SMTT(20), <1>0, <3>3, <3>4, <3>6, <3>7 DEF ClientOK
    <3> QED BY Zenon, <1>0, <1>3, <3>1, <3>2, <3>8, RefreshMoves DEF RefreshUser
  <2> QED BY Zenon, <2>1, <2>2
<1>4. CASE RefreshLost(c)
  <2>1. CASE UNCHANGED revokedAt
    BY Zenon, <1>0, <1>4, <1>a, <2>1, IdleRows, RefreshMoves DEF RefreshLost, Answered
  <2>2. CASE /\ client[c].pc = "rotate" /\ RevokeOnce(client[c].tok.jti)
             /\ revokedAt' = [revokedAt EXCEPT ![client[c].tok.jti] = Marker(client[c].tok.exp)]
    <3>1. client[c].tok.jti \in 1..MaxJti /\ client[c].tok.exp \in Nat
      BY Zenon, <1>0, <2>2, TokenFields DEF ClientOK, AuthInv, AuthTyped
    <3>2. revokedAt' \in [1..MaxJti -> Nat] /\ \A i \in 1..MaxJti : revokedAt[i] <= revokedAt'[i]
      BY Zenon, <2>2, <3>1, MarkerGrows
    <3> QED BY Zenon, <1>4, <1>a, <3>2, IdleRows, RefreshMoves DEF RefreshLost, Answered
  <2> QED BY Zenon, <1>4, <2>1, <2>2 DEF RefreshLost
<1> QED BY <1>1, <1>2, <1>3, <1>4

\* Time passes: what was issued is not lengthened.
LEMMA TickStep ==
  ASSUME AuthInv, Tick
  PROVE  AuthInv'
<1>1. /\ UNCHANGED <<tokens, user, revokedAt, familyEnd, client, check, logout>>
      /\ now \in Nat /\ now' \in Nat /\ now <= now' /\ revokedAt' \in [1..MaxJti -> Nat]
      /\ familyEnd \in [Sessions -> Nat] /\ tokens \subseteq TokenRow
  BY SMT, SMTT(20) DEF AuthInv, AuthTyped, Tick
<1>2. AuthTyped'
  BY Zenon, <1>1 DEF AuthInv, AuthTyped
<1>4. \A t \in tokens : revokedAt[t.jti] \in Nat
  BY Zenon, <1>1, TokenFields
<1>5. \A t \in tokens' : TokenOK(t)'
  BY SMT, SMTT(20), <1>1, <1>4, TokensStay
<1>6. \A c \in Clients : ClientOK(client[c])'
  BY Zenon, <1>1, ClientStays
<1>7. \A k \in Checks : CheckOK(check[k])'
  BY Zenon, <1>1, CheckStays
<1>8. \A s \in Sessions : LogoutOK(s)'
  BY ZenonT(30), <1>1 DEF AuthInv, LogoutOK
<1>9. Distinct' /\ UserOK'
  BY Zenon, <1>1 DEF AuthInv, Distinct, UserOK
<1> QED BY Zenon, <1>2, <1>5, <1>6, <1>7, <1>8, <1>9 DEF AuthInv

\* delete_group ends the permissions of the tokens issued before it.
LEMMA GroupDeletedStep ==
  ASSUME AuthInv, GroupDeleted
  PROVE  AuthInv'
<1>1. /\ UNCHANGED <<now, tokens, revokedAt, familyEnd, client, check, logout>>
      /\ user'.group = FALSE /\ user'.version = user.version + 1 /\ user.group
      /\ now \in Nat
  BY Zenon DEF AuthInv, AuthTyped, GroupDeleted, BumpsVersion
<1>2. user' \in UserRow /\ UserOK'
  <2>1. user.version = 1
    BY Zenon, <1>1 DEF AuthInv, UserOK
  <2> QED BY SMT, SMTT(20), <1>1, <2>1 DEF GroupDeleted, BumpsVersion, UserRow, UserOK
<1>3. AuthTyped'
  BY Zenon, <1>1, <1>2 DEF AuthInv, AuthTyped
<1>5. \A t \in tokens' : TokenOK(t)'
  BY Zenon, <1>1 DEF AuthInv, TokenOK
<1>6. \A c \in Clients : ClientOK(client[c])'
  BY Zenon, <1>1 DEF AuthInv, ClientOK
<1>7. \A k \in Checks : CheckOK(check[k])'
  BY SMT, SMTT(20), <1>1, CheckStays
<1>8. \A s \in Sessions : LogoutOK(s)'
  BY Zenon, <1>1 DEF AuthInv, LogoutOK
<1>9. Distinct'
  BY Zenon, <1>1 DEF AuthInv, Distinct
<1> QED BY Zenon, <1>2, <1>3, <1>5, <1>6, <1>7, <1>8, <1>9 DEF AuthInv

\* The first half of logout: the marker of the family covers its deadline.
LEMMA LogoutFamilyStep ==
  ASSUME AuthInv, NEW t \in tokens, LogoutFamily(t)
  PROVE  AuthInv'
<1>1. /\ UNCHANGED <<now, tokens, user, revokedAt, client, check>> /\ now \in Nat
      /\ t.type = "access" /\ logout[t.sid].step = "none" /\ tokens \subseteq TokenRow
      /\ familyEnd \in [Sessions -> Nat] /\ logout \in [Sessions -> LogoutRow]
  BY Zenon DEF AuthInv, AuthTyped, LogoutFamily
<1>2. t.sid \in Sessions /\ t.sexp \in Nat /\ t.jti \in 1..MaxJti
  BY Zenon, <1>1, TokenFields
<1>3. /\ familyEnd' \in [Sessions -> Nat] /\ familyEnd'[t.sid] >= t.sexp
      /\ \A s \in Sessions : familyEnd[s] <= familyEnd'[s]
  <2>1. \A s \in Sessions : familyEnd[s] \in Nat
    BY Zenon, <1>1
  <2>2. familyEnd' = [familyEnd EXCEPT ![t.sid] = IF t.sexp > familyEnd[t.sid] THEN t.sexp ELSE familyEnd[t.sid]]
    BY Zenon, <1>1, <1>2 DEF LogoutFamily, FamilyUntil
  <2> QED BY SMT, SMTT(20), <1>1, <1>2, <2>1, <2>2
<1>4. [step |-> "family", jti |-> t.jti] \in LogoutRow
  BY SMT, SMTT(20), <1>2 DEF LogoutRow
<1>5. /\ logout' \in [Sessions -> LogoutRow]
      /\ logout'[t.sid].step = "family" /\ logout'[t.sid].jti = t.jti
      /\ \A s \in Sessions \ {t.sid} : logout'[s] = logout[s]
  BY ZenonT(30), <1>1, <1>2, <1>4 DEF LogoutFamily
<1>6. AuthTyped'
  BY Zenon, <1>1, <1>3, <1>5 DEF AuthInv, AuthTyped
<1>7. \A s \in Sessions : LogoutOK(s)'
  <2> TAKE s \in Sessions
  <2>1. CASE s = t.sid
    <3>1. \A u \in tokens : u.sid = s => u.sexp = t.sexp
      BY Zenon, <2>1 DEF AuthInv, Distinct
    <3> QED BY Zenon, <1>1, <1>3, <1>5, <2>1, <3>1 DEF LogoutOK
  <2>2. CASE s # t.sid
    <3>1. logout'[s] = logout[s] /\ familyEnd[s] <= familyEnd'[s] /\ tokens' = tokens
      BY ZenonT(30), <1>1, <1>3, <1>5, <2>2
    <3> QED BY Zenon, <1>1, <1>3, <3>1, LogoutStays
  <2> QED BY Zenon, <2>1, <2>2
<1>8. \A k \in Checks : CheckOK(check[k])'
  <2>1. \A s \in Sessions : logout[s].step = "done" => logout'[s].step = "done"
    BY Zenon, <1>1, <1>2, <1>5
  <2> QED BY SMT, SMTT(20), <1>1, <2>1, CheckStays
<1>9. \A u \in tokens' : TokenOK(u)'
  BY ZenonT(30), <1>1 DEF AuthInv, TokenOK
<1>10. \A c \in Clients : ClientOK(client[c])'
  BY Zenon, <1>1 DEF AuthInv, ClientOK
<1>11. Distinct' /\ UserOK'
  BY ZenonT(30), <1>1 DEF AuthInv, Distinct, UserOK
<1> QED BY Zenon, <1>6, <1>7, <1>8, <1>9, <1>10, <1>11 DEF AuthInv

\* The second half of logout: the presented access token is revoked.
LEMMA LogoutTokenStep ==
  ASSUME AuthInv, NEW t \in tokens, LogoutToken(t)
  PROVE  AuthInv'
<1>1. /\ UNCHANGED <<now, tokens, user, familyEnd, client, check>> /\ now \in Nat
      /\ logout[t.sid].step = "family" /\ logout[t.sid].jti = t.jti /\ tokens \subseteq TokenRow
      /\ familyEnd \in [Sessions -> Nat] /\ logout \in [Sessions -> LogoutRow]
      /\ revokedAt \in [1..MaxJti -> Nat]
  BY SMT, SMTT(20) DEF AuthInv, AuthTyped, LogoutToken
<1>2. t.sid \in Sessions /\ t.exp \in Nat /\ t.jti \in 1..MaxJti
  BY Zenon, <1>1, TokenFields
<1>3. t.type = "access"
  <2>1. PICK u \in tokens : u.jti = t.jti /\ u.type = "access"
    BY SMT, SMTT(20), <1>1, <1>2 DEF AuthInv, LogoutOK
  <2> QED BY Zenon, <2>1 DEF AuthInv, Distinct
<1>4. revokedAt' \in [1..MaxJti -> Nat] /\ \A j \in 1..MaxJti \ {t.jti} : revokedAt'[j] = revokedAt[j]
  <2>1. Marker(t.exp) \in Nat
    BY SMT, SMTT(20), <1>1, <1>2 DEF Marker
  <2> QED BY Zenon, <1>1, <2>1 DEF LogoutToken
<1>5. \A u \in tokens : u.type = "refresh" => revokedAt[u.jti] <= revokedAt'[u.jti]
  <2> TAKE u \in tokens
  <2> HAVE u.type = "refresh"
  <2>1. u.jti # t.jti
    BY Zenon, <1>3 DEF AuthInv, Distinct
  <2>2. u.jti \in 1..MaxJti
    BY Zenon, <1>1, TokenFields
  <2> QED BY SMT, SMTT(20), <1>1, <1>4, <2>1, <2>2
<1>6. /\ logout' \in [Sessions -> LogoutRow] /\ logout'[t.sid].step = "done"
      /\ \A s \in Sessions \ {t.sid} : logout'[s] = logout[s]
  <2>1. [step |-> "done", jti |-> 0] \in LogoutRow
    BY SMT, SMTT(20), AuthAssumption DEF LogoutRow
  <2> QED BY Zenon, <1>1, <1>2, <2>1 DEF LogoutToken
<1>7. AuthTyped'
  BY Zenon, <1>1, <1>4, <1>6 DEF AuthInv, AuthTyped
<1>8. \A s \in Sessions : LogoutOK(s)'
  <2> TAKE s \in Sessions
  <2>1. CASE s = t.sid
    BY ZenonT(30), <1>1, <1>6, <2>1 DEF AuthInv, LogoutOK
  <2>2. CASE s # t.sid
    <3>1. logout'[s] = logout[s]
      BY ZenonT(30), <1>6, <2>2
    <3> QED BY ZenonT(30), <1>1, <3>1 DEF AuthInv, LogoutOK
  <2> QED BY <2>1, <2>2
<1>9. \A k \in Checks : CheckOK(check[k])'
  <2>1. \A s \in Sessions : logout[s].step = "done" => logout'[s].step = "done"
    BY Zenon, <1>1, <1>2, <1>6
  <2> QED BY SMT, SMTT(20), <1>1, <2>1, CheckStays
<1>10. \A u \in tokens' : TokenOK(u)'
  BY SMT, SMTT(20), <1>1, <1>4, <1>5, TokensStay
<1>11. \A c \in Clients : ClientOK(client[c])'
  BY Zenon, <1>1 DEF AuthInv, ClientOK
<1>12. Distinct' /\ UserOK'
  BY Zenon, <1>1 DEF AuthInv, Distinct, UserOK
<1> QED BY Zenon, <1>7, <1>8, <1>9, <1>10, <1>11, <1>12 DEF AuthInv

\* A new pair of tokens: they are told apart from all others, and belong to a
\* family whose deadline they share.
LEMMA IssuesPair ==
  ASSUME AuthInv, UNCHANGED <<now, user, familyEnd, check, logout>>,
         NEW a \in TokenRow, NEW b \in TokenRow, tokens' = tokens \cup {a, b},
         a.jti = Fresh, b.jti = Fresh + 1, a.sid = b.sid, a.sexp = b.sexp,
         \A t \in tokens : t.sid = a.sid => t.sexp = a.sexp,
         a.type = "access", b.type = "refresh",
         a.exp <= a.sexp, b.exp = b.sexp, a.sexp <= now + RefreshLife,
         a.perm => a.ver = 1, b.perm => b.ver = 1, a.from = 0,
         b.from # 0 => /\ revokedAt'[b.from] >= b.exp
                       /\ \E u \in tokens : u.jti = b.from /\ u.type = "refresh",
         revokedAt' \in [1..MaxJti -> Nat],
         \A j \in 1..MaxJti : revokedAt[j] <= revokedAt'[j],
         client' \in [Clients -> ClientRow],
         \A c \in Clients : client'[c] = client[c] \/ client'[c] = NoClient
  PROVE  AuthInv'
<1>0. /\ tokens \subseteq TokenRow /\ now \in Nat
      /\ familyEnd \in [Sessions -> Nat]
  BY Zenon DEF AuthInv, AuthTyped
<1>1. Fresh \in Nat /\ \A t \in tokens : t.jti < Fresh
  BY Zenon, FreshFacts
<1>2. \A t \in tokens : t.jti \in Nat
  BY Zenon, <1>0, TokenFields
<1>6. Distinct'
  <2>1. \A t, u \in tokens' : t.jti = u.jti => t = u
    <3>1. \A t \in tokens : t.jti # a.jti /\ t.jti # b.jti
      BY <1>1, <1>2
    <3>2. a.jti # b.jti
      BY <1>1
    <3> QED BY <3>1, <3>2 DEF AuthInv, Distinct
  <2>2. \A t, u \in tokens' : t.sid = u.sid => t.sexp = u.sexp
    BY SMT, SMTT(20) DEF AuthInv, Distinct
  <2> QED BY ZenonT(30), <2>1, <2>2 DEF Distinct
<1>7. \A t \in tokens : TokenOK(t)'
  <2>1. \A u \in tokens : u.type = "refresh" => revokedAt[u.jti] <= revokedAt'[u.jti]
    BY Zenon, <1>0, TokenFields
  <2> QED BY SMT, SMTT(20), <1>0, <2>1, TokensStay
<1>8. TokenOK(a)'
  BY Zenon DEF TokenOK
<1>9. TokenOK(b)'
  <2>1. b.exp <= b.sexp
    BY SMT, SMTT(20), TokenFields
  <2> QED BY Zenon, <2>1 DEF TokenOK
<1>10. \A c \in Clients : ClientOK(client[c])'
  <2> TAKE c \in Clients
  <2>1. CASE client'[c] = client[c]
    BY SMT, SMTT(20), <1>0, <2>1, ClientStays
  <2>2. CASE client'[c] = NoClient
    BY ZenonT(30), <2>2, IdleRows DEF ClientOK
  <2> QED BY Zenon, <2>1, <2>2
<1>11. \A k \in Checks : CheckOK(check[k])'
  BY SMT, SMTT(20), <1>0, CheckStays
<1>12. \A s \in Sessions : LogoutOK(s)'
  <2> TAKE s \in Sessions
  <2>1. \A t \in tokens' \ tokens : t.sid = s /\ (\E u \in tokens : u.sid = s) =>
           \E u \in tokens : u.sid = s /\ u.sexp = t.sexp
    BY SMT, SMTT(20)
  <2>2. familyEnd[s] <= familyEnd'[s] /\ familyEnd' \in [Sessions -> Nat]
    BY SMT, SMTT(20), <1>0
  <2> QED BY Zenon, <1>0, <2>1, <2>2, LogoutStays
<1>13. AuthTyped'
  BY Zenon, <1>0 DEF AuthInv, AuthTyped
<1>14. UserOK'
  BY Zenon DEF AuthInv, UserOK
<1> QED BY Zenon, <1>6, <1>7, <1>8, <1>9, <1>10, <1>11, <1>12, <1>13, <1>14 DEF AuthInv

\* login issues the first pair of a new family.
LEMMA LoginStep ==
  ASSUME AuthInv, NEW s \in Sessions, Login(s)
  PROVE  AuthInv'
<1> DEFINE end == now + RefreshLife
           base == [None EXCEPT !.sid = s, !.sexp = end, !.ver = user.version]
           a == [base EXCEPT !.jti = Fresh, !.type = "access", !.exp = Min2(now + AccessLife, end),
                             !.perm = user.group]
           b == [base EXCEPT !.jti = Fresh + 1, !.type = "refresh", !.exp = end]
<1>0. /\ now \in Nat /\ user \in UserRow
      /\ AccessLife \in Nat /\ RefreshLife \in Nat /\ MaxJti \in Nat
      /\ revokedAt \in [1..MaxJti -> Nat] /\ client \in [Clients -> ClientRow]
  BY Zenon, AuthAssumption DEF AuthInv, AuthTyped, Distinct
<1>1. /\ tokens' = tokens \cup {a, b} /\ Fresh + 1 <= MaxJti /\ \A t \in tokens : t.sid # s
      /\ UNCHANGED <<now, user, revokedAt, familyEnd, client, check, logout>>
  BY DEF Login
<1>2. Fresh \in Nat /\ Fresh >= 1
  BY Zenon, FreshFacts
<1>3. Fresh \in 1..MaxJti /\ Fresh + 1 \in 1..MaxJti
  BY SMT, SMTT(20), <1>0, <1>1, <1>2
<1>4. /\ user.version \in Nat /\ user.group \in BOOLEAN /\ end \in Nat
      /\ Min2(now + AccessLife, end) \in Nat /\ Min2(now + AccessLife, end) <= end
  BY SMT, SMTT(20), <1>0 DEF UserRow, Min2
<1>5. None \in WideRow
  BY Zenon DEF None, WideRow
<1>6. base \in WideRow
  BY Zenon, <1>4, <1>5 DEF WideRow
<1>7. base.sid = s /\ base.sexp = end /\ base.ver = user.version /\ base.perm = FALSE /\ base.from = 0
  BY Zenon, <1>5 DEF WideRow, None
<1> HIDE DEF base, end
<1>16. Fresh \in Nat /\ Fresh + 1 \in Nat
  BY SMT, SMTT(20), <1>2 DEF Fresh
<1>8. a \in WideRow
  BY Zenon, <1>4, <1>6, <1>16 DEF WideRow
<1>9. /\ a.jti = Fresh /\ a.type = "access" /\ a.sid = s /\ a.exp <= a.sexp /\ a.sexp = end
      /\ a.from = 0 /\ a.perm = user.group /\ a.ver = user.version
  BY Zenon, <1>4, <1>6, <1>7 DEF WideRow
<1>14. b \in WideRow
  BY Zenon, <1>4, <1>6, <1>16 DEF WideRow
<1>10. /\ b.jti = Fresh + 1 /\ b.type = "refresh" /\ b.sid = s /\ b.exp = end /\ b.sexp = end
       /\ b.from = 0 /\ b.perm = FALSE
  BY Zenon, <1>6, <1>7 DEF WideRow
<1> HIDE DEF a, b
<1>15. a \in TokenRow /\ b \in TokenRow
  BY ZenonT(30), <1>3, <1>8, <1>9, <1>10, <1>14 DEF WideRow, TokenRow
<1>11. a.perm => a.ver = 1
  BY Zenon, <1>9 DEF AuthInv, UserOK
<1>12. end <= now + RefreshLife
  BY SMT, SMTT(20), <1>4 DEF end
<1>13. \A j \in 1..MaxJti : revokedAt[j] <= revokedAt'[j]
  BY SMT, SMTT(20), <1>0, <1>1
<1> QED BY ZenonT(30), <1>0, <1>1, <1>9, <1>10, <1>11, <1>12, <1>13, <1>15, IssuesPair

\* The rotation of refresh issues the next pair, and revokes the old token for
\* longer than the new one lives.
LEMMA RotateStep ==
  ASSUME AuthInv, NEW c \in Clients, RefreshRotate(c)
  PROVE  AuthInv'
<1> DEFINE x == client[c]
           old == x.tok
           a == [old EXCEPT !.jti = Fresh, !.type = "access", !.from = 0,
                            !.exp = Min2(x.at + AccessLife, old.sexp), !.perm = x.perm]
           b == [old EXCEPT !.jti = Fresh + 1, !.exp = NextExpiry(c), !.from = old.jti]
<1>0. /\ now \in Nat /\ x \in ClientRow /\ ClientOK(x)
      /\ AccessLife \in Nat /\ RefreshLife \in Nat /\ MaxJti \in Nat /\ tokens \subseteq TokenRow
      /\ revokedAt \in [1..MaxJti -> Nat] /\ client \in [Clients -> ClientRow]
  BY Zenon, AuthAssumption DEF AuthInv, AuthTyped, Distinct
<1>1. x.pc = "rotate" /\ Fresh + 1 <= MaxJti /\ Answered(c) /\ UNCHANGED <<now, user, familyEnd, check, logout>>
  BY Zenon DEF RefreshRotate
<1>2. CASE ~RevokeOnce(old.jti)
  <2>1. UNCHANGED <<revokedAt, tokens>>
    BY Zenon, <1>2 DEF RefreshRotate
  <2>2. ClientOK(NoClient) /\ client' = [client EXCEPT ![c] = NoClient]
    BY Zenon, <1>1, IdleRows DEF ClientOK, Answered
  <2>3. \A j \in 1..MaxJti : revokedAt[j] <= revokedAt'[j]
    BY SMT, SMTT(20), <1>0, <2>1
  <2> QED BY Zenon, <1>0, <1>1, <2>1, <2>2, <2>3, IdleRows, RefreshMoves
<1>3. CASE RevokeOnce(old.jti)
  <2>1. /\ revokedAt' = [revokedAt EXCEPT ![old.jti] = Marker(old.exp)] /\ tokens' = tokens \cup {a, b}
    BY Zenon, <1>3 DEF RefreshRotate
  <2>2. /\ old \in tokens /\ old \in TokenRow /\ old.type = "refresh"
        /\ x.at \in Nat /\ old.sexp <= x.at + RefreshLife /\ (x.perm => old.ver = 1)
    BY Zenon, <1>0, <1>1 DEF ClientOK
  <2>3. /\ old.jti \in 1..MaxJti /\ old.jti \in Nat /\ old.exp \in Nat /\ old.sexp \in Nat /\ old.sid \in Sessions
    BY Zenon, <2>2, TokenFields
  <2>4. /\ revokedAt' \in [1..MaxJti -> Nat] /\ revokedAt'[old.jti] >= old.exp
        /\ \A i \in 1..MaxJti : revokedAt[i] <= revokedAt'[i]
    BY Zenon, <1>3, <2>1, <2>3, MarkerGrows
  <2>5. Fresh \in Nat /\ Fresh >= 1
    BY Zenon, FreshFacts
  <2>6. Fresh \in 1..MaxJti /\ Fresh + 1 \in 1..MaxJti
    BY <1>0, <1>1, <2>5
  <2>7. old.exp = old.sexp /\ old.sexp <= now + RefreshLife /\ (old.perm => old.ver = 1)
    BY Zenon, <2>2 DEF AuthInv, TokenOK
  <2>8. NextExpiry(c) = old.sexp
    BY SMT, SMTT(20), <1>0, <2>2, <2>3 DEF NextExpiry, Min2
  <2>9. Min2(x.at + AccessLife, old.sexp) \in Nat /\ Min2(x.at + AccessLife, old.sexp) <= old.sexp
    <3>1. \A m, n \in Nat : Min2(m, n) \in Nat /\ Min2(m, n) <= n
      BY SMT, SMTT(20) DEF Min2
    <3>2. x.at + AccessLife \in Nat
      BY SMT, SMTT(20), <1>0, <2>2
    <3> QED BY Zenon, <2>3, <3>1, <3>2
  <2>10. x.perm \in BOOLEAN
    BY Zenon, <1>0 DEF ClientRow
  <2> HIDE DEF x, old
  <2>11. a \in TokenRow
    BY Zenon, <2>2, <2>6, <2>9, <2>10 DEF TokenRow
  <2>12. /\ a.jti = Fresh /\ a.type = "access" /\ a.from = 0 /\ a.sid = old.sid /\ a.sexp = old.sexp
         /\ a.exp <= a.sexp /\ a.perm = x.perm /\ a.ver = old.ver
    BY Zenon, <2>2, <2>9 DEF TokenRow
  <2>13. b \in TokenRow
    BY Zenon, <2>2, <2>3, <2>6, <2>8 DEF TokenRow
  <2>14. /\ b.jti = Fresh + 1 /\ b.type = "refresh" /\ b.from = old.jti /\ b.sid = old.sid
         /\ b.sexp = old.sexp /\ b.exp = old.sexp /\ b.perm = old.perm /\ b.ver = old.ver
    BY Zenon, <2>2, <2>8 DEF TokenRow
  <2> HIDE DEF a, b
  <2>15. \A t \in tokens : t.sid = old.sid => t.sexp = old.sexp
    BY Zenon, <2>2 DEF AuthInv, Distinct
  <2>16. /\ client' \in [Clients -> ClientRow]
         /\ \A d \in Clients : client'[d] = client[d] \/ client'[d] = NoClient
    BY Zenon, <1>0, <1>1, IdleRows DEF Answered
  <2>17. revokedAt'[b.from] >= b.exp /\ \E u \in tokens : u.jti = b.from /\ u.type = "refresh"
    BY Zenon, <2>2, <2>4, <2>7, <2>14
  <2> QED BY ZenonT(30), <1>1, <2>1, <2>2, <2>4, <2>7, <2>11, <2>12, <2>13, <2>14, <2>15, <2>16, <2>17,
             IssuesPair
<1> QED BY Zenon, <1>2, <1>3

\* The inductive invariant holds in every reachable state.
LEMMA AuthInvariant == AuthSpec => []AuthInv
<1>1. AuthInit => AuthInv
  <2> SUFFICES ASSUME AuthInit PROVE AuthInv
    OBVIOUS
  <2>1. AuthTyped
    <3>1. user \in UserRow /\ [step |-> "none", jti |-> 0] \in LogoutRow
      BY SMT, SMTT(20), AuthAssumption DEF AuthInit, UserRow, LogoutRow
    <3> QED BY Zenon, <3>1, IdleRows DEF AuthInit, AuthTyped
  <2>2. Distinct /\ UserOK
    BY ZenonT(30) DEF AuthInit, Distinct, UserOK
  <2>3. /\ \A t \in tokens : TokenOK(t)
        /\ \A c \in Clients : ClientOK(client[c])
        /\ \A k \in Checks : CheckOK(check[k])
    BY Zenon, IdleRows DEF AuthInit, ClientOK, CheckOK
  <2>4. \A s \in Sessions : LogoutOK(s)
    BY Zenon DEF AuthInit, LogoutOK
  <2> QED BY Zenon, <2>1, <2>2, <2>3, <2>4 DEF AuthInv
<1>2. AuthInv /\ [AuthNext]_authVars => AuthInv'
  <2> SUFFICES ASSUME AuthInv, [AuthNext]_authVars PROVE AuthInv'
    BY Zenon
  <2>1. CASE UNCHANGED authVars
    <3>1. UNCHANGED <<now, tokens, user, revokedAt, familyEnd, client, check, logout>>
      BY Zenon, <2>1 DEF authVars
    <3>2. AuthTyped' /\ Distinct' /\ UserOK'
      BY Zenon, <3>1 DEF AuthInv, AuthTyped, Distinct, UserOK
    <3>3. /\ \A t \in tokens' : TokenOK(t)'
          /\ \A c \in Clients : ClientOK(client[c])'
      BY Zenon, <3>1 DEF AuthInv, TokenOK, ClientOK
    <3>4. \A k \in Checks : CheckOK(check[k])'
      BY Zenon, <3>1 DEF AuthInv, CheckOK, Expired
    <3>5. \A s \in Sessions : LogoutOK(s)'
      BY Zenon, <3>1 DEF AuthInv, LogoutOK
    <3> QED BY Zenon, <3>2, <3>3, <3>4, <3>5 DEF AuthInv
  <2>2. CASE AuthNext
    <3>1. CASE Tick \/ GroupDeleted
      BY Zenon, <3>1, TickStep, GroupDeletedStep
    <3>2. CASE \E s \in Sessions : Login(s)
      BY Zenon, <3>2, LoginStep
    <3>3. CASE \E t \in tokens : LogoutFamily(t) \/ LogoutToken(t)
      BY Zenon, <3>3, LogoutFamilyStep, LogoutTokenStep
    <3>4. CASE \E c \in Clients : \/ \E t \in tokens : RefreshStart(c, t)
                                 \/ RefreshFamily(c) \/ RefreshUser(c) \/ RefreshRotate(c) \/ RefreshLost(c)
      BY Zenon, <3>4, RefreshSteps, RotateStep
    <3>5. CASE \E k \in Checks : \/ \E t \in tokens : CheckStart(k, t)
                                \/ CheckFamily(k) \/ CheckSession(k) \/ CheckEnds(k)
      BY Zenon, <3>5, CheckSteps
    <3> QED BY Zenon, <2>2, <3>1, <3>2, <3>3, <3>4, <3>5 DEF AuthNext
  <2> QED BY ZenonT(30), <2>1, <2>2
<1> QED BY <1>1, <1>2, PTL DEF AuthSpec

\* Revocation is final for what starts after it, for any number of clients,
\* requests and sessions (logout, delete_group, get_auth_context).
THEOREM RevocationFinal == AuthSpec => []RevokedFinal
<1>1. AuthInv => RevokedFinal
  BY Zenon DEF AuthInv, CheckOK, RevokedFinal
<1> QED BY <1>1, AuthInvariant, PTL

\* Rotation never lengthens a session (login, refresh).
THEOREM DeadlinesKept == AuthSpec => []SessionDeadline
<1>1. AuthInv => SessionDeadline
  BY Zenon DEF AuthInv, TokenOK, Distinct, SessionDeadline
<1> QED BY <1>1, AuthInvariant, PTL

\* What a step adds to the tokens: nothing that replaces a refresh token, or
\* one replacement of a token whose earlier replacements are over.
LEMMA Replaces ==
  ASSUME AuthInv, AuthNext
  PROVE  \/ \A t \in tokens' \ tokens : t.from = 0
         \/ \E b : /\ \A t \in tokens' \ tokens : t.from = 0 \/ t = b
                   /\ \A t \in tokens : t.from = b.from /\ b.from # 0 => Expired(t)
                   /\ now' = now
<1>1. CASE \E s \in Sessions : Login(s)
  <2>1. PICK s \in Sessions : Login(s)
    BY Zenon, <1>1
  <2> DEFINE base == [None EXCEPT !.sid = s, !.sexp = now + RefreshLife, !.ver = user.version]
             a == [base EXCEPT !.jti = Fresh, !.type = "access",
                               !.exp = Min2(now + AccessLife, now + RefreshLife), !.perm = user.group]
             b == [base EXCEPT !.jti = Fresh + 1, !.type = "refresh", !.exp = now + RefreshLife]
  <2>2. tokens' = tokens \cup {a, b}
    BY Zenon, <2>1 DEF Login
  <2>3. a.from = 0 /\ b.from = 0
    BY Zenon DEF None
  <2> HIDE DEF a, b
  <2> QED BY Zenon, <2>2, <2>3
<1>2. CASE \E c \in Clients : RefreshRotate(c)
  <2>1. PICK c \in Clients : RefreshRotate(c)
    BY <1>2
  <2>2. CASE tokens' = tokens
    BY Zenon, <2>2
  <2>3. CASE tokens' # tokens
    <3> DEFINE x == client[c]
               old == x.tok
               a == [old EXCEPT !.jti = Fresh, !.type = "access", !.from = 0,
                                !.exp = Min2(x.at + AccessLife, old.sexp), !.perm = x.perm]
               b == [old EXCEPT !.jti = Fresh + 1, !.exp = NextExpiry(c), !.from = old.jti]
    <3>1. RevokeOnce(old.jti) /\ tokens' = tokens \cup {a, b} /\ now' = now
      BY Zenon, <2>1, <2>3 DEF RefreshRotate
    <3>2. old \in TokenRow /\ revokedAt \in [1..MaxJti -> Nat] /\ now \in Nat
      BY Zenon, <2>1 DEF RefreshRotate, AuthInv, AuthTyped, ClientOK
    <3>3. a.from = 0 /\ b.from = old.jti
      BY Zenon, <3>2 DEF TokenRow
    <3>4. revokedAt[old.jti] <= now /\ revokedAt[old.jti] \in Nat
      BY SMT, SMTT(20), <3>1, <3>2, TokenFields DEF RevokeOnce, IsRevoked
    <3>5. ASSUME NEW t \in tokens, t.from = old.jti, old.jti # 0 PROVE Expired(t)
      <4>1. revokedAt[old.jti] >= t.exp
        BY Zenon, <3>5 DEF AuthInv, TokenOK
      <4>2. t.exp \in Nat
        BY Zenon, TokenFields DEF AuthInv, AuthTyped
      <4> QED BY SMT, SMTT(20), <3>2, <3>4, <4>1, <4>2 DEF Expired
    <3> HIDE DEF a, b
    <3> QED BY Zenon, <3>1, <3>3, <3>5
  <2> QED BY Zenon, <2>2, <2>3
<1>3. CASE tokens' = tokens
  BY Zenon, <1>3
<1> QED
  BY Zenon, <1>1, <1>2, <1>3 DEF AuthNext, Tick, GroupDeleted, LogoutFamily, LogoutToken, RefreshStart,
     RefreshFamily, RefreshUser, RefreshLost, CheckStart, CheckFamily, CheckSession, CheckEnds

\* A refresh token has at most one live successor, however many requests race
\* for it and however long they stall (refresh, revoke_once).
THEOREM OneSuccessor == AuthSpec => []RotatedOnce
<1>1. AuthInit => RotatedOnce
  BY Zenon DEF AuthInit, RotatedOnce
<1>2. AuthInv /\ AuthInv' /\ RotatedOnce /\ [AuthNext]_authVars => RotatedOnce'
  <2> SUFFICES ASSUME AuthInv, AuthInv', RotatedOnce, [AuthNext]_authVars,
                      NEW t \in tokens', NEW u \in tokens', t.from # 0, t.from = u.from,
                      ~Expired(t)', ~Expired(u)'
               PROVE  t = u
    BY Zenon DEF RotatedOnce
  <2>1. now <= now' /\ now \in Nat /\ now' \in Nat
    <3>1. now' = now \/ now' = now + 1
      BY Zenon DEF AuthNext, authVars, Tick, GroupDeleted, Login, LogoutFamily, LogoutToken,
         RefreshStart, RefreshFamily, RefreshUser, RefreshRotate, RefreshLost,
         CheckStart, CheckFamily, CheckSession, CheckEnds
    <3>2. now \in Nat
      BY Zenon DEF AuthInv, AuthTyped
    <3> QED BY SMT, SMTT(20), <3>1, <3>2
  <2>2. t.exp \in Nat /\ u.exp \in Nat
    BY Zenon, TokenFields DEF AuthInv, AuthTyped
  <2>3. ~Expired(t) /\ ~Expired(u)
    BY SMT, SMTT(20), <2>1, <2>2 DEF Expired
  <2>4. CASE t \in tokens /\ u \in tokens
    BY Zenon, <2>3, <2>4 DEF RotatedOnce
  <2>5. CASE ~(t \in tokens /\ u \in tokens)
    <3>1. AuthNext
      BY Zenon, <2>5 DEF authVars
    <3>2. PICK b : /\ \A v \in tokens' \ tokens : v.from = 0 \/ v = b
                   /\ \A v \in tokens : v.from = b.from /\ b.from # 0 => Expired(v)
      BY Zenon, <2>5, <3>1, Replaces
    <3> QED BY Zenon, <2>3, <2>5, <3>2
  <2> QED BY Zenon, <2>4, <2>5
<1> QED BY <1>1, <1>2, AuthInvariant, PTL DEF AuthSpec
=============================================================================
