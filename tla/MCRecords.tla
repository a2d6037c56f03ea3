------------------------------ MODULE MCRecords ------------------------------
(***************************************************************************)
(* Documents, their text and vectors, reranking, accounts, audit records   *)
(* and evaluation gates, for TLC: each part in behaviours of its own, the  *)
(* others at rest.  The actors of a part are interchangeable.              *)
(***************************************************************************)
EXTENDS FolderSync, DocumentVersions, DocumentReview, DocumentText, VectorIndex, Reranking,
        AuthSessions, KeyCache, Provisioning, AuditExplorer, DomainEvaluation, TLC
CONSTANTS actor1, actor2

VARIABLE focus      \* the part that moves in this behaviour

AnyActor == Permutations({actor1, actor2})

-----------------------------------------------------------------------------
MCVersionsOf == <<{1, 2}, {1}>>

\* Files: Markdown and Word of up to three lines and a closing paragraph, PDF
\* of three pages, plain text of up to 24 tokens.
Line(kind, level, v) == [kind |-> kind, level |-> level, v |-> v]
Numbered(s) == [i \in DOMAIN s |-> Line(s[i][1], s[i][2], i)]
Heads == {<<"head", 1>>, <<"head", 2>>, <<"head", 3>>}
UpTo(S, n) == UNION {[1..k -> S] : k \in 1..n}
Mixed(S) == UpTo(S, 2) \cup {s \o <<<<"text", 1>>>> : s \in [1..3 -> S]}
Pages == {<<>>, <<1>>, <<3>>, <<1, 3>>, <<1, 2, 4>>, <<2, 1, 1>>}
MCFiles ==
    {[type |-> "markdown", items |-> Numbered(s)] : s \in Mixed(Heads \cup {<<"text", 1>>, <<"fence", 1>>})}
    \cup {[type |-> "docx", items |-> Numbered(s)] : s \in Mixed(Heads \cup {<<"text", 1>>, <<"title", 1>>})}
    \cup {[type |-> "pdf", items |-> s] : s \in [1..3 -> Pages]}
    \cup {[type |-> "txt", items |-> [i \in 1..n |-> Line("text", 1, i)]] : n \in 1..24}
Fixed(min, max, tenths) == [chunker |-> "fixed", min |-> min, max |-> max, tenths |-> tenths]
MCConfigs == {Fixed(2, 3, 1), Fixed(7, 10, 2), Fixed(3, 4, 2),
              [chunker |-> "semantic", min |-> 2, max |-> 3, tenths |-> 1]}

-----------------------------------------------------------------------------
\* Access lists as uploads write them and as searches read them, the answers
\* of an embedding provider, and three searches.
MCDocOf == <<1, 1, 2>>
List(names) == [names |-> names, bare |-> FALSE]
Bare(name) == [names |-> {name}, bare |-> TRUE]
MCAcls == {[vis |-> "tenant"],
           [vis |-> "private", roles |-> List({"r"})],
           [vis |-> "tenant", allowed_roles |-> List({"r"}), denied_users |-> List({"u"})],
           [vis |-> "private", allowed_users |-> Bare("u")]}
Vector(i, v) == [index |-> i, vec |-> v, dim |-> 1]
MCAnswers == {<<Vector(2, 2), Vector(1, 1)>>, <<Vector(0, 1), Vector(0, 2)>>, <<Vector(1, 1), Vector(1, 1)>>,
              <<Vector(1, 1)>>, <<[Vector(1, 1) EXCEPT !.dim = 2]>>}
Asker(name, roles) == [user |-> name, roles |-> roles, departments |-> {}, permissions |-> {}]
Query(who, k, v, ranks) ==
    [who |-> who, top_k |-> k, floor |-> 1, version |-> v, include_deleted |-> FALSE, near |-> ranks]
MCQueries == {Query(Asker("u", {}), 1, 0, <<1, 2, 2>>), Query(Asker("v", {"r"}), 2, 1, <<1, 2, 2>>),
              Query(Asker("u", {}), 2, 0, <<2, 0, 1>>)}

-----------------------------------------------------------------------------
\* Audit summaries: a hidden key at the top and one inside a list.
Leaf(ok) == [kind |-> "leaf", ok |-> ok]
Field(k, v) == [key |-> k, val |-> v]
MCSummaries ==
    {{Field("shown", Leaf(TRUE)), Field("hidden", Leaf(TRUE))},
     {Field("shown", [kind |-> "list",
                      sub |-> {Leaf(FALSE), [kind |-> "map", sub |-> {Field("shown", Leaf(FALSE)),
                                                                     Field("hidden", Leaf(TRUE))}]}])}}

\* One case to answer and one to decline; a good, a partial and an empty
\* capture; a live policy without thresholds and an offline one with them.
MCCases == <<[noAnswer |-> FALSE, expected |-> {1, 2}, groups |-> 2],
             [noAnswer |-> TRUE, expected |-> {}, groups |-> 0]>>
Captured(packed, cited, terms, none) ==
    [kind |-> "capture", packed |-> packed, cited |-> cited, terms |-> terms, noAnswer |-> none,
     unsupported |-> FALSE, prompted |-> packed # {}, drifted |-> FALSE]
MCCaptures == {Captured({1, 2}, {1, 2}, 2, FALSE), Captured({1}, {1, 2}, 1, FALSE), Captured({}, {}, 0, TRUE)}
Each(n) == [m \in {"no_answer", "citations", "terms"} |-> n]
MCPolicies == <<[mode |-> "live", minimum |-> Each(0), drop |-> Each(0)],
                [mode |-> "offline", minimum |-> Each(1), drop |-> Each(1)]>>

-----------------------------------------------------------------------------
Init ==
    /\ focus \in {"folder", "versions", "review", "text", "index", "rerank", "sessions",
                  "keys", "users", "audit", "domain"}
    /\ SyncInit /\ VersionsInit /\ ReviewPageInit /\ TextInit /\ IndexInit
    /\ RerankInit /\ AuthInit /\ KeyInit /\ ProvisionInit /\ ExplorerInit /\ DomainInit

Next ==
    /\ UNCHANGED focus
    /\ IF focus = "folder" THEN SyncNext ELSE UNCHANGED syncVars
    /\ IF focus = "versions" THEN VersionsNext ELSE UNCHANGED versionVars
    /\ IF focus = "review" THEN ReviewPageNext ELSE UNCHANGED reviewPageVars
    /\ IF focus = "text" THEN TextNext ELSE UNCHANGED textVars
    /\ IF focus = "index" THEN IndexNext ELSE UNCHANGED indexVars
    /\ IF focus = "rerank" THEN RerankNext ELSE UNCHANGED rerankVars
    /\ IF focus = "sessions" THEN AuthNext ELSE UNCHANGED authVars
    /\ IF focus = "keys" THEN KeyNext ELSE UNCHANGED keyVars
    /\ IF focus = "users" THEN ProvisionNext ELSE UNCHANGED provisionVars
    /\ IF focus = "audit" THEN ExplorerNext ELSE UNCHANGED explorerVars
    /\ IF focus = "domain" THEN DomainNext ELSE UNCHANGED domainVars

vars == <<syncVars, versionVars, reviewPageVars, textVars, indexVars, rerankVars,
          authVars, keyVars, provisionVars, explorerVars, domainVars, focus>>

Spec == Init /\ [][Next]_vars
==============================================================================
