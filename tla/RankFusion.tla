----------------------------- MODULE RankFusion -----------------------------
(***************************************************************************)
(* What a retrieval does to the order of its candidates: reciprocal rank   *)
(* fusion of the two branches, the reranker between its guard and its      *)
(* validation, and the last filter of RetrievalService.  The branches      *)
(* return any lists, also with chunks that are out of scope, and the       *)
(* reranker answers anything.  Scores are exact: a score s stands for the  *)
(* fraction s / Whole.                                                     *)
(***************************************************************************)
EXTENDS Naturals, Sequences, FiniteSets, SequencesExt

CONSTANTS Ids,           \* chunk ids, compared as the code compares them
          Branches,      \* bound: the lists a branch may return
          RankConstant,  \* HybridMergeConfig.rank_constant
          Weights,       \* dense_weight and sparse_weight
          TopKs,         \* bound: top_k of the request and of the route
          MaxRanked      \* RerankConfig.max_candidates

Longest == 3             \* bound: the length of a branch's list
ASSUME FusionAssumption ==
  /\ Ids \subseteq Nat /\ <<>> \in Branches
  /\ \A b \in Branches : Len(b) <= Longest
  /\ Weights[1] \in Nat \ {0} /\ Weights[2] \in Nat \ {0}

VARIABLES step,     \* "asked", "search", "fused", "ranked", "served" or "refused"
          scope,    \* what is wrong with each chunk: "ok", "tenant" or "filtered"
          dense, sparse,
          topK, limit,   \* of the request and of the route
          floor,         \* score threshold, in halves
          out            \* the candidates so far

fusionVars == <<step, scope, dense, sparse, topK, limit, floor, out>>

(* One contribution is weight / (rank_constant + rank); Scale makes it whole. *)
Scale == (RankConstant + 1) * (RankConstant + 2) * (RankConstant + 3)
Contribution(w, rank) == IF rank = 0 THEN 0 ELSE w * (Scale \div (RankConstant + rank))
Whole == (Weights[1] + Weights[2]) * (Scale \div (RankConstant + 1))

\* A fused result is a known chunk with a score between nothing and the score
\* of first place in both branches.
FusionTypeOK ==
  /\ step \in {"asked", "search", "fused", "ranked", "served", "refused"}
  /\ scope \in [Ids -> {"ok", "tenant", "filtered"}]
  /\ {dense, sparse} \subseteq Branches
  /\ \A n \in DOMAIN out : out[n].id \in Ids /\ out[n].score \in 0..Whole

FusionInit ==
  /\ step = "asked"
  /\ scope = [i \in Ids |-> "ok"]
  /\ dense = <<>> /\ sparse = <<>> /\ out = <<>>
  /\ topK = 1 /\ limit = 1 /\ floor = 0

(* Both branches have answered.                                             *)
Search ==
  /\ step = "asked" /\ step' = "search"
  /\ \E x \in Ids, s \in {"ok", "tenant", "filtered"} : scope' = [scope EXCEPT ![x] = s]
  /\ dense' \in Branches /\ sparse' \in Branches
  /\ topK' \in TopKs /\ limit' \in TopKs
  /\ floor' \in {0, 1}
  /\ UNCHANGED out

Cut(s, n) == SubSeq(s, 1, IF Len(s) < n THEN Len(s) ELSE n)
IdsOf(s) == {s[n].id : n \in DOMAIN s}
AboveFloor(score) == 2 * score >= floor * Whole

-----------------------------------------------------------------------------
(* RRFMerger.merge.  The rank of a chunk in a branch is its first place in  *)
(* the list, out-of-scope chunks counted.                                   *)
Rank(list, x) == LET at == {n \in DOMAIN list : list[n] = x}
                 IN IF at = {} THEN 0 ELSE Min(at)
CandidateInScope(x) == scope[x] = "ok"
RawScore(d, s, x) ==
  Contribution(Weights[1], Rank(d, x)) + Contribution(Weights[2], Rank(s, x))

(* _sort_key: score, number of sources, best rank, identity.                *)
SourceCount(d, s, x) == Cardinality({b \in {1, 2} : Rank(<<d, s>>[b], x) > 0})
BestRank(d, s, x) == Min({Rank(d, x), Rank(s, x)} \ {0})
Precedes(d, s, x, y) ==
  LET kx == <<Whole * 9 - RawScore(d, s, x), 2 - SourceCount(d, s, x), BestRank(d, s, x), x>>
      ky == <<Whole * 9 - RawScore(d, s, y), 2 - SourceCount(d, s, y), BestRank(d, s, y), y>>
  IN \E n \in 1..4 : kx[n] < ky[n] /\ \A m \in 1..(n - 1) : kx[m] = ky[m]

CountsFiltered(d, s, k) ==                                                    \* seeded fault
  LET ordered == SetToSortSeq(ToSet(d) \cup ToSet(s), LAMBDA x, y : Precedes(d, s, x, y))
      kept == SelectSeq(Cut(ordered, k),
                        LAMBDA x : CandidateInScope(x) /\ AboveFloor(RawScore(d, s, x)))
  IN [n \in DOMAIN kept |-> [id |-> kept[n], score |-> RawScore(d, s, kept[n])]]
Fused(d, s, k) ==
  LET kept == {x \in ToSet(d) \cup ToSet(s) : CandidateInScope(x) /\ AboveFloor(RawScore(d, s, x))}
      ordered == Cut(SetToSortSeq(kept, LAMBDA x, y : Precedes(d, s, x, y)), k)
  IN [n \in DOMAIN ordered |-> [id |-> ordered[n], score |-> RawScore(d, s, ordered[n])]]

Fuse ==
  /\ step = "search"
  /\ out' = Fused(dense, sparse, limit)
  /\ step' = "fused"
  /\ UNCHANGED <<scope, dense, sparse, topK, limit, floor>>

(* The factual path: the dense branch alone, which already applied the      *)
(* threshold and the limit; a store lists a chunk once.                     *)
DenseOnly ==
  /\ step = "search" /\ IsInjective(dense)
  /\ out' = Cut([n \in DOMAIN dense |-> [id |-> dense[n], score |-> Whole]], limit)
  /\ step' = "ranked"
  /\ UNCHANGED <<scope, dense, sparse, topK, limit, floor>>

-----------------------------------------------------------------------------
(* RerankingRetriever.  _validated_candidates accepts a permutation of what *)
(* it was given, every score between 0 and 1; anything else, an error or a  *)
(* timeout of the reranker is the fallback to the order that was given.     *)
IsReordering(given, answer) ==
  /\ Len(answer) = Len(given)
  /\ ToSet(answer) = IdsOf(given)
Reranked(given, answer, score) ==
  IF score <= Whole /\ IsReordering(given, answer)
  THEN [n \in DOMAIN answer |-> [id |-> answer[n], score |-> score]]
  ELSE given
Rerank(answer, score) ==
  /\ step = "fused"
  /\ out' = Cut(Reranked(Cut(out, MaxRanked), answer, score), limit)
  /\ step' = "ranked"
  /\ UNCHANGED <<scope, dense, sparse, topK, limit, floor>>

(* The comparison path has no reranker.                                     *)
NoRerank ==
  /\ step = "fused"
  /\ step' = "ranked"
  /\ UNCHANGED <<scope, dense, sparse, topK, limit, floor, out>>

(* RetrievalService._safe_candidates: another tenant's chunk is an error,   *)
(* if it is met before the limit; the rest is filtered, and the request's   *)
(* own threshold and limit are applied.                                     *)
Kept(c) == CandidateInScope(c.id) /\ AboveFloor(c.score)
SafeCandidates(s) == SelectSeq(s, Kept)
Serve ==
  /\ step = "ranked"
  /\ LET foreign == {n \in DOMAIN out : scope[out[n].id] = "tenant"}
         kept == SafeCandidates(out)
         met == {n \in foreign : Len(SafeCandidates(SubSeq(out, 1, n))) < topK}
     IN IF met # {} THEN step' = "refused" /\ out' = <<>>
        ELSE step' = "served" /\ out' = Cut(kept, topK)
  /\ UNCHANGED <<scope, dense, sparse, topK, limit, floor>>

FusionNext ==
  \/ Search \/ Fuse \/ DenseOnly \/ NoRerank \/ Serve
  \/ step = "fused" /\ \E answer \in Branches, score \in {0, Whole, Whole + 1} : Rerank(answer, score)

-----------------------------------------------------------------------------
(* The cut to top_k is a cut by rank: what fusion leaves out although it is *)
(* in scope and above the threshold scores no more than anything it keeps,  *)
(* and what it keeps is in descending order without repetition.             *)
KeepsTheBest ==
  step = "fused" =>
    /\ \A m, n \in DOMAIN out : m < n => out[m].score >= out[n].score /\ out[m].id # out[n].id
    /\ \A x \in (ToSet(dense) \cup ToSet(sparse)) \ IdsOf(out) :
         (CandidateInScope(x) /\ AboveFloor(RawScore(dense, sparse, x))) =>
           /\ Len(out) = limit
           /\ \A n \in DOMAIN out : out[n].score >= RawScore(dense, sparse, x)

(* Agreement is never punished: a chunk both branches found stands before   *)
(* one that only one branch found no earlier, repeated hits or not.         *)
OverlapWins ==
  step = "fused" =>
    \A m, n \in DOMAIN out :
      LET x == out[m].id
          y == out[n].id
      IN (/\ SourceCount(dense, sparse, x) = 2 /\ SourceCount(dense, sparse, y) = 1
          /\ \A b \in {dense, sparse} : Rank(b, y) > 0 => Rank(b, x) < Rank(b, y)) => m < n

(* With equal weights the order does not depend on which branch is dense:   *)
(* no tie is broken by the branch a chunk came from.                        *)
BranchOrderFree ==
  Weights[1] = Weights[2] => Fused(dense, sparse, limit) = Fused(sparse, dense, limit)

(* Whatever the reranker answers, it can only reorder: the candidates after *)
(* it are the first max_candidates fused ones, none lost and none added.    *)
RerankOnlyReorders ==
  [][(step = "fused" /\ step' = "ranked") =>
       (Len(out) <= MaxRanked => IdsOf(out') = IdsOf(out) /\ Len(out') = Len(out))]_fusionVars

(* What is served is in scope, above the request's threshold and within its *)
(* top_k, although the branches, the route and the reranker used others.    *)
ServedInScope ==
  step = "served" =>
    /\ Len(out) <= topK
    /\ \A n \in DOMAIN out : CandidateInScope(out[n].id) /\ AboveFloor(out[n].score)
=============================================================================
