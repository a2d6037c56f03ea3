--------------------------- MODULE ContextPacking ---------------------------
(***************************************************************************)
(* From the hydrated candidates of one question to the citations of its    *)
(* answer: ContextPacker selects and merges chunks under a token budget,   *)
(* MemoryService packs the history beside them, PromptBuilder accepts or   *)
(* refuses the result, CitationExtractor binds the answer to its sources.  *)
(* A chunk is a number, its score is the higher the smaller the number.    *)
(***************************************************************************)
EXTENDS Naturals, Sequences, FiniteSets, SequencesExt

CONSTANTS Pieces,        \* chunk ids
          Questions,     \* bound: sorted candidates, duplicates allowed, and the sizes
                         \* of the session's messages, oldest first
          DocumentOf, PlaceOf, ParentOf,  \* lineage, chunk_index, parent_chunk_id (0: none)
          Known,         \* keys of related_chunks_by_id
          Budgets,       \* bound: ContextPackingConfig.max_tokens
          MaxRelated,    \* max_related_chunks_per_candidate
          MaxItems, MaxItemSize,          \* of PromptBuilderConfig
          MaxCitations,  \* of CitationExtractionConfig
          MaxMessages, MaxHistory         \* of the memory configuration

ASSUME PackAssumption ==
  /\ Pieces \subseteq Nat \ {0} /\ Known \subseteq Pieces
  /\ \A q \in Questions : \A m, n \in DOMAIN q.given : m < n => q.given[m] <= q.given[n]
  /\ MaxRelated \in Nat \ {0}

Flaws == {"none", "denied", "invalid", "mislinked"}

VARIABLES phase,     \* "asked", "packing", "packed", "prompted", then the answer or an error
          settings,  \* budget, merge_adjacent, related context, oversized_policy
          size,      \* token_count of each chunk
          flaw,      \* what is wrong with a chunk
          given, at, \* the candidates in order of score, the next to look at
          near,      \* related requests of the last primary still to look at
          selected, dropped, looked,
          items,     \* the packed items, each a sequence of chunks
          cited,     \* citations of the answer
          past, recalled

packInputs == <<settings, size, flaw, given, past>>
packVars == <<packInputs, phase, at, near, selected, dropped, looked, items, cited, recalled>>

TokensOf(chunks) == FoldLeft(LAMBDA sum, c : sum + size[c], 0, chunks)

\* Whatever is packed was selected, and an item holds selected chunks only.
PackTypeOK ==
  /\ phase \in {"asked", "packing", "packed", "prompted", "answered", "unsupported", "no_answer",
               "denied", "oversized", "refused"}
  /\ size \in [Pieces -> 1..3] /\ flaw \in [Pieces -> Flaws]
  /\ \A n \in DOMAIN selected : selected[n] \in Pieces
  /\ dropped \in 0..9 /\ looked \in 0..9
  /\ UNION {ToSet(items[n]) : n \in DOMAIN items} \subseteq ToSet(selected)

PackInit ==
  /\ phase = "asked" /\ at = 1 /\ looked = 0 /\ dropped = 0
  /\ settings = [budget |-> 0, merge |-> FALSE, rel |-> "none", policy |-> "drop"]
  /\ size = [c \in Pieces |-> 1] /\ flaw = [c \in Pieces |-> "none"]
  /\ given = <<>> /\ near = <<>> /\ selected = <<>> /\ items = <<>> /\ cited = <<>>
  /\ past = <<>> /\ recalled = <<>>

(* pack is called: the candidates sorted by score, the configuration, and   *)
(* what one of the chunks is like.                                          *)
Pack ==
  /\ phase = "asked" /\ phase' = "packing"
  /\ \E b \in Budgets, merge \in BOOLEAN, rel \in {"none", "family", "neighbors"},
        policy \in {"drop", "fail_closed"} :
       settings' = [budget |-> b, merge |-> merge, rel |-> rel, policy |-> policy]
  /\ \E q \in Questions : given' = q.given /\ past' = q.past /\ looked' = Len(q.given)
  /\ \E x \in Pieces, f \in Flaws : flaw' = [flaw EXCEPT ![x] = f]
  /\ \E x \in Pieces, n \in 1..3 : size' = [size EXCEPT ![x] = n]
  /\ UNCHANGED <<at, near, selected, dropped, items, cited, recalled>>

-----------------------------------------------------------------------------
(* _related_chunk_requests: parent, children, previous and next neighbour.  *)
At(doc, place) == {c \in Pieces : DocumentOf[c] = doc /\ PlaceOf[c] = place}
Neighbors(c) ==
  SetToSortSeq(At(DocumentOf[c], PlaceOf[c] - 1), <) \o SetToSortSeq(At(DocumentOf[c], PlaceOf[c] + 1), <)
Family(c) ==
  (IF ParentOf[c] = 0 THEN <<>> ELSE <<ParentOf[c]>>)
    \o SetToSortSeq({k \in Pieces : ParentOf[k] = c}, <)
RelatedChunkRequests(c) ==
  LET all == CASE settings.rel = "none" -> <<>>
               [] settings.rel = "family" -> Family(c)
               [] settings.rel = "neighbors" -> Neighbors(c)
  IN SubSeq(all, 1, IF Len(all) < MaxRelated THEN Len(all) ELSE MaxRelated)

Unauthorized(c) == flaw[c] = "denied"
InvalidReason(c) == flaw[c] = "invalid"
(* _invalid_related_reason: the related chunk's own links or lineage say    *)
(* otherwise.                                                               *)
InvalidRelatedReason(c) == flaw[c] = "mislinked"

BudgetExceeded(c) == TokensOf(selected) + size[c] > settings.budget
TakesNoWhole(c) == size[c] >= settings.budget                                 \* seeded fault
Oversized(c) == size[c] > settings.budget
(* What becomes of a chunk that passed its checks: "duplicate", "oversized" *)
(* and "budget_exceeded" are dropped, fail_closed makes the second raise.   *)
FitsContext(c) == c \notin ToSet(selected) /\ ~Oversized(c) /\ ~BudgetExceeded(c)
FailsClosed(c) == c \notin ToSet(selected) /\ Oversized(c) /\ settings.policy = "fail_closed"

Drop == dropped' = dropped + 1 /\ UNCHANGED selected
Select(c) == selected' = Append(selected, c) /\ UNCHANGED dropped
RaisePacking(p) == phase' = p /\ UNCHANGED <<selected, dropped>>

AuthorizeOrRaise(c) == RaisePacking("denied")

(* One candidate of the sorted list.                                        *)
PackCandidate ==
  /\ phase = "packing" /\ near = <<>> /\ at <= Len(given)
  /\ LET c == given[at]
     IN /\ at' = at + 1
        /\ \/ InvalidReason(c) /\ Drop /\ UNCHANGED <<phase, near, looked>>
           \/ /\ ~InvalidReason(c) /\ Unauthorized(c)
              /\ AuthorizeOrRaise(c) /\ UNCHANGED <<near, looked>>
           \/ /\ ~InvalidReason(c) /\ ~Unauthorized(c) /\ FailsClosed(c)
              /\ RaisePacking("oversized") /\ UNCHANGED <<near, looked>>
           \/ /\ ~InvalidReason(c) /\ ~Unauthorized(c) /\ ~FailsClosed(c) /\ ~FitsContext(c)
              /\ Drop /\ UNCHANGED <<phase, near, looked>>
           \/ /\ ~InvalidReason(c) /\ ~Unauthorized(c) /\ FitsContext(c)
              /\ Select(c)
              /\ near' = RelatedChunkRequests(c)
              /\ looked' = looked + Len(near')
              /\ UNCHANGED phase
  /\ UNCHANGED <<packInputs, items, cited, recalled>>

(* One related request of the primary just selected.                        *)
PackRelated ==
  /\ phase = "packing" /\ near # <<>>
  /\ LET c == Head(near)
     IN /\ near' = Tail(near)
        /\ \/ (c \notin Known \/ InvalidReason(c)) /\ Drop /\ UNCHANGED phase
           \/ /\ c \in Known /\ ~InvalidReason(c) /\ Unauthorized(c)
              /\ AuthorizeOrRaise(c)
           \/ /\ c \in Known /\ ~InvalidReason(c) /\ ~Unauthorized(c)
              /\ ~InvalidRelatedReason(c) /\ FailsClosed(c)
              /\ RaisePacking("oversized")
           \/ /\ c \in Known /\ ~InvalidReason(c) /\ ~Unauthorized(c)
              /\ InvalidRelatedReason(c) \/ (~FailsClosed(c) /\ ~FitsContext(c))
              /\ Drop /\ UNCHANGED phase
           \/ /\ c \in Known /\ ~InvalidReason(c) /\ ~Unauthorized(c)
              /\ ~InvalidRelatedReason(c) /\ FitsContext(c)
              /\ Select(c) /\ UNCHANGED phase
  /\ UNCHANGED <<packInputs, at, looked, items, cited, recalled>>

(* _build_items: the chunks of a merge key in the order of the document,    *)
(* cut where two are not adjacent, the pieces in the order of selection.    *)
AreAdjacent(left, right) ==
  DocumentOf[left] = DocumentOf[right] /\ PlaceOf[right] = PlaceOf[left] + 1
InDocumentOrderOf(chunks) ==
  SetToSortSeq(chunks, LAMBDA a, b : \/ DocumentOf[a] < DocumentOf[b]
                                     \/ DocumentOf[a] = DocumentOf[b] /\ PlaceOf[a] < PlaceOf[b])
AppendGroup(groups, c) ==
  IF groups # <<>> /\ AreAdjacent(Last(Last(groups)), c)
  THEN [groups EXCEPT ![Len(groups)] = Append(@, c)]
  ELSE Append(groups, <<c>>)
OrderOf(group) == Min({n \in DOMAIN selected : selected[n] \in ToSet(group)})
BuildItems ==
  LET groups == FoldLeft(AppendGroup, <<>>, InDocumentOrderOf(ToSet(selected)))
  IN IF settings.merge
     THEN SetToSortSeq(ToSet(groups), LAMBDA g, h : OrderOf(g) < OrderOf(h))
     ELSE [n \in DOMAIN selected |-> <<selected[n]>>]
Packed ==
  /\ phase = "packing" /\ near = <<>> /\ at > Len(given)
  /\ items' = BuildItems
  /\ phase' = "packed"
  /\ UNCHANGED <<packInputs, at, near, selected, dropped, looked, cited, recalled>>

-----------------------------------------------------------------------------
(* MemoryService.pack_history: the last MaxMessages messages from the       *)
(* newest to the oldest, each that still fits; a message that does not fit  *)
(* is skipped, not the end.                                                 *)
Recall(used, n) ==
  IF used.tokens + past[n] > MaxHistory THEN used
  ELSE [tokens |-> used.tokens + past[n], messages |-> <<n>> \o used.messages]
Recent == {n \in DOMAIN past : n + MaxMessages > Len(past)}
PackHistory ==
  FoldLeft(Recall, [tokens |-> 0, messages |-> <<>>],
           SetToSortSeq(Recent, LAMBDA m, n : m > n)).messages

(* PromptBuilder.build: size limits, then every citation source against the *)
(* item it is filed under.                                                  *)
TooLarge == Len(items) > MaxItems \/ \E n \in DOMAIN items : TokensOf(items[n]) > MaxItemSize
InvalidCitationSource(item, c) == DocumentOf[c] # DocumentOf[item[1]]
BuildPrompt ==
  /\ phase = "packed"
  /\ recalled' = PackHistory
  /\ phase' = IF \/ TooLarge
                 \/ \E n \in DOMAIN items : \E k \in DOMAIN items[n] :
                      InvalidCitationSource(items[n], items[n][k])
              THEN "refused" ELSE "prompted"
  /\ UNCHANGED <<packInputs, at, near, selected, dropped, looked, items, cited>>

(* CitationExtractor.extract: all sources by score, none for an answer that *)
(* says it cannot answer or refers to what was not offered.                 *)
Citations(answer) ==
  LET sources == SetToSortSeq(UNION {ToSet(items[n]) : n \in DOMAIN items}, <)
  IN IF answer = "plain"
     THEN SubSeq(sources, 1, IF Len(sources) < MaxCitations THEN Len(sources) ELSE MaxCitations)
     ELSE <<>>
ExtractCitations(answer) ==
  /\ phase = "prompted"
  /\ cited' = Citations(answer)
  /\ phase' = CASE answer = "no_answer" -> "no_answer"
                [] answer = "plain" /\ cited' # <<>> -> "answered"
                [] OTHER -> "unsupported"
  /\ UNCHANGED <<packInputs, at, near, selected, dropped, looked, items, recalled>>

PackNext ==
  \/ Pack \/ PackCandidate \/ PackRelated \/ Packed \/ BuildPrompt
  \/ \E answer \in {"plain", "no_answer", "forged"} : ExtractCitations(answer)

-----------------------------------------------------------------------------
(* The packed chunks fit the budget, no chunk is packed twice, and merging  *)
(* neither loses nor repeats one.                                           *)
TokensInBudget ==
  /\ TokensOf(selected) <= settings.budget
  /\ IsInjective(selected)
  /\ phase = "packed" => TokensOf(FlattenSeq(items)) = TokensOf(selected)

(* packing_trace adds up: every candidate and every related request is      *)
(* either packed or dropped with a reason, exactly once.                    *)
AllAccounted ==
  phase = "packed" => Len(selected) + dropped = looked

(* A chunk the reader may not see never gets in, also not as the neighbour  *)
(* or the parent of one they may see; packing with one among the candidates *)
(* never completes.                                                         *)
NothingDeniedPacked ==
  /\ \A n \in DOMAIN selected : ~Unauthorized(selected[n])
  /\ phase = "packed" => \A n \in DOMAIN given : ~Unauthorized(given[n])

(* Related context never displaces the best: the first candidate that is    *)
(* usable and not larger than the whole budget is always packed.            *)
BestAlwaysIn ==
  phase = "packed" =>
    LET usable == {n \in DOMAIN given : ~InvalidReason(given[n]) /\ size[given[n]] <= settings.budget}
    IN usable # {} => given[Min(usable)] \in ToSet(selected)

(* Two selected chunks stand in one item exactly when everything between    *)
(* them in the document was selected too.                                   *)
RunsMerged ==
  (phase = "packed" /\ settings.merge) =>
    \A a, b \in ToSet(selected) :
      LET places == {PlaceOf[c] : c \in {x \in ToSet(selected) : DocumentOf[x] = DocumentOf[a]}}
      IN (\E n \in DOMAIN items : {a, b} \subseteq ToSet(items[n])) <=>
           /\ DocumentOf[a] = DocumentOf[b]
           /\ (PlaceOf[a]..PlaceOf[b]) \cup (PlaceOf[b]..PlaceOf[a]) \subseteq places

(* What the packer hands over, the prompt builder takes: a prompt is only   *)
(* refused for its size, never because a merged item mixes sources.         *)
RefusedForSizeOnly == phase = "refused" => TooLarge

(* The history in the prompt is in order, within its budget, and complete:  *)
(* a recent message is left out only if it does not fit beside the newer    *)
(* ones that were taken.                                                    *)
HistoryFits ==
  phase = "prompted" =>
    LET sum(ns) == FoldLeft(LAMBDA t, n : t + past[n], 0, ns)
    IN /\ \A i, j \in DOMAIN recalled : i < j => recalled[i] < recalled[j]
       /\ sum(recalled) <= MaxHistory
       /\ \A n \in Recent \ ToSet(recalled) :
            sum(SelectSeq(recalled, LAMBDA m : m > n)) + past[n] > MaxHistory

(* No answer goes out unbound: it cites only chunks that were in its        *)
(* prompt, or it is flagged unsupported, or it is a refusal to answer.      *)
BoundOrFlagged ==
  phase \in {"answered", "unsupported", "no_answer"} =>
    /\ phase = "answered" <=> cited # <<>>
    /\ ToSet(cited) \subseteq ToSet(selected)
=============================================================================
