---------------------------- MODULE DocumentText ----------------------------
(* From an uploaded file to chunks: the parsers of Markdown, Word, PDF and *)
(* text files, DefaultDocumentCleaner, ExactSectionDeduplicator, and the   *)
(* two chunkers, FixedSizeChunker and SemanticChunker.                     *)
(*                                                                         *)
(* A line of text is a number, and stands for one token of the fixed-size  *)
(* chunker and one sentence of the semantic one; two lines with the same   *)
(* number have the same _line_key.  A file is a sequence of lines, each    *)
(* plain, a code fence, a heading of some level or a document title; a PDF *)
(* is a sequence of pages.  Every pass of a loop of the chunkers is a step. *)
EXTENDS Integers, Sequences, FiniteSets, SequencesExt

CONSTANTS
    Files,      \* the files: type, and items or pages
    Prose,      \* lines too long, or ended like a sentence, for a header
    Levels,     \* deepest heading level
    Configs     \* chunker configurations

VARIABLES
    file,       \* the file being ingested
    textStage,      \* what has been done to it
    sections,   \* its sections: title path, lines
    words,     \* its lines in order, once collected
    config,     \* the chunker and its limits
    from,       \* fixed: start; semantic: sentences in the segment so far
    place,         \* semantic: the sentence looked at
    cut      \* chunks made: first and last token

textVars == <<file, textStage, sections, words, config, from, place, cut>>

NoFile == [type |-> "none", items |-> <<>>]
Untitled == <<0>>

TextInit ==
    /\ file = NoFile /\ textStage = "idle" /\ sections = <<>> /\ words = <<>>
    /\ config = [chunker |-> "none"] /\ from = 0 /\ place = 0 /\ cut = <<>>

----------------------------------------------------------------------------
(* Parsers.  A parser's local variables are a record that every line maps   *)
(* to the next one; blank lines change nothing and are left out.           *)

Section(title, lines) == [title |-> title, lines |-> lines]

EmptyParse(root) ==
    [stack |-> [l \in 1 .. Levels |-> 0], path |-> <<root>>, root |-> <<root>>,
     lines |-> <<>>, secs |-> <<>>, fence |-> FALSE]

\* A heading takes its place in the stack and clears the deeper ones.
Headed(stack, level, v) ==
    [l \in DOMAIN stack |-> IF l < level THEN stack[l] ELSE IF l = level THEN v ELSE 0]

Chain(stack, level) == SelectSeq(SubSeq(stack, 1, level), LAMBDA v : v # 0)

\* flush of MarkdownParser: a heading with no text becomes a section whose
\* content is the heading.
FlushMarkdown(st) ==
    [st EXCEPT !.lines = <<>>,
               !.secs = IF st.lines # <<>> THEN Append(@, Section(st.path, st.lines))
                        ELSE IF st.path # Untitled
                        THEN Append(@, Section(st.path, <<Last(st.path)>>)) ELSE @]

MarkdownLine(st, line) ==
    IF line.kind = "fence"
    THEN [st EXCEPT !.fence = ~@, !.lines = Append(@, line.v)]
    ELSE IF line.kind = "head" /\ ~st.fence
    THEN LET f == FlushMarkdown(st)
             s == Headed(f.stack, line.level, line.v)
         IN  [f EXCEPT !.stack = s, !.path = Chain(s, line.level)]
    ELSE [st EXCEPT !.lines = Append(@, line.v)]

ParseMarkdown(items) ==
    FlushMarkdown(FoldLeft(MarkdownLine, EmptyParse(0), items)).secs

\* flush of DocxParser: a heading with no text leaves no section.
FlushDocx(st) ==
    [st EXCEPT !.lines = <<>>,
               !.secs = IF st.lines = <<>> THEN @
                        ELSE Append(@, Section(st.path, st.lines))]

DocxParagraph(st, line) ==
    LET f == FlushDocx(st)
        s == Headed(f.stack, line.level, line.v)
    IN  CASE line.kind = "title" ->
               [f EXCEPT !.stack = EmptyParse(0).stack, !.root = <<line.v>>,
                         !.path = <<line.v>>]
          [] line.kind = "head" ->
               [f EXCEPT !.stack = s, !.path = f.root \o Chain(s, line.level)]
          [] OTHER -> [st EXCEPT !.lines = Append(@, line.v)]

ParseDocx(items) == FlushDocx(FoldLeft(DocxParagraph, EmptyParse(0), items)).secs

\* PdfParser: a section per page with text, titled by the page.
ParsePdf(pages) ==
    SelectSeq([p \in DOMAIN pages |-> Section(<<0, p>>, pages[p])],
              LAMBDA s : s.lines # <<>>)

ParseTxt(items) == <<Section(Untitled, [i \in DOMAIN items |-> items[i].v])>>

\* ParserRegistry.get and the parser it finds; no section is an empty file.
Parse(f, c) ==
    /\ textStage = "idle"
    /\ file' = f /\ config' = c
    /\ sections' = CASE f.type = "markdown" -> ParseMarkdown(f.items)
                     [] f.type = "docx" -> ParseDocx(f.items)
                     [] f.type = "pdf" -> ParsePdf(f.items)
                     [] OTHER -> ParseTxt(f.items)
    /\ textStage' = IF sections' = <<>> THEN "empty" ELSE "parsed"
    /\ UNCHANGED <<words, from, place, cut>>

----------------------------------------------------------------------------
(* DefaultDocumentCleaner and ExactSectionDeduplicator.                    *)

Margin(lines) == {1, Len(lines)} \cap DOMAIN lines

MinimumRepeats(pages) == IF (6 * pages) \div 10 > 2 THEN (6 * pages) \div 10 ELSE 2

\* _detect_repeated_pdf_line_keys, for three pages and more.
RepeatedLines(secs) ==
    LET marginOf(s) == {s.lines[i] : i \in Margin(s.lines)} \ Prose
        pages == {i \in DOMAIN secs : TRUE}
        count(k) == Cardinality({i \in pages : k \in marginOf(secs[i])})
    IN  IF file.type # "pdf" \/ Len(secs) < 3 THEN {}
        ELSE {k \in UNION {marginOf(secs[i]) : i \in pages} :
                 count(k) >= MinimumRepeats(Len(secs))}

\* _clean_section_content: repeated lines go, at the margins only.
CleanSectionContent(lines, keys) ==
    LET kept == {i \in DOMAIN lines : ~(i \in Margin(lines) /\ lines[i] \in keys)}
    IN  [j \in 1 .. Cardinality(kept) |->
            lines[CHOOSE i \in kept : Cardinality({k \in kept : k < i}) = j - 1]]

Clean ==
    /\ textStage = "parsed"
    /\ LET keys == RepeatedLines(sections)
           cleaned == [i \in DOMAIN sections |->
                          Section(sections[i].title,
                                  CleanSectionContent(sections[i].lines, keys))]
       IN  sections' = SelectSeq(cleaned, LAMBDA s : s.lines # <<>>)
    /\ textStage' = IF sections' = <<>> THEN "empty" ELSE "cleaned"
    /\ UNCHANGED <<file, words, config, from, place, cut>>

\* seeded fault: the first line stands for the section
SameStart(s, t) == Head(s.lines) = Head(t.lines)

\* The dedup key: content and title path (a document has one access list).
SameKey(s, t) == s = t

Deduplicate ==
    /\ textStage = "cleaned"
    /\ LET keep == {i \in DOMAIN sections :
                       \A j \in 1 .. (i - 1) : ~SameKey(sections[i], sections[j])}
       IN  sections' = [j \in 1 .. Cardinality(keep) |->
               sections[CHOOSE i \in keep : Cardinality({k \in keep : k < i}) = j - 1]]
    /\ textStage' = "deduped"
    /\ UNCHANGED <<file, words, config, from, place, cut>>

----------------------------------------------------------------------------
(* FixedSizeChunker.split.                                                 *)

\* _collect_tokens, and the same loop over sentences in SemanticChunker.
Collect ==
    /\ textStage = "deduped"
    /\ words' = FlattenSeq([i \in DOMAIN sections |->
                    [j \in DOMAIN sections[i].lines |->
                        [v |-> sections[i].lines[j], sec |-> i]]])
    /\ textStage' = IF config.chunker = "fixed" THEN "window" ELSE "embed"
    /\ UNCHANGED <<file, sections, config, from, place, cut>>

\* FixedSizeChunkerConfig: a tenth to a fifth of the window, at least one.
OverlapTokens ==
    IF (config.max * config.tenths) \div 10 > 1
    THEN (config.max * config.tenths) \div 10 ELSE 1

\* _adjust_end_for_tail: a window gives tokens up to a tail that would be
\* too short, but keeps min_tokens itself.
AdjustEnd(start, end) ==
    LET next == Len(words) - (end - OverlapTokens)
        deficit == config.min - next
        adjusted == IF start + config.min > end - deficit THEN start + config.min
                    ELSE end - deficit
    IN  IF end = Len(words) \/ next >= config.min THEN end
        ELSE IF adjusted <= start \/ adjusted >= end THEN end ELSE adjusted

NextStart(end) == IF end - OverlapTokens > 0 THEN end - OverlapTokens ELSE 0

\* _build_chunk of FixedSizeChunker: the text between two tokens.
BuildChunk(first, last) == [first |-> first, last |-> last]

\* One pass of the loop of split.
Window ==
    /\ textStage = "window"
    /\ LET full == IF from + config.max < Len(words) THEN from + config.max
                   ELSE Len(words)
           end == AdjustEnd(from, full)
       IN  /\ cut' = Append(cut, BuildChunk(from + 1, end))
           /\ IF end = Len(words) THEN textStage' = "done" /\ UNCHANGED from
              ELSE IF NextStart(end) <= from THEN textStage' = "stuck" /\ UNCHANGED from
              ELSE from' = NextStart(end) /\ UNCHANGED textStage
    /\ UNCHANGED <<file, sections, words, config, place>>

----------------------------------------------------------------------------
(* SemanticChunker.split.                                                  *)

\* _embed_sentences: a batch with a missing, repeated or broken vector
\* fails the document.
EmbedSentences ==
    /\ textStage = "embed"
    /\ \/ textStage' = "boundaries" /\ place' = 2 /\ from' = 1
       \/ textStage' = "failed" /\ UNCHANGED <<place, from>>
    /\ UNCHANGED <<file, sections, words, config, cut>>

SectionChange(i) == words[i].sec # words[i - 1].sec

\* The three branches of _detect_boundaries.
IsBoundary(i, alike) ==
    \/ SectionChange(i) /\ from >= config.min
    \/ ~SectionChange(i) /\ ~alike /\ from >= config.min
    \/ ~SectionChange(i) /\ from >= config.max

\* _build_chunk of SemanticChunker: the sentences of a segment.
BuildSegment(first, last) == [first |-> first, last |-> last]

FirstOpen == IF cut = <<>> THEN 1 ELSE Last(cut).last + 1

\* One pass of _detect_boundaries; the segment a boundary ends is the chunk
\* split builds from it.
DetectBoundary(alike) ==
    /\ textStage = "boundaries" /\ place <= Len(words)
    /\ IF IsBoundary(place, alike)
       THEN /\ cut' = Append(cut, BuildSegment(FirstOpen, place - 1))
            /\ from' = 1
       ELSE from' = from + 1 /\ UNCHANGED cut
    /\ place' = place + 1
    /\ UNCHANGED <<file, textStage, sections, words, config>>

\* The tail segment.
BuildTail ==
    /\ textStage = "boundaries" /\ place > Len(words)
    /\ cut' = Append(cut, BuildSegment(FirstOpen, Len(words)))
    /\ textStage' = "done"
    /\ UNCHANGED <<file, sections, words, config, from, place>>

TextNext ==
    \/ textStage = "idle" /\ \E f \in Files, c \in Configs : Parse(f, c)
    \/ Clean \/ Deduplicate \/ Collect \/ Window \/ EmbedSentences \/ BuildTail
    \/ \E alike \in BOOLEAN : DetectBoundary(alike)

----------------------------------------------------------------------------
(* Properties.                                                             *)

\* A chunk is a non-empty stretch of the text that was cut.
TextTypeOK ==
    /\ textStage \in {"idle", "empty", "parsed", "cleaned", "deduped", "window", "embed",
                  "boundaries", "stuck", "failed", "done"}
    /\ \A i \in DOMAIN cut : 1 <= cut[i].first /\ cut[i].first <= cut[i].last
                                /\ cut[i].last <= Len(words)

\* The text of a file, headings apart unless a fence makes text of them.
FencedAt(p) == Cardinality({q \in 1 .. p : file.items[q].kind = "fence"}) % 2 = 1
IsHeading(p) == file.items[p].kind \in {"head", "title"}
                /\ ~(file.type = "markdown" /\ FencedAt(p))

TextOf ==
    IF file.type = "pdf" THEN UNION {ToSet(file.items[p]) : p \in DOMAIN file.items}
    ELSE {file.items[p].v : p \in {q \in DOMAIN file.items : ~IsHeading(q)}}

\* Lines that stand first or last on two pages or more.
RunningLines ==
    IF file.type # "pdf" THEN {}
    ELSE {v \in TextOf \ Prose :
            Cardinality({p \in DOMAIN file.items :
                v \in {file.items[p][i] : i \in Margin(file.items[p])}}) >= 2}

Chunked == {words[k].v : k \in UNION {cut[i].first .. cut[i].last :
                                          i \in DOMAIN cut}}

\* Parsing, cleaning, deduplication and chunking lose no line of text but a
\* running header or footer of a PDF.
NothingLost == textStage = "done" => TextOf \subseteq Chunked \cup RunningLines

\* A line inside a page is not taken for a header because it also stands at
\* the margin of others.
BodyKept ==
    (textStage = "done" /\ file.type = "pdf") =>
        \A p \in DOMAIN file.items : \A i \in 2 .. (Len(file.items[p]) - 1) :
            file.items[p][i] \in Chunked

\* A file is refused as empty only when it has nothing but headings, or
\* running lines.
EmptyHasNoText == textStage = "empty" => TextOf \subseteq RunningLines

\* The headings in force at a place: of each level the last one before it
\* that no heading of the same or a higher level follows.
InForce(p) ==
    LET heads == {q \in 1 .. (p - 1) : IsHeading(q)}
        level(q) == IF file.items[q].kind = "title" THEN 0 ELSE file.items[q].level
        live == {q \in heads : \A r \in heads : r > q => level(r) > level(q)}
    IN  {file.items[q].v : q \in live}

\* The title path of a section names exactly the headings in force where its
\* text stands, for files whose lines all differ (heading_stack of both
\* parsers).
TitlesInForce ==
    (textStage = "parsed" /\ file.type \in {"markdown", "docx"}) =>
        \A i \in DOMAIN sections : \A p \in DOMAIN file.items :
            (~IsHeading(p) /\ file.items[p].v \in ToSet(sections[i].lines))
                => ToSet(sections[i].title) \ {0} = InForce(p)

\* Of a configuration FixedSizeChunkerConfig accepts the window always moves
\* on: split never reports overlap_must_advance_window.
WindowAdvances == textStage # "stuck"

Size(i) == cut[i].last - cut[i].first + 1

\* Neighbours share exactly the overlap; no window is larger than
\* max_tokens; and where the tail is shorter than min_tokens the window
\* before it has been cut to min_tokens, so no other cut would do better.
WindowsFit ==
    config.chunker = "fixed" =>
        /\ \A i \in DOMAIN cut : Size(i) <= config.max
        /\ \A i \in 1 .. (Len(cut) - 1) :
              /\ cut[i + 1].first = cut[i].last - OverlapTokens + 1
              /\ Size(i) >= config.min
        /\ (textStage = "done" /\ Len(cut) > 1 /\ Size(Len(cut)) < config.min)
              => Size(Len(cut) - 1) = config.min

\* Segments never exceed max_chunk_sentences, and all but the last have
\* min_chunk_sentences, wherever topics and sections change.
SegmentsFit ==
    config.chunker = "semantic" =>
        \A i \in DOMAIN cut :
            /\ Size(i) <= config.max
            /\ i < Len(cut) => Size(i) >= config.min
            /\ i > 1 => cut[i].first = cut[i - 1].last + 1
=============================================================================
