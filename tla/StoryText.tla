------------------------------ MODULE StoryText ------------------------------
(***************************************************************************)
(* What A1 and A2 do with one source file: source.py splits its lines into *)
(* chapters and paragraphs, chunking.py gives every paragraph to the       *)
(* ownership of one chunk and adds context on both sides.                  *)
(*                                                                         *)
(* A file is its pages, a page its lines; a txt file is one page without a *)
(* number.  A line is blank, a heading (as _heading_kind tells it) or      *)
(* prose of some bytes.  A paragraph is the sequence of its lines, an id   *)
(* is its place: <<chapter, number>>.  Decoding, the pdf library, language *)
(* detection and the texts themselves are left out.                        *)
(***************************************************************************)
EXTENDS Integers, FiniteSets, SequencesExt

Kinds == {"blank", "heading", "prose"}
Line == [is : Kinds, bytes : Nat]
Types == {"txt", "pdf"}

\* One of many results of a step that refuses to give one.
Refused == <<>>

-----------------------------------------------------------------------------
(* A1: lines, paragraphs, chapters.                                        *)

IsBlank(l) == l.is = "blank"
IsHeading(l) == l.is = "heading"
IsBreak(l) == l.is = "break"

\* extract_pdf_structure, _lines_from_text: the lines with their number in the
\* file and their page (0: none), and a break between two pages.
LinesOf(file) ==
    LET Numbered(p, before) ==
            [i \in DOMAIN file.pages[p] |->
                [is |-> file.pages[p][i].is, bytes |-> file.pages[p][i].bytes,
                 at |-> before + i, page |-> IF file.type = "pdf" THEN p ELSE 0]]
        Break == <<[is |-> "break", bytes |-> 0, at |-> 0, page |-> 0]>>
        upTo[p \in 0..Len(file.pages)] ==
            IF p = 0 THEN [lines |-> <<>>, count |-> 0]
            ELSE [lines |-> upTo[p - 1].lines \o (IF p > 1 THEN Break ELSE <<>>)
                            \o Numbered(p, upTo[p - 1].count),
                  count |-> upTo[p - 1].count + Len(file.pages[p])]
    IN upTo[Len(file.pages)].lines

\* The runs of lines between separators, in order.
Runs(lines, Separates(_)) ==
    LET Read(runs, l) == IF Separates(l) THEN Append(runs, <<>>)
                         ELSE [runs EXCEPT ![Len(runs)] = Append(@, l)]
    IN SelectSeq(FoldLeft(Read, << <<>> >>, lines), LAMBDA run : run # <<>>)

\* A segment that separates its paragraphs by blank lines, or else has one on
\* every line.
ParagraphizeSegment(lines) ==
    LET used == {i \in DOMAIN lines : ~IsBlank(lines[i])}
        trimmed == IF used = {} THEN <<>>
                   ELSE SubSeq(lines, CHOOSE i \in used : \A j \in used : i <= j,
                                      CHOOSE i \in used : \A j \in used : j <= i)
    IN IF \E i \in DOMAIN trimmed : IsBlank(trimmed[i])
       THEN Runs(trimmed, IsBlank)
       ELSE [i \in DOMAIN trimmed |-> <<trimmed[i]>>]

Paragraphize(lines) ==
    FoldLeft(LAMBDA paragraphs, segment : paragraphs \o ParagraphizeSegment(segment),
             <<>>, Runs(lines, IsBreak))

\* Chapters are what lies between headings; one without a paragraph is dropped,
\* its heading with it.
ParseLines(lines) ==
    LET Chapter(title, body) ==
            LET paragraphs == Paragraphize(body)
            IN IF paragraphs = <<>> THEN <<>>
               ELSE <<[title |-> title, paragraphs |-> paragraphs]>>
        Read(s, l) == IF IsHeading(l)
                      THEN [chapters |-> s.chapters \o Chapter(s.title, s.body),
                            title |-> l.at, body |-> <<>>]
                      ELSE [s EXCEPT !.body = Append(@, l)]
        end == FoldLeft(Read, [chapters |-> <<>>, title |-> 0, body |-> <<>>], lines)
    IN end.chapters \o Chapter(end.title, end.body)

PagesOf(paragraph) == {paragraph[i].page : i \in DOMAIN paragraph} \ {0}

\* What the constructors of SourceDocument and its parts check.
IsSourceDocument(file, chapters) ==
    /\ chapters # <<>>
    /\ \A c \in DOMAIN chapters :
           /\ chapters[c].paragraphs # <<>>
           /\ \A p \in DOMAIN chapters[c].paragraphs :
                  PagesOf(chapters[c].paragraphs[p]) = {} <=> file.type = "txt"

\* A pdf without text is refused before it is parsed, which changes nothing: it
\* has no paragraph either.
BuildSourceDocument(file) ==
    LET chapters == ParseLines(LinesOf(file))
    IN IF IsSourceDocument(file, chapters) THEN chapters ELSE Refused

-----------------------------------------------------------------------------
(* A2: chunks.  A range of paragraphs of a chapter is [first, last].       *)

Profile == [own : Nat \ {0}, overlap : Nat, context : Nat \ {0}]
IsProfile(p) == p \in Profile /\ p.context >= p.own + 2 * p.overlap

\* The lines of a paragraph are joined by one byte, paragraphs by two.
Bytes(paragraph) ==
    FoldLeft(LAMBDA n, l : n + l.bytes, Len(paragraph) - 1, paragraph)

\* estimate_paragraphs: a third of the bytes, rounded up.
Tokens(chapter, first, last) ==
    IF first > last THEN 0
    ELSE LET bytes == FoldLeft(LAMBDA n, p : n + Bytes(p), 2 * (last - first),
                               SubSeq(chapter.paragraphs, first, last))
         IN IF bytes = 0 THEN 1 ELSE (bytes + 2) \div 3

\* How many of the steps 1..n are taken until one does not fit.
StepsThatFit(n, Fits(_)) ==
    CHOOSE k \in 0..n : (\A i \in 1..k : Fits(i)) /\ (k = n \/ ~Fits(k + 1))

\* The ranges of ownership: each as long as the budget allows.
OwnershipRanges(chapter, budget) ==
    LET n == Len(chapter.paragraphs)
        LastFrom(first) ==
            first + StepsThatFit(n - first,
                                 LAMBDA k : Tokens(chapter, first, first + k) <= budget)
        from[first \in 1..(n + 1)] ==
            IF first > n THEN <<>>
            ELSE << <<first, LastFrom(first)>> >> \o from[LastFrom(first) + 1]
    IN from[1]

\* Faulty variant, for the check of the properties: the profile's own inequality is taken to bound the whole.
ContextUnbounded(chapter, own, profile) ==
    LET Left(k) == Tokens(chapter, own[1] - k, own[1] - 1) <= profile.overlap
        Right(k) == Tokens(chapter, own[2] + 1, own[2] + k) <= profile.overlap
    IN <<own[1] - StepsThatFit(own[1] - 1, Left),
         own[2] + StepsThatFit(Len(chapter.paragraphs) - own[2], Right)>>

\* Context grows to the left first, then to the right, each within the overlap
\* budget, both within what the whole may have.
ContextOf(chapter, own, profile) ==
    LET Left(k) == /\ Tokens(chapter, own[1] - k, own[1] - 1) <= profile.overlap
                   /\ Tokens(chapter, own[1] - k, own[2]) <= profile.context
        first == own[1] - StepsThatFit(own[1] - 1, Left)
        Right(k) == /\ Tokens(chapter, own[2] + 1, own[2] + k) <= profile.overlap
                    /\ Tokens(chapter, first, own[2] + k) <= profile.context
    IN <<first, own[2] + StepsThatFit(Len(chapter.paragraphs) - own[2], Right)>>

ChapterChunks(document, c, profile) ==
    LET chapter == document[c]
        ranges == OwnershipRanges(chapter, profile.own)
    IN [k \in DOMAIN ranges |->
           LET context == ContextOf(chapter, ranges[k], profile)
           IN [id |-> <<c, k>>, own |-> ranges[k], context |-> context,
               contextTokens |-> Tokens(chapter, context[1], context[2]),
               ownTokens |-> Tokens(chapter, ranges[k][1], ranges[k][2])]]

Owned(chunk) == {<<chunk.id[1], p>> : p \in chunk.own[1]..chunk.own[2]}
Context(chunk) == {<<chunk.id[1], p>> : p \in chunk.context[1]..chunk.context[2]}
ParagraphIds(document) ==
    UNION {{<<c, p>> : p \in DOMAIN document[c].paragraphs} : c \in DOMAIN document}

\* validate_chunks_against_source: each chunk on its own, then the coverage.
ChunksAreValid(document, profile, chunks) ==
    /\ IsInjective([k \in DOMAIN chunks |-> chunks[k].id])
    /\ \A k \in DOMAIN chunks :
           LET chunk == chunks[k]
               chapter == document[chunk.id[1]]
           IN /\ Owned(chunk) # {} /\ Owned(chunk) \subseteq Context(chunk)
              /\ Context(chunk) \subseteq ParagraphIds(document)
              /\ chunk.contextTokens = Tokens(chapter, chunk.context[1], chunk.context[2])
              /\ chunk.ownTokens = Tokens(chapter, chunk.own[1], chunk.own[2])
              /\ chunk.contextTokens <= profile.context
              /\ chunk.ownTokens <= profile.own
    /\ \A p \in ParagraphIds(document) :
           Cardinality({k \in DOMAIN chunks : p \in Owned(chunks[k])}) = 1

\* A paragraph that alone exceeds the ownership budget cannot be planned.
PlanChunks(document, profile) ==
    LET Unplannable(p) == Tokens(document[p[1]], p[2], p[2]) > profile.own
        chunks == FlattenSeq([c \in DOMAIN document |-> ChapterChunks(document, c, profile)])
    IN IF /\ \A p \in ParagraphIds(document) : ~Unplannable(p)
          /\ ChunksAreValid(document, profile, chunks)
       THEN chunks ELSE Refused

-----------------------------------------------------------------------------
(* What a plan has to be, told from the file alone.                        *)

\* The lines of the paragraphs the chunks own, in the order of the chunks.
ReadingOf(document, chunks) ==
    FlattenSeq([k \in DOMAIN chunks |->
        FlattenSeq([i \in 1..(chunks[k].own[2] - chunks[k].own[1] + 1) |->
            document[chunks[k].id[1]].paragraphs[chunks[k].own[1] + i - 1]])])

\* The least number of parts a chapter can be cut into within the budget.
FewestChunks(chapter, budget) ==
    LET n == Len(chapter.paragraphs)
        Fits(cuts) == \A first \in cuts \union {1} :
                          LET later == {x \in cuts : x > first}
                              last == IF later = {} THEN n
                                      ELSE (CHOOSE x \in later : \A y \in later : x <= y) - 1
                          IN Tokens(chapter, first, last) <= budget
        sizes == {Cardinality(cuts) + 1 : cuts \in {s \in SUBSET (2..n) : Fits(s)}}
    IN CHOOSE s \in sizes : \A t \in sizes : s <= t

\* Lines i and j of a file are of one section of one page.
Together(lines, i, j) ==
    \A k \in i..j : ~IsHeading(lines[k]) /\ ~IsBreak(lines[k])

\* Two lines of prose make one paragraph when nothing divides them: they are
\* adjacent, and blank lines divide the paragraphs around them.
IsJoined(lines, i) ==
    /\ i > 1
    /\ lines[i - 1].is = "prose"
    /\ \E j \in 1..(i - 1), l \in i..Len(lines) :
           /\ lines[j].is = "prose" /\ lines[l].is = "prose"
           /\ Together(lines, j, l)
           /\ \E k \in j..l : IsBlank(lines[k])

\* The paragraphs a reader sees: their first lines.
ParagraphStarts(lines) ==
    {lines[i].at : i \in {k \in DOMAIN lines : lines[k].is = "prose" /\ ~IsJoined(lines, k)}}

\* Every line of prose is owned by one chunk, in reading order and in the
\* paragraphs a reader sees; the chunks of a chapter are as few as the ownership
\* budget allows; and a text is refused only if it has no prose or a paragraph
\* that alone exceeds that budget.
ReadsTheText(file, profile, document, chunks) ==
    IF chunks = Refused
    THEN \/ \A page \in ToSet(file.pages) : \A l \in ToSet(page) : l.is # "prose"
         \/ \E p \in ParagraphIds(document) :
                Tokens(document[p[1]], p[2], p[2]) > profile.own
    ELSE /\ ReadingOf(document, chunks) = SelectSeq(LinesOf(file), LAMBDA l : l.is = "prose")
         /\ {document[p[1]].paragraphs[p[2]][1].at : p \in ParagraphIds(document)}
            = ParagraphStarts(LinesOf(file))
         /\ \A c \in DOMAIN document :
                Cardinality({k \in DOMAIN chunks : chunks[k].id[1] = c})
                = FewestChunks(document[c], profile.own)

=============================================================================
