-------------------------- MODULE MCChunkExtraction --------------------------
(***************************************************************************)
(* Small instances of ChunkExtraction: two batches that race while the     *)
(* text moves, two of different requests, one that gets many kinds of      *)
(* answers, and one that reads many kinds of texts.                        *)
(***************************************************************************)
EXTENDS ChunkExtraction

CONSTANTS p1, p2, p3, q1, q2

-----------------------------------------------------------------------------
(* Files.                                                                  *)

Prose(n) == [is |-> "prose", bytes |-> n]
Blank == [is |-> "blank", bytes |-> 0]
Heading == [is |-> "heading", bytes |-> 9]
PageBreak == [is |-> "break", bytes |-> 0]

Txt(lines) == [type |-> "txt", pages |-> <<lines>>]

\* A page break between lines makes a pdf.
File(lines) ==
    LET Read(pages, l) == IF l = PageBreak THEN Append(pages, <<>>)
                          ELSE [pages EXCEPT ![Len(pages)] = Append(@, l)]
    IN [type |-> IF PageBreak \in ToSet(lines) THEN "pdf" ELSE "txt",
        pages |-> FoldLeft(Read, << <<>> >>, lines)]

\* Own 6 bytes, overlap 3 bytes on either side: with the separators of the
\* paragraphs the three can exceed what the context may have.
Narrow == [own |-> 2, overlap |-> 1, context |-> 4]

\* A paragraph of 1 or 3 bytes fits twice or once, one of 7 bytes never.
AnyLine == <<Blank, Prose(1), Prose(3), PageBreak, Heading, Prose(7)>>
\* The lines of length n that number i spells with the first b of them; shorter
\* texts are there as texts that end in blank lines.
Lines(i, b, n) == [k \in 1..n |-> AnyLine[((i \div b^(k - 1)) % b) + 1]]

-----------------------------------------------------------------------------
(* Answers.                                                                *)

At(c, n, role) == [at |-> <<c, n>>, role |-> role, strength |-> 1, quotes |-> None]
Quote(c, n, role, q) == [At(c, n, role) EXCEPT !.quotes = <<c, q>>]
Weak(e) == [e EXCEPT !.strength = 3]
Cand(in, n, kind, refs, evidence) ==
    [in |-> in, id |-> <<in, n>>, kind |-> kind, refs |-> refs, evidence |-> evidence]
NoRefs == [f \in {} |-> <<>>]

Person(n, evidence) == Cand("character", n, None, NoRefs, evidence)
Place(n, evidence) == Cand("location", n, None, NoRefs, evidence)
Mention(n, kind, possible, evidence) ==
    Cand("unresolved", n, kind, [possible |-> possible], evidence)
Event(n, participants, places, evidence) ==
    Cand("event", n, None, [participant |-> participants, place |-> places], evidence)
Fact(n, subjects, objects, evidence) ==
    Cand("fact", n, None, [subject |-> subjects, object |-> objects], evidence)
Tie(n, a, b, evidence) ==
    Cand("relationship", n, None, [source |-> <<a>>, target |-> <<b>>], evidence)

Char(n) == <<"character", n>>
Loc(n) == <<"location", n>>
Unres(n) == <<"unresolved", n>>

\* Grounded in paragraph n, with its neighbour m for context.
Whole(n, m) ==
    LET here == <<At(1, n, "primary")>>
    IN {<<Person(1, here)>>,
        <<>>,
        \* out of order, with evidence of both paragraphs and a wrong excerpt
        <<Tie(1, Char(2), Unres(1), here),
          Mention(1, "unknown", <<Loc(1), Char(1)>>, here),
          Person(2, <<At(1, m, "supporting"), Weak(At(1, n, "supporting")),
                      Quote(1, n, "supporting", n), At(1, n, "supporting"),
                      At(1, n, "primary")>>),
          Person(1, <<Quote(1, n, "primary", m)>>),
          Place(1, here),
          Event(1, <<Char(2), Char(1)>>, <<Unres(1)>>, here),
          Fact(1, <<Loc(1), Char(1)>>, <<Unres(1)>>, here)>>}

\* Each has one thing wrong.
Broken(n, m) ==
    LET here == <<At(1, n, "primary")>>
    IN {<<Person(1, <<At(1, n, "supporting")>>)>>,
        <<Person(1, <<At(1, n, "primary"), At(1, m, "primary")>>)>>,
        <<Person(1, <<At(1, m, "primary")>>)>>,
        <<Person(1, <<At(1, n, "primary"), At(3, 1, "supporting")>>)>>,
        <<Person(1, <<>>)>>,
        <<Person(2, here)>>,
        <<Person(1, here), Person(1, here)>>,
        <<[Person(1, here) EXCEPT !.in = "location"]>>,
        <<Person(1, here), Tie(1, Char(1), Char(1), here)>>,
        <<Person(1, here), Tie(1, Char(1), Char(2), here)>>,
        <<Person(1, here), Place(1, here), Tie(1, Char(1), Loc(1), here)>>,
        <<Person(1, here), Event(1, <<Char(1), Char(1)>>, <<>>, here)>>,
        <<Mention(1, "location", <<>>, here), Event(1, <<Unres(1)>>, <<>>, here)>>,
        <<Mention(1, "person", <<>>, here), Event(1, <<>>, <<Unres(1)>>, here)>>,
        <<Mention(1, "other", <<>>, here), Mention(2, "other", <<Unres(1)>>, here)>>}

-----------------------------------------------------------------------------
(* Studies.                                                                *)

Two == Txt(<<Prose(3), Prose(3)>>)
One == Txt(<<Prose(3)>>)
Wide == [own |-> 1, overlap |-> 1, context |-> 5]

\* Two batches, one of which is A4 as well; the text loses its second chunk.
Race ==
    [files |-> <<Two, One>>, profile |-> Wide,
     roles |-> {<<p1, "extract", q1>>, <<p2, "extract", q1>>, <<p2, "require", q1>>},
     answers |-> {<<Person(1, <<At(1, 1, "primary")>>)>>,
                  <<Person(1, <<At(1, 2, "primary")>>)>>}]

\* Two batches of different requests take the chunk from each other.
Rivals ==
    [files |-> <<One, One>>, profile |-> Wide,
     roles |-> {<<p1, "extract", q1>>, <<p3, "extract", q2>>, <<p3, "require", q2>>},
     answers |-> {<<Person(1, <<At(1, 1, "primary")>>)>>}]

\* One batch, and every kind of answer for its two chunks.
Answers ==
    [files |-> <<Two>>, profile |-> Wide,
     roles |-> {<<p3, "extract", q1>>, <<p3, "require", q1>>},
     answers |-> UNION {Whole(1, 2), Whole(2, 1), Broken(1, 2), Broken(2, 1)}]

\* One batch that never gets a payload, on many texts.
Reading(file) ==
    [files |-> <<file>>, profile |-> Narrow, roles |-> {<<p1, "extract", q1>>}, answers |-> {}]

\* The client of the third retries, those of the others do not.
MCAttempts == [p \in Procs |-> IF p = p3 THEN 2 ELSE 1]

MCInputs ==
    {Race, Rivals, Answers}
    \union {Reading(File(Lines(i, 6, 4))) : i \in 0..(6^4 - 1)}
    \union {Reading(File(Lines(i, 4, 5))) : i \in 0..(4^5 - 1)}

=============================================================================
