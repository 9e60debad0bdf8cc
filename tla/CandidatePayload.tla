-------------------------- MODULE CandidatePayload --------------------------
(***************************************************************************)
(* What A3 makes of one answer of the provider, a payload of candidates:   *)
(* extraction.py loads it as typed data, extraction_validation.py drops    *)
(* the excerpts that quote nothing, validates what is left against the     *)
(* chunk the answer is for and puts it into its one canonical order.       *)
(*                                                                         *)
(* The six arrays of a payload are one sequence, each candidate with the   *)
(* array it is in; an id is a namespace and a number.  An excerpt is the   *)
(* paragraph whose words it repeats, a strength its place in the alphabet. *)
(* Names, summaries and the other wording are left out.                    *)
(***************************************************************************)
EXTENDS StoryText

CONSTANT None

Categories == <<"character", "location", "fact", "event", "relationship", "unresolved">>
MentionKinds == {"person", "location", "other", "unknown"}
RefFields == [character |-> {}, location |-> {}, fact |-> {"subject", "object"},
              event |-> {"participant", "place"}, relationship |-> {"source", "target"},
              unresolved |-> {"possible"}]

\* What an answer has been read as: paragraphs and ids are pairs of numbers, an
\* array or a role that does not exist is refused before.
Paragraphs == Nat \X Nat
Ids == ToSet(Categories) \X Nat
IsEvidenceRef(e) ==
    /\ DOMAIN e = {"at", "role", "strength", "quotes"}
    /\ e.at \in Paragraphs /\ e.role \in {"primary", "supporting"} /\ e.strength \in 1..3
    /\ e.quotes \in Paragraphs \union {None}
IsCandidate(c) ==
    /\ DOMAIN c = {"in", "id", "kind", "refs", "evidence"}
    /\ c.in \in ToSet(Categories) /\ c.id \in Ids
    /\ c.evidence \in Seq(ToSet(c.evidence))
    /\ \A i \in DOMAIN c.evidence : IsEvidenceRef(c.evidence[i])
IsPayload(raw) == raw \in Seq(ToSet(raw)) /\ \A i \in DOMAIN raw : IsCandidate(raw[i])

-----------------------------------------------------------------------------
(* Typed data.  An answer that is not is one more invalid answer.          *)

\* _to_evidence_tuple: there is at least one.
IsEvidence(evidence) == evidence # <<>>

\* Exactly the fields of its array, each without a duplicate.
RefsAreTyped(c) ==
    /\ DOMAIN c.refs = RefFields[c.in]
    /\ \A f \in DOMAIN c.refs : IsInjective(c.refs[f])

IsRelationship(c) == \A f \in DOMAIN c.refs : Len(c.refs[f]) = 1

IsUnresolvedMention(c) == c.kind \in MentionKinds

IsTypedCandidate(c) ==
    /\ c.id[1] = c.in
    /\ RefsAreTyped(c)
    /\ c.in = "relationship" => IsRelationship(c)
    /\ IF c.in = "unresolved" THEN IsUnresolvedMention(c) ELSE c.kind = None
    /\ IsEvidence(c.evidence)

IsTyped(payload) == \A i \in DOMAIN payload : IsTypedCandidate(payload[i])

-----------------------------------------------------------------------------
(* Excerpts.  One that is not in its paragraph is dropped, the evidence    *)
(* stays; evidence of an unknown paragraph is left as it is.               *)

SanitizeEvidence(evidence, document) ==
    [i \in DOMAIN evidence |->
        IF evidence[i].at \in ParagraphIds(document) /\ evidence[i].quotes # evidence[i].at
        THEN [evidence[i] EXCEPT !.quotes = None] ELSE evidence[i]]

Sanitize(payload, document) ==
    [i \in DOMAIN payload |->
        [payload[i] EXCEPT !.evidence = SanitizeEvidence(@, document)]]

-----------------------------------------------------------------------------
(* Validation.                                                             *)

\* Unique in their array, and numbered from 1 without a gap.
IdsAreSound(payload) ==
    \A category \in ToSet(Categories) :
        LET array == {i \in DOMAIN payload : payload[i].in = category}
        IN {payload[i].id[2] : i \in array} = 1..Cardinality(array)

RefIsAllowed(field, target) ==
    CASE field \in {"subject", "object"} -> target.in \in {"character", "location", "unresolved"}
      [] field \in {"participant", "source", "target"} ->
             \/ target.in = "character"
             \/ target.in = "unresolved" /\ target.kind \in {"person", "unknown"}
      [] field = "place" ->
             \/ target.in = "location"
             \/ target.in = "unresolved" /\ target.kind \in {"location", "unknown"}
      [] field = "possible" -> target.in \in {"character", "location"}

RefsResolve(payload, c) ==
    \A f \in DOMAIN c.refs : \A ref \in ToSet(c.refs[f]) :
        \E i \in DOMAIN payload : payload[i].id = ref /\ RefIsAllowed(f, payload[i])

\* Of the same candidate: the payload has it, or RefsResolve fails.
IsSelfReference(c) == c.in = "relationship" /\ c.refs["source"] = c.refs["target"]

\* Faulty variant, for the check of the properties: primary evidence may lie
\* anywhere in the context.
EvidenceInContext(evidence, document, chunk) ==
    /\ \A i \in DOMAIN evidence :
           LET e == evidence[i]
           IN /\ e.at \in ParagraphIds(document) /\ e.at \in Context(chunk)
              /\ e.quotes \in {None, e.at}
    /\ \E i \in DOMAIN evidence :
           evidence[i].role = "primary" /\ evidence[i].at \in Context(chunk)

EvidenceIsSound(evidence, document, chunk) ==
    /\ \A i \in DOMAIN evidence :
           LET e == evidence[i]
           IN /\ e.at \in ParagraphIds(document) /\ e.at \in Context(chunk)
              /\ e.role = "primary" => e.at \in Owned(chunk)
              /\ e.quotes \in {None, e.at}
    /\ \E i \in DOMAIN evidence :
           evidence[i].role = "primary" /\ evidence[i].at \in Owned(chunk)

IsValid(payload, document, chunk) ==
    /\ IdsAreSound(payload)
    /\ \A i \in DOMAIN payload :
           /\ RefsResolve(payload, payload[i])
           /\ ~IsSelfReference(payload[i])
           /\ EvidenceIsSound(payload[i].evidence, document, chunk)

-----------------------------------------------------------------------------
(* The canonical order.                                                    *)

Before(a, b) == a[1] < b[1] \/ (a[1] = b[1] /\ a[2] < b[2])

\* Python's sorted: what has the same key keeps its order.
Sorted(s, Precedes(_, _)) ==
    LET Ahead(i) == {j \in DOMAIN s : Precedes(s[j], s[i]) \/ (j < i /\ ~Precedes(s[i], s[j]))}
    IN [k \in DOMAIN s |-> s[CHOOSE i \in DOMAIN s : Cardinality(Ahead(i)) = k - 1]]

\* Ids as strings.  Bound: fewer than 1000 candidates of a category.
Alphabet == [character |-> 1, event |-> 2, fact |-> 3, location |-> 4, relationship |-> 5,
             unresolved |-> 6]
IdBefore(a, b) == Before(<<Alphabet[a[1]], a[2]>>, <<Alphabet[b[1]], b[2]>>)

\* By paragraph, primary before supporting, by strength, then without an excerpt
\* first.
EvidenceBefore(a, b) ==
    \/ Before(a.at, b.at)
    \/ /\ a.at = b.at
       /\ \/ a.role = "primary" /\ b.role # "primary"
          \/ /\ a.role = b.role
             /\ \/ a.strength < b.strength
                \/ a.strength = b.strength /\ a.quotes = None /\ b.quotes # None

CanonicalEvidence(evidence) == Sorted(evidence, EvidenceBefore)

CanonicalCandidate(c) ==
    [c EXCEPT !.refs = [f \in DOMAIN c.refs |-> Sorted(c.refs[f], IdBefore)],
              !.evidence = CanonicalEvidence(@)]

\* The arrays in their fixed order, each by number.
ArrayOf(c) == CHOOSE k \in DOMAIN Categories : Categories[k] = c.in
CandidateBefore(a, b) == Before(<<ArrayOf(a), a.id[2]>>, <<ArrayOf(b), b.id[2]>>)

Canonicalize(payload) ==
    LET sorted == Sorted(payload, CandidateBefore)
    IN [i \in DOMAIN sorted |-> CanonicalCandidate(sorted[i])]

\* What a round makes of an answer: the payload to publish, or None.
Judge(raw, document, chunk) ==
    IF ~IsTyped(raw) THEN None
    ELSE LET payload == Sanitize(raw, document)
         IN IF IsValid(payload, document, chunk) THEN Canonicalize(payload) ELSE None

=============================================================================
