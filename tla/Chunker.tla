------------------------------- MODULE Chunker -------------------------------
(***************************************************************************)
(* The paragraph chunker: a page's content cut into chunks of at most      *)
(* MaxRunes runes.  A text is a sequence of runs <<name, a, b>>, the runes *)
(* a to b of what is named: a word, a blank, a line or a paragraph break.  *)
(* A content is a sequence of lines, a line one of words [text, ends]      *)
(* (ends: the word ends a sentence), and an empty line ends a paragraph.   *)
(***************************************************************************)
EXTENDS Integers, SequencesExt

CONSTANT ValidSettings      \* [MaxRunes, OverlapRunes, MinDocumentRunes]

(* What NewParagraphChunker lets through. *)
NewParagraphChunker(s) ==
    /\ s.MaxRunes > 0
    /\ s.OverlapRunes \in 0..(s.MaxRunes - 1)
    /\ s.MinDocumentRunes >= 0

ASSUME SettingsAreValid == \A s \in ValidSettings : NewParagraphChunker(s)

Blank == <<<<"blank", 1, 1>>>>
NewLine == <<<<"line", 1, 1>>>>
ParagraphSeparator == <<<<"paragraph", 1, 2>>>>

Runes(text) == FoldLeft(LAMBDA n, run : n + run[3] - run[2] + 1, 0, text)

(* Texts one after another, each but the first after its separator. *)
Joined(texts, sep(_)) ==
    FlattenSeq([i \in DOMAIN texts |-> IF i = 1 THEN texts[i] ELSE sep(i) \o texts[i]])
Words(words) == Joined([i \in DOMAIN words |-> words[i].text], LAMBDA i : Blank)
Lines(lines) == Joined([i \in DOMAIN lines |-> Words(lines[i])], LAMBDA i : NewLine)

(* A sequence cut after the elements that end a part; no part is empty. *)
CutAfter(seq, Ends(_)) ==
    LET cuts == {i \in DOMAIN seq : Ends(seq[i]) \/ i = Len(seq)}
        Part(i) == SubSeq(seq, 1 + CHOOSE j \in cuts \cup {0} : j < i /\ \A c \in cuts : c < i => c <= j, i)
    IN [n \in 1..Cardinality(cuts) |->
            Part(CHOOSE i \in cuts : Cardinality({c \in cuts : c <= i}) = n)]

splitParagraphs(content) ==
    SelectSeq([i \in DOMAIN CutAfter(content, LAMBDA l : l = <<>>) |->
                  SelectSeq(CutAfter(content, LAMBDA l : l = <<>>)[i], LAMBDA l : l # <<>>)],
              LAMBDA p : p # <<>>)

splitSentences(line) == CutAfter(line, LAMBDA w : w.ends)

-----------------------------------------------------------------------------
(* A piece [text, lead]: lead is what separates it from the piece before.  *)
Piece(text, lead) == [text |-> text, lead |-> lead]

(* A word longer than the limit, by runes. *)
splitWord(w, limit) ==
    LET size == Runes(w.text)
        count == (size + limit - 1) \div limit
        last(i) == IF i * limit < size THEN i * limit ELSE size
    IN [i \in 1..count |-> Piece(<<<<w.text[1][1], (i - 1) * limit + 1, last(i)>>>>, IF i = 1 THEN Blank ELSE <<>>)]

(* A sentence longer than the limit, by as many words as fit together. *)
splitWords(sentence, limit) ==
    LET Flushed(s) == IF s.current = <<>> THEN s.out ELSE Append(s.out, Piece(s.current, Blank))
        Add(s, w) ==
            CASE Runes(w.text) > limit ->
                   [out |-> Flushed(s) \o splitWord(w, limit), current |-> <<>>]
              [] s.current # <<>> /\ Runes(s.current \o Blank \o w.text) <= limit ->
                   [s EXCEPT !.current = @ \o Blank \o w.text]
              [] OTHER -> [out |-> Flushed(s), current |-> w.text]
    IN Flushed(FoldLeft(Add, [out |-> <<>>, current |-> <<>>], sentence))

(* The first piece of a sentence comes after what precedes the sentence. *)
LedBy(pieces, lead) == [pieces EXCEPT ![1].lead = lead]

splitOversized(paragraph, limit) ==
    LET Sentence(s, lead) ==
            IF Runes(Words(s)) <= limit THEN <<Piece(Words(s), lead)>> ELSE LedBy(splitWords(s, limit), lead)
        Line(l) ==
            LET sentences == splitSentences(paragraph[l])
            IN FlattenSeq([i \in DOMAIN sentences |->
                   Sentence(sentences[i], IF i > 1 THEN Blank ELSE IF l > 1 THEN NewLine ELSE <<>>)])
    IN FlattenSeq([l \in DOMAIN paragraph |-> Line(l)])

(* A unit is a paragraph, or a piece of one that is too long; the first of *)
(* a paragraph knows how long the whole of it is.                          *)
ParagraphUnits(paragraphs, i, limit) ==
    LET whole == Lines(paragraphs[i])
        pieces == splitOversized(paragraphs[i], limit)
        Unit(text, lead, first) ==
            [text |-> text, runes |-> Runes(text), paragraph |-> i, lead |-> lead, first |-> first,
             paragraphRunes |-> IF first THEN Runes(whole) ELSE 0]
    IN IF Runes(whole) <= limit THEN <<Unit(whole, <<>>, TRUE)>>
       ELSE [j \in DOMAIN pieces |-> Unit(pieces[j].text, IF j = 1 THEN <<>> ELSE pieces[j].lead, j = 1)]

units(paragraphs, limit) ==
    FlattenSeq([i \in DOMAIN paragraphs |-> ParagraphUnits(paragraphs, i, limit)])

-----------------------------------------------------------------------------
separator(prev, nxt) == IF prev.paragraph = nxt.paragraph THEN nxt.lead ELSE ParagraphSeparator
separatorRunes(prev, nxt) == Runes(separator(prev, nxt))

render(us) == Joined([i \in DOMAIN us |-> us[i].text], LAMBDA i : separator(us[i - 1], us[i]))
measure(us) == Runes(render(us))

(* The units that end a chunk and start the next: as many as fit in the    *)
(* overlap, never the chunk's first.                                       *)
overlap(closed, overlapRunes) ==
    LET starts == {i \in 2..Len(closed) : measure(SubSeq(closed, i, Len(closed))) <= overlapRunes}
    IN IF overlapRunes = 0 \/ starts = {} THEN <<>>
       ELSE SubSeq(closed, CHOOSE i \in starts : \A j \in starts : i <= j, Len(closed))

\* What u costs after the units us.
cost(us, u) == (IF us = <<>> THEN 0 ELSE separatorRunes(us[Len(us)], u)) + u.runes

\* Mutant: the overlap is kept where the next unit does not fit after it.
KeepsOverlap(kept, u, limit) == kept

(* The overlap is left out where the next unit does not fit after it. *)
carried(kept, u, limit) == IF measure(kept) + cost(kept, u) > limit THEN <<>> ELSE kept

(* The chunk being filled is closed, and the next starts with units us. *)
ChunkClosed(s, us) == [closed |-> Append(s.closed, s.current), current |-> us, runes |-> measure(us)]
WithUnit(s, u) == [s EXCEPT !.current = Append(@, u), !.runes = @ + cost(s.current, u)]

(* One unit into the chunk being filled, after that is closed where the    *)
(* unit does not fit, or where it starts a paragraph that does not fit and *)
(* the chunk is half full.  The runes of the chunk are counted along.      *)
PackUnit(s, u, settings) ==
    LET limit == settings.MaxRunes
        fits == s.runes + cost(s.current, u) <= limit
        paragraphWouldSpill == u.first /\ s.runes + Runes(ParagraphSeparator) + u.paragraphRunes > limit
    IN IF s.current # <<>> /\ (~fits \/ (paragraphWouldSpill /\ s.runes >= limit \div 2))
       THEN WithUnit(ChunkClosed(s, carried(overlap(s.current, settings.OverlapRunes), u, limit)), u)
       ELSE WithUnit(s, u)

ClosedAtLast(s) == IF s.current = <<>> THEN s.closed ELSE Append(s.closed, s.current)
pack(us, settings) ==
    ClosedAtLast(FoldLeft(LAMBDA s, u : PackUnit(s, u, settings), [closed |-> <<>>, current |-> <<>>, runes |-> 0], us))

contentRunes(paragraphs) == FoldLeft(LAMBDA n, p : n + Runes(Lines(p)), 0, paragraphs)

(* The chunks of a content, in order; a text that comes again is left out. *)
Chunk(content, settings) ==
    LET paragraphs == splitParagraphs(content)
        packed == pack(units(paragraphs, settings.MaxRunes), settings)
        texts == [i \in DOMAIN packed |-> render(packed[i])]
    IN IF paragraphs = <<>> \/ contentRunes(paragraphs) < settings.MinDocumentRunes THEN <<>>
       ELSE FoldLeft(LAMBDA out, t : IF t \in ToSet(out) THEN out ELSE Append(out, t), <<>>, texts)

-----------------------------------------------------------------------------
(* A text rune by rune: a word cut in runs is the word again. *)
ByRune(text) ==
    FlattenSeq([i \in DOMAIN text |-> [j \in 1..(text[i][3] - text[i][2] + 1) |-> <<text[i][1], text[i][2] + j - 1>>]])

(* The units of a paragraph, end to end, are the paragraph. *)
UnitsReassemble(paragraphs, limit) ==
    \A i \in DOMAIN paragraphs :
        LET us == ParagraphUnits(paragraphs, i, limit)
        IN ByRune(render(us)) = ByRune(Lines(paragraphs[i]))

(* Packing leaves no unit out and changes no order: a chunk is a run of    *)
(* units within the limit, the next one starts later, no later than after  *)
(* it, ends later, and shares no more with it than the overlap.            *)
Numbered(us) == [i \in DOMAIN us |-> [at |-> i] @@ us[i]]
PacksAll(packed, us, settings) ==
    LET from(k) == packed[k][1].at
        to(k) == packed[k][Len(packed[k])].at
    IN /\ from(1) = 1 /\ to(Len(packed)) = Len(us)
       /\ \A k \in DOMAIN packed :
            /\ packed[k] = SubSeq(us, from(k), to(k))
            /\ measure(packed[k]) <= settings.MaxRunes
       /\ \A k \in 1..(Len(packed) - 1) :
            /\ from(k) < from(k + 1) /\ from(k + 1) <= to(k) + 1 /\ to(k) < to(k + 1)
            /\ measure(SubSeq(us, from(k + 1), to(k))) <= settings.OverlapRunes

(* What chunks are checked against: [none, whole, texts], whether there may *)
(* be none, whether the units of the paragraphs, end to end, are them and  *)
(* are all packed, and the texts of what they are packed into.             *)
Pieces(paragraphs, us, packed, settings) ==
    [none  |-> us = <<>> \/ contentRunes(paragraphs) < settings.MinDocumentRunes,
     whole |-> us # <<>> /\ UnitsReassemble(paragraphs, settings.MaxRunes) /\ PacksAll(packed, us, settings),
     texts |-> {render(run) : run \in ToSet(packed)}]
PackedPieces(paragraphs, us, settings) == Pieces(paragraphs, us, pack(us, settings), settings)
PiecesOf(content, settings) ==
    LET paragraphs == splitParagraphs(content)
    IN PackedPieces(paragraphs, Numbered(units(paragraphs, settings.MaxRunes)), settings)

(* A content cut into chunks can be put together from them, but for texts  *)
(* that come again.                                                        *)
Reassembles(pieces, chunks) ==
    \/ chunks = <<>> /\ pieces.none
    \/ pieces.whole /\ IsInjective(chunks) /\ ToSet(chunks) = pieces.texts
=============================================================================
