------------------------------ MODULE Embedding ------------------------------
(***************************************************************************)
(* The embeddings client, from a page's chunks to their vectors: batches   *)
(* in order, each tried again after what may pass and given up on anything *)
(* else, its vectors placed by the index the server gives them.  The       *)
(* client first probes the server for the dimension of its vectors.        *)
(***************************************************************************)
EXTENDS Chunker

CONSTANTS
    Contents,       \* the contents of pages
    BatchSize,      \* texts in one request
    MaxRetries,     \* requests beyond the first for one batch
    Dimensions,     \* the dimension asked for; 0 asks for none
    MaxEmbedded,    \* bound: pages of more chunks are cut but not embedded
    ServerDims      \* the dimensions a server may answer with; 0 is an empty vector

(* What NewOpenAIClient lets through. *)
ASSUME ClientIsValid ==
    BatchSize \in Nat \ {0} /\ MaxRetries \in Nat /\ Dimensions \in Nat

VARIABLES
    content, settings,  \* the page being indexed, and how it is chunked
    chunks,             \* its chunks
    call,               \* "probe", or "chunks" once the client is up
    turn,               \* "request", "sleep", "content", "unembedded", "done" or "failed"
    texts,              \* what is embedded
    vectors,            \* what the batches so far came to
    attempt             \* of the batch now

embedVars == <<content, settings, chunks, call, turn, texts, vectors, attempt>>

\* The batch that is next.
TextsNow == SubSeq(texts, Len(vectors) + 1, IF Len(texts) < Len(vectors) + BatchSize
                                            THEN Len(texts) ELSE Len(vectors) + BatchSize)

(* A server knows what it embedded, and says by index which text it was:   *)
(* in any order, and in any wrong way.                                     *)
Item(batch, index, dim) ==
    [index |-> index, dim |-> dim, of |-> IF index \in 0..(Len(batch) - 1) THEN batch[index + 1] ELSE batch[1]]
Replies(batch) ==
    LET items == {Item(batch, i, d) : i \in -1..Len(batch), d \in ServerDims}
    IN UNION {[1..n -> items] : n \in {Len(batch) - 1, Len(batch)}}

\* Mutant: the vectors are taken in the order they came.
DecodedAsTheyCame(data, batch) ==
    IF Len(data) = Len(batch) /\ \A i \in DOMAIN data : data[i].dim # 0 THEN {data} ELSE {}

(* The vectors by their index, or nothing if one is missing, misplaced,    *)
(* given twice or empty.                                                   *)
decode(data, batch) ==
    LET places == {data[i].index : i \in DOMAIN data}
    IN IF Len(data) = Len(batch) /\ places = 0..(Len(batch) - 1) /\ \A i \in DOMAIN data : data[i].dim # 0
       THEN {[p \in 1..Len(batch) |-> data[CHOOSE i \in DOMAIN data : data[i].index = p - 1]]}
       ELSE {}

consistentDimensions(vs) == \A i \in DOMAIN vs : vs[i].dim = vs[1].dim

-----------------------------------------------------------------------------
(* The chunks of a page do not depend on the server: they are its content  *)
(* and the settings from the start.                                        *)
EmbedsStart(c, s) ==
    /\ content = c /\ settings = s /\ chunks = Chunk(c, s)
    /\ call = "probe" /\ turn = "request"
    /\ texts = <<<<<<"probe", 1, 5>>>>>> /\ vectors = <<>> /\ attempt = 0

Answered ==
    /\ turn = "request" /\ TextsNow # <<>>
    /\ \E data \in Replies(TextsNow) :
        \/ /\ decode(data, TextsNow) = {}
           /\ turn' = "failed"
           /\ UNCHANGED <<vectors, attempt>>
        \/ /\ vectors' \in {vectors \o vs : vs \in decode(data, TextsNow)}
           /\ attempt' = 0
           /\ UNCHANGED turn
    /\ UNCHANGED <<content, settings, chunks, call, texts>>

(* No answer, or one of HTTP 429 or 5xx: again, unless this was the last   *)
(* attempt or the caller's time is over.                                   *)
RequestFails ==
    /\ turn = "request" /\ TextsNow # <<>>
    /\ turn' \in (IF attempt < MaxRetries THEN {"sleep", "failed"} ELSE {"failed"})
    /\ UNCHANGED <<content, settings, chunks, call, texts, vectors, attempt>>

(* The back-off is over; or the caller's time is, first. *)
Slept ==
    /\ turn = "sleep"
    /\ \/ turn' = "request" /\ attempt' = attempt + 1
       \/ turn' = "failed" /\ UNCHANGED attempt
    /\ UNCHANGED <<content, settings, chunks, call, texts, vectors>>

(* The last batch is in.  A probe that is not of the dimension asked for   *)
(* stops the program.                                                      *)
EmbedReturns ==
    /\ turn = "request" /\ TextsNow = <<>>
    /\ LET valid == /\ consistentDimensions(vectors)
                    /\ call = "probe" => Dimensions \in {0, vectors[1].dim}
       IN  turn' = IF ~valid THEN "failed" ELSE IF call = "probe" THEN "content" ELSE "done"
    /\ UNCHANGED <<content, settings, chunks, call, texts, vectors, attempt>>

(* The sink embeds the chunks of a page that has any. *)
EmbedChunks ==
    /\ turn = "content"
    /\ call' = "chunks" /\ texts' = chunks /\ vectors' = <<>> /\ attempt' = 0
    /\ turn' = IF Len(chunks) \in 1..MaxEmbedded THEN "request" ELSE "unembedded"
    /\ UNCHANGED <<content, settings, chunks>>

EmbedStep == Answered \/ RequestFails \/ Slept \/ EmbedReturns \/ EmbedChunks

-----------------------------------------------------------------------------
EmbedTypeOK ==
    /\ content \in Contents /\ settings \in ValidSettings
    /\ call \in {"probe", "chunks"} /\ turn \in {"request", "sleep", "content", "unembedded", "done", "failed"}
    /\ attempt \in 0..MaxRetries /\ Len(vectors) <= Len(texts)

(* A constant, so that it is evaluated once. *)
pieces == [c \in Contents |-> [s \in ValidSettings |-> PiecesOf(c, s)]]

(* A page's text is all in its chunks and each chunk is within its limit,  *)
(* whatever the page is cut by: paragraphs, lines, sentences, words or     *)
(* runes (ParagraphChunker.Chunk).                                         *)
ChunksReassemble ==
    call = "chunks" /\ vectors = <<>> /\ attempt = 0 => Reassembles(pieces[content][settings], chunks)

(* Embed returns a vector for each text, of that text and of one dimension *)
(* for all, in whatever order and batches they came and whatever was tried *)
(* again; a probed dimension is the one asked for.                         *)
VectorsMatchTexts ==
    /\ EmbedTypeOK
    /\ turn = "done" =>
         /\ Len(vectors) = Len(texts)
         /\ \A i \in DOMAIN texts : vectors[i].of = texts[i] /\ vectors[i].dim = vectors[1].dim
    /\ turn = "content" => vectors[1].dim \in (IF Dimensions = 0 THEN ServerDims \ {0} ELSE {Dimensions})
=============================================================================
