------------------------------ MODULE PageParser ------------------------------
(***************************************************************************)
(* The page parser in use: what a body is, the text of it that is indexed, *)
(* and its links, of which only hyperlinks are crawled. Text and links     *)
(* come from one document: reading the text cuts furniture out of copies.  *)
(*                                                                         *)
(* A source is [media, json, html, parses, nodes, endpoints, addresses,    *)
(* strings]; a node of its document, in document order, is [tag, class,    *)
(* hidden, runes, colon, href, up, path]: up is its parent or 0, path the  *)
(* nodes it is in, itself among them. The HTML and JSON libraries,         *)
(* readability, katana and xurls are external.                             *)
(***************************************************************************)
EXTENDS Integers, FiniteSets, FiniteSetsExt, SequencesExt

CONSTANTS
    Sources,               \* bodies a page may have
    Identity,              \* href or address -> its canonical URL; others have none
    maxBoilerplateRunes, maxIntroRunes, minLinkItems, maxJSONDepth,
    NoHref

VARIABLES
    source,     \* the body being parsed
    tree,       \* the nodes of the document both halves share
    clone,      \* what is left of the clone the text is read from
    article,    \* the nodes whose text is the content; {0} for a whole body
    found,      \* links: URL -> "page" or "other"
    reading     \* "content"; "lists", "article" for readability and "again", "fallback"
                \* for want of it; "links", "parsed"

parserVars == <<source, tree, clone, article, found, reading>>

All(s) == 1 .. Len(s.nodes)

Closest(s, n) == s.nodes[n].path
Below(s, n) == {m \in All(s) : n \in Closest(s, m)}
Within(s, tags) == {n \in All(s) : \E m \in Closest(s, n) : s.nodes[m].tag \in tags}

textRunes(s, kept) == MapThenSumSet(LAMBDA n : s.nodes[n].runes, kept)

-----------------------------------------------------------------------------
(* Furniture *)

Headings == {"h1", "h2", "h3", "h4", "h5", "h6"}

namesBoilerplate(class) == class = "furniture"

removeHidden(s, kept) == kept \ {n \in All(s) : \E m \in Closest(s, n) : s.nodes[m].hidden}

(* Elements that name themselves furniture, code and containers aside. *)
Furniture(s) ==
    {n \in All(s) : namesBoilerplate(s.nodes[n].class)
                    /\ s.nodes[n].tag \notin {"html", "body", "main", "article"} \cup Headings}
        \ Within(s, {"pre", "code"})

(* Each is small or stays, by all the text in it: what is looked at before *)
(* it is outside of it, or around it.                                      *)
removeBoilerplate(s, kept) ==
    LET shown == removeHidden(s, kept)
        small == {n \in Furniture(s) : textRunes(s, shown \cap Below(s, n)) <= maxBoilerplateRunes}
    IN  shown \ UNION {Below(s, n) : n \in small}

HasLink(s, n) == s.nodes[n].tag = "a" /\ s.nodes[n].href # NoHref

(* An item of links: three fifths of its text are. *)
IsLinkItem(s, left, item) ==
    LET inside == left \cap Below(s, item)
        linked == {n \in inside : \E m \in Closest(s, n) \cap inside : m # item /\ HasLink(s, m)}
        total  == textRunes(s, inside)
    IN  linked # {} /\ total > 0 /\ 5 * textRunes(s, linked) >= 3 * total

isListIntro(s, left, n) ==
    /\ s.nodes[n].tag \in {"p", "div", "span", "strong", "b"} \cup Headings
    /\ s.nodes[n].colon
    /\ textRunes(s, left \cap Below(s, n)) \in 1 .. maxIntroRunes

(* At least minLinkItems link items that make four fifths of the list. *)
IsLinkList(s, left, list) ==
    LET items == {n \in left : s.nodes[n].up = list /\ s.nodes[n].tag \in {"li", "dt", "dd"}}
        links == Cardinality({n \in items : IsLinkItem(s, left, n)})
    IN  /\ s.nodes[list].tag \in {"ul", "ol", "dl"}
        /\ links >= minLinkItems /\ 5 * links >= 4 * Cardinality(items)

(* The sibling left just before such a list goes with it when it           *)
(* introduces it.                                                          *)
removeLinkLists(s, kept) ==
    LET lists == {n \in kept : IsLinkList(s, kept, n)}
        intro[list \in lists] ==
            LET gone   == UNION {intro[o] \cup {o} : o \in {l \in lists : l < list}}
                left   == kept \ UNION {Below(s, n) : n \in gone}
                before == {n \in left : s.nodes[n].up = s.nodes[list].up /\ n < list}
            IN  {n \in before : n = Max(before) /\ isListIntro(s, left, n)}
    IN  kept \ UNION {Below(s, n) : n \in lists \cup UNION {intro[list] : list \in lists}}

NonIndexable == {"script", "style", "noscript", "template", "iframe", "svg",
                 "nav", "footer", "aside", "form", "head"}

(* normalizeBlocks leaves nothing of nodes without text. *)
TextNodes(s, kept) == {n \in kept : s.nodes[n].runes > 0}

-----------------------------------------------------------------------------
(* Kinds of bodies and links *)

classifyBody(s) ==
    CASE s.media # "other" -> s.media
      [] s.media = "other" /\ s.json -> "json"
      [] s.media = "other" /\ ~s.json /\ s.html -> "html"
      [] OTHER -> "text"

(* accumulator.add for many: a link that is a page once is a page. *)
add(acc, raws, kind) ==
    LET urls == {Identity[r] : r \in raws \cap DOMAIN Identity}
    IN  [u \in DOMAIN acc \cup urls |->
            IF u \in urls /\ (u \notin DOMAIN acc \/ kind = "page") THEN kind ELSE acc[u]]

(* walkJSON: strings that look like a URL, as far down as it goes. *)
extractJSONLinks(s) ==
    add(<<>>, IF s.json THEN {e.raw : e \in {f \in s.strings : f.depth <= maxJSONDepth}} ELSE {}, "other")

Hyperlinks(s, kept) ==
    {s.nodes[n].href : n \in {m \in kept : s.nodes[m].tag \in {"a", "area", "frame", "iframe"}}} \ {NoHref}

(* What the document holds as elements, then what katana and xurls see.    *)
extractLinks(s, kept) ==
    LET pages == IF s.parses THEN add(<<>>, Hyperlinks(s, kept), "page") ELSE <<>>
    IN  add(add(pages, s.endpoints, "other"), s.addresses, "other")

-----------------------------------------------------------------------------
ReadingStarts(s) ==
    /\ source = s
    /\ tree = IF s.parses THEN All(s) ELSE {}
    /\ clone = {} /\ article = {} /\ found = <<>> /\ reading = "content"

\* Mutant: the document is cleaned itself, not a clone of it.
CleanedInPlace(shared, copy) == copy

(* What is left of the shared document when a clone of it is cut down. *)
Untouched(shared, copy) == shared

CutFurniture ==
    /\ reading \in {"content", "again"} /\ classifyBody(source) = "html" /\ source.parses
    /\ clone' = removeBoilerplate(source, IF reading = "content" THEN tree ELSE tree \ Within(source, NonIndexable))
    /\ tree' = Untouched(tree, clone')
    /\ reading' = IF reading = "content" THEN "lists" ELSE "fallback"
    /\ UNCHANGED <<source, article, found>>

\* fallbackText takes what text is left then.
CutLinkLists ==
    /\ reading \in {"lists", "fallback"}
    /\ clone' = removeLinkLists(source, clone)
    /\ IF reading = "lists" THEN reading' = "article" /\ UNCHANGED article
                            ELSE reading' = "links" /\ article' = TextNodes(source, clone')
    /\ UNCHANGED <<source, tree, found>>

(* Readability takes an element and what is in it for the article; or it   *)
(* fails, or finds no text.                                                *)
ExtractContent ==
    /\ reading = "article"
    /\ \/ \E n \in clone :
            LET picked == TextNodes(source, clone \cap Below(source, n))
            IN  picked # {} /\ article' = picked /\ reading' = "links"
       \/ reading' = "again" /\ UNCHANGED article
    /\ UNCHANGED <<source, tree, clone, found>>

\* What goquery cannot read readability may, and there is nothing else.
Unparsed ==
    /\ reading = "content" /\ classifyBody(source) = "html" /\ ~source.parses
    /\ article' \in {{}, {0}}
    /\ reading' = "links"
    /\ UNCHANGED <<source, tree, clone, found>>

\* Only a text is content as it is.
NoContent ==
    /\ reading = "content" /\ classifyBody(source) # "html"
    /\ article' = IF classifyBody(source) = "text" THEN {0} ELSE {}
    /\ reading' = "links"
    /\ UNCHANGED <<source, tree, clone, found>>

ExtractLinks ==
    /\ reading = "links"
    /\ found' = CASE classifyBody(source) = "json" -> extractJSONLinks(source)
                  [] classifyBody(source) = "html" -> extractLinks(source, tree)
                  [] OTHER -> extractLinks([source EXCEPT !.parses = FALSE], tree)
    /\ reading' = "parsed"
    /\ UNCHANGED <<source, tree, clone, article>>

ReadStep == CutFurniture \/ CutLinkLists \/ ExtractContent \/ Unparsed \/ NoContent \/ ExtractLinks

-----------------------------------------------------------------------------
ReadTypeOK ==
    /\ source \in Sources /\ tree \cup clone \subseteq All(source) /\ article \subseteq {0} \cup All(source)
    /\ \A u \in DOMAIN found : found[u] \in {"page", "other"}

(* The crawl follows every hyperlink of a page, those in the furniture its *)
(* text leaves out too, wherever else the address is found; and nothing    *)
(* but hyperlinks (TestParseHTMLClassifiesLinks and what the crawler makes *)
(* of PageLinks).                                                          *)
HyperlinksArePages ==
    reading = "parsed" /\ source.parses =>
        {u \in DOMAIN found : found[u] = "page"} =
            IF classifyBody(source) # "html" THEN {}
            ELSE {Identity[r] : r \in Hyperlinks(source, All(source)) \cap DOMAIN Identity}

(* No text is indexed that is hidden, or in small furniture, whether       *)
(* readability found the article or not.                                   *)
ContentIsThePages ==
    reading = "parsed" /\ source.parses /\ classifyBody(source) = "html" =>
        \A n \in article : \A m \in Closest(source, n) :
            /\ ~source.nodes[m].hidden
            /\ m \in Furniture(source) =>
                 textRunes(source, removeHidden(source, Below(source, m))) > maxBoilerplateRunes

(* What a page says and where it leads are both read in full: cutting      *)
(* furniture out of the one takes nothing from the other.                  *)
PageIsReadWhole == ReadTypeOK /\ HyperlinksArePages /\ ContentIsThePages
=============================================================================
