---------------------------- MODULE MCAlgorithms ----------------------------
(***************************************************************************)
(* One job at a time, of any of the five parts of the crawl that compute   *)
(* rather than coordinate: a page's text and links, a script's links, a    *)
(* page's chunks and their vectors, a search, a URL.  The parts that have  *)
(* no job rest where one has ended.                                        *)
(***************************************************************************)
EXTENDS JsLinks, PageParser, Embedding, Retrieval, Urlnorm

-----------------------------------------------------------------------------
(* Scripts, as trees. *)
N(kind, text, kids) == [kind |-> kind, text |-> text, kids |-> kids]
Id(x) == N("id", <<x>>, <<>>)
Str(x) == N("string", <<x>>, <<>>)
Add(a, b) == N("plus", <<>>, <<a, b>>)
Dot(a, x) == N("dot", <<x>>, <<a>>)
Index(a, e) == N("index", <<>>, <<a, e>>)
Var(x, e) == N("declare", <<x>>, <<e>>)
Assign(l, e) == N("assign", <<>>, <<l, e>>)
Call(f, args) == N("call", <<>>, <<f>> \o args)
NewXHR == N("new", <<>>, <<Id("XMLHttpRequest")>>)
Tpl(parts, exprs) == N("template", parts, exprs)
Obj(keys, values) == N("object", keys, values)

Program(named, body) == [parses |-> TRUE, named |-> named, body |-> body, addresses |-> {<<"http", "/text">>}]
Broken == [parses |-> FALSE, named |-> TRUE, body |-> <<>>, addresses |-> {<<"http", "/broken">>}]
Element(attributes, inline, script) == [attributes |-> attributes, inline |-> inline, script |-> script]
Script(p) == [kind |-> "script", elements |-> <<Element({}, TRUE, p)>>, addresses |-> {}, strings |-> {}]

MCChain(named) == Program(named,
    <<Var("c", Add(Id("b"), Str("/1"))), Var("b", Add(Id("a"), Id("a"))), Var("a", Str("/0")),
      Var("o", Obj(<<"p", "q">>, <<Id("c"), Id("d")>>)), Assign(Id("d"), Tpl(<<"", "/t", "">>, <<Id("a"), Dot(Id("o"), "p")>>)),
      Assign(Index(Id("m"), Id("a")), Dot(Id("o"), "q")),
      Call(Id("fetch"), <<Index(Id("m"), Str("/0"))>>), Assign(Id("e"), Add(Id("e"), Str("/1")))>>)
MCFlipFlop == Program(TRUE, <<Assign(Id("a"), Str("/x")), Assign(Id("a"), Str("/y")), Call(Id("fetch"), <<Id("a")>>)>>)
MCTwoSources == Program(TRUE,
    <<Var("a", Str("/0")), Var("b", Add(Id("a"), Str("/1"))), Assign(Id("a"), Str("/x")), Call(Id("fetch"), <<Id("b")>>)>>)
MCCalls == Program(FALSE,
    <<Assign(Id("r"), NewXHR), Assign(Dot(Id("o"), "p"), Str("z")),
      Call(Dot(Id("r"), "open"), <<Str("GET"), Dot(Id("o"), "p")>>),
      Call(Dot(Id("$"), "ajax"), <<Obj(<<"type", "url">>, <<Str("GET"), Str("u")>>)>>),
      Call(Dot(NewXHR, "open"), <<Str("GET"), Str("w")>>), Call(Dot(Id("log"), "open"), <<Str("GET"), Str("no")>>)>>)

MCDocuments ==
    {Script(MCChain(TRUE)), Script(MCChain(FALSE)), Script(MCFlipFlop), Script(MCTwoSources), Script(Broken),
     [kind |-> "page",
      elements |-> <<Element({<<"page", ".", "#", "top">>, <<"#", "top">>, <<"mailto:">>}, FALSE, Broken), Element({}, TRUE, Broken),
                     Element({<<"/src">>}, FALSE, MCChain(TRUE)), Element({}, TRUE, MCCalls)>>,
      addresses |-> {<<"http", "/1", ".">>}, 
      strings |-> {[text |-> <<"/t">>, urls |-> {}], [text |-> <<"word">>, urls |-> {}],
                   [text |-> <<"at", "http", "/x", "/y">>, urls |-> {<<"http", "/x">>, <<"http", "/y">>}]}]}

MCPathTokens == {"/0", "/1", "/t", "/x", "/y"}
MCOtherSchemes == {"mailto:"}
MCPunctuation == {"."}
MCFetchNames == {<<"fetch">>, <<"axios", ".", "get">>, <<"$", ".", "get">>}
MCAjaxNames == {<<"axios">>, <<"$", ".", "ajax">>}
MCResolved(s) == CASE s[1] = "http" -> {s} [] OTHER -> {<<"base">> \o s}

-----------------------------------------------------------------------------
(* Pages: text and links in furniture, lists of links with an introduction *)
(* or without, hidden parts, code that names itself furniture.             *)
E(tag, up, runes, href) ==
    [tag |-> tag, up |-> up, runes |-> runes, href |-> href, class |-> "none", hidden |-> FALSE, colon |-> FALSE]
Furnished(e) == [e EXCEPT !.class = "furniture"]
LinkItem(up, me, href, runes) == <<E("li", up, runes, ""), E("a", me, 2, href)>>

MCNodes ==
    <<E("body", 0, 0, ""), E("nav", 1, 1, ""), E("a", 2, 1, "/nav"),
      Furnished(E("article", 1, 1, "")), E("p", 4, 3, ""), E("a", 5, 1, "/both"),
      Furnished(E("div", 4, 1, "")), E("a", 7, 1, "/share"), E("pre", 7, 2, ""), Furnished(E("code", 9, 1, "")),
      [E("p", 1, 2, "") EXCEPT !.colon = TRUE], E("ul", 1, 0, "")>>
      \o LinkItem(12, 13, "/1", 0) \o LinkItem(12, 15, "/2", 1) \o LinkItem(12, 17, "mailto:", 0)
      \o <<[E("div", 1, 1, "") EXCEPT !.hidden = TRUE], E("a", 19, 1, "/hidden"), E("h2", 1, 1, ""), E("ul", 1, 0, "")>>
      \o LinkItem(22, 23, "/3", 4) \o LinkItem(22, 25, "/1", 0)
      \o <<Furnished(E("span", 1, 2, "")), E("iframe", 1, 0, "/frame")>>

Placed(nodes) ==
    LET path[n \in DOMAIN nodes] == {n} \cup (IF nodes[n].up = 0 THEN {} ELSE path[nodes[n].up])
    IN  [n \in DOMAIN nodes |-> nodes[n] @@ ("path" :> path[n])]
Body(media, json, html, nodes) ==
    [media |-> media, json |-> json, html |-> html, parses |-> nodes # <<>>, nodes |-> Placed(nodes),
     endpoints |-> {"/both", "/api"}, addresses |-> {"http", "/1"},
     strings |-> {[raw |-> "/1", depth |-> 1], [raw |-> "/2", depth |-> 2], [raw |-> "word", depth |-> 0]}]
MCSources ==
    {Body(m, j, h, MCNodes) : m \in {"html", "json", "js", "text", "other"}, j, h \in BOOLEAN}
      \cup {Body("html", FALSE, TRUE, <<>>), Body("html", FALSE, TRUE, SubSeq(MCNodes, 1, 3))}
MCIdentity == [r \in {"/nav", "/both", "/share", "/1", "/2", "/3", "/hidden", "/frame", "/api", "http"} |->
                  IF r = "http" THEN "/3" ELSE r]

-----------------------------------------------------------------------------
(* Contents: a short line, two sentences, and a line of sentences and of a *)
(* word longer than a chunk, in paragraphs or not.                         *)
W(name, runes, ends) == [text |-> <<<<name, 1, runes>>>>, ends |-> ends]
MCLines == {<<>>, <<W("a", 1, FALSE)>>, <<W("a", 1, TRUE), W("b", 2, FALSE)>>,
            <<W("c", 2, TRUE), W("d", 7, FALSE), W("e", 1, TRUE), W("f", 1, FALSE)>>}
MCContents == [1..4 -> MCLines]
MCSettings == {[MaxRunes |-> 3, OverlapRunes |-> 0, MinDocumentRunes |-> 2],
               [MaxRunes |-> 6, OverlapRunes |-> 4, MinDocumentRunes |-> 0],
               [MaxRunes |-> 4, OverlapRunes |-> 3, MinDocumentRunes |-> 0]}

-----------------------------------------------------------------------------
(* What searches find: three pages, one of them by two of its chunks.      *)
MCChunks == {<<"u", "u1">>, <<"u", "u2">>, <<"v", "v1">>, <<"w", "w1">>}
MCLists ==
    {[i \in DOMAIN c |-> [url |-> c[i][1], text |-> c[i][2], score |-> (5 - i) \div 2]] :
        c \in {d \in BoundedSeq(MCChunks, 3) : IsInjective(d)}}
MCParameters ==
    {[query |-> {"q"}, mode |-> m, limit |-> {}] : m \in {{}, {"dense"}, {"bm25"}, {"fuzzy"}}}
      \cup {[query |-> q, mode |-> {"hybrid"}, limit |-> {l}] : q \in {{}, {"q"}}, l \in {0, 1, 3, 4}}

-----------------------------------------------------------------------------
(* Spellings of a URL. *)
MCLower == ("EX" :> "ex") @@ ("UTM" :> "utm")
Pair(k, v) == [key |-> k, value |-> v]
MCPaths == {<<>>, <<"">>, <<"a">>, <<"a", "">>, <<"a", "..">>, <<"..", "b", ".", "c">>, <<"ex", "a">>}
MCQueries == {<<>>, <<Pair("UTM", "1")>>, <<Pair("q", "2"), Pair("utm", "1"), Pair("p", "3")>>}
NoHost == [name |-> "", dots |-> 0]
U(kind, scheme, host, port, path, query, extra) ==
    [kind |-> kind, scheme |-> scheme, host |-> host, port |-> port, path |-> path, query |-> query, extra |-> extra]
MCSpellings ==
    {U("absolute", s, h, p, path, q, x) : s \in {"http", "https", "mailto"}, h \in {[name |-> "EX", dots |-> d] : d \in 0..2},
        p \in {"", "80", "8080"}, path \in MCPaths, q \in MCQueries, x \in {{}, {"user", "fragment"}}}
      \cup {U(k, "", NoHost, "", path, q, {}) : k \in {"rooted", "relative"}, path \in MCPaths, q \in MCQueries}
      \cup {U("network", "", [name |-> "ex", dots |-> 1], "", path, <<>>, {}) : path \in MCPaths}
MCBases == {U("absolute", "https", [name |-> "ex", dots |-> 0], "8080", path, q, {}) :
                path \in {<<"">>, <<"a", "b">>}, q \in {<<>>, <<Pair("q", "2")>>}}
           \cup {U("absolute", "http", [name |-> "EX", dots |-> 1], "80", path, <<Pair("UTM", "1")>>, {"user"}) :
                path \in {<<>>, <<"..", "b">>}}

-----------------------------------------------------------------------------
ParseRests ==
    /\ doc = Script(Broken) /\ at = 2 /\ stage = "failed" /\ vars = <<>> /\ objects = <<>> /\ todo = {}
    /\ next = 1 /\ changed = FALSE /\ seen = {}
ReadRests ==
    /\ source = Body("html", FALSE, TRUE, <<>>) /\ tree = {} /\ clone = {} /\ article = {} /\ found = <<>> /\ reading = "parsed"
EmbedRests ==
    /\ content = <<<<>>, <<>>, <<>>, <<>>>> /\ settings \in {s \in ValidSettings : s.OverlapRunes = 0} /\ chunks = <<>>
    /\ call = "probe" /\ turn = "failed" /\ texts = <<<<<<"probe", 1, 5>>>>>> /\ vectors = <<>> /\ attempt = 0
SearchRests ==
    /\ asked = [query |-> {}, mode |-> {"hybrid"}, limit |-> {0}] /\ dense = "idle" /\ bm25 = "idle"
    /\ hits = [dense |-> <<>>, bm25 |-> <<>>] /\ failure = {} /\ status = 400
UrlRests ==
    /\ spelling = U("relative", "", NoHost, "", <<>>, <<>>, {}) /\ base = {} /\ typed = FALSE /\ normalized = TRUE /\ canonical = <<>>

Init ==
    \/ (\E d \in Documents : ParseStarts(d)) /\ ReadRests /\ EmbedRests /\ SearchRests /\ UrlRests
    \/ (\E s \in Sources : ReadingStarts(s)) /\ ParseRests /\ EmbedRests /\ SearchRests /\ UrlRests
    \/ (\E c \in Contents, s \in ValidSettings : EmbedsStart(c, s)) /\ ParseRests /\ ReadRests /\ SearchRests /\ UrlRests
    \/ (\E p \in Parameters : SearchStarts(p)) /\ ParseRests /\ ReadRests /\ EmbedRests /\ UrlRests
    \/ /\ \E u \in Spellings, b \in {{}} \cup {{x} : x \in Bases}, t \in BOOLEAN : (t => b = {}) /\ UrlStarts(u, b, t)
       /\ ParseRests /\ ReadRests /\ EmbedRests /\ SearchRests

Next ==
    \/ ParseStep /\ UNCHANGED <<parserVars, embedVars, searchVars, urlVars>>
    \/ ReadStep /\ UNCHANGED <<jsVars, embedVars, searchVars, urlVars>>
    \/ EmbedStep /\ UNCHANGED <<jsVars, parserVars, searchVars, urlVars>>
    \/ SearchStep /\ UNCHANGED <<jsVars, parserVars, embedVars, urlVars>>
    \/ Canonicalize /\ UNCHANGED <<jsVars, parserVars, embedVars, searchVars>>

algorithmVars == <<jsVars, parserVars, embedVars, searchVars, urlVars>>

(* A job goes on by itself: a thread's own loop, and requests that have a  *)
(* time limit each.                                                        *)
Spec == Init /\ [][Next]_algorithmVars /\ WF_algorithmVars(Next)

-----------------------------------------------------------------------------
(* Every job comes to its end: a batch is not tried for ever, a search is  *)
(* answered, and the passes over a script stop changing anything - as long *)
(* as no name or property of it has two sources.  (One that has may keep   *)
(* the worker that parses it for ever, page_parser_basic_javascript.go:134-*)
(* 218: see the README.)                                                   *)
JobIsOver ==
    /\ stage \in {"ended", "failed"}
    /\ reading = "parsed"
    /\ turn \in {"done", "unembedded", "failed"}
    /\ status # 0
    /\ normalized
EveryJobEnds == settles[doc] => <>JobIsOver
=============================================================================
