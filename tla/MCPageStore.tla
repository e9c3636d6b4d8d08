----------------------------- MODULE MCPageStore -----------------------------
(***************************************************************************)
(* Five spellings: a page k; h1, which the server redirects to its twin    *)
(* h2; s, an old spelling of h2; and j, which is no URL.                   *)
(***************************************************************************)
EXTENDS PageStore, TLC

k == "k"
h1 == "h1"
h2 == "h2"
s == "s"
j == "j"

MCURLs == {k, h1, h2, s, j}
MCCanonical == [u \in MCURLs |-> CASE u = s -> h2 [] u = j -> "none" [] OTHER -> u]
MCSibling == [u \in MCURLs |-> IF u \in {h1, h2} THEN "h" ELSE u]
MCRedirects == [u \in MCURLs |-> IF u = h1 THEN h2 ELSE u]

P(u, at) == [url |-> u, at |-> at]
Stored(pages, links, aliases) ==
    LET Node(i) == <<"stored", i>>
    IN  [page  |-> [n \in {Node(i) : i \in DOMAIN pages} |-> pages[n[2]]],
         link  |-> {<<Node(e[1]), Node(e[2])>> : e \in links},
         alias |-> aliases]

\* Before the constraints: duplicates, spellings, a twin and junk, linked.
MCUnconstrained ==
    [graph |-> Stored(<<P(k, 1), P(h1, 4), P(h2, 2), P(s, 3), P(h2, 0), P(j, 0), P(j, 5), P(k, 0)>>,
                      {<<1, 2>>, <<1, 5>>, <<4, 1>>, <<2, 3>>, <<7, 4>>, <<1, 6>>, <<4, 7>>, <<3, 8>>},
                      <<>>),
     constrained |-> FALSE, version |-> 0]

\* A normalizer change: a new spelling, one stale alias, one that stays.
MCOldVersion ==
    [graph |-> Stored(<<P(k, 1), P(h2, 0), P(s, 3)>>, {<<1, 3>>, <<3, 2>>, <<2, 1>>},
                      (h1 :> h2) @@ (j :> k)),
     constrained |-> TRUE, version |-> 0]

\* A normalizer change whose new spelling of a page is an alias already.
MCRenamedOntoAlias ==
    [graph |-> Stored(<<P(k, 1), P(s, 3)>>, {<<1, 2>>}, h2 :> k),
     constrained |-> TRUE, version |-> 0]

\* A current store, with the alias the crawls below may turn around.
MCCurrent ==
    [graph |-> Stored(<<P(k, 1), P(h2, 2)>>, {<<1, 2>>}, h1 :> h2),
     constrained |-> TRUE, version |-> 1]

\* The first start of all: a crawl may now meet a link and its redirect at once.
MCEmpty == [graph |-> EmptyGraph, constrained |-> FALSE, version |-> 0]

MCLegacy == {MCEmpty, MCUnconstrained, MCOldVersion, MCRenamedOntoAlias, MCCurrent}

MCCrawls ==
    {[url |-> k, links |-> {k, h1, h2}, aliases |-> {}],
     [url |-> h2, links |-> {h1, k}, aliases |-> {h1}],
     [url |-> h1, links |-> {h2}, aliases |-> {}],
     [url |-> k, links |-> {h1}, aliases |-> {h2}]}
=============================================================================
