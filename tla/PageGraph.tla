------------------------------ MODULE PageGraph ------------------------------
(***************************************************************************)
(* The Cypher statements of internal/pages as operators on a graph value.  *)
(* A graph is a record                                                     *)
(*   page   node -> [url, at]: a :Page node; at = 0 is a link target that  *)
(*          was never crawled, another at names the crawl its properties   *)
(*          come from                                                      *)
(*   link   set of <<node, node>>: the :LINKS_TO edges                     *)
(*   alias  URL -> URL: an :Alias node and its target                      *)
(***************************************************************************)
EXTENDS Integers, FiniteSets, Functions

CONSTANT URLs     \* spellings of addresses

EmptyGraph == [page |-> <<>>, link |-> {}, alias |-> <<>>]

NodesOf(g, u) == {n \in DOMAIN g.page : g.page[n].url = u}
PageURLs(g) == {g.page[n].url : n \in DOMAIN g.page}
TheNode(g, u) == CHOOSE n \in NodesOf(g, u) : TRUE

\* coalesce(a.target, link)
Target(aliases, u) == IF u \in DOMAIN aliases THEN aliases[u] ELSE u

\* The element id of a node that MERGE makes for u: one that is not in use.
NewNode(g, u) ==
    CHOOSE n \in {<<u, i>> : i \in 0 .. Cardinality(DOMAIN g.page)} : n \notin DOMAIN g.page

\* MERGE (p:Page {url: u}) for each URL u
WithPages(g, us) ==
    LET new == {NewNode(g, u) : u \in us \ PageURLs(g)}
    IN  [g EXCEPT !.page = [n \in DOMAIN @ \cup new |->
                               IF n \in DOMAIN @ THEN @[n] ELSE [url |-> n[1], at |-> 0]]]

\* DETACH DELETE
WithoutNodes(g, ns) ==
    [page  |-> Restrict(g.page, DOMAIN g.page \ ns),
     link  |-> {e \in g.link : e[1] \notin ns /\ e[2] \notin ns},
     alias |-> g.alias]

dropAliasOfPage(g, u) == [g EXCEPT !.alias = Restrict(@, DOMAIN @ \ {u})]

\* A page is stored with the crawl's properties and an edge to every link,
\* drawn to what the aliases read by the statement make of it.
upsertPage(g, crawl, targets) ==
    LET g1 == WithPages(g, {crawl.url} \cup targets)
        p  == TheNode(g1, crawl.url)
    IN  [page  |-> [g1.page EXCEPT ![p].at = crawl.at],
         link  |-> g1.link \cup {<<p, TheNode(g1, t)>> : t \in targets},
         alias |-> g1.alias]

recordAlias(g, alias, u) ==
    [g EXCEPT !.alias = [a \in DOMAIN @ \cup {alias} |->
                            IF a = alias \/ @[a] = alias THEN u ELSE @[a]]]

\* Mutant: edges between the nodes become self-loops.
FoldedWithLoops(g, olds, keep, u) ==
    LET moved(n) == IF n \in olds THEN keep ELSE n
    IN  [g EXCEPT !.link = {<<moved(e[1]), moved(e[2])>> : e \in @},
                  !.page = [n \in DOMAIN @ \ olds |-> @[n]]]

\* The nodes olds are folded into node keep, one after the other in the code:
\* edges move over, those between the nodes are dropped, the most recently
\* crawled properties win and keep is called u.
mergeNodeBody(g, olds, keep, u) ==
    LET all == olds \cup {keep}
        moved(n) == IF n \in olds THEN keep ELSE n
        newest == CHOOSE n \in all : \A o \in all : g.page[o].at <= g.page[n].at
    IN  [page  |-> [n \in DOMAIN g.page \ olds |->
                        IF n = keep THEN [url |-> u, at |-> g.page[newest].at] ELSE g.page[n]],
         link  |-> {e \in g.link : e[1] \notin olds /\ e[2] \notin olds}
                     \cup {<<moved(e[1]), moved(e[2])>> :
                             e \in {f \in g.link : f[1] \notin all \/ f[2] \notin all}},
         alias |-> g.alias]

\* Nothing is matched, and nothing done, when the alias is not a page.
mergeAliasNode(g, alias, u) ==
    IF alias \notin PageURLs(g)
        THEN g
        ELSE LET g1 == WithPages(g, {u})
             IN  mergeNodeBody(g1, NodesOf(g1, alias), TheNode(g1, u), u)

\* Mutant: the others are deleted, not folded.
KeepOnly(g, members, keep, u) == [WithoutNodes(g, members \ {keep}) EXCEPT !.page[keep].url = u]

\* The members of a spelling group end up in node keep, called u.
mergeGroup(g, members, keep, u) == mergeNodeBody(g, members \ {keep}, keep, u)

\* The whole transaction of one save. targets and folds are what its statements
\* read: where the links lead, and whether the alias was seen to be a page.
savePage(g, crawl, targets, folds) ==
    LET g1 == upsertPage(dropAliasOfPage(g, crawl.url), crawl, targets)
        a  == CHOOSE b \in crawl.aliases : TRUE
    IN  IF crawl.aliases = {}
            THEN g1
            ELSE recordAlias(IF folds THEN mergeAliasNode(g1, a, crawl.url) ELSE g1, a, crawl.url)

\* What a graph reader relies on -------------------------------------------

OneNodePerURL(g) == \A n, o \in DOMAIN g.page : g.page[n].url = g.page[o].url => n = o
NoSelfLoops(g) == \A e \in g.link : e[1] # e[2]
AliasesLeadToPages(g) == \A a \in DOMAIN g.alias : g.alias[a] \in PageURLs(g)
PagesAreNotAliases(g) == PageURLs(g) \cap DOMAIN g.alias = {}
=============================================================================
