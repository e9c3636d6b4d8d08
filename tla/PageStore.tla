------------------------------ MODULE PageStore ------------------------------
(***************************************************************************)
(* The life of the page graph: the process starts, EnsureSchema cleans up  *)
(* what an older version left behind, what stopped being a page is dropped *)
(* from the search index, and saver workers then write crawled pages in    *)
(* concurrent transactions. The process may die at any step of the start.  *)
(*                                                                         *)
(* Neo4j gives a transaction read-committed isolation. A save is split     *)
(* where that can be seen: what its links lead to is read, later the       *)
(* alias's node is looked for, then everything becomes visible at once.    *)
(* The locks that writes take are left out: they only remove interleavings *)
(* of the steps below.                                                     *)
(***************************************************************************)
EXTENDS PageGraph

CONSTANTS
    Canonical,   \* URLs -> URLs \cup {Unusable}: urlnorm.Canonical of this Version
    Unusable,    \* what Canonical answers for something that is not a URL
    Sibling,     \* URLs -> any: siblingKey
    Redirects,   \* URLs -> URLs: where the server redirects permanently
    Legacy,      \* stores a start may find: [graph, constrained, version]
    Version,     \* urlnorm.Version
    Crawls,      \* what a crawl may hand to a saver: [url, links, aliases]
    Savers,      \* saver workers
    MaxSaves,    \* bound: saves
    MaxCrashes   \* bound: crashes, timeouts and fatal errors of a start

IsCanonical(u) == Canonical[u] = u

\* What any graph of pages is.
GraphTypeOK(g) ==
    /\ g = [page |-> g.page, link |-> g.link, alias |-> g.alias]
    /\ IsFiniteSet(DOMAIN g.page) /\ g.page \in [DOMAIN g.page -> [url : URLs, at : Nat]]
    /\ g.link \subseteq (DOMAIN g.page) \X (DOMAIN g.page)
    /\ DOMAIN g.alias \subseteq URLs /\ g.alias \in [DOMAIN g.alias -> URLs]

\* All names are what this Version's normalizer produces.
IsClean(g) ==
    /\ \A u \in PageURLs(g) : Canonical[u] \in {u, Unusable}
    /\ \A a \in DOMAIN g.alias : IsCanonical(a) /\ IsCanonical(g.alias[a])

\* What an older version leaves: there were no aliases before the constraints, and
\* what its own normalizer produced is canonical.
IsLegacy(l) ==
    /\ GraphTypeOK(l.graph) /\ NoSelfLoops(l.graph) /\ AliasesLeadToPages(l.graph)
    /\ l.constrained \in BOOLEAN
    /\ IF l.constrained THEN OneNodePerURL(l.graph) ELSE DOMAIN l.graph.alias = {}
    /\ l.constrained /\ l.version = Version => IsClean(l.graph)

\* ResolveIdentity answers with a canonical URL, and cannot ask about a URL that
\* cannot be fetched. A fetched page has one other name at most (pageIdentity).
ASSUME PageStoreAssumption ==
    /\ Canonical \in [URLs -> URLs \cup {Unusable}] /\ Unusable \notin URLs
    /\ \A u \in URLs : Canonical[u] # Unusable => IsCanonical(Canonical[u])
    /\ Redirects \in [URLs -> URLs]
    /\ \A u \in URLs : Redirects[Redirects[u]] = Redirects[u]
    /\ \A u \in URLs : Redirects[u] # u => Canonical[u] # Unusable /\ IsCanonical(Redirects[u])
    /\ \A l \in Legacy : IsLegacy(l)
    /\ \A c \in Crawls : /\ c.url \in URLs
                         /\ c.links \subseteq URLs /\ IsFiniteSet(c.links)
                         /\ c.aliases \subseteq URLs \ {c.url}
                         /\ \A a, b \in c.aliases : a = b
    /\ MaxSaves \in Nat /\ MaxCrashes \in Nat

VARIABLES
    graph,     \* the committed graph
    meta,      \* [constrained, version]: the page_url constraint, the Schema node
    pc,        \* "look", "spellings", "redirects", "constraints", "version", "dropping", "serving"
    todo,      \* groups to merge, then URLs to ask the server about
    removed,   \* the URLs that stopped being pages, to be dropped from the index
    index,     \* URLs with text in the search index
    tx,        \* saver -> its transaction: [pc, crawl, targets, folds]
    saves,     \* saves begun
    crashes,   \* starts that died
    legacy,    \* the graph the first start found
    blurred,   \* a page may be an alias too: in the old graph one is, saves
               \* overlapped, or a rename hit an alias
    forgotten  \* a start died, or a drop failed, with URLs to drop from the index

vars == <<graph, meta, pc, todo, removed, index, tx, saves, crashes, legacy, blurred, forgotten>>

NoTx == [pc |-> "idle"]

Init ==
    \E l \in Legacy :
        /\ graph = l.graph /\ legacy = l.graph
        /\ meta = [constrained |-> l.constrained, version |-> l.version]
        /\ index = {l.graph.page[n].url : n \in {m \in DOMAIN l.graph.page : l.graph.page[m].at > 0}}
        /\ pc = "look" /\ todo = {} /\ removed = {}
        /\ tx = [s \in Savers |-> NoTx]
        /\ saves = 0 /\ crashes = 0
        /\ blurred = ~PagesAreNotAliases(l.graph) /\ forgotten = FALSE

------------------------------------------------------------------------------
\* The start: EnsureSchema and initGraphSchema

crawling == <<tx, saves, legacy>>

\* Mutant: exact duplicates of a canonical URL are not taken for a group.
GroupsOfSpellings(g) ==
    {grp \in {[url |-> c, members |-> {n \in DOMAIN g.page : Canonical[g.page[n].url] = c}] : c \in URLs} :
        \E n \in grp.members : g.page[n].url # grp.url}

\* Spellings to fold: nodes by the canonical form of their URL, the groups that
\* are one node already called that left out.
SpellingGroups(g) ==
    {grp \in {[url |-> c, members |-> {n \in DOMAIN g.page : Canonical[g.page[n].url] = c}] : c \in URLs} :
        /\ grp.members # {}
        /\ \E n \in grp.members : grp.members # {n} \/ g.page[n].url # grp.url}

\* Placeholders whose URL can never be fetched; a crawled page is kept.
UnusablePlaceholders(g) ==
    {n \in DOMAIN g.page : Canonical[g.page[n].url] = Unusable /\ g.page[n].at = 0}

Look ==
    /\ pc = "look"
    /\ IF meta.constrained /\ meta.version = Version
           THEN pc' = "constraints" /\ UNCHANGED <<graph, todo>>
           ELSE /\ pc' = "spellings"
                /\ graph' = WithoutNodes(graph, UnusablePlaceholders(graph))
                /\ todo' = SpellingGroups(graph)
    /\ UNCHANGED <<meta, removed, index, crashes, blurred, forgotten, crawling>>

\* Mutant: a page that is only renamed is not reported.
NamesOfFolded(g, grp) ==
    IF Cardinality(grp.members) = 1 THEN {} ELSE {g.page[n].url : n \in grp.members} \ {grp.url}

NamesGone(g, grp) == {g.page[n].url : n \in grp.members} \ {grp.url}

\* The node already spelled canonically survives, any other when none is.
mergeSpellings ==
    /\ pc = "spellings"
    /\ \E grp \in todo : \E keep \in grp.members :
        /\ \/ graph.page[keep].url = grp.url
           \/ \A n \in grp.members : graph.page[n].url # grp.url
        /\ graph' = mergeGroup(graph, grp.members, keep, grp.url)
        /\ removed' = removed \cup NamesGone(graph, grp)
        /\ todo' = todo \ {grp}
        /\ blurred' = (blurred \/ grp.url \in DOMAIN graph.alias)
    /\ UNCHANGED <<pc, meta, index, crashes, forgotten, crawling>>

\* The URLs the server is asked about: those with a scheme or slash twin.
Twins(g) == {u \in PageURLs(g) : \E v \in PageURLs(g) \ {u} : Sibling[v] = Sibling[u]}

dropStaleAliases ==
    /\ pc = "spellings" /\ todo = {}
    /\ graph' = [graph EXCEPT !.alias =
                    Restrict(@, {a \in DOMAIN @ : IsCanonical(a) /\ IsCanonical(@[a])})]
    /\ IF meta.constrained
           THEN pc' = "constraints" /\ UNCHANGED todo
           ELSE pc' = "redirects" /\ todo' = Twins(graph)
    /\ UNCHANGED <<meta, removed, index, crashes, blurred, forgotten, crawling>>

\* The server answers for one twin, or the fetch fails.
mergeRedirects ==
    /\ pc = "redirects"
    /\ \E u \in todo, answered \in BOOLEAN :
        /\ todo' = todo \ {u}
        /\ IF answered /\ Redirects[u] # u
               THEN /\ graph' = recordAlias(mergeAliasNode(graph, u, Redirects[u]), u, Redirects[u])
                    /\ removed' = removed \cup {u}
               ELSE UNCHANGED <<graph, removed>>
    /\ UNCHANGED <<pc, meta, index, crashes, blurred, forgotten, crawling>>

RedirectsDone ==
    /\ pc = "redirects" /\ todo = {}
    /\ pc' = "constraints"
    /\ UNCHANGED <<graph, meta, todo, removed, index, crashes, blurred, forgotten, crawling>>

\* The store refuses the constraint while two nodes share a URL: logger.Fatal.
CreateConstraints ==
    /\ pc = "constraints"
    /\ IF OneNodePerURL(graph)
           THEN /\ meta' = [meta EXCEPT !.constrained = TRUE] /\ pc' = "version"
                /\ UNCHANGED <<removed, forgotten>>
           ELSE /\ pc' = "look" /\ removed' = {} /\ forgotten' = (forgotten \/ removed # {})
                /\ UNCHANGED meta
    /\ UNCHANGED <<graph, todo, index, crashes, blurred, crawling>>

RecordVersion ==
    /\ pc = "version"
    /\ meta' = [meta EXCEPT !.version = Version]
    /\ pc' = "dropping"
    /\ UNCHANGED <<graph, todo, removed, index, crashes, blurred, forgotten, crawling>>

\* The sink takes the empty document, or refuses it, which is only logged.
initGraphSchema ==
    /\ pc = "dropping"
    /\ \/ \E u \in removed, taken \in BOOLEAN :
            /\ removed' = removed \ {u}
            /\ index' = IF taken THEN index \ {u} ELSE index
            /\ forgotten' = (forgotten \/ ~taken)
            /\ UNCHANGED pc
       \/ /\ removed = {} /\ pc' = "serving"
          /\ UNCHANGED <<removed, index, forgotten>>
    /\ UNCHANGED <<graph, meta, todo, crashes, blurred, crawling>>

\* A crash, a failed statement or the 15 minutes of graphSchemaTimeout end the
\* process; what removed held dies with it.
StartDies ==
    /\ pc # "serving" /\ crashes < MaxCrashes
    /\ crashes' = crashes + 1
    /\ pc' = "look" /\ todo' = {} /\ removed' = {}
    /\ forgotten' = (forgotten \/ removed # {})
    /\ UNCHANGED <<graph, meta, index, blurred, crawling>>

Start ==
    \/ Look \/ mergeSpellings \/ dropStaleAliases \/ mergeRedirects \/ RedirectsDone
    \/ CreateConstraints \/ RecordVersion \/ initGraphSchema

------------------------------------------------------------------------------
\* Saver workers

starting == <<meta, pc, todo, removed, index, crashes, legacy, forgotten>>

\* A worker takes a page and its upsert reads the aliases of the page's links.
ReadAliases(s) ==
    /\ pc = "serving" /\ tx[s].pc = "idle" /\ saves < MaxSaves
    /\ \E c \in Crawls :
        LET crawl == [url |-> c.url, links |-> c.links, aliases |-> c.aliases, at |-> saves + 10]
        IN  tx' = [tx EXCEPT ![s] =
                     [pc |-> "read", crawl |-> crawl, folds |-> FALSE,
                      targets |-> {Target(dropAliasOfPage(graph, c.url).alias, l) : l \in c.links} \ {c.url}]]
    /\ saves' = saves + 1
    /\ blurred' = (blurred \/ \E o \in Savers : tx[o].pc # "idle")
    /\ UNCHANGED <<graph, starting>>

\* mergeAliasNode matches a node of the alias: a committed one, or one that the
\* upsert of its own transaction made for a link.
FindAliasNode(s) ==
    /\ tx[s].pc = "read"
    /\ tx' = [tx EXCEPT ![s] =
                 [pc |-> "folding", crawl |-> @.crawl, targets |-> @.targets,
                  folds |-> @.crawl.aliases \cap (PageURLs(graph) \cup @.targets) # {}]]
    /\ UNCHANGED <<graph, saves, blurred, starting>>

Commit(s) ==
    /\ tx[s].pc = "folding"
    /\ graph' = savePage(graph, tx[s].crawl, tx[s].targets, tx[s].folds)
    /\ tx' = [tx EXCEPT ![s] = NoTx]
    /\ UNCHANGED <<saves, blurred, starting>>

\* The five seconds are over, or the store aborts a deadlock: the page is logged
\* and dropped, nothing of the transaction stays.
SaveFails(s) ==
    /\ tx[s].pc # "idle"
    /\ tx' = [tx EXCEPT ![s] = NoTx]
    /\ UNCHANGED <<graph, saves, blurred, starting>>

Save(s) == ReadAliases(s) \/ FindAliasNode(s) \/ Commit(s) \/ SaveFails(s)

Next == Start \/ StartDies \/ \E s \in Savers : Save(s)

\* The start is one goroutine that is not waited for by anyone: it goes on.
Spec == Init /\ [][Next]_vars /\ WF_vars(Start)

------------------------------------------------------------------------------
\* Properties

\* Types, and what the unique constraint makes the store enforce.
TypeOK ==
    /\ GraphTypeOK(graph)
    /\ meta.constrained => OneNodePerURL(graph)
    /\ removed \subseteq URLs /\ index \subseteq URLs

\* No interleaving of saves, and no death of a start, leaves an alias that leads
\* nowhere or a page that links to itself: a link to an alias would be drawn to
\* a node MERGE makes up, and a self-loop would count towards the page's rank.
GraphIsSound ==
    /\ NoSelfLoops(graph)
    /\ pc = "serving" => AliasesLeadToPages(graph)

\* A URL is a page or an alias, never both, and aliases do not chain (the comment
\* above the queries in graph.go), as long as transactions do not overlap and the
\* normalizer's new spelling of a page is not an old alias.
PageOrAlias ==
    pc = "serving" /\ ~blurred =>
        /\ PagesAreNotAliases(graph)
        /\ \A a \in DOMAIN graph.alias : graph.alias[a] \notin DOMAIN graph.alias

\* Where a URL of the legacy graph lives after the start.
Identity(u) == IF Canonical[u] = Unusable THEN u ELSE Canonical[u]
Home(u) == IF Identity(u) \in PageURLs(graph) THEN Identity(u) ELSE Target(graph.alias, Identity(u))

\* Merging loses nothing: after a start, however often it died, each link
\* between two pages the old graph had is there under their present names, and
\* each present page has the most recent crawl of all its former names.
MigrationKeepsLinksAndCrawls ==
    pc = "serving" /\ saves = 0 =>
        LET URLOf(n) == Home(legacy.page[n].url)
            kept == DOMAIN legacy.page \ UnusablePlaceholders(legacy)
        IN  /\ \A e \in legacy.link :
                  e[1] \in kept /\ e[2] \in kept /\ URLOf(e[1]) # URLOf(e[2]) =>
                      <<TheNode(graph, URLOf(e[1])), TheNode(graph, URLOf(e[2]))>> \in graph.link
            /\ \A n \in kept : graph.page[TheNode(graph, URLOf(n))].at >= legacy.page[n].at

\* What stopped being a page is dropped from the search index (the comment of
\* EnsureSchema), unless the start died or the sink refused it in between.
IndexFollowsGraph ==
    pc = "serving" /\ saves = 0 /\ ~forgotten => index \subseteq PageURLs(graph)

\* A start gets through: whatever the old graph holds, and wherever earlier
\* starts died, the constraint can be created and pages are served.
StartGetsThrough == <>(pc = "serving")

\* What every reader of the graph relies on, at every moment: one node per URL,
\* links and aliases that lead to pages, and no URL that is both.
GraphIsConsistent == TypeOK /\ GraphIsSound /\ PageOrAlias

\* The start's merging of old names loses no link and no crawl, and leaves nothing
\* in the index that is not a page.
MigrationLosesNothing == MigrationKeepsLinksAndCrawls /\ IndexFollowsGraph
=============================================================================
