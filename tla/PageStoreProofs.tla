--------------------------- MODULE PageStoreProofs ---------------------------
(***************************************************************************)
(* The page graph for any URLs, any old graph, any crawls and savers: what *)
(* its readers rely on holds at every moment, and a start that merges old  *)
(* names loses nothing, however often it dies.                             *)
(***************************************************************************)
EXTENDS PageStore, FiniteSetTheorems, WellFoundedInduction, TLAPS

-----------------------------------------------------------------------------
(* The inductive invariant.                                                *)

\* Nodes that no start ever deletes as placeholders.
Solid(g) == DOMAIN g.page \ UnusablePlaceholders(g)

IdentityOf(g, n) == Identity(g.page[n].url)
Identities(g) == {IdentityOf(g, n) : n \in DOMAIN g.page}

\* Where a URL of the old graph lives while the start goes on: by identity, since
\* a spelling group may still be to be merged.
Lives(g, u) ==
    IF Identity(u) \in Identities(g) THEN Identity(u) ELSE Target(g.alias, Identity(u))

IsCrawl(c) ==
    /\ c.url \in URLs /\ c.aliases \subseteq URLs \ {c.url} /\ \A a, b \in c.aliases : a = b
    /\ c.at \in Nat

Types ==
    /\ TypeOK
    /\ pc \in {"look", "spellings", "redirects", "constraints", "version", "dropping", "serving"}
    /\ meta = [constrained |-> meta.constrained, version |-> meta.version]
    /\ meta.constrained \in BOOLEAN
    /\ blurred \in BOOLEAN /\ forgotten \in BOOLEAN
    /\ saves \in Nat
    /\ tx = [s \in Savers |-> tx[s]]
    /\ \A s \in Savers :
         tx[s] = NoTx \/
         /\ tx[s] = [pc |-> tx[s].pc, crawl |-> tx[s].crawl, folds |-> tx[s].folds, targets |-> tx[s].targets]
         /\ tx[s].pc \in {"read", "folding"} /\ IsCrawl(tx[s].crawl)
         /\ tx[s].targets \subseteq URLs \ {tx[s].crawl.url} /\ IsFiniteSet(tx[s].targets)
         /\ pc = "serving" /\ saves > 0 /\ tx[s].folds \in BOOLEAN

\* What is clean when, and what is still to be cleaned.
Cleaning ==
    /\ pc \in {"redirects", "constraints", "version", "dropping"} => IsClean(graph)
    /\ pc = "serving" /\ saves = 0 => IsClean(graph)
    /\ pc # "serving" /\ meta.constrained /\ meta.version = Version => IsClean(graph)
    /\ pc = "spellings" => ~(meta.constrained /\ meta.version = Version)
    /\ pc \in {"version", "dropping", "serving"} => meta.constrained
    /\ pc \in {"dropping", "serving"} => meta.version = Version
    /\ pc = "serving" => removed = {}

\* The groups are whole, and every usable name outside of them is canonical.
GroupsAreRight ==
    pc = "spellings" =>
        /\ \A grp \in todo :
             /\ grp = [url |-> grp.url, members |-> grp.members]
             /\ grp.url \in URLs
             /\ grp.members = {n \in DOMAIN graph.page : Canonical[graph.page[n].url] = grp.url}
        /\ \A n \in DOMAIN graph.page :
             \/ Canonical[graph.page[n].url] \in {graph.page[n].url, Unusable}
             \/ \E grp \in todo : n \in grp.members

\* Before there is the constraint, an alias is what the server redirects.
RedirectsAreRight ==
    /\ ~meta.constrained => \A a \in DOMAIN graph.alias :
         graph.alias[a] = Redirects[a] /\ Redirects[a] # a
    /\ pc = "redirects" => ~meta.constrained /\ todo \subseteq PageURLs(graph)

LeadsOn(g) ==
    /\ NoSelfLoops(g)
    /\ \A a \in DOMAIN g.alias : IsCanonical(g.alias[a]) => g.alias[a] \in PageURLs(g)

AliasesLead == LeadsOn(graph) /\ (pc = "serving" => AliasesLeadToPages(graph))

\* Saves that do not overlap: what the one transaction has read still holds.
OneAtATime ==
    ~blurred =>
        /\ PagesAreNotAliases(graph)
        /\ \A s, o \in Savers : tx[s].pc # "idle" /\ tx[o].pc # "idle" => s = o
        /\ \A s \in Savers : tx[s].pc # "idle" => tx[s].targets \cap DOMAIN graph.alias = {}
        /\ \A s \in Savers : tx[s].pc = "folding" =>
             tx[s].folds = (tx[s].crawl.aliases \cap (PageURLs(graph) \cup tx[s].targets) # {})

\* Every old page that is kept lives somewhere, with its crawl and its links.
PagesLive(g, old) ==
    \A n \in Solid(old) : \E m \in Solid(g) :
        IdentityOf(g, m) = Lives(g, old.page[n].url) /\ g.page[m].at >= old.page[n].at
LinksLive(g, old) ==
    \A e \in old.link :
        LET from == Lives(g, old.page[e[1]].url)
            to   == Lives(g, old.page[e[2]].url)
        IN  e[1] \in Solid(old) /\ e[2] \in Solid(old) /\ from # to =>
                \E n, m \in Solid(g) :
                    <<n, m>> \in g.link /\ IdentityOf(g, n) = from /\ IdentityOf(g, m) = to
NamesLead(g, old) ==
    \A n \in Solid(old) :
        LET u == Identity(old.page[n].url)
        IN  \/ u \in Identities(g)
            \/ u \in DOMAIN g.alias /\ IsCanonical(u) /\ IsCanonical(g.alias[u])
Migrated(g, old) == PagesLive(g, old) /\ LinksLive(g, old) /\ NamesLead(g, old)

HasPages(g, us) == \A u \in us : \E m \in Solid(g) : g.page[m].url = u

Migrating ==
    saves = 0 => Migrated(graph, legacy) /\ (~forgotten => HasPages(graph, index \ removed))

LegacyOK == GraphTypeOK(legacy)

IInv ==
    /\ Types /\ Cleaning /\ GroupsAreRight /\ RedirectsAreRight /\ AliasesLead
    /\ OneAtATime /\ Migrating /\ LegacyOK
-----------------------------------------------------------------------------
(* The statements on a graph.                                              *)

\* A non-empty set of naturals has one whose predecessor is not in it: the
\* induction of the least counterexample.
LEMMA LeastCase ==
    ASSUME NEW T, T \subseteq Nat, T # {}
    PROVE  \E x \in T : x - 1 \notin T
  <1> DEFINE R == OpToRel(<, Nat)
  <1>1. PICK x \in T : \A y \in T : ~ (<<y, x>> \in R)
    <2>1. IsWellFoundedOn(R, Nat)
      BY NatLessThanWellFounded
    <2> HIDE DEF R
    <2> QED BY <2>1, WFMin
  <1>2. \A y \in T : ~ (y < x)
    BY <1>1 DEF OpToRel
  <1> QED BY <1>2

\* What a statement leaves alone of a graph.
LEMMA GraphUpdate ==
    ASSUME NEW g, g = [page |-> g.page, link |-> g.link, alias |-> g.alias], NEW p, NEW a
    PROVE  /\ [g EXCEPT !.page = p] = [page |-> p, link |-> g.link, alias |-> g.alias]
           /\ [g EXCEPT !.alias = a] = [page |-> g.page, link |-> g.link, alias |-> a]
  <1> DEFINE page == g.page
             link == g.link
             alias == g.alias
  <1>1. g = [page |-> page, link |-> link, alias |-> alias]
    OBVIOUS
  <1> HIDE DEF page, link, alias
  <1>2. [g EXCEPT !.page = p] = [page |-> p, link |-> link, alias |-> alias]
    BY <1>1
  <1>3. [g EXCEPT !.alias = a] = [page |-> page, link |-> link, alias |-> a]
    BY <1>1
  <1> QED BY <1>2, <1>3 DEF page, link, alias

\* Of finitely many nodes one is the most recently crawled: else there is a
\* smallest number of nodes without one, and taking one away leaves fewer.
LEMMA SomeNewest ==
    ASSUME NEW S, IsFiniteSet(S), S # {}, NEW at, \A n \in S : at[n] \in Nat
    PROVE  \E n \in S : \A o \in S : at[o] <= at[n]
  <1> DEFINE HasNewest(T) == \E n \in T : \A o \in T : at[o] <= at[n]
             Bad == {T \in SUBSET S : T # {} /\ ~HasNewest(T)}
             Sizes == {Cardinality(T) : T \in Bad}
  <1>1. SUFFICES ASSUME Bad # {} PROVE FALSE
    OBVIOUS
  <1>2. \A T \in SUBSET S : IsFiniteSet(T) /\ Cardinality(T) \in Nat
    BY FS_Subset, FS_CardinalityType
  <1>3. Sizes \subseteq Nat /\ Sizes # {}
    BY <1>1, <1>2
  <1>4. PICK k \in Sizes : k - 1 \notin Sizes
    <2> HIDE DEF Sizes
    <2> QED BY <1>3, LeastCase
  <1>5. PICK T \in Bad : Cardinality(T) = k
    BY <1>4
  <1>6. PICK x \in T : TRUE
    BY <1>5
  <1>7. T \ {x} \in SUBSET S /\ Cardinality(T \ {x}) = k - 1
    BY <1>2, <1>5, <1>6, FS_RemoveElement
  <1>8. T \ {x} = {} \/ HasNewest(T \ {x})
    BY <1>4, <1>7
  <1>9. CASE T \ {x} = {}
    <2>1. T = {x} /\ at[x] \in Nat
      BY <1>5, <1>6, <1>9
    <2> QED BY <1>5, <2>1
  <1>10. CASE HasNewest(T \ {x})
    <2>1. PICK n \in T \ {x} : \A o \in T \ {x} : at[o] <= at[n]
      BY <1>10
    <2>2. at[x] \in Nat /\ at[n] \in Nat /\ \A o \in T : at[o] \in Nat
      BY <1>5, <1>6, <2>1
    <2>3. HasNewest(T)
      <3>1. CASE at[x] <= at[n]
        BY <2>1, <3>1
      <3>2. CASE at[n] <= at[x]
        BY <1>6, <2>1, <2>2, <3>2
      <3> QED BY <2>2, <3>1, <3>2
    <2> QED BY <1>5, <2>3
  <1> QED BY <1>8, <1>9, <1>10

\* MERGE always finds an element id: one more is tried than there are nodes.
LEMMA NewNodeIsNew ==
    ASSUME NEW g, IsFiniteSet(DOMAIN g.page), NEW u
    PROVE  NewNode(g, u) \notin DOMAIN g.page /\ NewNode(g, u)[1] = u
  <1> DEFINE c == Cardinality(DOMAIN g.page)
             f == [i \in 0 .. c |-> <<u, i>>]
  <1>1. c \in Nat
    BY FS_CardinalityType
  <1>2. IsFiniteSet(0 .. c) /\ Cardinality(0 .. c) = c + 1
    BY <1>1, FS_Interval
  <1>3. \E n \in {<<u, i>> : i \in 0 .. c} : n \notin DOMAIN g.page
    <2>1. SUFFICES ASSUME \A i \in 0 .. c : <<u, i>> \in DOMAIN g.page
                   PROVE  FALSE
      OBVIOUS
    <2>2. f \in [0 .. c -> DOMAIN g.page]
      BY <2>1
    <2>3. \E x, y \in 0 .. c : x # y /\ f[x] = f[y]
      <3> HIDE DEF f
      <3> QED BY <1>1, <1>2, <2>2, FS_PigeonHole
    <2> QED BY <2>3
  <1>4. \A n \in {<<u, i>> : i \in 0 .. c} : n[1] = u
    OBVIOUS
  <1> QED BY <1>3, <1>4 DEF NewNode

AddsPages(g, us, h) ==
    /\ GraphTypeOK(h)
    /\ h.link = g.link /\ h.alias = g.alias
    /\ DOMAIN g.page \subseteq DOMAIN h.page
    /\ \A n \in DOMAIN g.page : h.page[n] = g.page[n]
    /\ \A n \in DOMAIN h.page \ DOMAIN g.page :
         h.page[n].at = 0 /\ h.page[n].url \in us \ PageURLs(g)
    /\ PageURLs(h) = PageURLs(g) \cup us
    /\ OneNodePerURL(g) => OneNodePerURL(h)

\* MERGE of pages adds a node for each missing URL and changes nothing else.
LEMMA MergedPages ==
    ASSUME NEW g, GraphTypeOK(g), NEW us, us \subseteq URLs, IsFiniteSet(us)
    PROVE  AddsPages(g, us, WithPages(g, us))
  <1> DEFINE new == {NewNode(g, u) : u \in us \ PageURLs(g)}
             page == [n \in DOMAIN g.page \cup new |->
                         IF n \in DOMAIN g.page THEN g.page[n] ELSE [url |-> n[1], at |-> 0]]
             h == WithPages(g, us)
  <1>1. \A u \in us : NewNode(g, u) \notin DOMAIN g.page /\ NewNode(g, u)[1] = u
    BY NewNodeIsNew DEF GraphTypeOK
  <1>2. IsFiniteSet(new)
    <2>1. IsFiniteSet(us \ PageURLs(g))
      BY FS_Difference
    <2>2. [u \in us \ PageURLs(g) |-> NewNode(g, u)] \in Surjection(us \ PageURLs(g), new)
      BY DEF Surjection
    <2> QED BY <2>1, <2>2, FS_Surjection
  <1>3. h = [page |-> page, link |-> g.link, alias |-> g.alias]
    <2>1. h = [g EXCEPT !.page = page]
      BY DEF WithPages
    <2> HIDE DEF page, h
    <2> QED BY <2>1, GraphUpdate DEF GraphTypeOK
  <1>4. h.page = page /\ h.link = g.link /\ h.alias = g.alias
    BY <1>3
  <1>5. DOMAIN page = DOMAIN g.page \cup new /\ IsFiniteSet(DOMAIN page)
    BY <1>2, FS_Union DEF GraphTypeOK
  <1>6. \A n \in DOMAIN g.page : page[n] = g.page[n]
    OBVIOUS
  <1>7. \A u \in us \ PageURLs(g) :
          NewNode(g, u) \in DOMAIN page /\ page[NewNode(g, u)] = [url |-> u, at |-> 0]
    BY <1>1
  <1>8. page \in [DOMAIN page -> [url : URLs, at : Nat]]
    <2>1. \A n \in DOMAIN page : page[n] \in [url : URLs, at : Nat]
      <3>1. ASSUME NEW n \in DOMAIN g.page PROVE page[n] \in [url : URLs, at : Nat]
        BY <1>6, <3>1 DEF GraphTypeOK
      <3>2. ASSUME NEW n \in new PROVE page[n] \in [url : URLs, at : Nat]
        <4>1. PICK u \in us \ PageURLs(g) : n = NewNode(g, u)
          BY <3>2
        <4>2. page[n] = [url |-> u, at |-> 0] /\ u \in URLs
          BY <1>7, <4>1
        <4> QED BY <4>2
      <3> HIDE DEF page, new
      <3> QED BY <1>5, <3>1, <3>2
    <2>2. page = [n \in DOMAIN page |-> page[n]]
      OBVIOUS
    <2> HIDE DEF page
    <2> QED BY <2>1, <2>2
  <1>a. \A n \in new : \E u \in us \ PageURLs(g) : n = NewNode(g, u)
    OBVIOUS
  <1> HIDE DEF page, h, new
  <1>9. GraphTypeOK(h)
    BY <1>3, <1>4, <1>5, <1>8 DEF GraphTypeOK
  <1>10. \A n \in DOMAIN page \ DOMAIN g.page :
           \E u \in us \ PageURLs(g) : n = NewNode(g, u) /\ page[n] = [url |-> u, at |-> 0]
    BY <1>5, <1>7, <1>a
  <1>11. PageURLs(h) = PageURLs(g) \cup us
    <2>1. ASSUME NEW u \in PageURLs(g) \cup us
          PROVE  u \in PageURLs(h)
      <3>1. CASE u \in PageURLs(g)
        BY <1>4, <1>5, <1>6, <3>1 DEF PageURLs
      <3>2. CASE u \in us \ PageURLs(g)
        <4>1. NewNode(g, u) \in DOMAIN page /\ page[NewNode(g, u)] = [url |-> u, at |-> 0]
          BY <1>7, <3>2, Zenon
        <4>2. \E n \in DOMAIN page : page[n].url = u
          BY <4>1
        <4> QED BY <1>4, <4>2 DEF PageURLs
      <3> QED BY <3>1, <3>2
    <2>2. ASSUME NEW n \in DOMAIN page
          PROVE  page[n].url \in PageURLs(g) \cup us
      <3>1. CASE n \in DOMAIN g.page
        BY <1>6, <3>1 DEF PageURLs
      <3>2. CASE n \notin DOMAIN g.page
        BY <1>10, <3>2
      <3> QED BY <3>1, <3>2
    <2> QED BY <1>4, <2>1, <2>2 DEF PageURLs
  <1>12. ASSUME OneNodePerURL(g) PROVE OneNodePerURL(h)
    <2>1. SUFFICES ASSUME NEW n \in DOMAIN page, NEW o \in DOMAIN page, page[n].url = page[o].url
                   PROVE  n = o
      BY <1>4 DEF OneNodePerURL
    <2>2. CASE n \in DOMAIN g.page /\ o \in DOMAIN g.page
      BY <1>6, <1>12, <2>1, <2>2 DEF OneNodePerURL
    <2>3. CASE n \in DOMAIN g.page /\ o \notin DOMAIN g.page
      <3>1. PICK u \in us \ PageURLs(g) : page[o] = [url |-> u, at |-> 0]
        BY <1>10, <2>3
      <3> QED BY <1>6, <2>1, <2>3, <3>1 DEF PageURLs
    <2>4. CASE n \notin DOMAIN g.page /\ o \in DOMAIN g.page
      <3>1. PICK u \in us \ PageURLs(g) : page[n] = [url |-> u, at |-> 0]
        BY <1>10, <2>4
      <3> QED BY <1>6, <2>1, <2>4, <3>1 DEF PageURLs
    <2>5. CASE n \notin DOMAIN g.page /\ o \notin DOMAIN g.page
      <3>1. PICK u \in us \ PageURLs(g) : n = NewNode(g, u) /\ page[n] = [url |-> u, at |-> 0]
        BY <1>10, <2>5
      <3>2. PICK v \in us \ PageURLs(g) : o = NewNode(g, v) /\ page[o] = [url |-> v, at |-> 0]
        BY <1>10, <2>5
      <3> QED BY <2>1, <3>1, <3>2
    <2> QED BY <2>2, <2>3, <2>4, <2>5
  <1>13. \A n \in DOMAIN page \ DOMAIN g.page : page[n].at = 0 /\ page[n].url \in us \ PageURLs(g)
    BY <1>10
  <1>14. DOMAIN g.page \subseteq DOMAIN page
    BY <1>5
  <1> QED BY <1>4, <1>6, <1>9, <1>11, <1>12, <1>13, <1>14 DEF h, AddsPages

FoldsInto(g, olds, keep, u, h) ==
    LET all == olds \cup {keep}
        moved(n) == IF n \in olds THEN keep ELSE n
    IN  /\ GraphTypeOK(h)
        /\ h.alias = g.alias
        /\ DOMAIN h.page = DOMAIN g.page \ olds
        /\ h.page[keep].url = u
        /\ \A n \in all : h.page[keep].at >= g.page[n].at
        /\ \A n \in DOMAIN h.page \ {keep} : h.page[n] = g.page[n]
        /\ \A e \in g.link : e[1] \notin all \/ e[2] \notin all =>
             <<moved(e[1]), moved(e[2])>> \in h.link
        /\ NoSelfLoops(g) => NoSelfLoops(h)

\* Folding nodes into keep: what keep then is, and where everything else goes.
LEMMA FoldedNodes ==
    ASSUME NEW g, GraphTypeOK(g), NEW olds, olds \subseteq DOMAIN g.page,
           NEW keep \in DOMAIN g.page, keep \notin olds, NEW u \in URLs
    PROVE  FoldsInto(g, olds, keep, u, mergeNodeBody(g, olds, keep, u))
  <1> DEFINE h == mergeNodeBody(g, olds, keep, u)
             all == olds \cup {keep}
             moved(n) == IF n \in olds THEN keep ELSE n
             newest == CHOOSE n \in all : \A o \in all : g.page[o].at <= g.page[n].at
             page == [n \in DOMAIN g.page \ olds |->
                         IF n = keep THEN [url |-> u, at |-> g.page[newest].at] ELSE g.page[n]]
             link == {e \in g.link : e[1] \notin olds /\ e[2] \notin olds}
                       \cup {<<moved(e[1]), moved(e[2])>> :
                               e \in {f \in g.link : f[1] \notin all \/ f[2] \notin all}}
  <1>1. newest \in all /\ \A o \in all : g.page[o].at <= g.page[newest].at
    <2>1. IsFiniteSet(all)
      BY FS_Subset DEF GraphTypeOK
    <2>2. \A n \in all : g.page[n].at \in Nat
      BY DEF GraphTypeOK
    <2>3. \E n \in all : \A o \in all : g.page[o].at <= g.page[n].at
      <3> DEFINE at == [n \in all |-> g.page[n].at]
      <3>1. \A n \in all : at[n] \in Nat
        BY <2>2
      <3>2. all # {}
        OBVIOUS
      <3> HIDE DEF at, all
      <3>3. \E n \in all : \A o \in all : at[o] <= at[n]
        BY <2>1, <3>1, <3>2, SomeNewest
      <3> QED BY <3>3 DEF at
    <2> QED BY <2>3
  <1>2. h = [page |-> page, link |-> link, alias |-> g.alias]
    BY DEF mergeNodeBody
  <1>3. h.page = page /\ h.link = link /\ h.alias = g.alias
    BY <1>2
  <1>4. newest \in DOMAIN g.page /\ g.page[newest].at \in Nat
    BY <1>1 DEF GraphTypeOK
  <1> HIDE DEF newest, h
  <1>5. DOMAIN page = DOMAIN g.page \ olds
    OBVIOUS
  <1>6. page[keep] = [url |-> u, at |-> g.page[newest].at]
    OBVIOUS
  <1>7. \A n \in DOMAIN page \ {keep} : page[n] = g.page[n]
    OBVIOUS
  <1>8. page \in [DOMAIN page -> [url : URLs, at : Nat]] /\ IsFiniteSet(DOMAIN page)
    <2>1. IsFiniteSet(DOMAIN page)
      BY <1>5, FS_Difference DEF GraphTypeOK
    <2>2. \A n \in DOMAIN page : page[n] \in [url : URLs, at : Nat]
      BY <1>4, <1>5, <1>6, <1>7 DEF GraphTypeOK
    <2> HIDE DEF page
    <2>3. page = [n \in DOMAIN page |-> page[n]]
      BY DEF page
    <2> QED BY <2>1, <2>2, <2>3
  <1>9. link \subseteq (DOMAIN page) \X (DOMAIN page)
    BY <1>5 DEF GraphTypeOK
  <1>10. GraphTypeOK(h)
    <2> HIDE DEF page, link
    <2> QED BY <1>2, <1>3, <1>8, <1>9 DEF GraphTypeOK
  <1>11. ASSUME NEW e \in g.link, e[1] \notin all \/ e[2] \notin all
         PROVE  <<moved(e[1]), moved(e[2])>> \in h.link
    BY <1>3, <1>11
  <1>12. ASSUME NoSelfLoops(g) PROVE NoSelfLoops(h)
    <2>1. ASSUME NEW e \in g.link, e[1] \notin all \/ e[2] \notin all
          PROVE  moved(e[1]) # moved(e[2])
      BY <1>12, <2>1 DEF NoSelfLoops
    <2>2. ASSUME NEW e \in link PROVE e[1] # e[2]
      BY <1>12, <2>1, <2>2 DEF NoSelfLoops
    <2> QED BY <1>3, <2>2 DEF NoSelfLoops
  <1> HIDE DEF page, link
  <1> QED BY <1>1, <1>3, <1>5, <1>6, <1>7, <1>10, <1>11, <1>12 DEF h, FoldsInto

\* A URL that is a page has its node.
LEMMA TheNodeIsThere ==
    ASSUME NEW g, NEW u \in PageURLs(g)
    PROVE  TheNode(g, u) \in DOMAIN g.page /\ g.page[TheNode(g, u)].url = u
  BY DEF TheNode, NodesOf, PageURLs

RenamesPages(g, a, u, h) ==
    /\ GraphTypeOK(h)
    /\ h.alias = g.alias
    /\ PageURLs(h) = (PageURLs(g) \ {a}) \cup {u}
    /\ NoSelfLoops(g) => NoSelfLoops(h)
    /\ OneNodePerURL(g) => OneNodePerURL(h)
    /\ \E keep \in DOMAIN h.page :
         LET moved(n) == IF g.page[n].url = a THEN keep ELSE n
         IN  /\ h.page[keep].url = u
             /\ \A n \in DOMAIN g.page :
                  /\ moved(n) \in DOMAIN h.page
                  /\ h.page[moved(n)].at >= g.page[n].at
                  /\ g.page[n].url # a => h.page[n].url = g.page[n].url
             /\ \A e \in g.link : moved(e[1]) # moved(e[2]) =>
                  <<moved(e[1]), moved(e[2])>> \in h.link

\* Every node that is called the alias ends up in a node called u, with its crawl
\* and its edges; nothing else is renamed.
LEMMA MergedAlias ==
    ASSUME NEW g, GraphTypeOK(g), NEW a \in PageURLs(g), NEW u \in URLs, a # u
    PROVE  RenamesPages(g, a, u, mergeAliasNode(g, a, u))
  <1> DEFINE g1 == WithPages(g, {u})
             olds == NodesOf(g1, a)
             keep == TheNode(g1, u)
             all == olds \cup {keep}
             h == mergeAliasNode(g, a, u)
             moved(n) == IF g.page[n].url = a THEN keep ELSE n
             moved1(n) == IF n \in olds THEN keep ELSE n
  <1>1. h = mergeNodeBody(g1, olds, keep, u)
    BY DEF mergeAliasNode
  <1>2. /\ GraphTypeOK(g1) /\ g1.link = g.link /\ g1.alias = g.alias
        /\ DOMAIN g.page \subseteq DOMAIN g1.page
        /\ \A n \in DOMAIN g.page : g1.page[n] = g.page[n]
        /\ \A n \in DOMAIN g1.page \ DOMAIN g.page : g1.page[n].at = 0 /\ g1.page[n].url \in {u}
        /\ PageURLs(g1) = PageURLs(g) \cup {u}
        /\ OneNodePerURL(g) => OneNodePerURL(g1)
    <2>1. IsFiniteSet({u}) /\ {u} \subseteq URLs
      BY FS_Singleton
    <2>2. AddsPages(g, {u}, g1)
      BY <2>1, MergedPages
    <2> HIDE DEF g1
    <2> QED BY <2>2 DEF AddsPages
  <1>3. keep \in DOMAIN g1.page /\ g1.page[keep].url = u
    BY <1>2, TheNodeIsThere
  <1>4. olds \subseteq DOMAIN g1.page /\ keep \notin olds /\ \A n \in DOMAIN g1.page : n \in olds <=> g1.page[n].url = a
    BY <1>3 DEF NodesOf
  <1> HIDE DEF g1, olds, keep, h
  <1>5. /\ GraphTypeOK(h)
        /\ h.alias = g1.alias
        /\ DOMAIN h.page = DOMAIN g1.page \ olds
        /\ h.page[keep].url = u
        /\ \A n \in all : h.page[keep].at >= g1.page[n].at
        /\ \A n \in DOMAIN h.page \ {keep} : h.page[n] = g1.page[n]
        /\ \A e \in g1.link : e[1] \notin all \/ e[2] \notin all => <<moved1(e[1]), moved1(e[2])>> \in h.link
        /\ NoSelfLoops(g1) => NoSelfLoops(h)
    <2>1. FoldsInto(g1, olds, keep, u, h)
      BY <1>1, <1>2, <1>3, <1>4, FoldedNodes
    <2> QED BY <2>1 DEF FoldsInto
  <1>6. keep \in DOMAIN h.page
    BY <1>3, <1>4, <1>5
  <1>7. PageURLs(h) = (PageURLs(g) \ {a}) \cup {u}
    <2>1. ASSUME NEW n \in DOMAIN h.page
          PROVE  h.page[n].url \in (PageURLs(g) \ {a}) \cup {u}
      <3>1. CASE n = keep
        BY <1>5, <3>1
      <3>2. CASE n # keep
        <4>1. h.page[n].url = g1.page[n].url /\ n \in DOMAIN g1.page /\ n \notin olds
          BY <1>5, <3>2
        <4> QED BY <1>2, <1>4, <4>1 DEF PageURLs
      <3> QED BY <3>1, <3>2
    <2>2. ASSUME NEW v \in (PageURLs(g) \ {a}) \cup {u}
          PROVE  \E n \in DOMAIN h.page : h.page[n].url = v
      <3>1. CASE v = u
        BY <1>5, <1>6, <3>1
      <3>2. CASE v # u
        <4>1. PICK n \in DOMAIN g.page : g.page[n].url = v
          BY <3>2 DEF PageURLs
        <4>2. n \in DOMAIN g1.page /\ g1.page[n].url = v /\ n \notin olds /\ n # keep
          BY <1>2, <1>3, <1>4, <3>2, <4>1
        <4> QED BY <1>5, <4>2
      <3> QED BY <3>1, <3>2
    <2>3. PageURLs(h) \subseteq (PageURLs(g) \ {a}) \cup {u}
      BY <2>1 DEF PageURLs
    <2>4. \A v \in (PageURLs(g) \ {a}) \cup {u} : v \in PageURLs(h)
      <3> SUFFICES ASSUME NEW v \in (PageURLs(g) \ {a}) \cup {u} PROVE v \in PageURLs(h)
        OBVIOUS
      <3>1. PICK n \in DOMAIN h.page : h.page[n].url = v
        BY <2>2
      <3> QED BY <3>1 DEF PageURLs
    <2> QED BY <2>3, <2>4, Zenon
  <1>8. NoSelfLoops(g) => NoSelfLoops(h)
    BY <1>2, <1>5 DEF NoSelfLoops
  <1>9. ASSUME OneNodePerURL(g) PROVE OneNodePerURL(h)
    <2>1. OneNodePerURL(g1)
      BY <1>2, <1>9
    <2>2. \A n \in DOMAIN h.page : n \in DOMAIN g1.page /\ h.page[n].url = g1.page[n].url
      BY <1>3, <1>5
    <2> QED BY <2>1, <2>2 DEF OneNodePerURL
  <1>10. ASSUME NEW n \in DOMAIN g.page
         PROVE  /\ moved(n) \in DOMAIN h.page
                /\ h.page[moved(n)].at >= g.page[n].at
                /\ g.page[n].url # a => h.page[n].url = g.page[n].url
    <2>1. n \in DOMAIN g1.page /\ g1.page[n] = g.page[n] /\ g.page[n].at \in Nat
      BY <1>2 DEF GraphTypeOK
    <2>2. CASE g.page[n].url = a
      BY <1>4, <1>5, <1>6, <2>1, <2>2
    <2>3. CASE g.page[n].url # a /\ n = keep
      BY <1>3, <1>5, <1>6, <2>1, <2>3
    <2>4. CASE g.page[n].url # a /\ n # keep
      BY <1>4, <1>5, <2>1, <2>4
    <2> QED BY <2>2, <2>3, <2>4
  <1>11. ASSUME NEW e \in g.link, moved(e[1]) # moved(e[2])
         PROVE  <<moved(e[1]), moved(e[2])>> \in h.link
    <2>1. e[1] \in DOMAIN g.page /\ e[2] \in DOMAIN g.page
      BY DEF GraphTypeOK
    <2>2. moved(e[1]) = moved1(e[1]) /\ moved(e[2]) = moved1(e[2])
      BY <1>2, <1>4, <2>1
    <2>3. e[1] \notin all \/ e[2] \notin all
      BY <1>11, <2>2
    <2>4. e \in g1.link
      BY <1>2
    <2> QED BY <1>5, <2>2, <2>3, <2>4
  <1>12. h.alias = g.alias
    BY <1>2, <1>5
  <1> QED BY <1>5, <1>6, <1>7, <1>8, <1>9, <1>10, <1>11, <1>12 DEF h, RenamesPages

RecordsAlias(g, a, u, h) ==
    /\ GraphTypeOK(h) /\ h.page = g.page /\ h.link = g.link
    /\ DOMAIN h.alias = DOMAIN g.alias \cup {a}
    /\ h.alias[a] = u
    /\ \A b \in DOMAIN g.alias \ {a} : h.alias[b] = IF g.alias[b] = a THEN u ELSE g.alias[b]

\* recordAlias points the alias, and what pointed at it, to u.
LEMMA RecordedAlias ==
    ASSUME NEW g, GraphTypeOK(g), NEW a \in URLs, NEW u \in URLs
    PROVE  RecordsAlias(g, a, u, recordAlias(g, a, u))
  <1> DEFINE alias == [b \in DOMAIN g.alias \cup {a} |->
                          IF b = a \/ g.alias[b] = a THEN u ELSE g.alias[b]]
             h == recordAlias(g, a, u)
  <1>1. h = [page |-> g.page, link |-> g.link, alias |-> alias]
    <2>1. h = [g EXCEPT !.alias = alias]
      BY DEF recordAlias
    <2> HIDE DEF alias, h
    <2> QED BY <2>1, GraphUpdate DEF GraphTypeOK
  <1>2. h.page = g.page /\ h.link = g.link /\ h.alias = alias
    BY <1>1
  <1>3. alias \in [DOMAIN g.alias \cup {a} -> URLs]
    BY DEF GraphTypeOK
  <1>4. DOMAIN alias = DOMAIN g.alias \cup {a} /\ alias[a] = u
        /\ \A b \in DOMAIN g.alias \ {a} : alias[b] = IF g.alias[b] = a THEN u ELSE g.alias[b]
    OBVIOUS
  <1> HIDE DEF alias, h
  <1>5. GraphTypeOK(h)
    BY <1>1, <1>2, <1>3, <1>4 DEF GraphTypeOK
  <1> QED BY <1>2, <1>4, <1>5 DEF h, RecordsAlias

KeepsAliases(g, us, h) ==
    /\ GraphTypeOK(h) /\ h.page = g.page /\ h.link = g.link
    /\ DOMAIN h.alias = us \cap DOMAIN g.alias
    /\ \A b \in DOMAIN h.alias : h.alias[b] = g.alias[b]

\* Aliases are taken away one by one; the others are as they were.
LEMMA DroppedAlias ==
    ASSUME NEW g, GraphTypeOK(g), NEW us
    PROVE  KeepsAliases(g, us, [g EXCEPT !.alias = Restrict(g.alias, us \cap DOMAIN g.alias)])
  <1> DEFINE alias == Restrict(g.alias, us \cap DOMAIN g.alias)
             h == [g EXCEPT !.alias = alias]
  <1>1. h = [page |-> g.page, link |-> g.link, alias |-> alias]
    <2> HIDE DEF alias
    <2> QED BY GraphUpdate DEF GraphTypeOK
  <1>2. h.page = g.page /\ h.link = g.link /\ h.alias = alias
    BY <1>1
  <1>3. alias \in [us \cap DOMAIN g.alias -> URLs] /\ DOMAIN alias = us \cap DOMAIN g.alias
        /\ \A b \in DOMAIN alias : alias[b] = g.alias[b]
    BY DEF GraphTypeOK, Restrict
  <1> HIDE DEF alias, h
  <1>4. GraphTypeOK(h)
    BY <1>1, <1>2, <1>3 DEF GraphTypeOK
  <1> QED BY <1>2, <1>3, <1>4 DEF h, alias, KeepsAliases

UpsertsPages(g, us, h) ==
    /\ GraphTypeOK(h) /\ h.alias = g.alias
    /\ PageURLs(h) = PageURLs(g) \cup us
    /\ NoSelfLoops(g) => NoSelfLoops(h)
    /\ OneNodePerURL(g) => OneNodePerURL(h)

\* upsertPage makes pages of the crawl's URL and of all targets, and no loop.
LEMMA UpsertedPage ==
    ASSUME NEW g, GraphTypeOK(g), NEW crawl, crawl.url \in URLs, crawl.at \in Nat,
           NEW targets, targets \subseteq URLs \ {crawl.url}, IsFiniteSet(targets)
    PROVE  UpsertsPages(g, {crawl.url} \cup targets, upsertPage(g, crawl, targets))
  <1> DEFINE us == {crawl.url} \cup targets
             g1 == WithPages(g, us)
             p == TheNode(g1, crawl.url)
             page == [g1.page EXCEPT ![p].at = crawl.at]
             link == g1.link \cup {<<p, TheNode(g1, t)>> : t \in targets}
             h == upsertPage(g, crawl, targets)
  <1>1. us \subseteq URLs /\ IsFiniteSet(us)
    BY FS_Singleton, FS_Union
  <1>2. AddsPages(g, us, g1)
    <2> HIDE DEF us
    <2> QED BY <1>1, MergedPages
  <1>3. h = [page |-> page, link |-> link, alias |-> g1.alias]
    BY DEF upsertPage
  <1> HIDE DEF g1, h
  <1>a. /\ GraphTypeOK(g1) /\ g1.link = g.link /\ g1.alias = g.alias
        /\ PageURLs(g1) = PageURLs(g) \cup us
        /\ OneNodePerURL(g) => OneNodePerURL(g1)
    BY <1>2 DEF AddsPages
  <1>4. \A u \in us : TheNode(g1, u) \in DOMAIN g1.page /\ g1.page[TheNode(g1, u)].url = u
    BY <1>a, TheNodeIsThere
  <1>5. p \in DOMAIN g1.page /\ g1.page[p].url = crawl.url
    BY <1>4
  <1> HIDE DEF p, us
  <1>6. /\ DOMAIN page = DOMAIN g1.page /\ page \in [DOMAIN page -> [url : URLs, at : Nat]]
        /\ \A n \in DOMAIN page : page[n].url = g1.page[n].url
    BY <1>a, <1>5 DEF GraphTypeOK
  <1>7. link \subseteq (DOMAIN page) \X (DOMAIN page)
    BY <1>a, <1>4, <1>5, <1>6 DEF GraphTypeOK, us
  <1>8. h.page = page /\ h.link = link /\ h.alias = g1.alias
    BY <1>3
  <1> HIDE DEF page
  <1>9. GraphTypeOK(h)
    <2> HIDE DEF link
    <2> QED BY <1>a, <1>3, <1>6, <1>7, <1>8 DEF GraphTypeOK
  <1>10. PageURLs(h) = PageURLs(g1)
    BY <1>6, <1>8 DEF PageURLs
  <1>11. ASSUME NoSelfLoops(g) PROVE NoSelfLoops(h)
    <2>1. \A t \in targets : p # TheNode(g1, t)
      BY <1>4, <1>5 DEF us
    <2>2. \A e \in link : e[1] # e[2]
      BY <1>a, <1>11, <2>1 DEF NoSelfLoops
    <2> QED BY <1>8, <2>2 DEF NoSelfLoops
  <1>12. OneNodePerURL(g) => OneNodePerURL(h)
    BY <1>a, <1>6, <1>8 DEF OneNodePerURL
  <1>13. PageURLs(h) = PageURLs(g) \cup {crawl.url} \cup targets
    BY <1>a, <1>10 DEF us
  <1> QED BY <1>a, <1>8, <1>9, <1>11, <1>12, <1>13 DEF h, us, UpsertsPages

\* The graph after a save: us are the URLs of the crawl and of its targets.
SavesPage(g, crawl, us, folds, h) ==
    /\ GraphTypeOK(h)
    /\ PageURLs(h) = IF folds THEN (PageURLs(g) \cup us) \ crawl.aliases ELSE PageURLs(g) \cup us
    /\ DOMAIN h.alias = (DOMAIN g.alias \ {crawl.url}) \cup crawl.aliases
    /\ \A b \in DOMAIN h.alias :
         h.alias[b] = IF b \in crawl.aliases \/ g.alias[b] \in crawl.aliases THEN crawl.url ELSE g.alias[b]
    /\ NoSelfLoops(g) => NoSelfLoops(h)
    /\ OneNodePerURL(g) => OneNodePerURL(h)

\* What the statements of a save do together.
LEMMA SavedPage ==
    ASSUME NEW g, GraphTypeOK(g), NEW crawl, IsCrawl(crawl), NEW folds \in BOOLEAN,
           NEW targets, targets \subseteq URLs \ {crawl.url}, IsFiniteSet(targets)
    PROVE  SavesPage(g, crawl, {crawl.url} \cup targets, folds, savePage(g, crawl, targets, folds))
  <1> DEFINE us == {crawl.url} \cup targets
             kept == DOMAIN g.alias \ {crawl.url}
             g0 == dropAliasOfPage(g, crawl.url)
             g1 == upsertPage(g0, crawl, targets)
             a == CHOOSE b \in crawl.aliases : TRUE
             g2 == IF folds THEN mergeAliasNode(g1, a, crawl.url) ELSE g1
             h == savePage(g, crawl, targets, folds)
  <1>1. KeepsAliases(g, kept, g0)
    <2>1. g0 = [g EXCEPT !.alias = Restrict(g.alias, kept \cap DOMAIN g.alias)]
      BY DEF dropAliasOfPage
    <2> HIDE DEF kept, g0
    <2> QED BY <2>1, DroppedAlias
  <1>2. /\ GraphTypeOK(g0) /\ g0.page = g.page /\ g0.link = g.link
        /\ DOMAIN g0.alias = kept
        /\ \A b \in kept : g0.alias[b] = g.alias[b]
    BY <1>1 DEF KeepsAliases
  <1> HIDE DEF g0
  <1>3. UpsertsPages(g0, us, g1)
    BY <1>2, UpsertedPage DEF IsCrawl
  <1>4. PageURLs(g0) = PageURLs(g)
    BY <1>2 DEF PageURLs
  <1>5. /\ GraphTypeOK(g1) /\ g1.alias = g0.alias
        /\ PageURLs(g1) = PageURLs(g) \cup us
        /\ NoSelfLoops(g) => NoSelfLoops(g1)
        /\ OneNodePerURL(g) => OneNodePerURL(g1)
    BY <1>2, <1>3, <1>4 DEF UpsertsPages, NoSelfLoops, OneNodePerURL
  <1> HIDE DEF g1
  <1>6. CASE crawl.aliases = {}
    <2>1. h = g1
      BY <1>6 DEF savePage, g1, g0
    <2> HIDE DEF h
    <2>2. PageURLs(h) = IF folds THEN (PageURLs(g) \cup us) \ crawl.aliases ELSE PageURLs(g) \cup us
      BY <1>5, <1>6, <2>1
    <2>3. /\ DOMAIN h.alias = (DOMAIN g.alias \ {crawl.url}) \cup crawl.aliases
          /\ \A b \in DOMAIN h.alias :
               h.alias[b] = IF b \in crawl.aliases \/ g.alias[b] \in crawl.aliases THEN crawl.url ELSE g.alias[b]
      BY <1>2, <1>5, <1>6, <2>1
    <2> QED BY <1>5, <2>1, <2>2, <2>3 DEF SavesPage, h
  <1>7. CASE crawl.aliases # {}
    <2>1. a \in URLs /\ a # crawl.url /\ crawl.aliases = {a}
      BY <1>7 DEF IsCrawl
    <2>2. h = recordAlias(g2, a, crawl.url)
      BY <1>7 DEF savePage, g1, g0
    <2> HIDE DEF a, g2, h
    <2>3. /\ GraphTypeOK(g2) /\ g2.alias = g1.alias
          /\ PageURLs(g2) = IF folds THEN (PageURLs(g) \cup us) \ {a} ELSE PageURLs(g) \cup us
          /\ NoSelfLoops(g1) => NoSelfLoops(g2)
          /\ OneNodePerURL(g1) => OneNodePerURL(g2)
      <3>1. CASE ~folds \/ a \notin PageURLs(g1)
        <4>1. g2 = g1
          BY <3>1 DEF g2, mergeAliasNode
        <4> QED BY <1>5, <3>1, <4>1
      <3>2. CASE folds /\ a \in PageURLs(g1)
        <4>1. crawl.url \in URLs
          BY DEF IsCrawl
        <4>2. RenamesPages(g1, a, crawl.url, g2)
          BY <1>5, <2>1, <3>2, <4>1, MergedAlias DEF g2
        <4>3. PageURLs(g2) = (PageURLs(g1) \ {a}) \cup {crawl.url}
          BY <4>2 DEF RenamesPages
        <4>4. PageURLs(g2) = (PageURLs(g) \cup us) \ {a}
          BY <1>5, <2>1, <4>3
        <4> QED BY <3>2, <4>2, <4>4 DEF RenamesPages
      <3> QED BY <3>1, <3>2
    <2>4. RecordsAlias(g2, a, crawl.url, h)
      BY <2>1, <2>2, <2>3, RecordedAlias DEF IsCrawl
    <2>5. /\ GraphTypeOK(h) /\ h.page = g2.page /\ h.link = g2.link
          /\ DOMAIN h.alias = kept \cup {a}
          /\ h.alias[a] = crawl.url
          /\ \A b \in kept \ {a} : h.alias[b] = IF g.alias[b] = a THEN crawl.url ELSE g.alias[b]
      BY <1>2, <1>5, <2>3, <2>4 DEF RecordsAlias
    <2>6. PageURLs(h) = PageURLs(g2)
      BY <2>5 DEF PageURLs
    <2>7. NoSelfLoops(g2) => NoSelfLoops(h)
      BY <2>5 DEF NoSelfLoops
    <2>8. OneNodePerURL(g2) => OneNodePerURL(h)
      BY <2>5 DEF OneNodePerURL
    <2>9. \A b \in DOMAIN h.alias :
            h.alias[b] = IF b \in crawl.aliases \/ g.alias[b] \in crawl.aliases THEN crawl.url ELSE g.alias[b]
      BY <2>1, <2>5
    <2>10. PageURLs(h) = IF folds THEN (PageURLs(g) \cup us) \ crawl.aliases ELSE PageURLs(g) \cup us
      BY <2>1, <2>3, <2>6
    <2>a. DOMAIN h.alias = (DOMAIN g.alias \ {crawl.url}) \cup crawl.aliases
      BY <2>1, <2>5
    <2> QED BY <1>5, <2>3, <2>5, <2>7, <2>8, <2>9, <2>a, <2>10 DEF SavesPage, h
  <1> QED BY <1>6, <1>7

-----------------------------------------------------------------------------
(* What each step of the start does to a graph that still remembers the old *)
(* one.                                                                    *)

\* What a name is identified by is its own identity, and a canonical name is it.
LEMMA Identified ==
    ASSUME NEW u \in URLs
    PROVE  /\ Identity(u) \in URLs
           /\ Canonical[u] \in URLs => Identity(u) = Canonical[u] /\ IsCanonical(Canonical[u])
           /\ Canonical[u] \in {u, Unusable} => Identity(u) = u
           /\ IsCanonical(u) => Canonical[u] # Unusable
  BY PageStoreAssumption DEF Identity, IsCanonical

\* Node n of g is mv[n] in h, and what was called u is called ren[u].
Moves(g, h, old, mv, ren) ==
    /\ \A n \in Solid(g) : /\ mv[n] \in Solid(h)
                           /\ IdentityOf(h, mv[n]) = ren[IdentityOf(g, n)]
                           /\ h.page[mv[n]].at >= g.page[n].at
    /\ \A n \in Solid(old) : Lives(h, old.page[n].url) = ren[Lives(g, old.page[n].url)]
    /\ \A n, m \in Solid(g) :
         <<n, m>> \in g.link /\ ren[IdentityOf(g, n)] # ren[IdentityOf(g, m)] =>
           <<mv[n], mv[m]>> \in h.link

\* When a graph's nodes move, the old graph's links and crawls go with them.
LEMMA MovedAlong ==
    ASSUME NEW g, GraphTypeOK(g), NEW h, GraphTypeOK(h), NEW old, GraphTypeOK(old),
           PagesLive(g, old), LinksLive(g, old), NEW mv, NEW ren, Moves(g, h, old, mv, ren)
    PROVE  PagesLive(h, old) /\ LinksLive(h, old)
  <1>1. ASSUME NEW n \in Solid(old)
        PROVE  \E m \in Solid(h) :
                 IdentityOf(h, m) = Lives(h, old.page[n].url) /\ h.page[m].at >= old.page[n].at
    <2>1. PICK m \in Solid(g) :
            IdentityOf(g, m) = Lives(g, old.page[n].url) /\ g.page[m].at >= old.page[n].at
      BY DEF PagesLive
    <2>2. g.page[m].at \in Nat /\ h.page[mv[m]].at \in Nat /\ old.page[n].at \in Nat
      BY DEF GraphTypeOK, Solid, Moves
    <2>3. h.page[mv[m]].at >= old.page[n].at
      BY <2>1, <2>2 DEF Moves
    <2>4. IdentityOf(h, mv[m]) = Lives(h, old.page[n].url) /\ mv[m] \in Solid(h)
      BY <2>1 DEF Moves
    <2> QED BY <2>3, <2>4
  <1>2. ASSUME NEW e \in old.link, e[1] \in Solid(old), e[2] \in Solid(old),
               Lives(h, old.page[e[1]].url) # Lives(h, old.page[e[2]].url)
        PROVE  \E n, m \in Solid(h) :
                 /\ <<n, m>> \in h.link
                 /\ IdentityOf(h, n) = Lives(h, old.page[e[1]].url)
                 /\ IdentityOf(h, m) = Lives(h, old.page[e[2]].url)
    <2> DEFINE from == Lives(g, old.page[e[1]].url)
               to == Lives(g, old.page[e[2]].url)
    <2>1. /\ ren[from] = Lives(h, old.page[e[1]].url)
          /\ ren[to] = Lives(h, old.page[e[2]].url)
      BY <1>2 DEF Moves
    <2>2. from # to
      BY <1>2, <2>1
    <2>3. PICK n, m \in Solid(g) : <<n, m>> \in g.link /\ IdentityOf(g, n) = from /\ IdentityOf(g, m) = to
      BY <1>2, <2>2 DEF LinksLive
    <2> HIDE DEF from, to
    <2>4. <<mv[n], mv[m]>> \in h.link
      BY <1>2, <2>1, <2>3 DEF Moves
    <2>5. mv[n] \in Solid(h) /\ mv[m] \in Solid(h)
          /\ IdentityOf(h, mv[n]) = ren[from] /\ IdentityOf(h, mv[m]) = ren[to]
      BY <2>3 DEF Moves
    <2> QED BY <2>1, <2>4, <2>5
  <1> QED BY <1>1, <1>2 DEF PagesLive, LinksLive

\* The placeholders that go are nothing that is kept, and no alias needs them.
LEMMA PlaceholdersGo ==
    ASSUME NEW g, GraphTypeOK(g), LeadsOn(g), NEW old, GraphTypeOK(old), NEW us
    PROVE  LET h == WithoutNodes(g, UnusablePlaceholders(g))
           IN  /\ GraphTypeOK(h) /\ LeadsOn(h)
               /\ h.alias = g.alias
               /\ DOMAIN h.page = Solid(g)
               /\ \A n \in DOMAIN h.page : h.page[n] = g.page[n]
               /\ Migrated(g, old) => Migrated(h, old)
               /\ HasPages(g, us) => HasPages(h, us)
  <1> DEFINE ns == UnusablePlaceholders(g)
             h == WithoutNodes(g, ns)
  <1>1. /\ h.page = Restrict(g.page, DOMAIN g.page \ ns)
        /\ h.link = {e \in g.link : e[1] \notin ns /\ e[2] \notin ns}
        /\ h.alias = g.alias
        /\ h = [page |-> h.page, link |-> h.link, alias |-> h.alias]
    BY DEF WithoutNodes
  <1> HIDE DEF h
  <1>2. DOMAIN h.page = Solid(g) /\ \A n \in DOMAIN h.page : h.page[n] = g.page[n]
    BY <1>1 DEF Restrict, Solid
  <1>3. h.page \in [Solid(g) -> [url : URLs, at : Nat]]
    <2>1. h.page = [n \in Solid(g) |-> g.page[n]]
      BY <1>1 DEF Restrict, Solid
    <2> QED BY <2>1 DEF GraphTypeOK, Solid
  <1>4. IsFiniteSet(DOMAIN h.page)
    <2>1. Solid(g) \subseteq DOMAIN g.page
      BY DEF Solid
    <2> QED BY <1>2, <2>1, FS_Subset DEF GraphTypeOK
  <1>5. h.link \subseteq (DOMAIN h.page) \X (DOMAIN h.page)
    BY <1>1, <1>2 DEF GraphTypeOK, Solid
  <1>6. GraphTypeOK(h)
    BY <1>1, <1>2, <1>3, <1>4, <1>5 DEF GraphTypeOK
  <1>7. LeadsOn(h)
    <2>1. ASSUME NEW a \in DOMAIN g.alias, IsCanonical(g.alias[a])
          PROVE  g.alias[a] \in PageURLs(h)
      <3>1. PICK n \in DOMAIN g.page : g.page[n].url = g.alias[a]
        BY <2>1 DEF LeadsOn, PageURLs
      <3>2. Canonical[g.alias[a]] # Unusable
        BY <2>1, Identified DEF GraphTypeOK
      <3>3. n \in Solid(g)
        BY <3>1, <3>2 DEF Solid, UnusablePlaceholders
      <3>4. \E m \in DOMAIN h.page : h.page[m].url = g.alias[a]
        BY <1>2, <3>1, <3>3
      <3> QED BY <3>4 DEF PageURLs
    <2> QED BY <1>1, <2>1 DEF LeadsOn, NoSelfLoops
  <1>8. Solid(h) = Solid(g)
    BY <1>2 DEF Solid, UnusablePlaceholders
  <1>9. \A n \in Solid(g) : IdentityOf(h, n) = IdentityOf(g, n) /\ h.page[n] = g.page[n]
    BY <1>2 DEF IdentityOf
  <1>10. ASSUME Migrated(g, old) PROVE Migrated(h, old)
    <2>1. ASSUME NEW n \in Solid(old)
          PROVE  LET u == Identity(old.page[n].url)
                 IN  /\ Lives(h, old.page[n].url) = Lives(g, old.page[n].url)
                     /\ u \in Identities(g) => u \in Identities(h)
      <3> DEFINE u == Identity(old.page[n].url)
      <3>1. \A v \in Identities(h) : v \in Identities(g)
        BY <1>2, <1>9 DEF Identities, Solid
      <3>2. CASE u \in Identities(g)
        <4>1. Lives(g, old.page[n].url) = u
          BY <3>2 DEF Lives
        <4>2. PICK m \in Solid(g) : IdentityOf(g, m) = u
          BY <1>10, <2>1, <4>1 DEF Migrated, PagesLive
        <4>3. \E o \in DOMAIN h.page : IdentityOf(h, o) = u
          BY <1>2, <1>9, <4>2
        <4> HIDE DEF u
        <4>4. u \in Identities(h)
          BY <4>3 DEF Identities
        <4> QED BY <4>1, <4>4 DEF Lives, u
      <3>3. CASE u \notin Identities(g)
        BY <1>1, <3>1, <3>3 DEF Lives
      <3> QED BY <3>2, <3>3
    <2>2. NamesLead(h, old)
      BY <1>1, <1>10, <2>1 DEF NamesLead, Migrated
    <2> DEFINE mv == [n \in Solid(g) |-> n]
               ren == [v \in URLs |-> v]
    <2>3. \A n \in Solid(g) : IdentityOf(g, n) \in URLs
      BY Identified DEF GraphTypeOK, Solid, IdentityOf
    <2>4. \A n \in Solid(old) : Lives(g, old.page[n].url) \in URLs
      BY <1>10, <2>3 DEF Migrated, PagesLive
    <2>5. \A n \in Solid(g) : /\ mv[n] \in Solid(h)
                              /\ IdentityOf(h, mv[n]) = ren[IdentityOf(g, n)]
                              /\ h.page[mv[n]].at >= g.page[n].at
      <3>1. \A n \in Solid(g) : g.page[n].at \in Nat
        BY DEF GraphTypeOK, Solid
      <3> QED BY <1>8, <1>9, <2>3, <3>1
    <2>6. \A n \in Solid(old) : Lives(h, old.page[n].url) = ren[Lives(g, old.page[n].url)]
      BY <2>1, <2>4
    <2>7. \A n, m \in Solid(g) :
             <<n, m>> \in g.link /\ ren[IdentityOf(g, n)] # ren[IdentityOf(g, m)] =>
               <<mv[n], mv[m]>> \in h.link
      BY <1>1 DEF Solid
    <2> HIDE DEF mv, ren
    <2>8. Moves(g, h, old, mv, ren)
      BY <2>5, <2>6, <2>7 DEF Moves
    <2>9. PagesLive(h, old) /\ LinksLive(h, old)
      BY <1>6, <1>10, <2>8, MovedAlong DEF Migrated
    <2> QED BY <2>2, <2>9 DEF Migrated
  <1>11. HasPages(g, us) => HasPages(h, us)
    BY <1>8, <1>9 DEF HasPages
  <1> QED BY <1>1, <1>2, <1>6, <1>7, <1>10, <1>11 DEF h

MergesGroup(g, grp, keep, h) ==
    /\ GraphTypeOK(h) /\ LeadsOn(h)
    /\ h.alias = g.alias
    /\ DOMAIN h.page = DOMAIN g.page \ (grp.members \ {keep})
    /\ h.page[keep].url = grp.url
    /\ \A n \in DOMAIN h.page \ {keep} : h.page[n] = g.page[n]
    /\ OneNodePerURL(g) => OneNodePerURL(h)

\* A whole spelling group becomes its node keep: every node keeps its identity.
LEMMA GroupMerged ==
    ASSUME NEW g, GraphTypeOK(g), LeadsOn(g), NEW old, GraphTypeOK(old), NEW us,
           NEW grp, grp.url \in URLs,
           grp.members = {n \in DOMAIN g.page : Canonical[g.page[n].url] = grp.url},
           NEW keep \in grp.members
    PROVE  LET h == mergeGroup(g, grp.members, keep, grp.url)
           IN  /\ MergesGroup(g, grp, keep, h)
               /\ Migrated(g, old) => Migrated(h, old)
               /\ HasPages(g, us) => HasPages(h, us \ NamesGone(g, grp))
  <1> DEFINE c == grp.url
             members == grp.members
             olds == members \ {keep}
             h == mergeGroup(g, members, keep, c)
             mv == [n \in DOMAIN g.page |-> IF n \in members THEN keep ELSE n]
             ren == [v \in URLs |-> v]
  <1>1. keep \in DOMAIN g.page /\ olds \subseteq DOMAIN g.page /\ keep \notin olds
    OBVIOUS
  <1>2. FoldsInto(g, olds, keep, c, h)
    BY <1>1, FoldedNodes DEF mergeGroup
  <1>3. IsCanonical(c)
    <2>1. g.page[keep].url \in URLs /\ Canonical[g.page[keep].url] = c
      BY <1>1 DEF GraphTypeOK
    <2> QED BY <2>1, Identified
  <1>4. \A n \in DOMAIN g.page : g.page[n].url = c => n \in members
    BY <1>3 DEF IsCanonical
  <1>5. \A n \in DOMAIN g.page : n \in members => Canonical[g.page[n].url] = c /\ IdentityOf(g, n) = c
    BY Identified DEF GraphTypeOK, IdentityOf
  <1> HIDE DEF h, c, members
  <1>6. /\ GraphTypeOK(h) /\ h.alias = g.alias
        /\ DOMAIN h.page = DOMAIN g.page \ olds
        /\ h.page[keep].url = c
        /\ \A n \in members : h.page[keep].at >= g.page[n].at
        /\ \A n \in DOMAIN h.page \ {keep} : h.page[n] = g.page[n]
        /\ NoSelfLoops(g) => NoSelfLoops(h)
    BY <1>2 DEF FoldsInto
  <1>7. \A n, m \in DOMAIN g.page : <<n, m>> \in g.link /\ (n \notin members \/ m \notin members) =>
            <<mv[n], mv[m]>> \in h.link
    <2>1. SUFFICES ASSUME NEW n \in DOMAIN g.page, NEW m \in DOMAIN g.page, <<n, m>> \in g.link,
                          n \notin members \/ m \notin members
                   PROVE  <<mv[n], mv[m]>> \in h.link
      OBVIOUS
    <2> DEFINE moved(i) == IF i \in olds THEN keep ELSE i
               e == <<n, m>>
    <2>2. n \notin olds \cup {keep} \/ m \notin olds \cup {keep}
      BY <2>1 DEF members
    <2>3. <<moved(e[1]), moved(e[2])>> \in h.link
      BY <1>2, <2>1, <2>2 DEF FoldsInto
    <2>4. moved(n) = mv[n] /\ moved(m) = mv[m]
      BY <2>1
    <2> QED BY <2>3, <2>4
  <1>8. ASSUME NEW n \in DOMAIN g.page
        PROVE  /\ mv[n] \in DOMAIN h.page
               /\ IdentityOf(h, mv[n]) = IdentityOf(g, n)
               /\ h.page[mv[n]].at >= g.page[n].at
               /\ n \in Solid(g) => mv[n] \in Solid(h)
    <2>1. g.page[n].at \in Nat
      BY DEF GraphTypeOK
    <2>2. CASE n \in members
      <3>1. mv[n] = keep /\ keep \in DOMAIN h.page
        BY <1>1, <1>6, <2>2
      <3>2. IdentityOf(h, keep) = c /\ IdentityOf(g, n) = c
        BY <1>3, <1>5, <1>6, <2>2, Identified DEF IdentityOf, IsCanonical, c
      <3>3. keep \in Solid(h)
        BY <1>3, <1>6, <3>1, Identified DEF Solid, UnusablePlaceholders, c
      <3> QED BY <1>6, <2>2, <3>1, <3>2, <3>3
    <2>3. CASE n \notin members
      <3>1. mv[n] = n /\ n \in DOMAIN h.page /\ h.page[n] = g.page[n]
        BY <1>1, <1>6, <2>3 DEF members
      <3> QED BY <2>1, <3>1 DEF IdentityOf, Solid, UnusablePlaceholders
    <2> QED BY <2>2, <2>3
  <1>9. Identities(h) = Identities(g)
    <2>1. \A v \in Identities(g) : v \in Identities(h)
      BY <1>8, Zenon DEF Identities
    <2>2. ASSUME NEW n \in DOMAIN h.page PROVE n \in DOMAIN g.page /\ mv[n] = n
      BY <1>6 DEF members
    <2>3. \A v \in Identities(h) : v \in Identities(g)
      <3> HIDE DEF mv
      <3>1. \A n \in DOMAIN h.page : n \in DOMAIN g.page /\ IdentityOf(h, n) = IdentityOf(g, n)
        BY <1>8, <2>2
      <3> QED BY <3>1, Zenon DEF Identities
    <2> QED BY <2>1, <2>3
  <1>10. LeadsOn(h)
    <2>1. ASSUME NEW a \in DOMAIN g.alias, IsCanonical(g.alias[a])
          PROVE  g.alias[a] \in PageURLs(h)
      <3>1. PICK n \in DOMAIN g.page : g.page[n].url = g.alias[a]
        BY <2>1 DEF LeadsOn, PageURLs
      <3>2. CASE n \in members
        <4>1. keep \in DOMAIN h.page /\ h.page[keep].url = g.alias[a]
          BY <1>1, <1>5, <1>6, <2>1, <3>1, <3>2 DEF IsCanonical
        <4> QED BY <4>1 DEF PageURLs
      <3>3. CASE n \notin members
        <4>1. n \in DOMAIN h.page /\ h.page[n].url = g.alias[a]
          BY <1>6, <3>1, <3>3 DEF members
        <4> QED BY <4>1 DEF PageURLs
      <3> QED BY <3>2, <3>3
    <2> QED BY <1>6, <2>1 DEF LeadsOn
  <1>11. ASSUME OneNodePerURL(g) PROVE OneNodePerURL(h)
    <2>1. SUFFICES ASSUME NEW n \in DOMAIN h.page, NEW m \in DOMAIN h.page, h.page[n].url = h.page[m].url
                   PROVE  n = m
      BY DEF OneNodePerURL
    <2>2. \A o \in DOMAIN h.page \ {keep} : o \in DOMAIN g.page /\ o \notin members /\ h.page[o] = g.page[o]
      BY <1>6 DEF members
    <2>3. \A o \in DOMAIN h.page \ {keep} : h.page[o].url # c
      BY <1>4, <2>2
    <2> QED BY <1>6, <1>11, <2>1, <2>2, <2>3 DEF OneNodePerURL
  <1>12. ASSUME Migrated(g, old) PROVE Migrated(h, old)
    <2>1. \A n \in Solid(old) : Lives(h, old.page[n].url) = Lives(g, old.page[n].url)
      BY <1>6, <1>9 DEF Lives
    <2>2. NamesLead(h, old)
      BY <1>6, <1>9, <1>12 DEF Migrated, NamesLead
    <2>3. Moves(g, h, old, mv, ren)
      <3>1. \A n \in Solid(g) : n \in DOMAIN g.page /\ IdentityOf(g, n) \in URLs
        BY Identified DEF GraphTypeOK, Solid, IdentityOf
      <3>2. \A n \in Solid(old) : Lives(g, old.page[n].url) \in URLs
        BY <1>12, <3>1 DEF Migrated, PagesLive
      <3>3. \A n, m \in Solid(g) : IdentityOf(g, n) # IdentityOf(g, m) => n \notin members \/ m \notin members
        BY <1>5, <3>1
      <3>4. \A v \in URLs : ren[v] = v
        OBVIOUS
      <3> HIDE DEF mv, ren
      <3> QED BY <1>7, <1>8, <2>1, <3>1, <3>2, <3>3, <3>4 DEF Moves
    <2>4. PagesLive(h, old) /\ LinksLive(h, old)
      BY <1>6, <1>12, <2>3, MovedAlong DEF Migrated
    <2> QED BY <2>2, <2>4 DEF Migrated
  <1>13. ASSUME HasPages(g, us), NEW u \in us \ NamesGone(g, grp)
         PROVE  \E m \in Solid(h) : h.page[m].url = u
    <2>1. PICK n \in Solid(g) : g.page[n].url = u
      BY <1>13 DEF HasPages
    <2>2. mv[n] \in Solid(h) /\ n \in DOMAIN g.page
      BY <1>8, <2>1 DEF Solid
    <2>3. CASE n \in members
      <3>1. u = c
        BY <1>13, <2>1, <2>3 DEF NamesGone, members, c
      <3> QED BY <1>6, <2>2, <2>3, <3>1
    <2>4. CASE n \notin members
      <3>1. mv[n] = n /\ n # keep /\ n \in DOMAIN h.page
        BY <1>6, <2>2, <2>4 DEF members
      <3> QED BY <1>6, <2>1, <2>2, <3>1
    <2> QED BY <2>3, <2>4
  <1>14. MergesGroup(g, grp, keep, h)
    BY <1>6, <1>10, <1>11 DEF MergesGroup, members, c
  <1> QED BY <1>12, <1>13, <1>14 DEF h, members, c, HasPages

\* The aliases that go are not what any old page is reached by.
LEMMA StaleAliasesGo ==
    ASSUME NEW g, GraphTypeOK(g), LeadsOn(g), NEW old, GraphTypeOK(old), NEW us, NEW h,
           KeepsAliases(g, {a \in DOMAIN g.alias : IsCanonical(a) /\ IsCanonical(g.alias[a])}, h)
    PROVE  /\ LeadsOn(h)
           /\ Migrated(g, old) => Migrated(h, old)
           /\ HasPages(g, us) => HasPages(h, us)
  <1>1. /\ GraphTypeOK(h) /\ h.page = g.page /\ h.link = g.link
        /\ DOMAIN h.alias = {a \in DOMAIN g.alias : IsCanonical(a) /\ IsCanonical(g.alias[a])}
        /\ \A b \in DOMAIN h.alias : h.alias[b] = g.alias[b]
    BY DEF KeepsAliases
  <1>2. LeadsOn(h)
    BY <1>1 DEF LeadsOn, NoSelfLoops, PageURLs
  <1>3. Solid(h) = Solid(g) /\ Identities(h) = Identities(g) /\ \A n : IdentityOf(h, n) = IdentityOf(g, n)
    BY <1>1 DEF Solid, UnusablePlaceholders, Identities, IdentityOf
  <1>4. ASSUME Migrated(g, old) PROVE Migrated(h, old)
    <2>1. ASSUME NEW n \in Solid(old) PROVE Lives(h, old.page[n].url) = Lives(g, old.page[n].url)
      BY <1>1, <1>3, <1>4, <2>1 DEF Lives, Target, Migrated, NamesLead
    <2>2. NamesLead(h, old)
      BY <1>1, <1>3, <1>4 DEF Migrated, NamesLead
    <2>3. PagesLive(h, old)
      BY <1>1, <1>3, <1>4, <2>1 DEF Migrated, PagesLive
    <2>4. LinksLive(h, old)
      <3>1. ASSUME NEW e \in old.link, e[1] \in Solid(old), e[2] \in Solid(old),
                   Lives(h, old.page[e[1]].url) # Lives(h, old.page[e[2]].url)
            PROVE  \E n, m \in Solid(h) :
                     /\ <<n, m>> \in h.link
                     /\ IdentityOf(h, n) = Lives(h, old.page[e[1]].url)
                     /\ IdentityOf(h, m) = Lives(h, old.page[e[2]].url)
        <4>1. /\ Lives(h, old.page[e[1]].url) = Lives(g, old.page[e[1]].url)
              /\ Lives(h, old.page[e[2]].url) = Lives(g, old.page[e[2]].url)
          BY <2>1, <3>1
        <4>2. PICK n, m \in Solid(g) : /\ <<n, m>> \in g.link
                                      /\ IdentityOf(g, n) = Lives(g, old.page[e[1]].url)
                                      /\ IdentityOf(g, m) = Lives(g, old.page[e[2]].url)
          BY <1>4, <3>1, <4>1 DEF Migrated, LinksLive
        <4> QED BY <1>1, <1>3, <4>1, <4>2
      <3> QED BY <3>1 DEF LinksLive
    <2> QED BY <2>2, <2>3, <2>4 DEF Migrated
  <1>5. HasPages(g, us) => HasPages(h, us)
    BY <1>1, <1>3 DEF HasPages
  <1> QED BY <1>2, <1>4, <1>5

\* An alias is what the server redirects.
AreRedirects(alias) == \A a \in DOMAIN alias : alias[a] = Redirects[a] /\ Redirects[a] # a

\* A page that the server redirects becomes its target, and an alias of it.
LEMMA RedirectMerged ==
    ASSUME NEW g, GraphTypeOK(g), LeadsOn(g), IsClean(g), AreRedirects(g.alias),
           NEW old, GraphTypeOK(old), NEW us, NEW u \in PageURLs(g), Redirects[u] # u
    PROVE  LET h == recordAlias(mergeAliasNode(g, u, Redirects[u]), u, Redirects[u])
           IN  /\ GraphTypeOK(h) /\ LeadsOn(h) /\ IsClean(h) /\ AreRedirects(h.alias)
               /\ PageURLs(h) = (PageURLs(g) \ {u}) \cup {Redirects[u]}
               /\ PagesAreNotAliases(g) => PagesAreNotAliases(h)
               /\ Migrated(g, old) => Migrated(h, old)
               /\ HasPages(g, us) => HasPages(h, us \ {u})
  <1> DEFINE r == Redirects[u]
             g1 == mergeAliasNode(g, u, r)
             h == recordAlias(g1, u, r)
  <1>1. u \in URLs /\ r \in URLs /\ r # u /\ Redirects[r] = r
    BY PageStoreAssumption DEF PageURLs, GraphTypeOK
  <1>2. IsCanonical(r) /\ IsCanonical(u)
    BY <1>1, PageStoreAssumption DEF IsClean, IsCanonical
  <1>3. RenamesPages(g, u, r, g1)
    BY <1>1, MergedAlias
  <1>4. RecordsAlias(g1, u, r, h)
    BY <1>1, <1>3, RecordedAlias DEF RenamesPages
  <1> HIDE DEF h, g1, r
  <1>5. /\ GraphTypeOK(h) /\ h.page = g1.page /\ h.link = g1.link
        /\ DOMAIN h.alias = DOMAIN g.alias \cup {u}
        /\ h.alias[u] = r
        /\ \A b \in DOMAIN g.alias \ {u} : h.alias[b] = IF g.alias[b] = u THEN r ELSE g.alias[b]
    BY <1>3, <1>4 DEF RenamesPages, RecordsAlias
  <1>6. \A b \in DOMAIN g.alias : g.alias[b] # u
    <2>1. SUFFICES ASSUME NEW b \in DOMAIN g.alias, g.alias[b] = u PROVE FALSE
      OBVIOUS
    <2>2. Redirects[b] = u /\ b \in URLs
      BY <2>1 DEF AreRedirects, GraphTypeOK
    <2> QED BY <1>1, <2>2, PageStoreAssumption DEF r
  <1>7. \A b \in DOMAIN g.alias \ {u} : h.alias[b] = g.alias[b]
    BY <1>5, <1>6
  <1>8. r \notin DOMAIN g.alias
    BY <1>1 DEF AreRedirects
  <1>9. PageURLs(h) = (PageURLs(g) \ {u}) \cup {r}
    <2>1. PageURLs(h) = PageURLs(g1)
      BY <1>5 DEF PageURLs
    <2> QED BY <1>3, <2>1 DEF RenamesPages
  <1>10. AreRedirects(h.alias)
    BY <1>1, <1>5, <1>7 DEF AreRedirects, r
  <1>11. IsClean(h)
    BY <1>2, <1>5, <1>7, <1>9 DEF IsClean, IsCanonical
  <1>12. LeadsOn(h)
    <2>1. \A b \in DOMAIN h.alias : h.alias[b] \in PageURLs(h)
      BY <1>5, <1>6, <1>7, <1>9 DEF LeadsOn, IsClean
    <2>2. NoSelfLoops(h)
      BY <1>3, <1>5 DEF RenamesPages, NoSelfLoops, LeadsOn
    <2> QED BY <2>1, <2>2 DEF LeadsOn
  <1>13. PagesAreNotAliases(g) => PagesAreNotAliases(h)
    BY <1>1, <1>5, <1>8, <1>9 DEF PagesAreNotAliases
  <1>14. PICK keep \in DOMAIN h.page :
            LET moved(n) == IF g.page[n].url = u THEN keep ELSE n
            IN  /\ h.page[keep].url = r
                /\ \A n \in DOMAIN g.page :
                     /\ moved(n) \in DOMAIN h.page
                     /\ h.page[moved(n)].at >= g.page[n].at
                     /\ g.page[n].url # u => h.page[n].url = g.page[n].url
                /\ \A e \in g.link : moved(e[1]) # moved(e[2]) =>
                     <<moved(e[1]), moved(e[2])>> \in h.link
    BY <1>3, <1>5 DEF RenamesPages
  <1> DEFINE mv == [n \in DOMAIN g.page |-> IF g.page[n].url = u THEN keep ELSE n]
             ren == [v \in URLs |-> IF v = u THEN r ELSE v]
  <1>15. \A n \in DOMAIN g.page : IdentityOf(g, n) = g.page[n].url /\ g.page[n].url \in URLs
    <2>1. \A n \in DOMAIN g.page : g.page[n].url \in URLs /\ g.page[n].url \in PageURLs(g)
      BY DEF GraphTypeOK, PageURLs
    <2> QED BY <2>1, Identified DEF IsClean, IdentityOf
  <1>16. \A n \in DOMAIN h.page : IdentityOf(h, n) = h.page[n].url
    <2>1. \A n \in DOMAIN h.page : h.page[n].url \in URLs /\ h.page[n].url \in PageURLs(h)
      BY <1>5 DEF GraphTypeOK, PageURLs
    <2> QED BY <1>11, <2>1, Identified DEF IsClean, IdentityOf
  <1>17. Identities(g) = PageURLs(g) /\ Identities(h) = PageURLs(h)
    BY <1>15, <1>16 DEF Identities, PageURLs
  <1>18. ASSUME NEW n \in DOMAIN g.page
         PROVE  /\ mv[n] \in DOMAIN h.page
                /\ h.page[mv[n]].url = ren[g.page[n].url]
                /\ h.page[mv[n]].at >= g.page[n].at
                /\ n \in Solid(g) => mv[n] \in Solid(h)
    <2>1. mv[n] \in DOMAIN h.page /\ h.page[mv[n]].at >= g.page[n].at
      BY <1>14
    <2>2. g.page[n].at \in Nat /\ h.page[mv[n]].at \in Nat
      BY <1>5, <2>1 DEF GraphTypeOK
    <2>3. h.page[mv[n]].url = ren[g.page[n].url]
      BY <1>14, <1>15
    <2>4. ASSUME n \in Solid(g) PROVE mv[n] \in Solid(h)
      <3>1. CASE g.page[n].url = u
        BY <1>1, <1>2, <1>15, <2>1, <2>3, <3>1, Identified DEF Solid, UnusablePlaceholders
      <3>2. CASE g.page[n].url # u
        <4>1. h.page[mv[n]].url = g.page[n].url
          BY <1>15, <2>3, <3>2
        <4> HIDE DEF mv, ren
        <4>2. Canonical[g.page[n].url] # Unusable \/ g.page[n].at # 0
          BY <2>4 DEF Solid, UnusablePlaceholders
        <4>3. Canonical[h.page[mv[n]].url] # Unusable \/ h.page[mv[n]].at # 0
          BY <2>1, <2>2, <4>1, <4>2
        <4> QED BY <2>1, <4>3 DEF Solid, UnusablePlaceholders
      <3> QED BY <3>1, <3>2
    <2> QED BY <2>1, <2>3, <2>4
  <1>19. ASSUME Migrated(g, old) PROVE Migrated(h, old)
    <2>1. ASSUME NEW n \in Solid(old)
          PROVE  LET w == Identity(old.page[n].url)
                 IN  /\ Lives(h, old.page[n].url) = ren[Lives(g, old.page[n].url)]
                     /\ \/ w \in Identities(h)
                        \/ w \in DOMAIN h.alias /\ IsCanonical(w) /\ IsCanonical(h.alias[w])
      <3> DEFINE w == Identity(old.page[n].url)
      <3>1. w \in URLs
        BY Identified DEF GraphTypeOK, Solid
      <3> HIDE DEF w
      <3>2. CASE w \in PageURLs(g) /\ w = u
        <4>1. Lives(g, old.page[n].url) = u
          BY <1>17, <3>2 DEF Lives, w
        <4>2. u \notin Identities(h) /\ u \in DOMAIN h.alias /\ h.alias[u] = r
          BY <1>1, <1>5, <1>9, <1>17
        <4>3. Lives(h, old.page[n].url) = r
          BY <3>2, <4>2 DEF Lives, Target, w
        <4> QED BY <1>1, <1>2, <3>2, <4>1, <4>2, <4>3 DEF w
      <3>3. CASE w \in PageURLs(g) /\ w # u
        <4>1. w \in Identities(g) /\ w \in Identities(h)
          BY <1>9, <1>17, <3>3
        <4>2. Lives(g, old.page[n].url) = w /\ Lives(h, old.page[n].url) = w
          BY <4>1 DEF Lives, w
        <4> QED BY <3>1, <3>3, <4>1, <4>2 DEF w
      <3>4. CASE w \notin PageURLs(g)
        <4>1. w \in DOMAIN g.alias /\ IsCanonical(w) /\ IsCanonical(g.alias[w])
          BY <1>17, <1>19, <3>4 DEF Migrated, NamesLead, w
        <4>2. w # u /\ w # r
          BY <1>8, <3>4, <4>1
        <4>3. w \in DOMAIN h.alias /\ h.alias[w] = g.alias[w]
          BY <1>5, <1>7, <4>1, <4>2
        <4>4. w \notin PageURLs(h)
          BY <1>9, <3>4, <4>2
        <4>5. Lives(g, old.page[n].url) = g.alias[w] /\ Lives(h, old.page[n].url) = g.alias[w]
          BY <1>17, <3>4, <4>1, <4>3, <4>4 DEF Lives, Target, w
        <4>6. g.alias[w] \in URLs /\ g.alias[w] # u
          BY <1>6, <4>1 DEF GraphTypeOK
        <4> QED BY <4>1, <4>3, <4>5, <4>6 DEF w
      <3> QED BY <3>2, <3>3, <3>4
    <2>2. NamesLead(h, old)
      BY <2>1 DEF NamesLead
    <2>3. Moves(g, h, old, mv, ren)
      <3>1. ASSUME NEW n \in Solid(g), NEW m \in Solid(g), <<n, m>> \in g.link,
                   ren[IdentityOf(g, n)] # ren[IdentityOf(g, m)]
            PROVE  <<mv[n], mv[m]>> \in h.link
        <4> DEFINE moved(i) == IF g.page[i].url = u THEN keep ELSE i
                   e == <<n, m>>
        <4>1. n \in DOMAIN g.page /\ m \in DOMAIN g.page
          BY DEF Solid
        <4>2. h.page[mv[n]].url # h.page[mv[m]].url
          <5> HIDE DEF mv, ren
          <5> QED BY <1>15, <1>18, <3>1, <4>1
        <4>3. moved(n) = mv[n] /\ moved(m) = mv[m]
          BY <4>1
        <4>4. moved(e[1]) # moved(e[2]) => <<moved(e[1]), moved(e[2])>> \in h.link
          BY <1>14, <3>1
        <4> QED BY <4>2, <4>3, <4>4
      <3>2. \A n \in Solid(g) : n \in DOMAIN g.page
        BY DEF Solid
      <3> HIDE DEF mv, ren
      <3>3. \A n \in Solid(g) : /\ mv[n] \in Solid(h)
                                /\ IdentityOf(h, mv[n]) = ren[IdentityOf(g, n)]
                                /\ h.page[mv[n]].at >= g.page[n].at
        BY <1>15, <1>16, <1>18, <3>2
      <3> QED BY <2>1, <3>1, <3>3 DEF Moves
    <2> HIDE DEF mv, ren
    <2>4. PagesLive(h, old) /\ LinksLive(h, old)
      BY <1>5, <1>19, <2>3, MovedAlong DEF Migrated
    <2> QED BY <2>2, <2>4 DEF Migrated
  <1>20. ASSUME HasPages(g, us), NEW v \in us \ {u}
         PROVE  \E m \in Solid(h) : h.page[m].url = v
    <2>1. PICK n \in Solid(g) : g.page[n].url = v
      BY <1>20 DEF HasPages
    <2>2. n \in DOMAIN g.page /\ v # u
      BY <1>20, <2>1 DEF Solid
    <2>3. mv[n] \in Solid(h) /\ h.page[mv[n]].url = v
      BY <1>15, <1>18, <2>1, <2>2
    <2> QED BY <2>3
  <1> QED BY <1>5, <1>9, <1>10, <1>11, <1>12, <1>13, <1>19, <1>20 DEF h, g1, r, HasPages

-----------------------------------------------------------------------------
(* The start keeps the invariant, step by step.                            *)

\* The first start finds an old graph and idle savers.
LEMMA InitIInv == Init => IInv
  <1> SUFFICES ASSUME Init PROVE IInv
    OBVIOUS
  <1>1. PICK l \in Legacy :
          /\ graph = l.graph /\ legacy = l.graph
          /\ meta = [constrained |-> l.constrained, version |-> l.version]
          /\ index = {l.graph.page[n].url : n \in {m \in DOMAIN l.graph.page : l.graph.page[m].at > 0}}
          /\ pc = "look" /\ todo = {} /\ removed = {}
          /\ tx = [s \in Savers |-> NoTx]
          /\ saves = 0 /\ crashes = 0
          /\ blurred = ~PagesAreNotAliases(l.graph) /\ forgotten = FALSE
    BY DEF Init
  <1>2. IsLegacy(l)
    BY PageStoreAssumption
  <1>3. GraphTypeOK(graph) /\ legacy = graph
    BY <1>1, <1>2 DEF IsLegacy
  <1>4. index \subseteq URLs
    BY <1>1, <1>3 DEF GraphTypeOK
  <1>5. Types
    <2>1. TypeOK
      BY <1>1, <1>2, <1>3, <1>4 DEF TypeOK, IsLegacy
    <2>2. blurred \in BOOLEAN
      BY <1>1 DEF PagesAreNotAliases
    <2> QED BY <1>1, <1>2, <2>1, <2>2 DEF Types, IsLegacy
  <1>6. Cleaning
    BY <1>1, <1>2 DEF Cleaning, IsLegacy
  <1>7. GroupsAreRight
    BY <1>1 DEF GroupsAreRight
  <1>8. RedirectsAreRight
    BY <1>1, <1>2 DEF RedirectsAreRight, IsLegacy
  <1>9. AliasesLead
    BY <1>1, <1>2 DEF AliasesLead, LeadsOn, IsLegacy, AliasesLeadToPages
  <1>10. OneAtATime
    BY <1>1 DEF OneAtATime, NoTx
  <1>11. Migrating
    <2>1. \A n \in Solid(graph) :
            /\ Identity(graph.page[n].url) \in Identities(graph)
            /\ IdentityOf(graph, n) = Lives(graph, graph.page[n].url)
      BY DEF Solid, Identities, IdentityOf, Lives
    <2>2. \A n \in Solid(graph) : graph.page[n].at \in Nat
      BY <1>3 DEF GraphTypeOK, Solid
    <2>3. PagesLive(graph, graph)
      BY <2>1, <2>2 DEF PagesLive
    <2>4. LinksLive(graph, graph)
      <3>1. \A e \in graph.link : <<e[1], e[2]>> = e
        BY <1>3 DEF GraphTypeOK
      <3> QED BY <2>1, <3>1 DEF LinksLive
    <2>5. NamesLead(graph, graph)
      BY <2>1 DEF NamesLead
    <2>6. HasPages(graph, index)
      BY <1>1 DEF HasPages, Solid, UnusablePlaceholders
    <2> QED BY <1>1, <1>3, <2>3, <2>4, <2>5, <2>6 DEF Migrating, Migrated
  <1>12. LegacyOK
    BY <1>3 DEF LegacyOK
  <1> QED BY <1>5, <1>6, <1>7, <1>8, <1>9, <1>10, <1>11, <1>12 DEF IInv

\* While the start runs no saver has a transaction.
LEMMA SaversWait ==
    ASSUME IInv, pc # "serving", tx' = tx, saves' = saves, legacy' = legacy, TypeOK',
           pc' \in {"look", "spellings", "redirects", "constraints", "version", "dropping", "serving"},
           meta' = [constrained |-> meta'.constrained, version |-> meta'.version],
           meta'.constrained \in BOOLEAN, blurred' \in BOOLEAN, forgotten' \in BOOLEAN,
           ~blurred' => PagesAreNotAliases(graph')
    PROVE  Types' /\ OneAtATime' /\ LegacyOK'
  <1>1. \A s \in Savers : tx[s] = NoTx
    BY DEF IInv, Types
  <1>2. Types'
    BY <1>1 DEF IInv, Types
  <1>3. OneAtATime'
    BY <1>1 DEF OneAtATime, NoTx
  <1>4. LegacyOK'
    BY DEF IInv, LegacyOK
  <1> QED BY <1>2, <1>3, <1>4

\* A migration step that only reads leaves the graph as it is.
LEMMA LookStep == IInv /\ Look => IInv'
  <1> SUFFICES ASSUME IInv, Look PROVE IInv'
    OBVIOUS
  <1>1. /\ pc = "look" /\ tx' = tx /\ saves' = saves /\ legacy' = legacy
        /\ meta' = meta /\ removed' = removed /\ index' = index
        /\ blurred' = blurred /\ forgotten' = forgotten
    BY DEF Look, crawling
  <1>2. GraphTypeOK(graph) /\ GraphTypeOK(legacy) /\ LeadsOn(graph)
    BY DEF IInv, Types, TypeOK, LegacyOK, AliasesLead
  <1>3. CASE meta.constrained /\ meta.version = Version
    <2>1. pc' = "constraints" /\ graph' = graph /\ todo' = todo
      BY <1>3 DEF Look
    <2>2. TypeOK'
      BY <1>1, <2>1 DEF IInv, Types, TypeOK
    <2>3. Types' /\ OneAtATime' /\ LegacyOK'
      <3>1. ~blurred => PagesAreNotAliases(graph)
        BY DEF IInv, OneAtATime
      <3> QED BY <1>1, <2>1, <2>2, <3>1, SaversWait DEF IInv, Types
    <2>4. Cleaning'
      BY <1>1, <1>3, <2>1 DEF IInv, Cleaning
    <2>5. GroupsAreRight' /\ RedirectsAreRight' /\ AliasesLead'
      BY <1>1, <2>1 DEF IInv, GroupsAreRight, RedirectsAreRight, AliasesLead
    <2>6. Migrating'
      BY <1>1, <2>1 DEF IInv, Migrating
    <2> QED BY <2>3, <2>4, <2>5, <2>6 DEF IInv
  <1>4. CASE ~(meta.constrained /\ meta.version = Version)
    <2> DEFINE h == WithoutNodes(graph, UnusablePlaceholders(graph))
    <2>1. pc' = "spellings" /\ graph' = h /\ todo' = SpellingGroups(graph)
      BY <1>4 DEF Look
    <2>2. /\ GraphTypeOK(h) /\ LeadsOn(h)
          /\ h.alias = graph.alias
          /\ DOMAIN h.page = Solid(graph)
          /\ \A n \in DOMAIN h.page : h.page[n] = graph.page[n]
          /\ Migrated(graph, legacy) => Migrated(h, legacy)
          /\ HasPages(graph, index \ removed) => HasPages(h, index \ removed)
      BY <1>2, PlaceholdersGo
    <2> HIDE DEF h
    <2>3. TypeOK'
      <3>1. OneNodePerURL(graph) => OneNodePerURL(h)
        BY <2>2 DEF OneNodePerURL, Solid
      <3> QED BY <1>1, <2>1, <2>2, <3>1 DEF IInv, Types, TypeOK
    <2>4. Types' /\ OneAtATime' /\ LegacyOK'
      <3>1. ~blurred => PagesAreNotAliases(graph)
        BY DEF IInv, OneAtATime
      <3>2. ~blurred => PagesAreNotAliases(h)
        BY <2>2, <3>1 DEF PagesAreNotAliases, PageURLs, Solid
      <3> QED BY <1>1, <2>1, <2>3, <3>2, SaversWait DEF IInv, Types
    <2>5. Cleaning'
      BY <1>1, <1>4, <2>1 DEF IInv, Cleaning
    <2>6. GroupsAreRight'
      <3>1. ASSUME NEW grp \in SpellingGroups(graph)
            PROVE  /\ grp = [url |-> grp.url, members |-> grp.members]
                   /\ grp.url \in URLs
                   /\ grp.members = {n \in DOMAIN h.page : Canonical[h.page[n].url] = grp.url}
        <4>1. PICK c \in URLs :
                grp = [url |-> c, members |-> {n \in DOMAIN graph.page : Canonical[graph.page[n].url] = c}]
          BY DEF SpellingGroups
        <4>2. c # Unusable
          BY PageStoreAssumption
        <4> QED BY <2>2, <4>1, <4>2 DEF Solid, UnusablePlaceholders
      <3>2. ASSUME NEW n \in DOMAIN h.page,
                   Canonical[h.page[n].url] # h.page[n].url, Canonical[h.page[n].url] # Unusable
            PROVE  \E grp \in SpellingGroups(graph) : n \in grp.members
        <4> DEFINE c == Canonical[h.page[n].url]
                   grp == [url |-> c, members |-> {m \in DOMAIN graph.page : Canonical[graph.page[m].url] = c}]
        <4>1. n \in DOMAIN graph.page /\ graph.page[n] = h.page[n] /\ h.page[n].url \in URLs
          BY <1>2, <2>2 DEF Solid, GraphTypeOK
        <4>2. c \in URLs
          BY <3>2, <4>1, PageStoreAssumption
        <4>3. n \in grp.members
          BY <4>1
        <4>4. grp \in SpellingGroups(graph)
          <5>1. grp.members # {} /\ \E m \in grp.members : grp.members # {m} \/ graph.page[m].url # grp.url
            BY <3>2, <4>1, <4>3
          <5> QED BY <4>2, <5>1 DEF SpellingGroups
        <4> QED BY <4>3, <4>4
      <3> QED BY <2>1, <3>1, <3>2 DEF GroupsAreRight
    <2>7. RedirectsAreRight'
      BY <1>1, <2>1, <2>2 DEF IInv, RedirectsAreRight
    <2>8. AliasesLead'
      BY <2>1, <2>2 DEF AliasesLead
    <2>9. Migrating'
      BY <1>1, <2>1, <2>2 DEF IInv, Migrating
    <2> QED BY <2>4, <2>5, <2>6, <2>7, <2>8, <2>9 DEF IInv
  <1> QED BY <1>3, <1>4

\* Folding the pages of one canonical spelling keeps every page's identity.
LEMMA MergeSpellingsStep == IInv /\ mergeSpellings => IInv'
  <1> SUFFICES ASSUME IInv, mergeSpellings PROVE IInv'
    OBVIOUS
  <1>1. /\ pc = "spellings" /\ pc' = pc /\ tx' = tx /\ saves' = saves /\ legacy' = legacy
        /\ meta' = meta /\ index' = index /\ forgotten' = forgotten
    BY DEF mergeSpellings, crawling
  <1>a. PICK grp \in todo : \E n \in grp.members :
          /\ graph' = mergeGroup(graph, grp.members, n, grp.url)
          /\ removed' = removed \cup NamesGone(graph, grp)
          /\ todo' = todo \ {grp}
          /\ blurred' = (blurred \/ grp.url \in DOMAIN graph.alias)
    BY DEF mergeSpellings
  <1>2. PICK keep \in grp.members :
          /\ graph' = mergeGroup(graph, grp.members, keep, grp.url)
          /\ removed' = removed \cup NamesGone(graph, grp)
          /\ todo' = todo \ {grp}
          /\ blurred' = (blurred \/ grp.url \in DOMAIN graph.alias)
    BY <1>a
  <1>3. GraphTypeOK(graph) /\ GraphTypeOK(legacy) /\ LeadsOn(graph)
    BY DEF IInv, Types, TypeOK, LegacyOK, AliasesLead
  <1>4. \A o \in todo : /\ o = [url |-> o.url, members |-> o.members] /\ o.url \in URLs
                        /\ o.members = {n \in DOMAIN graph.page : Canonical[graph.page[n].url] = o.url}
    BY <1>1 DEF IInv, GroupsAreRight
  <1> DEFINE h == mergeGroup(graph, grp.members, keep, grp.url)
             us == index \ removed
  <1>5. /\ MergesGroup(graph, grp, keep, h)
        /\ Migrated(graph, legacy) => Migrated(h, legacy)
        /\ HasPages(graph, us) => HasPages(h, us \ NamesGone(graph, grp))
    BY <1>2, <1>3, <1>4, GroupMerged
  <1> HIDE DEF h
  <1>6. /\ GraphTypeOK(h) /\ LeadsOn(h)
        /\ h.alias = graph.alias
        /\ DOMAIN h.page = DOMAIN graph.page \ (grp.members \ {keep})
        /\ h.page[keep].url = grp.url
        /\ \A n \in DOMAIN h.page \ {keep} : h.page[n] = graph.page[n]
        /\ OneNodePerURL(graph) => OneNodePerURL(h)
    BY <1>5 DEF MergesGroup
  <1>7. graph' = h
    BY <1>2 DEF h
  <1>8. NamesGone(graph, grp) \subseteq URLs
    BY <1>2, <1>3, <1>4 DEF NamesGone, GraphTypeOK
  <1>9. TypeOK'
    BY <1>1, <1>2, <1>6, <1>7, <1>8 DEF IInv, Types, TypeOK
  <1>10. Types' /\ OneAtATime' /\ LegacyOK'
    <2>1. ~blurred => PagesAreNotAliases(graph)
      BY DEF IInv, OneAtATime
    <2>2. \A v \in PageURLs(h) : v \in PageURLs(graph) \cup {grp.url}
      BY <1>6 DEF PageURLs
    <2>3. ~blurred' => PagesAreNotAliases(h)
      BY <1>2, <1>6, <2>1, <2>2 DEF PagesAreNotAliases
    <2>4. blurred' \in BOOLEAN
      BY <1>2
    <2> QED BY <1>1, <1>7, <1>9, <2>3, <2>4, SaversWait DEF IInv, Types
  <1>11. Cleaning'
    BY <1>1 DEF IInv, Cleaning
  <1>12. GroupsAreRight'
    <2>1. Canonical[grp.url] = grp.url
      <3>1. graph.page[keep].url \in URLs /\ Canonical[graph.page[keep].url] = grp.url
        BY <1>2, <1>3, <1>4 DEF GraphTypeOK
      <3> QED BY <1>2, <1>4, <3>1, Identified DEF IsCanonical
    <2>2. keep \in DOMAIN graph.page /\ keep \in DOMAIN h.page
      BY <1>2, <1>4, <1>6
    <2>3. \A n \in DOMAIN h.page : Canonical[h.page[n].url] = Canonical[graph.page[n].url]
      BY <1>2, <1>4, <1>6, <2>1
    <2>4. ASSUME NEW o \in todo \ {grp}
          PROVE  /\ o = [url |-> o.url, members |-> o.members] /\ o.url \in URLs
                 /\ o.members = {n \in DOMAIN h.page : Canonical[h.page[n].url] = o.url}
      <3>1. o.url # grp.url
        BY <1>2, <1>4, <2>4
      <3>2. \A n \in grp.members : Canonical[graph.page[n].url] # o.url
        BY <1>2, <1>4, <3>1
      <3> QED BY <1>4, <1>6, <2>3, <2>4, <3>2
    <2>5. ASSUME NEW n \in DOMAIN h.page, Canonical[h.page[n].url] \notin {h.page[n].url, Unusable}
          PROVE  \E o \in todo \ {grp} : n \in o.members
      <3>1. n # keep
        BY <1>6, <2>1, <2>5
      <3>2. n \in DOMAIN graph.page /\ h.page[n] = graph.page[n]
        BY <1>6, <3>1
      <3>3. PICK o \in todo : n \in o.members
        BY <1>1, <2>5, <3>2 DEF IInv, GroupsAreRight
      <3>4. n \notin grp.members
        BY <1>6, <3>1
      <3> QED BY <3>3, <3>4
    <2> QED BY <1>2, <1>7, <2>4, <2>5 DEF GroupsAreRight
  <1>13. RedirectsAreRight' /\ AliasesLead'
    BY <1>1, <1>6, <1>7 DEF IInv, RedirectsAreRight, AliasesLead
  <1>14. Migrating'
    <2>1. us \ NamesGone(graph, grp) = index \ removed'
      BY <1>2
    <2> HIDE DEF us
    <2> QED BY <1>1, <1>5, <1>7, <2>1 DEF IInv, Migrating, us
  <1> QED BY <1>10, <1>11, <1>12, <1>13, <1>14 DEF IInv

\* An alias that is also a page is dropped, its redirects kept.
LEMMA DropStaleAliasesStep == IInv /\ dropStaleAliases => IInv'
  <1> SUFFICES ASSUME IInv, dropStaleAliases PROVE IInv'
    OBVIOUS
  <1> DEFINE fresh == {a \in DOMAIN graph.alias : IsCanonical(a) /\ IsCanonical(graph.alias[a])}
             h == [graph EXCEPT !.alias = Restrict(graph.alias, fresh)]
             us == index \ removed
  <1>1. /\ pc = "spellings" /\ tx' = tx /\ saves' = saves /\ legacy' = legacy /\ todo = {}
        /\ meta' = meta /\ index' = index /\ forgotten' = forgotten
        /\ removed' = removed /\ blurred' = blurred /\ graph' = h
    BY DEF dropStaleAliases, crawling
  <1>2. IF meta.constrained THEN pc' = "constraints" /\ todo' = todo
                            ELSE pc' = "redirects" /\ todo' = Twins(graph)
    BY DEF dropStaleAliases
  <1>3. GraphTypeOK(graph) /\ GraphTypeOK(legacy) /\ LeadsOn(graph)
    BY DEF IInv, Types, TypeOK, LegacyOK, AliasesLead
  <1>4. KeepsAliases(graph, fresh, h)
    <2>1. fresh = fresh \cap DOMAIN graph.alias
      OBVIOUS
    <2> HIDE DEF fresh
    <2>2. KeepsAliases(graph, fresh, [graph EXCEPT !.alias = Restrict(graph.alias, fresh \cap DOMAIN graph.alias)])
      BY <1>3, DroppedAlias
    <2> QED BY <2>1, <2>2
  <1> HIDE DEF h
  <1>5. /\ LeadsOn(h)
        /\ Migrated(graph, legacy) => Migrated(h, legacy)
        /\ HasPages(graph, us) => HasPages(h, us)
    BY <1>3, <1>4, StaleAliasesGo
  <1>6. /\ GraphTypeOK(h) /\ h.page = graph.page /\ h.link = graph.link
        /\ DOMAIN h.alias = fresh
        /\ \A b \in DOMAIN h.alias : h.alias[b] = graph.alias[b]
    BY <1>4 DEF KeepsAliases
  <1>7. PageURLs(h) = PageURLs(graph) /\ (OneNodePerURL(graph) => OneNodePerURL(h))
    BY <1>6 DEF PageURLs, OneNodePerURL
  <1>8. TypeOK'
    BY <1>1, <1>6, <1>7 DEF IInv, Types, TypeOK
  <1>9. Types' /\ OneAtATime' /\ LegacyOK'
    <2>1. ~blurred => PagesAreNotAliases(graph)
      BY DEF IInv, OneAtATime
    <2>2. ~blurred => PagesAreNotAliases(h)
      BY <1>6, <1>7, <2>1 DEF PagesAreNotAliases
    <2> QED BY <1>1, <1>2, <1>8, <2>2, SaversWait DEF IInv, Types
  <1>10. Cleaning'
    <2>1. IsClean(h)
      <3>1. \A n \in DOMAIN graph.page : Canonical[graph.page[n].url] \in {graph.page[n].url, Unusable}
        BY <1>1 DEF IInv, GroupsAreRight
      <3>2. \A u \in PageURLs(h) : Canonical[u] \in {u, Unusable}
        BY <1>7, <3>1 DEF PageURLs
      <3> QED BY <1>6, <3>2 DEF IsClean
    <2> QED BY <1>1, <1>2, <2>1 DEF Cleaning
  <1>11. GroupsAreRight' /\ AliasesLead'
    BY <1>1, <1>2, <1>5 DEF GroupsAreRight, AliasesLead
  <1>12. RedirectsAreRight'
    <2>1. Twins(graph) \subseteq PageURLs(h)
      BY <1>7 DEF Twins
    <2> QED BY <1>1, <1>2, <1>6, <2>1 DEF IInv, RedirectsAreRight
  <1>13. Migrating'
    BY <1>1, <1>5 DEF IInv, Migrating
  <1> QED BY <1>9, <1>10, <1>11, <1>12, <1>13 DEF IInv

\* Folding a redirect's node into its target makes an alias of its name.
LEMMA MergeRedirectsStep == IInv /\ mergeRedirects => IInv'
  <1> SUFFICES ASSUME IInv, mergeRedirects PROVE IInv'
    OBVIOUS
  <1>1. /\ pc = "redirects" /\ pc' = pc /\ tx' = tx /\ saves' = saves /\ legacy' = legacy
        /\ meta' = meta /\ index' = index /\ forgotten' = forgotten /\ blurred' = blurred
    BY DEF mergeRedirects, crawling
  <1>2. PICK u \in todo, answered \in BOOLEAN :
          /\ todo' = todo \ {u}
          /\ IF answered /\ Redirects[u] # u
                 THEN /\ graph' = recordAlias(mergeAliasNode(graph, u, Redirects[u]), u, Redirects[u])
                      /\ removed' = removed \cup {u}
                 ELSE UNCHANGED <<graph, removed>>
    BY DEF mergeRedirects
  <1>3. GraphTypeOK(graph) /\ GraphTypeOK(legacy) /\ LeadsOn(graph) /\ IsClean(graph)
    BY <1>1 DEF IInv, Types, TypeOK, LegacyOK, AliasesLead, Cleaning
  <1>4. ~meta.constrained /\ todo \subseteq PageURLs(graph) /\ AreRedirects(graph.alias)
    BY <1>1 DEF IInv, RedirectsAreRight, AreRedirects
  <1>5. ~blurred => PagesAreNotAliases(graph)
    BY DEF IInv, OneAtATime
  <1>6. CASE answered /\ Redirects[u] # u
    <2> DEFINE h == recordAlias(mergeAliasNode(graph, u, Redirects[u]), u, Redirects[u])
               us == index \ removed
    <2>1. /\ GraphTypeOK(h) /\ LeadsOn(h) /\ IsClean(h) /\ AreRedirects(h.alias)
          /\ PageURLs(h) = (PageURLs(graph) \ {u}) \cup {Redirects[u]}
          /\ PagesAreNotAliases(graph) => PagesAreNotAliases(h)
          /\ Migrated(graph, legacy) => Migrated(h, legacy)
          /\ HasPages(graph, us) => HasPages(h, us \ {u})
      BY <1>2, <1>3, <1>4, <1>6, RedirectMerged
    <2>2. graph' = h /\ removed' = removed \cup {u}
      BY <1>2, <1>6
    <2> HIDE DEF h
    <2>3. u \in URLs
      BY <1>2, <1>3, <1>4 DEF PageURLs, GraphTypeOK
    <2>4. TypeOK'
      BY <1>1, <1>4, <2>1, <2>2, <2>3 DEF IInv, Types, TypeOK
    <2>5. Types' /\ OneAtATime' /\ LegacyOK'
      BY <1>1, <1>5, <2>1, <2>2, <2>4, SaversWait DEF IInv, Types
    <2>6. Cleaning'
      BY <1>1, <2>1, <2>2 DEF Cleaning
    <2>7. GroupsAreRight' /\ AliasesLead'
      BY <1>1, <2>1, <2>2 DEF GroupsAreRight, AliasesLead
    <2>8. RedirectsAreRight'
      BY <1>1, <1>2, <1>4, <2>1, <2>2 DEF RedirectsAreRight, AreRedirects
    <2>9. Migrating'
      <3>1. us \ {u} = index \ removed'
        BY <2>2
      <3> HIDE DEF us
      <3> QED BY <1>1, <2>1, <2>2, <3>1 DEF IInv, Migrating, us
    <2> QED BY <2>5, <2>6, <2>7, <2>8, <2>9 DEF IInv
  <1>7. CASE ~(answered /\ Redirects[u] # u)
    <2>1. graph' = graph /\ removed' = removed
      BY <1>2, <1>7
    <2>2. TypeOK'
      BY <1>1, <2>1 DEF IInv, Types, TypeOK
    <2>3. Types' /\ OneAtATime' /\ LegacyOK'
      BY <1>1, <1>5, <2>1, <2>2, SaversWait DEF IInv, Types
    <2>4. Cleaning' /\ GroupsAreRight' /\ AliasesLead'
      BY <1>1, <2>1 DEF IInv, Cleaning, GroupsAreRight, AliasesLead
    <2>5. RedirectsAreRight'
      BY <1>1, <1>2, <2>1 DEF IInv, RedirectsAreRight
    <2>6. Migrating'
      BY <1>1, <2>1 DEF IInv, Migrating
    <2> QED BY <2>3, <2>4, <2>5, <2>6 DEF IInv
  <1> QED BY <1>6, <1>7

\* The steps of the start that leave the graph alone.
StartMoves ==
    /\ graph' = graph /\ tx' = tx /\ saves' = saves /\ legacy' = legacy /\ blurred' = blurred
    /\ removed' \subseteq removed /\ index' \subseteq index

\* Where the graph stays, what remembers the old one stays as well.
LEMMA GraphStays ==
    ASSUME IInv, pc # "serving", StartMoves,
           pc' \in {"look", "constraints", "version", "dropping", "serving"},
           meta' = [constrained |-> meta'.constrained, version |-> meta'.version],
           meta'.constrained \in BOOLEAN, meta'.constrained => OneNodePerURL(graph),
           forgotten' \in BOOLEAN,
           ~forgotten' => ~forgotten /\ index' \ removed' \subseteq index \ removed
    PROVE  Types' /\ GroupsAreRight' /\ OneAtATime' /\ Migrating' /\ LegacyOK'
  <1>1. TypeOK'
    BY DEF IInv, Types, TypeOK, StartMoves
  <1>2. ~blurred => PagesAreNotAliases(graph)
    BY DEF IInv, OneAtATime
  <1>3. Types' /\ OneAtATime' /\ LegacyOK'
    BY <1>1, <1>2, SaversWait DEF IInv, Types, StartMoves
  <1>4. GroupsAreRight'
    BY DEF GroupsAreRight
  <1>5. Migrating'
    BY DEF IInv, Migrating, HasPages, StartMoves
  <1> QED BY <1>3, <1>4, <1>5

\* With no redirect left to fold, the aliases are all that is left of them.
LEMMA RedirectsDoneStep == IInv /\ RedirectsDone => IInv'
  <1> SUFFICES ASSUME IInv, RedirectsDone PROVE IInv'
    OBVIOUS
  <1>1. /\ pc = "redirects" /\ pc' = "constraints" /\ StartMoves
        /\ meta' = meta /\ forgotten' = forgotten /\ removed' = removed /\ index' = index
    BY DEF RedirectsDone, crawling, StartMoves
  <1>2. Types' /\ GroupsAreRight' /\ OneAtATime' /\ Migrating' /\ LegacyOK'
    BY <1>1, GraphStays DEF IInv, Types, TypeOK
  <1>3. Cleaning' /\ RedirectsAreRight' /\ AliasesLead'
    BY <1>1 DEF IInv, Cleaning, RedirectsAreRight, AliasesLead, StartMoves
  <1> QED BY <1>2, <1>3 DEF IInv

\* The constraint is created only where every URL is one page; otherwise the start
\* begins again on the same graph.
LEMMA CreateConstraintsStep == IInv /\ CreateConstraints => IInv'
  <1> SUFFICES ASSUME IInv, CreateConstraints PROVE IInv'
    OBVIOUS
  <1>1. /\ pc = "constraints" /\ graph' = graph /\ tx' = tx /\ saves' = saves
        /\ legacy' = legacy /\ blurred' = blurred /\ index' = index
    BY DEF CreateConstraints, crawling
  <1>2. meta = [constrained |-> meta.constrained, version |-> meta.version] /\ IsClean(graph)
    BY <1>1 DEF IInv, Types, Cleaning
  <1>3. CASE OneNodePerURL(graph)
    <2>1. /\ meta' = [constrained |-> TRUE, version |-> meta.version] /\ pc' = "version"
          /\ removed' = removed /\ forgotten' = forgotten
      <3>1. meta' = [meta EXCEPT !.constrained = TRUE] /\ pc' = "version" /\ removed' = removed
            /\ forgotten' = forgotten
        BY <1>3 DEF CreateConstraints
      <3> DEFINE v == meta.version
                 b == meta.constrained
      <3>2. meta = [constrained |-> b, version |-> v]
        BY <1>2
      <3> HIDE DEF v, b
      <3>3. meta' = [constrained |-> TRUE, version |-> v]
        BY <3>1, <3>2
      <3> QED BY <3>1, <3>3 DEF v
    <2>2. Types' /\ GroupsAreRight' /\ OneAtATime' /\ Migrating' /\ LegacyOK'
      <3>1. StartMoves
        BY <1>1, <2>1 DEF StartMoves
      <3> QED BY <1>1, <1>3, <2>1, <3>1, GraphStays DEF IInv, Types
    <2>3. Cleaning' /\ RedirectsAreRight' /\ AliasesLead'
      BY <1>1, <1>2, <2>1 DEF IInv, Cleaning, RedirectsAreRight, AliasesLead
    <2> QED BY <2>2, <2>3 DEF IInv
  <1>4. CASE ~OneNodePerURL(graph)
    <2>1. pc' = "look" /\ removed' = {} /\ forgotten' = (forgotten \/ removed # {}) /\ meta' = meta
      BY <1>4 DEF CreateConstraints
    <2>2. Types' /\ GroupsAreRight' /\ OneAtATime' /\ Migrating' /\ LegacyOK'
      <3>1. StartMoves
        BY <1>1, <2>1 DEF StartMoves
      <3> QED BY <1>1, <2>1, <3>1, GraphStays DEF IInv, Types, TypeOK
    <2>3. Cleaning' /\ RedirectsAreRight' /\ AliasesLead'
      BY <1>1, <1>2, <2>1 DEF IInv, Cleaning, RedirectsAreRight, AliasesLead
    <2> QED BY <2>2, <2>3 DEF IInv
  <1> QED BY <1>3, <1>4

\* The version is recorded on a graph that is already clean.
LEMMA RecordVersionStep == IInv /\ RecordVersion => IInv'
  <1> SUFFICES ASSUME IInv, RecordVersion PROVE IInv'
    OBVIOUS
  <1>1. /\ pc = "version" /\ pc' = "dropping" /\ StartMoves
        /\ meta' = [meta EXCEPT !.version = Version]
        /\ forgotten' = forgotten /\ removed' = removed /\ index' = index
    BY DEF RecordVersion, crawling, StartMoves
  <1>2. /\ meta = [constrained |-> meta.constrained, version |-> meta.version]
        /\ meta.constrained /\ IsClean(graph) /\ OneNodePerURL(graph)
    BY <1>1 DEF IInv, Types, TypeOK, Cleaning
  <1>3. meta' = [constrained |-> meta.constrained, version |-> Version]
    <2> DEFINE v == meta.version
               b == meta.constrained
    <2>1. meta = [constrained |-> b, version |-> v]
      BY <1>2
    <2> HIDE DEF v, b
    <2>2. meta' = [constrained |-> b, version |-> Version]
      BY <1>1, <2>1
    <2> QED BY <2>2 DEF b
  <1>4. Types' /\ GroupsAreRight' /\ OneAtATime' /\ Migrating' /\ LegacyOK'
    BY <1>1, <1>2, <1>3, GraphStays DEF IInv, Types
  <1>5. Cleaning' /\ RedirectsAreRight' /\ AliasesLead'
    BY <1>1, <1>2, <1>3 DEF IInv, Cleaning, RedirectsAreRight, AliasesLead, StartMoves
  <1> QED BY <1>4, <1>5 DEF IInv

\* A start finds the graph as an earlier one, or an earlier program, left it.
LEMMA InitGraphSchemaStep == IInv /\ initGraphSchema => IInv'
  <1> SUFFICES ASSUME IInv, initGraphSchema PROVE IInv'
    OBVIOUS
  <1>1. /\ pc = "dropping" /\ graph' = graph /\ meta' = meta /\ tx' = tx /\ saves' = saves
        /\ legacy' = legacy /\ blurred' = blurred
    BY DEF initGraphSchema, crawling
  <1>2. meta.constrained /\ meta.version = Version /\ IsClean(graph) /\ OneNodePerURL(graph)
    BY <1>1 DEF IInv, Types, TypeOK, Cleaning
  <1>3. ASSUME NEW u \in removed, NEW taken \in BOOLEAN,
               removed' = removed \ {u}, index' = IF taken THEN index \ {u} ELSE index,
               forgotten' = (forgotten \/ ~taken), pc' = pc
        PROVE  IInv'
    <2>1. StartMoves
      BY <1>1, <1>3 DEF StartMoves
    <2>2. ~forgotten' => ~forgotten /\ index' \ removed' \subseteq index \ removed
      BY <1>3
    <2>3. forgotten' \in BOOLEAN
      BY <1>3
    <2>4. Types' /\ GroupsAreRight' /\ OneAtATime' /\ Migrating' /\ LegacyOK'
      BY <1>1, <1>2, <1>3, <2>1, <2>2, <2>3, GraphStays DEF IInv, Types
    <2>5. Cleaning' /\ RedirectsAreRight' /\ AliasesLead'
      BY <1>1, <1>2, <1>3 DEF IInv, Cleaning, RedirectsAreRight, AliasesLead
    <2> QED BY <2>4, <2>5 DEF IInv
  <1>4. ASSUME removed = {}, pc' = "serving", removed' = removed, index' = index, forgotten' = forgotten
        PROVE  IInv'
    <2>1. StartMoves
      BY <1>1, <1>4 DEF StartMoves
    <2>2. Types' /\ GroupsAreRight' /\ OneAtATime' /\ Migrating' /\ LegacyOK'
      BY <1>1, <1>2, <1>4, <2>1, GraphStays DEF IInv, Types
    <2>3. Cleaning' /\ RedirectsAreRight'
      BY <1>1, <1>2, <1>4 DEF IInv, Cleaning, RedirectsAreRight
    <2>4. AliasesLead'
      BY <1>1, <1>2 DEF IInv, AliasesLead, LeadsOn, AliasesLeadToPages, IsClean
    <2> QED BY <2>2, <2>3, <2>4 DEF IInv
  <1> QED BY <1>3, <1>4 DEF initGraphSchema

\* A start that dies leaves behind the graph its last transaction committed.
LEMMA StartDiesStep == IInv /\ StartDies => IInv'
  <1> SUFFICES ASSUME IInv, StartDies PROVE IInv'
    OBVIOUS
  <1>1. /\ pc # "serving" /\ pc' = "look" /\ StartMoves
        /\ meta' = meta /\ index' = index /\ removed' = {} /\ forgotten' = (forgotten \/ removed # {})
    BY DEF StartDies, crawling, StartMoves
  <1>2. ~forgotten' => ~forgotten /\ index' \ removed' \subseteq index \ removed
    BY <1>1
  <1>3. Types' /\ GroupsAreRight' /\ OneAtATime' /\ Migrating' /\ LegacyOK'
    BY <1>1, <1>2, GraphStays DEF IInv, Types, TypeOK
  <1>4. Cleaning' /\ RedirectsAreRight' /\ AliasesLead'
    BY <1>1 DEF IInv, Cleaning, RedirectsAreRight, AliasesLead, StartMoves
  <1> QED BY <1>3, <1>4 DEF IInv

-----------------------------------------------------------------------------
(* The savers keep the invariant.                                          *)

\* What a transaction is.
IsTx(t) ==
    /\ t = [pc |-> t.pc, crawl |-> t.crawl, folds |-> t.folds, targets |-> t.targets]
    /\ t.pc \in {"read", "folding"} /\ IsCrawl(t.crawl)
    /\ t.targets \subseteq URLs \ {t.crawl.url} /\ IsFiniteSet(t.targets)
    /\ t.folds \in BOOLEAN

\* Savers run when the start is done, and change nothing of what it left.
LEMMA Serving ==
    ASSUME IInv, NEW s \in Savers, tx[s].pc # "idle" \/ pc = "serving", starting' = starting,
           GraphTypeOK(graph'), OneNodePerURL(graph) => OneNodePerURL(graph'),
           saves' \in Nat, saves' > 0, blurred' \in BOOLEAN,
           NEW t, tx' = [tx EXCEPT ![s] = t], t = NoTx \/ IsTx(t)
    PROVE  Types' /\ Cleaning' /\ GroupsAreRight' /\ Migrating' /\ LegacyOK' /\ pc = "serving"
  <1>1. pc = "serving"
    BY DEF IInv, Types, NoTx
  <1>2. /\ meta' = meta /\ pc' = pc /\ todo' = todo /\ removed' = removed /\ index' = index
        /\ legacy' = legacy /\ forgotten' = forgotten
    BY DEF starting
  <1>3. TypeOK'
    BY <1>2 DEF IInv, Types, TypeOK
  <1>4. tx' = [o \in Savers |-> IF o = s THEN t ELSE tx[o]]
    BY DEF IInv, Types
  <1>5. \A o \in Savers : tx'[o] = IF o = s THEN t ELSE tx[o]
    BY <1>4
  <1>6. tx' = [o \in Savers |-> tx'[o]]
    BY <1>4
  <1>7. \A o \in Savers : tx[o] = NoTx \/ IsTx(tx[o])
    BY DEF IInv, Types, IsTx
  <1>8. \A o \in Savers : tx'[o] = NoTx \/ IsTx(tx'[o])
    BY <1>5, <1>7
  <1>9. Types'
    BY <1>1, <1>2, <1>3, <1>6, <1>8 DEF IInv, Types, IsTx
  <1>10. Cleaning' /\ GroupsAreRight' /\ Migrating' /\ LegacyOK'
    BY <1>1, <1>2 DEF IInv, Cleaning, GroupsAreRight, Migrating, LegacyOK
  <1> QED BY <1>1, <1>9, <1>10

\* What a save reads of the aliases is said of the graph as it is then; a save
\* that overlaps another is no longer counted on (blurred).
LEMMA ReadAliasesStep == \A s \in Savers : IInv /\ ReadAliases(s) => IInv'
  <1> SUFFICES ASSUME NEW s \in Savers, IInv, ReadAliases(s) PROVE IInv'
    OBVIOUS
  <1>1. /\ pc = "serving" /\ tx[s].pc = "idle" /\ saves' = saves + 1
        /\ blurred' = (blurred \/ \E o \in Savers : tx[o].pc # "idle")
        /\ graph' = graph /\ starting' = starting
    BY DEF ReadAliases
  <1>2. PICK c \in Crawls :
          LET crawl == [url |-> c.url, links |-> c.links, aliases |-> c.aliases, at |-> saves + 10]
          IN  tx' = [tx EXCEPT ![s] =
                       [pc |-> "read", crawl |-> crawl, folds |-> FALSE,
                        targets |-> {Target(dropAliasOfPage(graph, c.url).alias, l) : l \in c.links} \ {c.url}]]
    BY DEF ReadAliases
  <1> DEFINE crawl == [url |-> c.url, links |-> c.links, aliases |-> c.aliases, at |-> saves + 10]
             alias == dropAliasOfPage(graph, c.url).alias
             leads == {Target(alias, l) : l \in c.links}
             t == [pc |-> "read", crawl |-> crawl, folds |-> FALSE, targets |-> leads \ {c.url}]
  <1>3. /\ c.url \in URLs /\ c.links \subseteq URLs /\ IsFiniteSet(c.links)
        /\ c.aliases \subseteq URLs \ {c.url} /\ \A a, b \in c.aliases : a = b
    BY PageStoreAssumption
  <1>4. GraphTypeOK(graph) /\ saves \in Nat /\ tx = [o \in Savers |-> tx[o]]
    BY DEF IInv, Types, TypeOK
  <1>5. DOMAIN alias = DOMAIN graph.alias \ {c.url} /\ \A a \in DOMAIN alias : alias[a] = graph.alias[a]
    <2> DEFINE h == dropAliasOfPage(graph, c.url)
               kept == DOMAIN graph.alias \ {c.url}
    <2>1. KeepsAliases(graph, kept, h)
      <3>1. h = [graph EXCEPT !.alias = Restrict(graph.alias, kept \cap DOMAIN graph.alias)]
        BY DEF dropAliasOfPage
      <3> HIDE DEF kept, h
      <3> QED BY <1>4, <3>1, DroppedAlias
    <2>2. alias = h.alias
      OBVIOUS
    <2> HIDE DEF h, alias
    <2> QED BY <2>1, <2>2 DEF KeepsAliases
  <1> HIDE DEF alias
  <1>6. leads \subseteq URLs
    BY <1>3, <1>4, <1>5 DEF GraphTypeOK, Target
  <1>7. IsFiniteSet(leads)
    <2>1. [l \in c.links |-> Target(alias, l)] \in Surjection(c.links, leads)
      BY DEF Surjection
    <2> QED BY <1>3, <2>1, FS_Surjection
  <1>8. tx' = [tx EXCEPT ![s] = t]
    BY <1>2 DEF alias
  <1>9. IsTx(t)
    <2>1. IsCrawl(crawl)
      BY <1>3, <1>4 DEF IsCrawl
    <2>2. IsFiniteSet(leads \ {c.url}) /\ leads \ {c.url} \subseteq URLs \ {c.url}
      BY <1>6, <1>7, FS_Subset
    <2> HIDE DEF leads
    <2>3. t.crawl = crawl /\ t.targets = leads \ {c.url} /\ crawl.url = c.url /\ t.pc = "read" /\ t.folds = FALSE
      OBVIOUS
    <2>4. t = [pc |-> t.pc, crawl |-> t.crawl, folds |-> t.folds, targets |-> t.targets]
      OBVIOUS
    <2> HIDE DEF t, crawl
    <2> QED BY <2>1, <2>2, <2>3, <2>4 DEF IsTx
  <1>10. Types' /\ Cleaning' /\ GroupsAreRight' /\ Migrating' /\ LegacyOK'
    <2>1. saves' \in Nat /\ saves' > 0 /\ blurred' \in BOOLEAN
      BY <1>1, <1>4 DEF IInv, Types
    <2> HIDE DEF t
    <2> QED BY <1>1, <1>4, <1>8, <1>9, <2>1, Serving
  <1>11. RedirectsAreRight' /\ AliasesLead'
    BY <1>1 DEF IInv, RedirectsAreRight, AliasesLead, starting
  <1>12. OneAtATime'
    <2>1. SUFFICES ASSUME ~blurred, \A o \in Savers : tx[o].pc = "idle"
                   PROVE  /\ PagesAreNotAliases(graph)
                          /\ \A o, p \in Savers : tx'[o].pc # "idle" /\ tx'[p].pc # "idle" => o = p
                          /\ \A o \in Savers : tx'[o].pc # "idle" => tx'[o].targets \cap DOMAIN graph.alias = {}
                          /\ \A o \in Savers : tx'[o].pc # "folding"
      BY <1>1 DEF OneAtATime
    <2>2. PagesAreNotAliases(graph)
      BY <2>1 DEF IInv, OneAtATime
    <2>3. \A o \in Savers : tx'[o] = IF o = s THEN t ELSE tx[o]
      BY <1>4, <1>8
    <2>4. \A l \in leads \ {c.url} : l \notin DOMAIN graph.alias
      <3>1. ASSUME NEW l \in c.links, Target(alias, l) # c.url
            PROVE  Target(alias, l) \notin DOMAIN graph.alias
        <4>1. CASE l \in DOMAIN alias
          <5>1. Target(alias, l) = graph.alias[l] /\ l \in DOMAIN graph.alias
            BY <1>5, <4>1 DEF Target
          <5> QED BY <1>1, <2>2, <5>1 DEF IInv, AliasesLead, AliasesLeadToPages, PagesAreNotAliases
        <4>2. CASE l \notin DOMAIN alias
          BY <1>5, <3>1, <4>2 DEF Target
        <4> QED BY <4>1, <4>2
      <3> QED BY <3>1
    <2>5. t.pc = "read" /\ t.targets = leads \ {c.url}
      OBVIOUS
    <2> HIDE DEF t, leads
    <2> QED BY <2>1, <2>2, <2>3, <2>4, <2>5
  <1> QED BY <1>10, <1>11, <1>12 DEF IInv

\* Each fold of a save sees the pages the save has made so far.
LEMMA FindAliasNodeStep == \A s \in Savers : IInv /\ FindAliasNode(s) => IInv'
  <1> SUFFICES ASSUME NEW s \in Savers, IInv, FindAliasNode(s) PROVE IInv'
    OBVIOUS
  <1> DEFINE folds == tx[s].crawl.aliases \cap (PageURLs(graph) \cup tx[s].targets) # {}
             t == [pc |-> "folding", crawl |-> tx[s].crawl, folds |-> folds, targets |-> tx[s].targets]
  <1>1. /\ tx[s].pc = "read" /\ saves' = saves /\ blurred' = blurred
        /\ graph' = graph /\ starting' = starting
    BY DEF FindAliasNode
  <1>2. IsTx(tx[s]) /\ saves \in Nat /\ saves > 0 /\ tx = [o \in Savers |-> tx[o]] /\ GraphTypeOK(graph)
    BY <1>1 DEF IInv, Types, TypeOK, NoTx, IsTx
  <1>3. tx' = [tx EXCEPT ![s] = t]
    BY <1>2 DEF FindAliasNode
  <1>4. IsTx(t)
    BY <1>2 DEF IsTx
  <1>5. t.pc = "folding" /\ t.crawl = tx[s].crawl /\ t.targets = tx[s].targets /\ t.folds = folds
    OBVIOUS
  <1> HIDE DEF t
  <1>6. Types' /\ Cleaning' /\ GroupsAreRight' /\ Migrating' /\ LegacyOK'
    BY <1>1, <1>2, <1>3, <1>4, Serving DEF IInv, Types
  <1>7. RedirectsAreRight' /\ AliasesLead'
    BY <1>1 DEF IInv, RedirectsAreRight, AliasesLead, starting
  <1>8. OneAtATime'
    <2>1. \A o \in Savers : tx'[o] = IF o = s THEN t ELSE tx[o]
      BY <1>2, <1>3
    <2> HIDE DEF folds
    <2>2. \A o \in Savers : /\ tx'[o].pc # "idle" => tx[o].pc # "idle"
                            /\ tx'[o].crawl = tx[o].crawl /\ tx'[o].targets = tx[o].targets
                            /\ o # s => tx'[o] = tx[o]
      BY <1>1, <1>5, <2>1
    <2>3. tx'[s].folds = (tx[s].crawl.aliases \cap (PageURLs(graph) \cup tx[s].targets) # {})
      BY <1>5, <2>1 DEF folds
    <2> QED BY <1>1, <2>2, <2>3 DEF IInv, OneAtATime
  <1> QED BY <1>6, <1>7, <1>8 DEF IInv

\* A save that commits replaces the clean graph by one it kept clean.
LEMMA CommitStep == \A s \in Savers : IInv /\ Commit(s) => IInv'
  <1> SUFFICES ASSUME NEW s \in Savers, IInv, Commit(s) PROVE IInv'
    OBVIOUS
  <1> DEFINE crawl == tx[s].crawl
             targets == tx[s].targets
             folds == tx[s].folds
             us == {crawl.url} \cup targets
             h == savePage(graph, crawl, targets, folds)
  <1>1. /\ tx[s].pc = "folding" /\ saves' = saves /\ blurred' = blurred
        /\ graph' = h /\ starting' = starting /\ tx' = [tx EXCEPT ![s] = NoTx]
    BY DEF Commit
  <1>2. /\ IsCrawl(crawl) /\ targets \subseteq URLs \ {crawl.url} /\ IsFiniteSet(targets)
        /\ folds \in BOOLEAN
        /\ saves \in Nat /\ saves > 0 /\ tx = [o \in Savers |-> tx[o]] /\ GraphTypeOK(graph)
        /\ pc = "serving"
    BY <1>1 DEF IInv, Types, TypeOK, NoTx
  <1> HIDE DEF crawl, targets, folds
  <1>3. SavesPage(graph, crawl, us, folds, h)
    BY <1>2, SavedPage
  <1> HIDE DEF h, us
  <1>4. /\ GraphTypeOK(h)
        /\ PageURLs(h) = IF folds THEN (PageURLs(graph) \cup us) \ crawl.aliases ELSE PageURLs(graph) \cup us
        /\ DOMAIN h.alias = (DOMAIN graph.alias \ {crawl.url}) \cup crawl.aliases
        /\ \A b \in DOMAIN h.alias :
             h.alias[b] = IF b \in crawl.aliases \/ graph.alias[b] \in crawl.aliases
                             THEN crawl.url ELSE graph.alias[b]
        /\ NoSelfLoops(graph) => NoSelfLoops(h)
        /\ OneNodePerURL(graph) => OneNodePerURL(h)
    BY <1>3 DEF SavesPage
  <1>5. Types' /\ Cleaning' /\ GroupsAreRight' /\ Migrating' /\ LegacyOK'
    BY <1>1, <1>2, <1>4, Serving DEF IInv, Types
  <1>6. RedirectsAreRight'
    BY <1>1, <1>2 DEF IInv, RedirectsAreRight, Cleaning, starting
  <1>7. AliasesLead'
    <2>1. crawl.url \in PageURLs(h) /\ crawl.url \notin crawl.aliases
      BY <1>2, <1>4 DEF us, IsCrawl
    <2>2. ASSUME NEW b \in DOMAIN h.alias PROVE h.alias[b] \in PageURLs(h)
      <3>1. CASE b \in crawl.aliases \/ graph.alias[b] \in crawl.aliases
        BY <1>4, <2>1, <3>1
      <3>2. CASE ~(b \in crawl.aliases \/ graph.alias[b] \in crawl.aliases)
        <4>1. h.alias[b] = graph.alias[b] /\ b \in DOMAIN graph.alias
          BY <1>4, <3>2
        <4>2. graph.alias[b] \in PageURLs(graph)
          BY <1>2, <4>1 DEF IInv, AliasesLead, AliasesLeadToPages
        <4> QED BY <1>4, <3>2, <4>1, <4>2
      <3> QED BY <3>1, <3>2
    <2>3. NoSelfLoops(h)
      BY <1>4 DEF IInv, AliasesLead, LeadsOn
    <2> QED BY <1>1, <2>2, <2>3 DEF AliasesLead, LeadsOn, AliasesLeadToPages
  <1>8. OneAtATime'
    <2>1. SUFFICES ASSUME ~blurred
                   PROVE  PagesAreNotAliases(h) /\ \A o \in Savers : tx'[o].pc = "idle"
      BY <1>1 DEF OneAtATime
    <2>2. /\ PagesAreNotAliases(graph) /\ targets \cap DOMAIN graph.alias = {}
          /\ folds = (crawl.aliases \cap (PageURLs(graph) \cup targets) # {})
          /\ \A o \in Savers : tx[o].pc # "idle" => o = s
      BY <1>1, <2>1 DEF IInv, OneAtATime, crawl, targets, folds
    <2>3. PagesAreNotAliases(h)
      <3>1. SUFFICES ASSUME NEW v \in PageURLs(h), v \in DOMAIN h.alias PROVE FALSE
        BY DEF PagesAreNotAliases
      <3>2. v \in PageURLs(graph) \cup us
        BY <1>4
      <3>3. CASE v \in crawl.aliases
        <4>1. v # crawl.url /\ ~folds
          BY <1>2, <1>4, <3>3 DEF IsCrawl
        <4> QED BY <2>2, <3>2, <3>3, <4>1 DEF us
      <3>4. CASE v \notin crawl.aliases
        <4>1. v \in DOMAIN graph.alias /\ v # crawl.url
          BY <1>4, <3>1, <3>4
        <4> QED BY <2>2, <3>2, <4>1 DEF us, PagesAreNotAliases
      <3> QED BY <3>3, <3>4
    <2>4. \A o \in Savers : tx'[o] = IF o = s THEN NoTx ELSE tx[o]
      BY <1>1, <1>2
    <2> QED BY <2>2, <2>3, <2>4 DEF NoTx
  <1> QED BY <1>5, <1>6, <1>7, <1>8 DEF IInv

\* A save that fails leaves the graph alone.
LEMMA SaveFailsStep == \A s \in Savers : IInv /\ SaveFails(s) => IInv'
  <1> SUFFICES ASSUME NEW s \in Savers, IInv, SaveFails(s) PROVE IInv'
    OBVIOUS
  <1>1. /\ tx[s].pc # "idle" /\ saves' = saves /\ blurred' = blurred
        /\ graph' = graph /\ starting' = starting /\ tx' = [tx EXCEPT ![s] = NoTx]
    BY DEF SaveFails
  <1>2. saves \in Nat /\ saves > 0 /\ tx = [o \in Savers |-> tx[o]] /\ GraphTypeOK(graph)
    BY <1>1 DEF IInv, Types, TypeOK, NoTx
  <1>3. Types' /\ Cleaning' /\ GroupsAreRight' /\ Migrating' /\ LegacyOK'
    BY <1>1, <1>2, Serving DEF IInv, Types
  <1>4. RedirectsAreRight' /\ AliasesLead'
    BY <1>1 DEF IInv, RedirectsAreRight, AliasesLead, starting
  <1>5. OneAtATime'
    <2>1. \A o \in Savers : tx'[o] = IF o = s THEN NoTx ELSE tx[o]
      BY <1>1, <1>2
    <2>2. \A o \in Savers : tx'[o].pc # "idle" => tx[o].pc # "idle" /\ tx'[o] = tx[o]
      BY <2>1 DEF NoTx
    <2>3. \A o \in Savers : tx'[o].pc = "folding" => tx'[o] = tx[o]
      BY <2>1 DEF NoTx
    <2> QED BY <1>1, <2>2, <2>3 DEF IInv, OneAtATime
  <1> QED BY <1>3, <1>4, <1>5 DEF IInv

-----------------------------------------------------------------------------
(* The invariant, and what it says of the graph.                           *)

\* Every step keeps the invariant.
LEMMA StepIInv == IInv /\ [Next]_vars => IInv'
  <1> SUFFICES ASSUME IInv, [Next]_vars PROVE IInv'
    OBVIOUS
  <1>1. CASE Start
    BY <1>1, LookStep, MergeSpellingsStep, DropStaleAliasesStep, MergeRedirectsStep,
       RedirectsDoneStep, CreateConstraintsStep, RecordVersionStep, InitGraphSchemaStep DEF Start
  <1>2. CASE StartDies
    BY <1>2, StartDiesStep
  <1>3. ASSUME NEW s \in Savers, Save(s) PROVE IInv'
    BY <1>3, ReadAliasesStep, FindAliasNodeStep, CommitStep, SaveFailsStep DEF Save
  <1>4. CASE UNCHANGED vars
    <2>1. /\ graph' = graph /\ meta' = meta /\ pc' = pc /\ todo' = todo /\ removed' = removed
          /\ index' = index /\ tx' = tx /\ saves' = saves /\ legacy' = legacy
          /\ blurred' = blurred /\ forgotten' = forgotten
      BY <1>4 DEF vars
    <2>2. Types' /\ Cleaning' /\ GroupsAreRight' /\ RedirectsAreRight'
      BY <2>1 DEF IInv, Types, TypeOK, Cleaning, GroupsAreRight, RedirectsAreRight
    <2>3. AliasesLead' /\ OneAtATime' /\ Migrating' /\ LegacyOK'
      BY <2>1 DEF IInv, AliasesLead, OneAtATime, Migrating, LegacyOK
    <2> QED BY <2>2, <2>3 DEF IInv
  <1> QED BY <1>1, <1>2, <1>3, <1>4 DEF Next

\* The invariant is what the readers of the graph rely on.
LEMMA ConsistentByIInv == IInv => GraphIsConsistent
  <1> SUFFICES ASSUME IInv PROVE GraphIsConsistent
    OBVIOUS
  <1>1. TypeOK
    BY DEF IInv, Types
  <1>2. GraphIsSound
    BY DEF IInv, AliasesLead, LeadsOn, GraphIsSound
  <1>3. PageOrAlias
    BY DEF IInv, AliasesLead, AliasesLeadToPages, OneAtATime, PageOrAlias, PagesAreNotAliases
  <1> QED BY <1>1, <1>2, <1>3 DEF GraphIsConsistent

\* When pages are served identities are names, and a name has one node.
LEMMA LosesNothingByIInv == IInv => MigrationLosesNothing
  <1> SUFFICES ASSUME IInv, pc = "serving", saves = 0
               PROVE  MigrationKeepsLinksAndCrawls /\ IndexFollowsGraph
    BY DEF MigrationLosesNothing, MigrationKeepsLinksAndCrawls, IndexFollowsGraph
  <1>1. /\ GraphTypeOK(graph) /\ OneNodePerURL(graph) /\ IsClean(graph) /\ GraphTypeOK(legacy)
        /\ removed = {} /\ Migrated(graph, legacy)
        /\ ~forgotten => HasPages(graph, index)
    BY DEF IInv, Types, TypeOK, Cleaning, LegacyOK, Migrating
  <1>2. \A m \in DOMAIN graph.page : IdentityOf(graph, m) = graph.page[m].url
    <2>1. \A m \in DOMAIN graph.page : graph.page[m].url \in URLs /\ graph.page[m].url \in PageURLs(graph)
      BY <1>1 DEF GraphTypeOK, PageURLs
    <2> QED BY <1>1, <2>1, Identified DEF IsClean, IdentityOf
  <1>3. Identities(graph) = PageURLs(graph)
    BY <1>2 DEF Identities, PageURLs
  <1>4. \A v : Home(v) = Lives(graph, v)
    BY <1>3 DEF Home, Lives
  <1>5. \A m \in DOMAIN graph.page : TheNode(graph, graph.page[m].url) = m
    <2>1. ASSUME NEW m \in DOMAIN graph.page PROVE TheNode(graph, graph.page[m].url) = m
      <3>1. graph.page[m].url \in PageURLs(graph)
        BY DEF PageURLs
      <3> QED BY <1>1, <3>1, TheNodeIsThere DEF OneNodePerURL
    <2> QED BY <2>1
  <1>6. \A m \in Solid(graph) : TheNode(graph, IdentityOf(graph, m)) = m
    BY <1>2, <1>5 DEF Solid
  <1>7. MigrationKeepsLinksAndCrawls
    <2> DEFINE URLOf(n) == Home(legacy.page[n].url)
    <2>1. ASSUME NEW e \in legacy.link, e[1] \in Solid(legacy), e[2] \in Solid(legacy),
                 URLOf(e[1]) # URLOf(e[2])
          PROVE  <<TheNode(graph, URLOf(e[1])), TheNode(graph, URLOf(e[2]))>> \in graph.link
      <3>1. PICK n, m \in Solid(graph) :
              <<n, m>> \in graph.link /\ IdentityOf(graph, n) = URLOf(e[1]) /\ IdentityOf(graph, m) = URLOf(e[2])
        BY <1>1, <1>4, <2>1 DEF Migrated, LinksLive
      <3> HIDE DEF URLOf
      <3> QED BY <1>6, <3>1
    <2>2. ASSUME NEW n \in Solid(legacy)
          PROVE  graph.page[TheNode(graph, URLOf(n))].at >= legacy.page[n].at
      <3>1. PICK m \in Solid(graph) :
              IdentityOf(graph, m) = URLOf(n) /\ graph.page[m].at >= legacy.page[n].at
        BY <1>1, <1>4, <2>2 DEF Migrated, PagesLive
      <3> HIDE DEF URLOf
      <3> QED BY <1>6, <3>1
    <2> QED BY <2>1, <2>2 DEF MigrationKeepsLinksAndCrawls, Solid
  <1>8. IndexFollowsGraph
    BY <1>1 DEF IndexFollowsGraph, HasPages, PageURLs, Solid
  <1> QED BY <1>7, <1>8

\* At every moment, whatever the old graph, wherever starts die and however saves
\* interleave, the graph that pages.Graph keeps is one its readers can use: one node
\* per URL once there is the constraint, no page that links to itself, aliases that
\* lead to pages, and, while saves do not overlap, no URL that is both.
THEOREM GraphStaysConsistent == Spec => []GraphIsConsistent
  <1>1. Spec => []IInv
    BY InitIInv, StepIInv, PTL DEF Spec
  <1> QED BY <1>1, ConsistentByIInv, PTL

\* A start that merges old spellings and redirects (EnsureSchema), however often it
\* dies on the way, keeps each link between two old pages, the most recent crawl of
\* all a page's names, and leaves nothing in the search index that is not a page.
THEOREM MigrationKeepsAll == Spec => []MigrationLosesNothing
  <1>1. Spec => []IInv
    BY InitIInv, StepIInv, PTL DEF Spec
  <1> QED BY <1>1, LosesNothingByIInv, PTL
=============================================================================
