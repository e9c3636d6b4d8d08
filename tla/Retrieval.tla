------------------------------ MODULE Retrieval ------------------------------
(***************************************************************************)
(* A search request: its parameters, the lists of chunks the two searches  *)
(* it asks for find side by side, and the pages the lists are fused into.  *)
(* The index, and the embedding of the query, are external: a search finds *)
(* a list of chunks, best first, or fails.                                 *)
(***************************************************************************)
EXTENDS Integers, SequencesExt

CONSTANTS
    Parameters,     \* requests: [query, mode, limit], each {} if it is not given
    Lists,          \* what a search may find: sequences of [url, text, score]
    DefaultLimit, MaxLimit, RRFK

(* What the configuration and retrieval.New let through. *)
ASSUME SearchIsConfigured ==
    MaxLimit \in Nat \ {0} /\ DefaultLimit \in 1..MaxLimit /\ RRFK \in Nat \ {0}

(* The index finds chunks, the best first.  Scores are numbers to compare, *)
(* and so integers.                                                        *)
IsRanked(list) ==
    /\ Len(list) \in Nat /\ DOMAIN list = 1..Len(list)
    /\ \A i \in DOMAIN list : list[i].score \in Int
    /\ \A i, j \in DOMAIN list : i < j => list[i].score >= list[j].score
ASSUME SearchesAreRanked == \A list \in Lists : IsRanked(list)

VARIABLES
    asked,      \* the parameters
    dense,      \* the dense search: "idle", "running", "failed" or "found"
    bm25,       \* the text search
    hits,       \* what each has found
    failure,    \* the first failure of the two: {} or {"timeout"} or {"error"}
    status      \* of the response, 0 before there is one; 200 carries Results

searchVars == <<asked, dense, bm25, hits, failure, status>>

Given(values, default) == IF values = {} THEN default ELSE CHOOSE v \in values : TRUE

(* parseRequest: a limit that is given is one in range. *)
mode == Given(asked.mode, "hybrid")
limit == Given(asked.limit, DefaultLimit)
LimitIsValid == asked.limit = {} \/ limit \in 1..MaxLimit
RequestIsValid == LimitIsValid /\ asked.query # {} /\ mode \in {"hybrid", "dense", "bm25"}

-----------------------------------------------------------------------------
(* The elements of a finite set, one before another as `before' says. *)
InOrder(S, before) ==
    [i \in 1..Cardinality(S) |-> CHOOSE s \in S : Cardinality({t \in S : <<t, s>> \in before}) = i - 1]

Least(indices) == InOrder(indices, {p \in indices \X indices : p[1] < p[2]})

\* Mutant: a page's later chunks overwrite its best one.
LastChunkKept(list) ==
    LET kept == Least({i \in DOMAIN list : \A j \in (i + 1)..Len(list) : list[j].url # list[i].url})
    IN [r \in DOMAIN kept |-> [hit |-> list[kept[r]], rank |-> r]]

(* A page of a list is the best chunk of its address; its rank is among    *)
(* pages.                                                                  *)
pages(list) ==
    LET best == Least({i \in DOMAIN list : \A j \in 1..(i - 1) : list[j].url # list[i].url})
    IN [r \in DOMAIN best |-> [hit |-> list[best[r]], rank |-> r]]

(* A page's place in a list: {} or {its page}. *)
In(ps, url) == {p \in ToSet(ps) : p.hit.url = url}
Ranks(res) == {p.rank : p \in res.dense \cup res.bm25}
bestRank(res) == CHOOSE r \in Ranks(res) : \A q \in Ranks(res) : r <= q

(* The score as a fraction: 1/(k+r), summed over the lists a page is in;   *)
(* in one list alone, the score there.                                     *)
Fraction(places) ==
    IF places = {} THEN <<0, 1>> ELSE LET p == CHOOSE q \in places : TRUE IN <<1, RRFK + p.rank>>
Plus(f, g) == <<f[1] * g[2] + g[1] * f[2], f[2] * g[2]>>
Score(res) ==
    CASE mode = "dense" -> <<(CHOOSE p \in res.dense : TRUE).hit.score, 1>>
      [] mode = "bm25" -> <<(CHOOSE p \in res.bm25 : TRUE).hit.score, 1>>
      [] OTHER -> Plus(Fraction(res.dense), Fraction(res.bm25))
Above(f, g) == f[1] * g[2] > g[1] * f[2]

(* The chunk shown: that of the list the page ranks higher in, the dense   *)
(* one if it ranks the same in both.                                       *)
snippet(res) ==
    LET from == IF res.dense = {} \/ \E d \in res.dense, b \in res.bm25 : b.rank < d.rank THEN res.bm25 ELSE res.dense
    IN (CHOOSE p \in from : TRUE).hit.text

(* The stable sort: by score, then by best rank, then as it was found, the *)
(* dense list first.                                                       *)
FoundBefore(r, s) ==
    IF r.dense = {} THEN s.dense = {} /\ \E p \in r.bm25, q \in s.bm25 : p.rank < q.rank
    ELSE s.dense = {} \/ \E p \in r.dense, q \in s.dense : p.rank < q.rank
Precedes(r, s) ==
    \/ Above(Score(r), Score(s))
    \/ /\ ~Above(Score(s), Score(r))
       /\ bestRank(r) < bestRank(s) \/ (bestRank(r) = bestRank(s) /\ FoundBefore(r, s))

(* Every page once. *)
fuse(ds, bs) ==
    LET results == {[url |-> p.hit.url, dense |-> In(ds, p.hit.url), bm25 |-> In(bs, p.hit.url)] :
                        p \in ToSet(ds) \cup ToSet(bs)}
        order == InOrder(results, {p \in results \X results : Precedes(p[1], p[2])})
    IN [i \in DOMAIN order |->
            [url |-> order[i].url, dense |-> order[i].dense, bm25 |-> order[i].bm25, snippet |-> snippet(order[i])]]

Results ==
    LET all == fuse(pages(hits.dense), pages(hits.bm25))
    IN IF Len(all) > limit THEN SubSeq(all, 1, limit) ELSE all

-----------------------------------------------------------------------------
SearchStarts(parameters) ==
    /\ asked = parameters
    /\ dense = "idle" /\ bm25 = "idle" /\ hits = [dense |-> <<>>, bm25 |-> <<>>] /\ failure = {}
    /\ status = 0

Refused ==
    /\ status = 0 /\ dense = "idle" /\ bm25 = "idle" /\ ~RequestIsValid
    /\ status' = 400
    /\ UNCHANGED <<asked, dense, bm25, hits, failure>>

Searches ==
    /\ status = 0 /\ dense = "idle" /\ bm25 = "idle" /\ RequestIsValid
    /\ dense' = IF mode \in {"hybrid", "dense"} THEN "running" ELSE "idle"
    /\ bm25' = IF mode \in {"hybrid", "bm25"} THEN "running" ELSE "idle"
    /\ UNCHANGED <<asked, hits, failure, status>>

(* One search comes to its end.  The first that fails cancels the other,   *)
(* and its failure is the request's.                                       *)
Ends(state, outcome) ==
    /\ state = "running"
    /\ failure' = IF outcome = "found" \/ failure # {} THEN failure ELSE {outcome}

DenseEnds ==
    /\ \E outcome \in {"found", "timeout", "error"} :
        /\ Ends(dense, outcome)
        /\ dense' = IF outcome = "found" THEN "found" ELSE "failed"
        /\ IF outcome = "found" THEN \E list \in Lists : hits' = [hits EXCEPT !.dense = list] ELSE UNCHANGED hits
    /\ UNCHANGED <<asked, bm25, status>>

BM25Ends ==
    /\ \E outcome \in {"found", "timeout", "error"} :
        /\ Ends(bm25, outcome)
        /\ bm25' = IF outcome = "found" THEN "found" ELSE "failed"
        /\ IF outcome = "found" THEN \E list \in Lists : hits' = [hits EXCEPT !.bm25 = list] ELSE UNCHANGED hits
    /\ UNCHANGED <<asked, dense, status>>

(* Both are over: nothing is shown of one where the other failed. *)
Responds ==
    /\ status = 0 /\ "running" \notin {dense, bm25} /\ {dense, bm25} # {"idle"}
    /\ status' = CASE failure = {} -> 200 [] failure = {"timeout"} -> 504 [] failure = {"error"} -> 500
    /\ UNCHANGED <<asked, dense, bm25, hits, failure>>

SearchStep == Refused \/ Searches \/ DenseEnds \/ BM25Ends \/ Responds

-----------------------------------------------------------------------------
SearchTypeOK ==
    /\ asked \in Parameters
    /\ {dense, bm25} \subseteq {"idle", "running", "failed", "found"}
    /\ status \in {0, 200, 400, 500, 504}

(* The first chunk of a page in a list, and its place among the pages.     *)
FirstOf(list, url) ==
    CHOOSE i \in DOMAIN list : list[i].url = url /\ \A j \in 1..(i - 1) : list[j].url # url
Place(list, url) == Cardinality({list[i].url : i \in 1..FirstOf(list, url)})
Has(list, url) == \E i \in DOMAIN list : list[i].url = url
NoWorse(list, u, v) == Has(list, v) => Has(list, u) /\ Place(list, u) <= Place(list, v)
Better(list, u, v) == Has(list, u) /\ (Has(list, v) => Place(list, u) < Place(list, v))

(* An answered search has every page the lists found, up to the limit and  *)
(* each once; a page no list places below another, and one places above    *)
(* it, comes before it; and the text shown is of a chunk of that page, the *)
(* first of it in a list that places it as high as any.  Nothing is        *)
(* answered from one list where the other failed.                          *)
RankingIsFused ==
    /\ SearchTypeOK
    /\ status = 200 =>
        LET found == {h.url : h \in ToSet(hits.dense) \cup ToSet(hits.bm25)}
            shown == Results
            Comes(u) == \E i \in DOMAIN shown : shown[i].url = u
            lists == {hits.dense, hits.bm25}
        IN /\ Len(shown) = (IF Cardinality(found) < limit THEN Cardinality(found) ELSE limit)
           /\ \A i, j \in DOMAIN shown : shown[i].url = shown[j].url => i = j
           /\ \A u, v \in found :
                (/\ \A list \in lists : NoWorse(list, u, v)
                 /\ \E list \in lists : Better(list, u, v)
                 /\ Comes(v))
                => \E i, j \in DOMAIN shown : i < j /\ shown[i].url = u /\ shown[j].url = v
           /\ \A r \in ToSet(shown) :
                \E list \in lists :
                    /\ Has(list, r.url)
                    /\ r.snippet = list[FirstOf(list, r.url)].text
                    /\ \A other \in lists : Has(other, r.url) => Place(list, r.url) <= Place(other, r.url)
           /\ "failed" \notin {dense, bm25}
=============================================================================
