----------------------------- MODULE MCCrawlRun -----------------------------
(* Two nodes with a worker each; a page a with links to b and c, b with       *)
(* links to c and back to a, c with a link to b: shared links, cycles, and a  *)
(* task c whose depth depends on which of a and b admits it first.            *)
EXTENDS CrawlRun, TLC

CONSTANTS r1, a, b, c, n1, n2

MCRuns == {r1}
MCTasks == {a, b, c}
MCNodes == {n1, n2}
MCNodeOf == [w \in MCNodes |-> w]
MCMaxLinks == [r \in MCRuns |-> 5]
MCMaxDepth == [r \in MCRuns |-> 3]
MCStart == [r \in MCRuns |-> a]

\* A page always has the same links, or it may change, or fail, between two
\* deliveries of its task.
MCStableLinks == (a :> {{b, c}}) @@ (b :> {{a, c}}) @@ (c :> {{b}})
MCVaryingLinks == (a :> {{c}, {b, c}}) @@ (b :> {{a, c}}) @@ (c :> {{b}, {}})

\* The same with no way back, for two faults in one behaviour.
MCShortLinks == (a :> {{c}, {b, c}}) @@ (b :> {{c}, {}}) @@ (c :> {{}})

MCRedeliveries == {[kinds |-> {"rebalance"}, max |-> 2]}
MCFaultPlans == {
    [kinds |-> {"redisDown", "replyLost", "recordLost", "crash", "rebalance"}, max |-> 2],
    [kinds |-> {"produceFails", "stateExpires", "clock"}, max |-> 1]}

Symmetry == Permutations(MCNodes)

=============================================================================
