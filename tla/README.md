# Arachne in TLA+

Arachne is a web crawler that runs as any number of equal nodes.  The nodes share
nothing but Kafka (runs to start, pages to crawl), Redis (how far each run is, which
runs hold a slot, page and document hashes), Neo4j (the graph of pages) and Milvus
(the search index).  Nobody is in charge: a run is started by whichever node gets its
message, crawled by all of them, and finished by whichever worker counts its last
task down.  What makes the program correct is therefore not in any one function but
in how these steps of different nodes fall between each other, and that is what the
modules here are about.

Paths below are relative to `src/`; `internal/` is left out where it is plain.

## 1. Inventory

| Part | State | Operations | Talks to |
|---|---|---|---|
| run state, `webcrawler/runstates` | sorted set of slots scored by lease end; per run a hash of tasks (queued/done), an active counter, a links counter, one ttl | Acquire/ReleaseRunSlot, AdmitTask, UnadmitTask, TaskState, CompleteTask, CleanupRun, each one script or command | called by the listener, SendTask, workers of all nodes |
| task and run queues, `processor` | two Kafka queues, two channels | SendTask, QueueRun, StartTaskConsumer, StartRunConsumer, StopProcessor | run state, Kafka queue, workers, listener |
| Kafka queue, `processor/queue` | offset tracker (in flight, done, committed per partition), producer channel, seal | Produce, consumer loop, committer, onRevoked/onLost, producer loop, CloseQueue | Kafka |
| crawl workers, `webcrawler` | a task in hand | handleTask: check state, fetch, save, send the links, complete, ack, release, clean up | run state, SendTask, saver channel, caches, document sink |
| app, `app` | the run being dispatched; context; shutdown stage | startRunListener, processRun, waitForRunSlot, handleDispatchError, StopApp | run state, queues, everything's Shutdown |
| indexing, `indexing` | one channel per shard; hash of the last version indexed, in Redis | AsyncSink.Submit/work/Shutdown, ChunkingSink.Submit, VectorSink.Submit | workers, embedding service, Milvus |
| vector store, `vectorstore` | rows of chunks by page | Replace (upsert in batches, then delete stale rows), search | Milvus |
| page graph, `pages` | pages, aliases, links in Neo4j; saver channel; a node with the schema's version | StartSaverWorkers, SavePage, EnsureSchema with its merging of old names, Shutdown | workers, Neo4j, document sink |
| networker | none | Fetch: redirects, the page's identity | the web |
| sugaredworker | one browser all workers share | PerformExtraTask, restart after a panic | workers |
| caches, `webcrawler/cache` | pages and robots files by key, with a ttl | Get, Set | workers |
| parser | none | Parse: text and links of a body | workers |
| pageparser | none | the legacy engine: links of HTML, JSON and evaluated scripts | workers |
| chunker, embedding | none | Chunk; Embed in batches with retries | document sink, the embedding server |
| retrieval, searchapi | one request | Search: two searches at once, fused by page; the HTTP handler | Milvus, embedding |
| urlnorm | none | Canonical, FromUserInput: the identity of URLs everything above counts on | everyone |
| evaluation, appconfig, platform, initializers, cmd | none over time | offline metrics, settings, construction, main | |

What is hard here, and where:

* **Interleaving.**  Every call to Redis is atomic and nothing between two calls is.
  A task may be at work twice, by its delivery from before and from after a
  rebalance; a slot may be released, reaped, renewed and acquired by four nodes.
* **Order and redelivery.**  Kafka redelivers everything after the last committed
  offset; workers ack out of order; commits fail, or work and lose their answer.
* **Partial failure.**  Admit-then-produce, complete-ack-release-clean-up and
  upsert-then-delete are sequences of calls of which any one may fail or be the last.
* **Shutdown.**  Producers, consumers, committer and workers stop in stages, and
  each must leave nothing behind it promised to keep.
* **Time.**  A lease is renewed by progress only and ends a run that makes none.

What makes each part correct:

* run state: the counters say what the hash says; never too many slots or links; a
  done task stays done; a run at work keeps its slot.
* crawl: no task is counted as active unless a message will still bring it; no task
  is acked undone; no found link is left out; a run is finished exactly once and
  stays finished; every run is finished.
* dispatch: no run is lost between its message and its crawl; a run that waits gets
  its turn; no slot is kept for ever.
* consuming: a committed offset covers acked records only, does not go back, and
  does get committed; a late ack marks nothing.
* producing: what Produce accepted is flushed once, in order, stop or no stop; every
  Produce returns; a stopped queue ends.
* indexing: a page in the index is never without a whole version, a page skipped as
  unchanged is one whose index is right, as long as no version comes to the sink again
  after another one, and a page that stops changing is in the end indexed as it is,
  whichever worker submits what when.
* page graph: one node per URL, no URL both page and alias, links that lead to pages;
  the merging of old names loses no link and no crawl, and what is no page any more
  leaves the search index; a start gets through however often it dies.
* page pipeline: no worker uses the browser, sink, caches, savers' channel or run state
  that StopApp has closed (the queues closed in the first stage, to which workers may
  still send links, are not among these); a page is stored under the server's name for
  it and only if its robots.txt allows; text is found only under the address it is or
  was served at, and leaves the index by the server's word on that address only; one
  worker or saver that hangs holds up no other.
* parser: reading the text does not change the document its links are read from; the
  legacy engine's links do not depend on the order of its maps.
* chunker, embedding: chunks fit and put together give the text back; a vector is the
  vector of its own text; a batch is not tried for ever.
* retrieval: the ranking is the fusion of the best chunk per page of each list, and no
  more pages than asked for; every request is answered.
* urlnorm: canonical forms are fixed points, and spellings of one address have one.

## 2. Modules

| Module | What it is |
|---|---|
| `RunStore` | the Redis scripts, one operator per method and one for its answer; no behaviour of its own |
| `RunState` | `RunStore` under every order of calls by anyone |
| `RunStoreProofs` | theorems about the two |
| `CrawlRunProofs`, `RunDispatchProofs` | theorems about a run's crawl and its dispatch, on top of `RunStoreProofs` |
| `OffsetTrackerProofs`, `ProducerQueueProofs` | theorems about the two halves of the Kafka queue, and the refinement of `PayloadQueue` |
| `IndexingProofs` | theorems about one page's rows, their vectors, and the search over them |
| `PagePipelineProofs` | theorems about one process, and about the names of its pages (`Urlnorm`) |
| `PageStoreProofs` | theorems about the statements of `PageGraph`, and about the graph under `PageStore` |
| `CrawlRun` | tasks of a run: topic, workers, SendTask, on top of `RunStore` |
| `RunDispatch` | runs: topic, listeners, slots, QueueRun, a node's way down, on top of `RunStore` |
| `OffsetTracker` | the consuming half of the Kafka queue and its offset bookkeeping |
| `ProducerQueue` | the producing half of the Kafka queue and its shutdown |
| `PayloadQueue` | what the producing half promises; `ProducerQueue` implements it |
| `Indexing` | one page from a crawl to its rows in the search index |
| `PageGraph` | the Cypher statements as operators on a graph value; no behaviour of its own |
| `PageStore` | the start with its migration, then savers in overlapping transactions, on top of `PageGraph` |
| `Fetching` | one GET: redirects, identity, what is handed to the index; no behaviour of its own |
| `PagePipeline` | one process: workers, browser, caches, sink, savers, StopApp, on top of `Fetching` |
| `PageParser` | the parser in use: a body's text and links |
| `JsLinks` | the legacy engine: links of documents and scripts |
| `Chunker`, `Embedding` | a page's text into chunks and vectors |
| `Retrieval` | a search request |
| `Urlnorm` | canonical forms |
| `MC*` | small instances for TLC; `MCAlgorithms` runs one job at a time of the last five parts |

`PROJECT.json` maps every definition to the lines it stands for.

### RunStore, RunState

`lease[r]` is what the sorted set holds of run `r`: ticks left, `0` for a slot that
has expired and has not been reaped, `NoSlot` for none.  Expired and absent are kept
apart because the scripts do: `AcquireRunSlot` reaps, ZADD XX of `TaskState` and
`CompleteTask` renews a live slot only.  Time is `LeaseTick`, all leases together.
The ttl of a run's three keys is `StateExpires`, at any time.  `RunState` adds one
history variable, `idle`, to say what a lease is measured against.

### CrawlRun

A worker's step is one call that another process can see: `CheckState`, `Fetch`,
`Admit` and `Produce` for one link, `Undo`, `Complete`, `Ack`, `Release`, `Cleanup`.
`handleTask`'s branches are the steps' guards: an error of `CheckState` goes on, an
error of `Admit` marks the page failed and goes on with the next link, an inactive run
ends the loop, a failed page or completion leaves the message unacked.  A call
may work, never arrive, or take effect and lose its answer.  The topic is reduced to
what the queue promises: records are ready, held, acked or committed; a rebalance or a
crash makes what a node has not committed ready again while, after a rebalance, its
workers go on with what they hold.  Fetching is a choice among the sets of links the page may
give (`{}` is also a failed or forbidden fetch); the page cache, the saver and the
document sink take no part in which task is done.

### RunDispatch

The listener is one process per node, `Poll`, `Wait`, `NoSlotInTime`, `Requeue`,
`Admit`, `Produce`, `Undo`, `DispatchError`, `AfterDispatchError`, `Ack`.  A node's
`phase` is its way down: `Cancel` (the signal), `StopProcessor` (the queues begin to
refuse), `QueuesClosed` (drained, committed, given back), `Restart`.  A crawl is its
first task: the worker that completes it finishes the run, releases the slot and
cleans up, which is all other listeners see of it.  The run topic is a fixed number
of places, `room` in the plan; a committed record frees its place.

`CrawlRun`, `OffsetTracker` and `RunDispatch` take their environment from the constant
`Plans`: which kinds of fault may happen, how many in one behaviour, and what else
differs.  A behaviour draws one plan at its start, so that one run covers several
environments and a property may say which of them it speaks of.

### OffsetTracker

Members of a consumer group, partitions with a log, the tracker (`inFlight`,
`committed`), the poll loop that tracks a record when it hands it out, the committer
that takes, commits and restores, `onRevoked` and `onLost`, and the broker's side:
generations, fencing, the committed offset.  `Done` marks a record only if it is the
very delivery in flight (the code compares the record's pointer: modelled by the
delivery's number), then advances over the done prefix.

### ProducerQueue, PayloadQueue

The read-write lock, the bounded channel, the loop with its batch, the final drain
and CloseQueue are steps of their own, so that a caller may hold the lock with a full
channel while the loop wants to seal.  `PayloadQueue` knows only what was accepted and
what was flushed: flushed in order and once, and everything accepted is flushed
before the queue ends.

### Indexing

One page, since pages do not interact.  `Fetch`, `Enter`, `Select` are a crawl worker in
`AsyncSink.Submit`, which looks at `done` and only then selects between the shard, `done`
and the timer.  `Take`, `Lookup`, `Query`, `Upsert`, `Delete`, `RecordHash`, `End` are the
shard's worker in `ChunkingSink.Submit`, `VectorSink.Submit` and `Milvus.Replace`: one step
per call that leaves the process, each of which may work, never arrive, or take effect
and lose its answer.  Embedding and reading the stored ids are one step, as an error
of either writes nothing.  A cancelled context makes calls fail.  A version of the
page is its text, its hash and its list of chunks; versions share chunks because a
chunk's id is a hash of its text.  Each of a node's `CrawlWorkers` may have the page in
hand, fetched for another run, another delivery of its task or under an alias, so
versions of it may come to the shard in any order; `arrivals` remembers whether one came
again after another one.

### PageGraph, PageStore

`PageGraph` has one operator per statement of `graph.go` and `schema.go`: MERGE of a
page, folding of nodes into the one kept (all at once: the code's loop over them has
the same result in any order), and `savePage`, which is all of them in the
transaction's order.  A node that MERGE makes gets an id that is not in use (`NewNode`).  A page's properties are the number of the
crawl they come from.  In `PageStore` a start is `Look`, `mergeSpellings` group by group,
`dropStaleAliases`, `mergeRedirects` URL by URL, `CreateConstraints`, `RecordVersion`,
`initGraphSchema` (telling the sink what is gone), each of which may be the last
(`StartDies`).  Neo4j isolates transactions as read committed: a save is `ReadAliases`,
`FindAliasNode`, `Commit`, so that another save may commit between what it reads and
what it writes.  The locks that writes take are left out; they only remove
interleavings.

### Fetching, PagePipeline

`Fetching` is `CheckRedirect`, `pageIdentity` and `submitDocument` on a site that is a
constant: a page's name moves along permanent redirects, and those to another scheme
or slash, until the first that is neither; the client refuses the redirect with the
number `maxRedirects`, so it follows one less.  The site has changed before: `OldIndexes`
is what crawls of it as it was may have left indexed, addresses that by now are errors,
redirects or gone among them.  That it changes while a worker has a page in hand is
`Indexing`'s subject.  `PagePipeline` is one process from the task
channel to the savers, with the stages of `StopApp` beside it; each stage may end at its
deadline.  A use of something closed is written to `refused`; a send on the closed
saver channel ends the process.  The composition with `CrawlRun` is left out on
purpose: whether a task is completed does not depend on what becomes of its page.

### PageParser, JsLinks

A document is a tree of nodes with what the code looks at: tag, kind of class, number
of runes, address.  `PageParser` reads the content (furniture and lists of links cut out of a
clone, readability, or the fallback) and then the links, from the document itself.
`JsLinks` evaluates a script: passes over declarations, in any order since Go's maps
have none, and over assignments, until a pass changes nothing.  The libraries that build the
trees are external.

### Chunker, Embedding, Retrieval, Urlnorm

A text is a sequence of runs of runes, so that a cut inside a word can be seen and
characters are never spelled out.  `Embedding` takes the chunks of a page through
batches, retries and every wrong answer a server may give.  `Retrieval` has the two
searches end in either order, fail or run out of time.  `Urlnorm` works on URLs taken
apart.

## 3. Runs

All runs are small instances that TLC explores completely.

| Run | Instance | Shows |
|---|---|---|
| run_state | 3 runs, 2 tasks, 2 slots, lease 2 | the six promises of the store under any calls |
| crawl_run_redelivery | 3 pages with shared links and a cycle, depth 3, 2 nodes, 2 redeliveries | `QueuedHasMessage`, `RunEndsOnce`, `FinishedNotRecrawled`, `EveryRunFinishes` |
| crawl_run_faults | same nodes, pages whose links change; 2 faults of 5 kinds, or 1 of the other 3, the clock among them | `AckedIsDone`, `NoLinkLeftBehind` |
| offset_tracker | 2 members, 1 partition; 2 records while partitions move, 3 while they do not; 2 faults | `CommittedIsAcked`, `TrackerIsSound`, `CommitNeverRewinds`, `AllCommitted` |
| producer_queue | 2 callers, 3 payloads each at most, channel of 2, stop at any time | `EachPayloadFlushedOnce`, `NobodyWaitsForEver`, and that it implements `PayloadQueue` |
| run_dispatch | 2 nodes, 1 slot; 2 runs and 2 failing calls, or 1 run, 1 that is unusable and 1 fault of every kind | `DispatchIsSound`, `EveryRunIsCrawled`, `SlotIsFreed` |
| indexing | 1 node, 2 crawl workers, 3 versions that share chunks two by two, submitted in any order, a shard of 1, batches of 1 row, 2 faults of 4 kinds | `SkippedInOrderIsWhole`, `IndexIsSound`, `Converges`, `StopEnds` |
| page_graph | 5 stores a start may find, the empty one among them, 5 spellings, 2 savers, 3 saves, 1 death of a start | `GraphIsConsistent`, `MigrationLosesNothing`, `StartGetsThrough` |
| page_pipeline | 12 addresses with every kind of redirect and answer, all that is no page now indexed before, 6 batches of at most 2 tasks, 2 workers, 1 saver, a stop at any time | `ClosedOnlyAfterUse`, `PagesAreStoredTruly`, `OnlyGoneOrRenamedLeaveTheIndex`, `NobodyHoldsUpTheRest` |
| algorithms | 22 bodies, 6 documents with scripts, 256 contents under 3 settings, 12 requests over lists of up to 3 chunks, some 1 200 spellings of URLs on 6 pages, two of which are not canonical themselves | `PageIsReadWhole`, `ScriptLinksDetermined`, `ChunksReassemble`, `VectorsMatchTexts`, `RankingIsFused`, `CanonicalIsStable`, `EveryJobEnds` |
| offset_mid_batch, indexing_stale_hash | | counterexamples, section 6 |

A property with several sides is a conjunction of named parts, and TLC's error trace
shows which of them fails:

| Property | Parts |
|---|---|
| `RunEndsOnce` | `TypeOK`, `OneFinisher`, `FinishedStaysEmpty` |
| `TrackerIsSound` | `TypeOK`, `LateAckIgnored`, `CommittableIsOwned` (members steady, or commits that work) |
| `EachPayloadFlushedOnce` | `TypeOK`, `NothingLeftAtTheEnd`, `FlushedOnceInOrder` |
| `NobodyWaitsForEver` | `ProduceReturns`, `StopEnds` |
| `DispatchIsSound` | `TypeOK`, `RunIsNotLost` (while calls only fail) |
| `IndexIsSound` | `TypeOK`, `NeverHalfGone`, `DrainedAtEnd` |
| `GraphIsConsistent` | `TypeOK`, `GraphIsSound`, `PageOrAlias` |
| `MigrationLosesNothing` | `MigrationKeepsLinksAndCrawls`, `IndexFollowsGraph` |
| `PagesAreStoredTruly` | `TypeOK`, `NamesAreTheServers`, `StoredIsAllowed`, `IndexHoldsOwnText` |
| `NobodyHoldsUpTheRest` | `StopEnds`, `SaversComeBack` |
| `PageIsReadWhole` | `ReadTypeOK`, `HyperlinksArePages`, `ContentIsThePages` |

Why the bounds are enough to be interesting: two nodes and one shared page are what
it takes for a task to be at work twice; three pages with a cycle give shared links,
a link back and a page reachable at two depths; one slot for two runs makes one wait,
give up and be queued again; three records are a gap with something on both sides; a
channel of two with a batch of two is full, and the final drain is longer than a
batch.  Two faults are one fault and one during its repair.  The old stores hold
duplicates, other spellings, a twin the server redirects, junk, stale aliases, and a
rename onto an alias, linked with each other both ways; two savers with three saves
overlap and then a third sees what they left.  Two workers and one saver make the
saver busy, and twelve addresses are every kind of redirect alone and after another, one
redirect too many, and each answer with and without a redirect for now to it, all of
which may have been indexed when they were pages.  Two crawl workers are one that is
overtaken by the other; with a shard of one, four documents are under way at once, and the
shard is full when a worker comes to it.
The contents put every line that can be cut in two ways after and before every
other.  `CHECK_DEADLOCK FALSE` is set where the system comes to rest: when all runs are
finished, all records are committed, the process has ended, all saves are made, a job
is over.

Every property has a mutant, an operator next to the one it replaces whose comment
begins with "Mutant", that changes the code's behaviour the way a slip would and
violates the property in that property's own run.

## 4. Fairness

Weak fairness of every worker, listener, loop and of the consumer stands for Go's
scheduler and for loops without an exit; the clock goes on.  `RunDispatch` uses strong
fairness twice: a run's message is received in the end although others come and go,
since a partition is read in order; and a flushed record finds a place in the topic,
since a topic has room (`room` is a bound of the model).  `OffsetTracker` assumes
that the committer's ticker and the poll loop go on.  `Indexing` assumes that the page
goes on being crawled, which is what its comments count on too ("the next crawl of the
page indexes it again"), and, once a version has come to the sink again after another
one, that the stored hash expires (`WF_vars(arrivals.wentBack /\ HashExpires)`): it is written
with a time to live (hashstore_redis.go:41) that the settings require to be above zero,
and a skip does not renew it.  Until then `Converges` does without the expiry.  `PageStore` assumes that a start goes on, since it waits for
nobody.  In `PagePipeline` a worker goes on, each call it makes having a time limit, but
for `Render`: waiting for a page to load has none, so it may last for ever.  Savers have five seconds
and `StopApp` its deadlines; nothing says that the process is asked to stop or that
its task channel is closed.  The algorithms are loops of one thread and requests with
time limits.  No fault is ever fair.  Where a fault
can end a run's progress by design (a task left unacked until the next rebalance), the
liveness property is the weaker one the code promises: the slot is freed.

## 5. Proofs

Checked by TLAPS for every value of the constants the assumptions allow: any sets of
runs, tasks, nodes, workers, callers, savers, members, partitions and versions, any
limits, capacities and lengths, any old graph, crawls, texts, lists found and spellings, any
number of faults.  "Run" below names the run in
which TLC checks the same property.

| Theorem | Says | Where it holds | Run |
|---|---|---|---|
| `RunStoreProofs!StoreStep` | every method of the run state keeps its invariant, whoever calls it | always | |
| `RunStoreProofs`: `StoreTypeCorrect`, `CountersCorrect`, `SlotsBounded`, `LinksBounded`, `ProgressIsEnough`, `StoreDoneStays` | the six promises of the store | always | run_state |
| `CrawlRunProofs!AckedTaskIsDone` | `AckedIsDone` | every plan of faults | crawl_run_faults |
| `CrawlRunProofs!LinksAreAdmitted` | `NoLinkLeftBehind` | every plan of faults | crawl_run_faults |
| `CrawlRunProofs!EndsOnce`, `NoRecrawl` | `RunEndsOnce`, `FinishedNotRecrawled` | `CalmPlans`, `StablePages` | crawl_run_redelivery |
| `CrawlRunProofs!QueuedIsOnItsWay` | `QueuedHasMessage` | `LosslessPlans` | crawl_run_redelivery |
| `CrawlRunProofs!TypeCorrect` | `TypeOK` | every plan of faults | crawl_run_redelivery |
| `RunDispatchProofs!DispatchStaysSound` | `DispatchIsSound` | always (`RunIsNotLost` itself says "while calls only fail") | run_dispatch |
| `RunDispatchProofs!SlotsAndCounters` | counters, slots and links of the store, as the program calls it | every plan of faults | |
| `OffsetTrackerProofs!OnlyAckedIsCommitted` | `CommittedIsAcked` | plans without `"midBatch"`, which is the finding | offset_tracker |
| `OffsetTrackerProofs!TrackerSound`, `CommitsGoForward` | `TrackerIsSound`, `CommitNeverRewinds` | every plan | offset_tracker |
| `ProducerQueueProofs!NothingIsLost` | `EachPayloadFlushedOnce` | always | producer_queue |
| `ProducerQueueProofs!QueueKeepsItsPromise` | `ImplementsPayloadQueue` | always | producer_queue |
| `IndexingProofs!DrainedBeforeEnd` | types, `DrainedAtEnd` | any number of nodes | indexing |
| `IndexingProofs!IndexStaysSound` | `IndexIsSound` | one node | indexing |
| `IndexingProofs!SkipsOnlyWhatIsWhole` | `SkippedInOrderIsWhole` | one node | indexing |
| `IndexingProofs!EmbedsEachText` | `VectorsMatchTexts` | the chunker returns a sequence | algorithms |
| `IndexingProofs!SearchIsFused` | `RankingIsFused` | always | algorithms |
| `PagePipelineProofs!NamesAreStable` | `CanonicalIsStable` | always | algorithms |
| `PagePipelineProofs!StoresTruly`, `ClosesInOrder`, `IndexLosesTheGoneAndRenamed` | `PagesAreStoredTruly`, `ClosedOnlyAfterUse`, `OnlyGoneOrRenamedLeaveTheIndex` | always | page_pipeline |
| `PageStoreProofs!GraphStaysConsistent`, `MigrationKeepsAll` | `GraphIsConsistent`, `MigrationLosesNothing` | always (`blurred`, `forgotten` and `saves` are conditions the properties name) | page_graph |

The instance of each run satisfies the hypotheses of the theorems beside it, and what
lies outside of them is a known limit of the code (section 6), not of the proof:

* `CalmPlans`: no `"redisDown"`, `"produceFails"` or `"stateExpires"`; nodes may die,
  answers and records be lost, partitions move and the clock run, any number of times.
  A release that fails (`"redisDown"`) and keys that expire under a run leave parts of a
  finished run behind.  `StablePages`: a page has the same links at every fetch.  The run
  crawl_run_redelivery has rebalances only; here the theorem says more than the run.
* `LosslessPlans`: `"rebalance"` and `"clock"` only.  Each of the other kinds loses the
  message of a queued task somewhere in admit-then-produce.
* One node: the way out is the two-nodes limit.  `SkippedInOrderIsWhole` has its own
  condition, that no version came to the sink again after another one (`arrivals`): the page
  that goes back (indexing_stale_hash) and the worker that is overtaken and submits what is
  out of date (a known limit, section 6) are the ways out of that.

### Assumptions on the constants

Each module names its own, TLC evaluates them in every run, and each is something the
code or its settings see to.  Those that are more than types:

* `CrawlAssumption`: no more runs than slots, and a link limit above zero.  The module
  begins when every run has its slot and its first task is admitted, which AcquireRunSlot
  and AdmitTask grant on those terms only; without it `Init` would contradict `SlotBound`.
* `DispatchAssumption`: the topic has room for a record of every run (`room` is a bound of
  the model).
* `PagePipelineAssumption`: batches are of the tasks and old indexes of the addresses of
  the model, and a host that
  disallows a URL does have a robots.txt, which is what disallowing means.
* `PageStoreAssumption`: an old graph has no self-loop and no alias that leads nowhere (the
  statements of any version drop the one and make the other's target), had no aliases
  before it had the constraint, and is clean if it says it is of this version.  A
  canonical spelling is its own canonical spelling; the server's answer is the last
  of its redirects and canonical; a crawled page has one other name at most
  (`pageIdentity`), and not its own.
* `SearchesAreRanked`: the index returns its hits best first.  Scores are integers, since
  only their order matters.
* `UrlsAreParsed`: a spelling is what `net/url` has parsed; a lower case has no capitals and
  is not empty.  Nothing is assumed of the page a link is on but that it is parsed too.
* Capacities and batch sizes are at least one (`appconfig` checks that), the lease too.

### The arguments

**The store.**  That `active` never goes below zero is not inductive: nothing in
`UnadmitTask` or `CompleteTask` looks at the counter.  They look at the hash, so the
invariant (`StoreInv`) ties both counters to cardinalities of the hash
(`CountersExact`); a queued task then means `active >= 1`.  `LinkBound` follows from
the same tie, since AdmitTask compares the counter and the bound is about the hash.
`SlotBound` counts expired slots too, while acquiring counts live ones only; it is
inductive because the same step reaps every expired slot, so that after a grant all
holders but one were live before.  `ProgressKeepsSlot` needs the type of leases and a
bound that relates two clocks, each taken one tick further by `Tick`.  `CrawlRun` and
`RunDispatch` change the store through its methods only (`CallsStore` in each), so
`StoreStep` carries all this over to them.

**A run's crawl.**  `AckedIsDone` speaks of acked records, but a record is acked by a
worker that completed a step earlier, and may have been taken from it by a rebalance in
between.  The invariant says of every worker what its place in handleTask entails
(`WorkersFit`: what it found, what is left to send; `FinishersFit`: it that releases or
cleans up has finished the run), of every task that
at most one record, message or worker carries it (`CarriedOnce`), and of links that what
a worker has gone past is admitted or was refused for the limit (`LinksSettled`).  Both
properties then follow under every plan.  For the end of a run `EndInv` adds that every
delivery of a page, the one that completed it included, found all its links
(`FoundIsWhole`, where `StablePages` is needed).  So a delivery that is still sending
when the count reaches zero finds them admitted already, nothing is admitted to a
finished run, and one worker only takes it to zero.  That a count of zero means nothing
is queued is `CountersExact` again.
`QueuedIsCarried` is `CarriedOnce` the other way round: at least one, where nothing is lost.

**The dispatch.**  `RunIsNotLost` is not inductive: it does not say that the message in a
listener's hands is the only one.  The invariant lets every run be in one place at a time
(`OnePlace`: ready in the topic, in a producer's channel, with a listener, in the task
topic, finished), lets a listener at work hold the very record of its run (`Quiet`), and
says what Redis knows of a run from where it is (`Ledger`: admitted only from "produce"
on, a slot from "admit" on).  That is why a duplicate is never met, why a failed
dispatch may give the slot back, and why the crawl of the first task counts down to zero.
`PlaceSteps` lists the five moves; every step is one of them for one run and none for
the others.

**The consuming half.**  The records a member has polled of a partition form one line:
tracked, still to be tracked, position.  Its offsets have no gap and everything
below it was acked (`InLine`), so advancing over done records advances over acked ones.
A batch cut by a revocation breaks the line, which is the finding.

**The producing half.**  Flushed, batch and channel, read from the oldest on, are one
line, and what was accepted is what stands in it (`LineIsAccepted`).  The loop moves the
line's marks, callers lengthen it.  The refinement maps `accepted` and `flushed` to
themselves and every other step to a stutter; that nothing is left when the queue ends
needs `SealedIsQuiet` (after the seal no caller is between the lock and the send).

**Indexing.**  What the shard's worker holds is sound on any number of nodes
(`LocalsSound`); `RowsSound` says which batches of the version in work are in the
collection, so deleting stale rows comes when the whole new version is there.  For the
skip it does not matter what the workers have fetched, only in which order it arrives:
while no version has come again after another one, equal documents stand next to each
other in the shard and in work (`EqualsTogether`), the recorded hash is of a version
before them or of the first (`HashBefore`), and either the rows are those of the hash's
version or that version is behind everything in hand for good, so that nothing is
compared equal to it any more (`FalseHashIsPast`).

**Embedding.**  `decode` looks at each index once, so each place has a vector that the server
says is of that text (`DecodedIsInOrder`); the batches are consecutive (`NextBatch`), so
the vectors so far are those of the first texts, and when no text is left those of all
(`EmbedInv`).  A page's chunks are texts from any set, hence the one hypothesis, that
`Chunk` returns a sequence: it is a fold, so that is not provable here, and TLC
evaluates it with every page of the run.  The attempt also corrected the model:
the guards of `EmbedReturns` overlapped in a CASE, which leaves the choice between them
open, so an invalid probe could pass; the check for validity now comes first, as in the code.

**Retrieval.**  `pages` and `fuse` put a set in order by counting: at place n stands the
element that has n - 1 before it.  Along a strict total order of a finite set these counts
grow, so they are different and fill the places (`InOrderSorts`).  A page's place in a list is thus
the number of addresses up to its first chunk, which is how the property counts it
(`PagesOfList`, `PlacesAreRanks`).  What the results are sorted by is a strict total order
on different pages (`PrecedesOrders`: fractions compare by cross-multiplying, ties end at
the order found), and in it comes first what no list places below and one places above
(`HigherPrecedes`, since a sum of reciprocals grows with each rank).  `SearchInv` adds that
a search answered has not failed anywhere and that a list that was not asked is empty.
The first form of `pages` selected from a sequence with `SelectSeq`, which is recursive; TLC
finds the two equal on the lists of the run.

**Names.**  Resolving a path and stripping a query are recursive functions on how much has been
read.  They exist (`StepsExist`), they keep out what they are to keep out, and they leave
alone what has none of it (`PathIsResolved`, `QueryIsStripped`), by the least
counterexample each.  So whatever is resolved against whatever page becomes one name or
none (`CanonicalIsNamed`), with the parts that `Names` lists, and those are enough for
every way back to it to end where it began (`NameIsStable`).  The proof needs no
canonical page to begin with, and the crawler's pages are not: links are resolved
against the address as the server spelled it (`linkBase`), so the run has such pages.

**The process.**  Redirects are a recursive function on a number; its facts come by the
least counterexample, from well-foundedness of `<` (the induction theorems of the
library cannot be used with the installed provers).  The invariant follows an answer
from Fetch over the worker's locals to the saver (`SubmitsWhatItGot`, `OnItsWay`,
`SaverIsNamedRight`).  For the stop, nothing a worker uses is closed before the stage
that waits for the workers is over (`NothingClosedYet`), and that is over when all have
left or the deadline has passed (`ClosedInTime`).

**The page graph.**  What is proved is about the pages as a reader names them, but while
spellings are being folded several nodes have one name, and a later start may find
any such state.  So the invariant (`IInv`) speaks of identities, not names: every page
and link of the old graph has its counterpart between the identities the old names
have by now (`Migrated`: the URL itself, its canonical form, or the target of its
alias), whichever node carries them.  Each statement keeps that (`MovedAlong`,
`GroupMerged`, `RedirectMerged`, `PlaceholdersGo`, `StaleAliasesGo`), so it survives a
death between any two; when pages are served every name is canonical (`IsClean`) and
unique by the constraint, and identities are names.  Three things make it inductive:
the groups still to be folded are whole and all other names canonical
(`GroupsAreRight`), so the folding ends in a clean graph; before there is the
constraint an alias says what the server says (`RedirectsAreRight`), so redirects fold
into pages and do not chain; and as long as saves do not overlap, what the one
transaction has read of aliases and nodes still holds when it writes (`OneAtATime`).
The lemmas about the statements (`WithPages`, `mergeNodeBody`, `recordAlias`,
`upsertPage`, `savePage`) say what each does to names, newest crawls, links and
aliases; that a fold finds a newest crawl is a least-counterexample argument.
The attempt corrected the model in three places: mergeAliasNode sees the link targets
its own transaction has made; a start that begins again because the constraint was
refused has forgotten what it had to drop from the index; an old graph in which a
page is an alias already is `blurred` from the first.  It also made the fold of a
group one operator on a set of nodes, where recursion would not have let it be proved.

Each inductive invariant was first checked by TLC as an invariant of the component's own
run, or of a smaller one where that has too many states.

### Only model-checked

* Liveness, all of it: the prover has neither fairness nor ENABLED.
* Three algorithms, whose properties (`ScriptLinksDetermined`, `PageIsReadWhole`,
  `ChunksReassemble`) say what a fold or a recursive definition computes for every script,
  tree or text, which is induction over data; `JsLinks`, and with it `MCAlgorithms`, has RECURSIVE operators.

## 6. Disagreements found

Each is a run that TLC ends with a counterexample; the sentence of the code it goes
against is quoted in `PROJECT.json`.

* **offset_mid_batch.**  A partition is revoked while the consumer loop is in the
  middle of a polled batch.  The rest is tracked after `release` forgot the
  partition, so the tracker starts in the middle and acks commit past records that
  were never acked.
* **indexing_stale_hash.**  The write of a newer version fails half way (or its hash is
  not recorded).  The hash of the version before is still stored; when the page goes
  back to that version it is skipped as unchanged, and the index keeps the mixture
  until the hash's ttl is over.

Known limits, met while checking and kept out of what the passing runs claim, by their
plans or by a condition named in the property:

* `CrawlRunRedelivery.cfg`, with `"crash"` added to the kinds of `MCRedeliveries`: a node
  dies between admitting a link and its record reaching Kafka, which is after a hop
  through memory.  The redelivered parent gets Duplicate, which counts as sent; the
  task is queued for ever, its run never counts down, and the lease ends it
  (`QueuedHasMessage`).  A record Kafka does not take, `"recordLost"`, does the same.
* The same with `"redisDown"`: the release of a finished run's slot fails and the cleanup
  works, so a redelivered task of it is crawled again until the lease ends
  (`FinishedNotRecrawled`).
* `CrawlRunRedelivery.cfg` with `PageLinks <- MCVaryingLinks`: the redelivery
  completes a task while the old delivery, which found more links, still sends them;
  the count reaches zero in between and a finished run gets tasks (`RunEndsOnce`).
* `NoLinkLeftBehind` speaks of plans without `"produceFails"`: a redelivered parent
  gets Duplicate for a link that the old delivery admitted and then takes back; the
  parent is completed without it.
* `RunIsNotLost` and `EveryRunIsCrawled` speak of plans whose calls only fail (`Calm`).
  With `"shutdown"` the signal comes between the listener's look at the context
  (app_crawler.go:116) and QueueRun, or while QueueRun waits for room.  The refusal is
  only logged and the message acked: the run is in no queue any more, although
  app_crawler.go:98-99 says that a run interrupted by shutdown is left unacked.  With
  `"rebalance"` a run message delivered again while its run is crawled is dispatched
  again; should that fail, the error handler releases the running run's slot, and the
  re-queued run then gets Duplicate.  `"crash"`, `"replyLost"` and `"produceFails"` lose a
  run for the reason of the first item.
* `CommitNeverRewinds` and `AllCommitted` speak of plans without `"revoke"` and `"fence"`
  (`Steady`).  With one of them a commit taken before a revocation rewinds the newer
  one, which costs a redelivery only.  `CommittableIsOwned` holds in those plans, and
  while partitions move as long as no commit fails (`Orderly`): a commit that fails after
  its partition was released is put back and committed again later.
* `Indexing.cfg` with `SkippedIsWhole` for `SkippedInOrderIsWhole`: the page only moves on,
  but one crawl worker has fetched the older version, another fetches the newer one,
  which is indexed; then the older one is submitted and its write fails half way.  The
  hash of the newer version is still stored, so the next crawl of the page, unchanged
  since, is skipped over the mixture until the ttl is over.  sink_chunking.go:62-63 counts
  on the opposite here as well.  TLC's shortest trace is the milder case that it is the
  late older version which is skipped over the newer one's half.
* `Indexing.cfg` with `Nodes <- MCTwoNodes`: two nodes replace one page at the same time,
  each deletes what it read as stale and the other wrote since, and what is left is no
  whole version of the page (`IndexIsSound`).
* `PageOrAlias` holds until transactions overlap (`blurred`): one save may write the
  alias whose node another's links are drawn to.  graph.go:9-12 knows of it and lets the
  next crawl repair it.  A normalizer change that renames a page onto an old alias does the same.
* `IndexFollowsGraph` holds unless a start dies, or the sink refuses, with URLs still to
  drop (`forgotten`): they are in memory only, the next start finds nothing to merge
  and the index keeps them (schema.go:25-27).
* A save carries no order: an older crawl of a page that waits in a saver longer than
  a newer one overwrites it.  No property claims more than that one of the two stays.
* Savers are not awaited at exit: the driver may be closed during SavePage, and a page
  dropped for want of a saver is cached and its task completed, so that nothing
  but its next crawl without the cache stores it.
* A browser that panics leaves an empty page, which is stored and cached without
  links; it takes no text from the index.
* `StoredIsAllowed` has the condition `~misled`: the body of a robots.txt answer that is
  an error other than 404 is cached and read as rules.
* The legacy engine may never end (page_parser_basic_javascript.go:134-218): a name or
  property with two differing sources changes in every pass.  `EveryJobEnds` speaks of
  scripts in which each has one (`settles`); `MCFlipFlop` in `MCAlgorithms` is one that
  does not end.  When a name has a declaration and an assignment, its links may depend
  on the order of a map (`MCTwoSources`).  The default engine evaluates no scripts.
* The same file finds declarations by reflection on fields named Id, Left or Name, where
  goja's Binding calls it Target: `named` in a program says whether the walk sees them;
  both cases are run.
* A host with two dots at its end needs two passes of Canonical: `CanonicalIsStable`
  speaks of one at most, in the spelling and on the page it is on.
* The back-off `retryDelay << (attempt-1)` (openai.go:234) overflows from some 35 attempts
  on, far more than the settings in use; the model leaves the length of a wait out.

## 7. Not modelled

* Evaluation: logarithms and means in floating point over a finished ranking, offline.
* Settings and platform: reading, comparing each value with its own bound, constructing
  clients.  What the checked settings guarantee is in the assumptions on constants.
* The mains of the search server and of the evaluation, which construct and call.
* The browser, the HTTP transport, Neo4j, Kafka, Redis and Milvus themselves: external,
  modelled by what the code counts on.
* The calls of a vector search and the creation of its collection: one call each.
* Expiry of cached pages and robots files, and failing cache calls: both mean one
  more fetch.
* Titles and other texts no property is about.  The base of a document's links is
  assumed absolute, as the crawler's are.

`PageParser` and `Embedding` bound their data: nesting of JSON, runes of
furniture and length of lists are small, and pages of more than `MaxEmbedded` chunks are
cut but not embedded.

## 8. Plan

Done: `RunStore`/`RunState`, `CrawlRun`, `OffsetTracker`, `ProducerQueue` with
`PayloadQueue`, `RunDispatch`, `Indexing`, `PageGraph`/`PageStore`, `Fetching`/`PagePipeline`,
`Embedding`, `Retrieval`, `Urlnorm`, all with their theorems; `Chunker`, `PageParser`, `JsLinks`,
model-checked.  What is left
is proofs:

1. `RunDispatch` beyond failing calls: that a run taken over by another node after a crash
   between two calls is not lost either, as long as no admission was left behind.
2. `CommittableIsOwned` where commits fail and partitions do not move back.
3. `Indexing` on several nodes: which rows can be missing when two replace one page.
