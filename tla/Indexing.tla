------------------------------ MODULE Indexing ------------------------------
(***************************************************************************)
(* One page on its way into the search index: the crawl workers that       *)
(* fetch it, the shard of every node's AsyncSink its URL falls into, the   *)
(* ChunkingSink with the stored document hash, and VectorSink with         *)
(* Milvus.Replace (internal/indexing, internal/vectorstore/milvus.go).     *)
(*                                                                         *)
(* Pages do not interact, so one is enough.  Several crawl workers may     *)
(* have it in hand at once, for two runs, two deliveries of a task, or a   *)
(* page and its alias.  A version of it stands for its title and text, and *)
(* so for its hash; an empty version is a page that is gone or an alias by *)
(* now.  A chunk's id is a hash of its text, so versions share the chunks  *)
(* they have in common.  Chunker and collection never change, so their     *)
(* fingerprint is left out of the hash.                                    *)
(***************************************************************************)
EXTENDS Integers, Sequences, FiniteSets

CONSTANTS
    Nodes,         \* crawler processes
    CrawlWorkers,  \* the crawl workers of each, WorkersNumber
    Versions,      \* what the page may say
    FirstVersion,  \* what it says in the beginning
    NextVersions,  \* NextVersions[v]: what it may say after v
    Chunks,        \* chunk ids
    ChunksOf,      \* ChunksOf[v]: the chunks of version v, in order
    QueueSize,     \* documents a shard holds
    WriteBatchSize, \* rows written or deleted by one call, writeBatchSize
    Faults,        \* the kinds of fault that may happen
    MaxFaults,     \* bound: how many faults happen in one behaviour
    None           \* no version

FaultKinds == {"down", "replyLost", "crash", "shutdown"}

ASSUME IndexingAssumption ==
    /\ FirstVersion \in Versions
    /\ NextVersions \in [Versions -> SUBSET Versions]
    /\ ChunksOf \in [Versions -> Seq(Chunks)]
    /\ QueueSize \in Nat \ {0} /\ WriteBatchSize \in Nat \ {0}
    /\ Faults \subseteq FaultKinds /\ MaxFaults \in Nat
    /\ None \notin Versions

VARIABLES
    page,       \* what the page says now
    hash,       \* the stored hash of the page: a version
    rows,       \* the chunks of the page in the collection
    caller,     \* caller[n][w]: the crawl worker w of n and the document it submits
    queue,      \* queue[n]: the shard's channel
    sink,       \* sink[n]: the shard's worker and its locals in Submit and Replace
    closed,     \* closed[n]: done is closed, the sink is shutting down
    cancelled,  \* cancelled[n]: the deadline has cancelled processCtx
    indexed,    \* history: a version has been indexed to its end
    arrivals,   \* history: what the shards have accepted, in which order
    late,       \* history: late[n]: documents accepted after done was closed
    faults

vars == <<page, hash, rows, caller, queue, sink, closed, cancelled, indexed, arrivals, late, faults>>

ChunkSet(v) == {ChunksOf[v][i] : i \in DOMAIN ChunksOf[v]}

IdleCaller == [pc |-> "idle", doc |-> None]
IdleSink   == [pc |-> "idle", doc |-> None, at |-> 1, stale |-> {}]

TypeOK ==
    /\ page \in Versions /\ hash \in Versions \cup {None}
    /\ rows \subseteq Chunks
    /\ caller \in [Nodes -> [CrawlWorkers -> [pc : {"idle", "submit", "select"},
                                             doc : Versions \cup {None}]]]
    /\ queue \in [Nodes -> Seq(Versions)] /\ \A n \in Nodes : Len(queue[n]) <= QueueSize
    /\ sink \in [Nodes -> [pc : {"idle", "lookup", "query", "upsert", "delete", "record", "ended"},
                           doc : Versions \cup {None}, at : Nat, stale : SUBSET Chunks]]
    /\ closed \in [Nodes -> BOOLEAN] /\ cancelled \in [Nodes -> BOOLEAN]
    /\ indexed \in BOOLEAN
    /\ arrivals \in [seen : SUBSET Versions, last : Versions \cup {None}, wentBack : BOOLEAN]
    /\ late \in [Nodes -> Nat]
    /\ faults \in 0 .. MaxFaults

Init ==
    /\ page = FirstVersion
    /\ hash = None /\ rows = {}
    /\ caller = [n \in Nodes |-> [w \in CrawlWorkers |-> IdleCaller]]
    /\ queue  = [n \in Nodes |-> <<>>]
    /\ sink   = [n \in Nodes |-> IdleSink]
    /\ closed = [n \in Nodes |-> FALSE] /\ cancelled = [n \in Nodes |-> FALSE]
    /\ indexed = FALSE
    /\ arrivals = [seen |-> {}, last |-> None, wentBack |-> FALSE]
    /\ late = [n \in Nodes |-> 0]
    /\ faults = 0

-----------------------------------------------------------------------------

Fault(k) ==
    /\ k \in Faults
    /\ faults < MaxFaults
    /\ faults' = faults + 1

\* What a call to Redis, the embedder or Milvus comes to: it works, it never
\* arrives, or it takes effect and its answer is lost.  With its context cancelled
\* it does not work.
Outcomes == {"ok", "down", "replyLost"}
Answers(n, o) ==
    IF cancelled[n] THEN o # "ok" /\ UNCHANGED faults
    ELSE IF o = "ok" THEN UNCHANGED faults
    ELSE Fault(o)

-----------------------------------------------------------------------------
(* A crawl of the page, and AsyncSink.Submit.                               *)

Fetch(n, w) ==
    /\ caller[n][w].pc = "idle"
    /\ caller' = [caller EXCEPT ![n][w] = [pc |-> "submit", doc |-> page]]
    /\ UNCHANGED <<page, hash, rows, queue, sink, closed, cancelled, indexed, arrivals, late, faults>>

\* done is looked at first.
Enter(n, w) ==
    /\ caller[n][w].pc = "submit"
    /\ caller' = [caller EXCEPT ![n][w] = IF closed[n] THEN IdleCaller ELSE [@ EXCEPT !.pc = "select"]]
    /\ UNCHANGED <<page, hash, rows, queue, sink, closed, cancelled, indexed, arrivals, late, faults>>

HasRoom(n) == Len(queue[n]) < QueueSize

\* The arrivals have gone back when a version comes again after another one; what
\* comes after that is not remembered.
ArrivalsWith(v) ==
    IF arrivals.wentBack \/ (v # arrivals.last /\ v \in arrivals.seen)
    THEN [seen |-> {}, last |-> None, wentBack |-> TRUE]
    ELSE [seen |-> arrivals.seen \cup {v}, last |-> v, wentBack |-> FALSE]

\* The select takes whichever is ready: the shard, done, or, the shard being full,
\* the timer.
Select(n, w) ==
    /\ caller[n][w].pc = "select"
    /\ caller' = [caller EXCEPT ![n][w] = IdleCaller]
    /\ \/ /\ HasRoom(n)
          /\ queue' = [queue EXCEPT ![n] = Append(@, caller[n][w].doc)]
          /\ arrivals' = ArrivalsWith(caller[n][w].doc)
          /\ late' = [late EXCEPT ![n] = IF closed[n] THEN @ + 1 ELSE @]
       \/ closed[n] /\ UNCHANGED <<queue, arrivals, late>>
       \/ ~HasRoom(n) /\ UNCHANGED <<queue, arrivals, late>>
    /\ UNCHANGED <<page, hash, rows, sink, closed, cancelled, indexed, faults>>

-----------------------------------------------------------------------------
(* The shard's worker: ChunkingSink.Submit, VectorSink.Submit, Replace.     *)

Take(n) ==
    /\ sink[n].pc = "idle"
    /\ queue[n] # <<>>
    /\ sink' = [sink EXCEPT ![n].pc = "lookup", ![n].doc = Head(queue[n])]
    /\ queue' = [queue EXCEPT ![n] = Tail(@)]
    /\ UNCHANGED <<page, hash, rows, caller, closed, cancelled, indexed, arrivals, late, faults>>

\* Mutant: only the deadline ends the worker.
EndIfCancelled(n) ==
    /\ sink[n].pc = "idle"
    /\ closed[n] /\ cancelled[n] /\ queue[n] = <<>>
    /\ sink' = [sink EXCEPT ![n].pc = "ended"]
    /\ UNCHANGED <<page, hash, rows, caller, queue, closed, cancelled, indexed, arrivals, late, faults>>

\* Once done is closed the worker drains its shard and ends.
End(n) ==
    /\ sink[n].pc = "idle"
    /\ closed[n] /\ queue[n] = <<>>
    /\ sink' = [sink EXCEPT ![n].pc = "ended"]
    /\ UNCHANGED <<page, hash, rows, caller, queue, closed, cancelled, indexed, arrivals, late, faults>>

\* An unchanged document is skipped; a failed lookup indexes it anyway.
Skips(n, o) == o = "ok" /\ hash = sink[n].doc

Lookup(n, o) ==
    /\ sink[n].pc = "lookup"
    /\ Answers(n, o)
    /\ sink' = [sink EXCEPT ![n] = IF Skips(n, o) THEN IdleSink ELSE [@ EXCEPT !.pc = "query"]]
    /\ UNCHANGED <<page, hash, rows, caller, queue, closed, cancelled, indexed, arrivals, late>>

\* Mutant: stale rows are left.
OnwardKeepsStale(s) ==
    [s EXCEPT !.pc = IF s.at <= Len(ChunksOf[s.doc]) THEN "upsert" ELSE "record"]

\* Mutant: stale rows go first.
OnwardDeletesFirst(s) ==
    [s EXCEPT !.pc = IF s.stale # {} THEN "delete"
                     ELSE IF s.at <= Len(ChunksOf[s.doc]) THEN "upsert"
                     ELSE "record"]

\* Replace writes batch after batch of rows, then deletes the stale ones.
Onward(s) ==
    [s EXCEPT !.pc = IF s.at <= Len(ChunksOf[s.doc]) THEN "upsert"
                     ELSE IF s.stale # {} THEN "delete"
                     ELSE "record"]

\* Mutant: the hash is recorded although nothing was written.
FailedRecorded(s) == [s EXCEPT !.pc = "record", !.stale = {}]

\* An error ends Submit: no hash is recorded.
Failed(s) == IdleSink

\* The chunks are embedded, and the ids stored so far are read, before anything is
\* written; an error of either writes nothing.
Query(n, o) ==
    /\ sink[n].pc = "query"
    /\ Answers(n, o)
    /\ sink' = [sink EXCEPT ![n] =
                   IF o = "ok" THEN Onward([@ EXCEPT !.stale = rows \ ChunkSet(sink[n].doc)])
                               ELSE Failed(@)]
    /\ UNCHANGED <<page, hash, rows, caller, queue, closed, cancelled, indexed, arrivals, late>>

Batch(s) ==
    {ChunksOf[s.doc][i] : i \in {j \in DOMAIN ChunksOf[s.doc] : s.at <= j /\ j < s.at + WriteBatchSize}}

Upsert(n, o) ==
    /\ sink[n].pc = "upsert"
    /\ Answers(n, o)
    /\ rows' = IF o = "down" THEN rows ELSE rows \cup Batch(sink[n])
    /\ sink' = [sink EXCEPT ![n] =
                   IF o = "ok" THEN Onward([@ EXCEPT !.at = sink[n].at + WriteBatchSize]) ELSE Failed(@)]
    /\ UNCHANGED <<page, hash, caller, queue, closed, cancelled, indexed, arrivals, late>>

\* The stale ids come in the order of the query's answer, which may be any.
Delete(n, o) ==
    /\ sink[n].pc = "delete"
    /\ Answers(n, o)
    /\ \E ids \in SUBSET sink[n].stale :
          /\ Cardinality(ids) <= WriteBatchSize
          /\ ids = sink[n].stale \/ Cardinality(ids) = WriteBatchSize
          /\ rows' = IF o = "down" THEN rows ELSE rows \ ids
          /\ sink' = [sink EXCEPT ![n] =
                         IF o = "ok" THEN Onward([@ EXCEPT !.stale = sink[n].stale \ ids]) ELSE Failed(@)]
    /\ UNCHANGED <<page, hash, caller, queue, closed, cancelled, indexed, arrivals, late>>

\* A hash that could not be recorded is only logged.
RecordHash(n, o) ==
    /\ sink[n].pc = "record"
    /\ Answers(n, o)
    /\ hash' = IF o = "down" THEN hash ELSE sink[n].doc
    /\ sink' = [sink EXCEPT ![n] = IdleSink]
    /\ indexed' = TRUE
    /\ UNCHANGED <<page, rows, caller, queue, closed, cancelled, arrivals, late>>

-----------------------------------------------------------------------------
(* Shutdown, and what happens around.                                       *)

Close(n) ==
    /\ Fault("shutdown")
    /\ ~closed[n]
    /\ closed' = [closed EXCEPT ![n] = TRUE]
    /\ UNCHANGED <<page, hash, rows, caller, queue, sink, cancelled, indexed, arrivals, late>>

\* The time for draining is over before the worker is.
Deadline(n) ==
    /\ closed[n] /\ ~cancelled[n] /\ sink[n].pc # "ended"
    /\ cancelled' = [cancelled EXCEPT ![n] = TRUE]
    /\ UNCHANGED <<page, hash, rows, caller, queue, sink, closed, indexed, arrivals, late, faults>>

\* The process is gone, with whatever its memory held, and is started again.
Gone(n) ==
    /\ caller' = [caller EXCEPT ![n] = [w \in CrawlWorkers |-> IdleCaller]]
    /\ queue' = [queue EXCEPT ![n] = <<>>]
    /\ sink' = [sink EXCEPT ![n] = IdleSink]
    /\ closed' = [closed EXCEPT ![n] = FALSE]
    /\ cancelled' = [cancelled EXCEPT ![n] = FALSE]
    /\ late' = [late EXCEPT ![n] = 0]

Restart(n) ==
    /\ closed[n] /\ sink[n].pc = "ended"
    /\ Gone(n)
    /\ UNCHANGED <<page, hash, rows, indexed, arrivals, faults>>

Crash(n) ==
    /\ Fault("crash")
    /\ Gone(n)
    /\ UNCHANGED <<page, hash, rows, indexed, arrivals>>

Change(v) ==
    /\ v \in NextVersions[page]
    /\ page' = v
    /\ UNCHANGED <<hash, rows, caller, queue, sink, closed, cancelled, indexed, arrivals, late, faults>>

HashExpires ==
    /\ hash # None
    /\ hash' = None
    /\ UNCHANGED <<page, rows, caller, queue, sink, closed, cancelled, indexed, arrivals, late, faults>>

-----------------------------------------------------------------------------

Submit(n, w) == Fetch(n, w) \/ Enter(n, w) \/ Select(n, w)

Work(n) ==
    \/ Take(n) \/ End(n)
    \/ \E o \in Outcomes : \/ Lookup(n, o) \/ Query(n, o) \/ Upsert(n, o)
                           \/ Delete(n, o) \/ RecordHash(n, o)

Next ==
    \/ \E n \in Nodes :
          \/ \E w \in CrawlWorkers : Submit(n, w)
          \/ Work(n)
          \/ Close(n) \/ Deadline(n) \/ Restart(n) \/ Crash(n)
    \/ \E v \in Versions : Change(v)
    \/ HashExpires

Spec == Init /\ [][Next]_vars

\* Workers go on, a process that has shut down is started again, and the page goes
\* on being crawled.  Nothing makes it change.  Its hash, written with a time to
\* live, is sure to expire; that is relied on only once the arrivals have gone back.
Fairness ==
    /\ \A n \in Nodes : /\ \A w \in CrawlWorkers : WF_vars(Submit(n, w))
                        /\ WF_vars(Work(n)) /\ WF_vars(Restart(n))
    /\ WF_vars(arrivals.wentBack /\ HashExpires)

FairSpec == Spec /\ Fairness

-----------------------------------------------------------------------------

\* A document about to be skipped as unchanged is in the index with exactly its
\* chunks, whatever failed half way since its hash was recorded: "a failed submit
\* leaves no hash behind, so the next crawl of this page tries again"
\* (sink_chunking.go:43-49, 62-66).
SkippedIsWhole ==
    \A n \in Nodes : sink[n].pc = "lookup" /\ Skips(n, "ok")
                        => rows = ChunkSet(sink[n].doc)

\* That is so at least until a version comes to the sink again after another one:
\* until then no failed, interrupted or dropped document, no lost answer and no
\* hash that could not be recorded makes a page be skipped that is not whole.
SkippedInOrderIsWhole == ~arrivals.wentBack => SkippedIsWhole

\* A search never finds a page without the chunks of a whole version once one has
\* been indexed, while it is being replaced or after that has failed at any call:
\* Replace writes before it deletes (milvus.go:113-150).
NeverHalfGone ==
    indexed => \E v \in Versions : ChunkSet(v) \subseteq rows

\* A page that has stopped changing and goes on being crawled is in the end indexed
\* as it is, after dropped documents, failed writes, crashes, shutdowns and versions
\* submitted in the wrong order (sink_async.go:23-25).
Converges == <>[](rows = ChunkSet(page))

\* What was accepted before the shutdown began is worked off before the worker ends
\* (sink_async.go:96-112).  A Submit that had looked at done before may still be
\* accepted after that.
DrainedAtEnd ==
    \A n \in Nodes : sink[n].pc = "ended" => Len(queue[n]) <= late[n]

\* A sink told to stop ends, with or without the deadline (sink_async.go:129-172).
StopEnds == \A n \in Nodes : closed[n] ~> ~closed[n]

\* Whatever failed, the index never holds only part of a page, and a shard that
\* ended has left nothing behind.
IndexIsSound == TypeOK /\ NeverHalfGone /\ DrainedAtEnd
=============================================================================
