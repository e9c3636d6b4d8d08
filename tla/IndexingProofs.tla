--------------------------- MODULE IndexingProofs ---------------------------
(***************************************************************************)
(* Indexing for every set of versions and chunks, every batch and queue    *)
(* size and any faults.  What one shard's worker has in hand is sound      *)
(* (Sound) on any number of nodes; what the collection holds can be said   *)
(* of one node only: two that replace one page at the same time may delete *)
(* each other's rows.  Then, about what the rows are made of and what is   *)
(* found of them: the vectors of texts, in Embedding, and the answer of a  *)
(* search, in Retrieval.                                                   *)
(***************************************************************************)
EXTENDS Indexing, Embedding, Retrieval, FiniteSetTheorems, SequenceTheorems,
        WellFoundedInduction, TLAPS

SinkPC == {"idle", "lookup", "query", "upsert", "delete", "record", "ended"}
Writing == {"upsert", "delete", "record"}
Busy == {"lookup", "query"} \cup Writing

CallerState == [pc : {"idle", "submit", "select"}, doc : Versions \cup {None}]
ArrivalState == [seen : SUBSET Versions, last : Versions \cup {None}, wentBack : BOOLEAN]
SinkState == [pc : SinkPC, doc : Versions \cup {None}, at : Nat, stale : SUBSET Chunks]

\* The locals of a shard's worker: the stale ids are none of the document's
\* chunks, rows are deleted when all batches are written, and the hash is recorded
\* when nothing stale is left.
Sound(s) ==
    /\ s \in SinkState
    /\ s.pc \in Busy => s.doc \in Versions
    /\ s.pc \notin Writing => s.at = 1 /\ s.stale = {}
    /\ s.pc \in Writing => s.at >= 1 /\ s.stale \cap ChunkSet(s.doc) = {}
    /\ s.pc \in {"delete", "record"} => s.at > Len(ChunksOf[s.doc])
    /\ s.pc = "record" => s.stale = {}

LocalsSound ==
    \A n \in Nodes :
        /\ Sound(sink[n])
        /\ sink[n].pc = "ended" => closed[n]
        /\ \A w \in CrawlWorkers : caller[n][w].pc # "idle" => caller[n][w].doc \in Versions

\* What holds on any number of nodes.
NodesInv == TypeOK /\ LocalsSound /\ DrainedAtEnd

-----------------------------------------------------------------------------
(* The worker of one shard.                                                 *)

LEMMA IdleIsSound == Sound(IdleSink) /\ IdleSink.pc = "idle"
  BY DEF Sound, IdleSink, SinkState, SinkPC, Busy, Writing

\* Whichever batch it is at, what Replace does next fits its locals.
LEMMA OnwardIsSound ==
    ASSUME NEW s \in SinkState, s.doc \in Versions, s.at >= 1,
           s.stale \cap ChunkSet(s.doc) = {}
    PROVE  /\ Sound(Onward(s)) /\ Onward(s).pc \in Writing
           /\ Onward(s).doc = s.doc /\ Onward(s).at = s.at /\ Onward(s).stale = s.stale
  <1> DEFINE t == Onward(s)
  <1>1. Len(ChunksOf[s.doc]) \in Nat /\ s.at \in Nat
    BY IndexingAssumption, LenProperties DEF IndexingAssumption, SinkState
  <1>2. /\ t.doc = s.doc /\ t.at = s.at /\ t.stale = s.stale /\ t \in SinkState
        /\ \/ t.pc = "upsert"
           \/ t.pc = "delete" /\ s.at > Len(ChunksOf[s.doc])
           \/ t.pc = "record" /\ s.at > Len(ChunksOf[s.doc]) /\ s.stale = {}
    BY <1>1 DEF Onward, SinkState, SinkPC
  <1> HIDE DEF t
  <1>3. Sound(t) /\ t.pc \in Writing
    BY <1>1, <1>2 DEF Sound, Busy, Writing
  <1> QED BY <1>2, <1>3 DEF t

LEMMA InitNodes == Init => NodesInv
  <1> SUFFICES ASSUME Init
               PROVE  NodesInv
    OBVIOUS
  <1> USE IndexingAssumption DEF IndexingAssumption
  <1>1. caller \in [Nodes -> [CrawlWorkers -> CallerState]]
    BY DEF Init, IdleCaller, CallerState
  <1>2. \A n \in Nodes : sink[n] = IdleSink /\ \A w \in CrawlWorkers : caller[n][w].pc = "idle"
    BY DEF Init, IdleCaller
  <1>3. queue \in [Nodes -> Seq(Versions)] /\ \A n \in Nodes : Len(queue[n]) <= QueueSize
    BY EmptySeq DEF Init
  <1>4. sink \in [Nodes -> SinkState]
    BY IdleIsSound DEF Init, Sound
  <1>5. LocalsSound /\ DrainedAtEnd
    BY <1>2, IdleIsSound DEF LocalsSound, DrainedAtEnd
  <1>6. /\ page \in Versions /\ hash \in Versions \cup {None} /\ rows \subseteq Chunks
        /\ closed \in [Nodes -> BOOLEAN] /\ cancelled \in [Nodes -> BOOLEAN]
        /\ indexed \in BOOLEAN /\ late \in [Nodes -> Nat] /\ faults \in 0 .. MaxFaults
        /\ arrivals \in ArrivalState
    <2>1. late \in [Nodes -> Nat] /\ faults \in 0 .. MaxFaults
      BY DEF Init
    <2>2. closed \in [Nodes -> BOOLEAN] /\ cancelled \in [Nodes -> BOOLEAN] /\ indexed \in BOOLEAN
      BY Zenon DEF Init
    <2>3. arrivals \in ArrivalState
      BY DEF Init, ArrivalState
    <2> QED BY <2>1, <2>2, <2>3 DEF Init
  <1>7. TypeOK
    BY <1>1, <1>3, <1>4, <1>6 DEF TypeOK, CallerState, ArrivalState, SinkState, SinkPC
  <1> QED BY <1>5, <1>7 DEF NodesInv

\* What a step may do to the locals of one worker.
SinkChange(m) ==
    \/ sink'[m] = sink[m]
    \/ sink'[m] = IdleSink
    \/ /\ sink[m].pc = "idle" /\ queue[m] # <<>>
       /\ sink'[m] = [sink[m] EXCEPT !.pc = "lookup", !.doc = Head(queue[m])]
    \/ sink[m].pc = "idle" /\ closed[m] /\ sink'[m] = [sink[m] EXCEPT !.pc = "ended"]
    \/ sink[m].pc = "lookup" /\ sink'[m] = [sink[m] EXCEPT !.pc = "query"]
    \/ /\ sink[m].pc = "query"
       /\ sink'[m] = Onward([sink[m] EXCEPT !.stale = rows \ ChunkSet(sink[m].doc)])
    \/ /\ sink[m].pc = "upsert"
       /\ sink'[m] = Onward([sink[m] EXCEPT !.at = sink[m].at + WriteBatchSize])
    \/ /\ sink[m].pc = "delete"
       /\ \E ids \in SUBSET sink[m].stale :
             sink'[m] = Onward([sink[m] EXCEPT !.stale = sink[m].stale \ ids])

LEMMA SinkStep ==
    ASSUME TypeOK, [Next]_vars, NEW m \in Nodes
    PROVE  SinkChange(m)
  <1>1. DOMAIN sink = Nodes
    BY DEF TypeOK
  <1>2. ASSUME NEW n \in Nodes, Take(n) \/ End(n)
        PROVE  SinkChange(m)
    BY <1>1, <1>2 DEF Take, End, SinkChange
  <1>3. ASSUME NEW n \in Nodes, NEW o, Lookup(n, o) \/ RecordHash(n, o)
        PROVE  SinkChange(m)
    BY <1>1, <1>3 DEF Lookup, RecordHash, SinkChange
  <1>4. ASSUME NEW n \in Nodes, NEW o, Query(n, o)
        PROVE  SinkChange(m)
    BY <1>1, <1>4 DEF Query, Failed, SinkChange
  <1>5. ASSUME NEW n \in Nodes, NEW o, Upsert(n, o)
        PROVE  SinkChange(m)
    <2> DEFINE x == [sink[n] EXCEPT !.at = sink[n].at + WriteBatchSize]
    <2>1. /\ sink[n].pc = "upsert"
          /\ sink' = [sink EXCEPT ![n] = IF o = "ok" THEN Onward(x) ELSE IdleSink]
      BY <1>5 DEF Upsert, Failed
    <2>2. sink'[m] = sink[m] \/ sink'[m] = IdleSink \/ (n = m /\ sink'[m] = Onward(x))
      <3> HIDE DEF x
      <3> QED BY <1>1, <2>1
    <2> QED BY <2>1, <2>2 DEF SinkChange
  <1>6. ASSUME NEW n \in Nodes, NEW o, Delete(n, o)
        PROVE  SinkChange(m)
    <2>1. sink[n].pc = "delete"
      BY <1>6 DEF Delete
    <2>2. PICK ids \in SUBSET sink[n].stale :
             sink' = [sink EXCEPT ![n] =
                        IF o = "ok" THEN Onward([sink[n] EXCEPT !.stale = sink[n].stale \ ids])
                                    ELSE IdleSink]
      BY <1>6 DEF Delete, Failed
    <2> DEFINE x == [sink[n] EXCEPT !.stale = sink[n].stale \ ids]
    <2>3. sink' = [sink EXCEPT ![n] = IF o = "ok" THEN Onward(x) ELSE IdleSink]
      BY <2>2
    <2>4. sink'[m] = sink[m] \/ sink'[m] = IdleSink \/ (n = m /\ sink'[m] = Onward(x))
      <3> HIDE DEF x
      <3> QED BY <1>1, <2>3
    <2> QED BY <2>1, <2>4 DEF SinkChange
  <1>7. ASSUME NEW n \in Nodes, Restart(n) \/ Crash(n)
        PROVE  SinkChange(m)
    BY <1>1, <1>7 DEF Restart, Crash, Gone, SinkChange
  <1>8. ASSUME NEW n \in Nodes, Close(n) \/ Deadline(n) \/ \E w \in CrawlWorkers : Submit(n, w)
        PROVE  SinkChange(m)
    BY <1>8 DEF Submit, Fetch, Enter, Select, Close, Deadline, SinkChange
  <1>9. CASE (\E v \in Versions : Change(v)) \/ HashExpires \/ UNCHANGED vars
    BY <1>9 DEF Change, HashExpires, vars, SinkChange
  <1> QED BY <1>2, <1>3, <1>4, <1>5, <1>6, <1>7, <1>8, <1>9 DEF Next, Work

\* The locals of a worker stay sound, whatever the calls it makes come to.
LEMMA SoundStep ==
    ASSUME TypeOK, LocalsSound, [Next]_vars, NEW m \in Nodes
    PROVE  Sound(sink'[m])
  <1> DEFINE s == sink[m]
  <1>1. /\ Sound(s) /\ s \in SinkState /\ rows \subseteq Chunks
        /\ queue[m] \in Seq(Versions)
    BY DEF TypeOK, LocalsSound, Sound
  <1>2. CASE s.pc = "idle" /\ queue[m] # <<>> /\ sink'[m] = [s EXCEPT !.pc = "lookup", !.doc = Head(queue[m])]
    <2>1. Head(queue[m]) \in Versions
      BY <1>1, <1>2
    <2> HIDE DEF s
    <2> QED BY <1>1, <1>2, <2>1 DEF Sound, SinkState, SinkPC, Busy, Writing
  <1>3. CASE s.pc = "idle" /\ sink'[m] = [s EXCEPT !.pc = "ended"]
    <2> HIDE DEF s
    <2> QED BY <1>1, <1>3 DEF Sound, SinkState, SinkPC, Busy, Writing
  <1>4. CASE s.pc = "lookup" /\ sink'[m] = [s EXCEPT !.pc = "query"]
    <2> HIDE DEF s
    <2> QED BY <1>1, <1>4 DEF Sound, SinkState, SinkPC, Busy, Writing
  <1>5. CASE s.pc = "query" /\ sink'[m] = Onward([s EXCEPT !.stale = rows \ ChunkSet(s.doc)])
    <2> DEFINE t == [s EXCEPT !.stale = rows \ ChunkSet(s.doc)]
    <2> HIDE DEF s
    <2>1. t \in SinkState /\ t.doc = s.doc /\ t.at = s.at /\ t.stale = rows \ ChunkSet(s.doc)
      BY <1>1 DEF SinkState
    <2>2. s.doc \in Versions /\ s.at = 1
      BY <1>1, <1>5 DEF Sound, Busy, Writing
    <2>3. t.stale \cap ChunkSet(t.doc) = {} /\ t.at >= 1 /\ t.doc \in Versions
      BY <2>1, <2>2
    <2> HIDE DEF t
    <2>4. Sound(Onward(t))
      BY <2>1, <2>3, OnwardIsSound
    <2> QED BY <1>5, <2>4 DEF t
  <1>6. CASE s.pc = "upsert" /\ sink'[m] = Onward([s EXCEPT !.at = s.at + WriteBatchSize])
    <2> DEFINE t == [s EXCEPT !.at = s.at + WriteBatchSize]
    <2> HIDE DEF s
    <2>1. s.doc \in Versions /\ s.at >= 1 /\ s.at \in Nat /\ s.stale \cap ChunkSet(s.doc) = {}
      BY <1>1, <1>6 DEF Sound, Busy, Writing, SinkState
    <2>2. /\ t \in SinkState /\ t.doc = s.doc /\ t.at = s.at + WriteBatchSize /\ t.stale = s.stale
      <3>1. s.at + WriteBatchSize \in Nat
        BY <2>1, IndexingAssumption DEF IndexingAssumption
      <3> QED BY <1>1, <2>1, <3>1 DEF SinkState
    <2>3. t.stale \cap ChunkSet(t.doc) = {} /\ t.at >= 1 /\ t.doc \in Versions
      BY <2>1, <2>2, IndexingAssumption DEF IndexingAssumption
    <2> HIDE DEF t
    <2>4. Sound(Onward(t))
      BY <2>2, <2>3, OnwardIsSound
    <2> QED BY <1>6, <2>4 DEF t
  <1>7. ASSUME s.pc = "delete", NEW ids \in SUBSET s.stale,
               sink'[m] = Onward([s EXCEPT !.stale = s.stale \ ids])
        PROVE  Sound(sink'[m])
    <2> DEFINE t == [s EXCEPT !.stale = s.stale \ ids]
    <2> HIDE DEF s
    <2>1. s.doc \in Versions /\ s.at >= 1 /\ s.stale \cap ChunkSet(s.doc) = {}
      BY <1>1, <1>7 DEF Sound, Busy, Writing, SinkState
    <2>2. /\ t \in SinkState /\ t.doc = s.doc /\ t.at = s.at /\ t.stale = s.stale \ ids
      BY <1>1, <2>1 DEF SinkState
    <2>3. t.stale \cap ChunkSet(t.doc) = {} /\ t.at >= 1 /\ t.doc \in Versions
      BY <2>1, <2>2
    <2> HIDE DEF t
    <2>4. Sound(Onward(t))
      BY <2>2, <2>3, OnwardIsSound
    <2> QED BY <1>7, <2>4 DEF t
  <1> QED BY <1>1, <1>2, <1>3, <1>4, <1>5, <1>6, <1>7, SinkStep, IdleIsSound DEF SinkChange

\* A crawl worker in Submit has a version of the page in hand.
LEMMA CallerStep ==
    ASSUME TypeOK, LocalsSound, [Next]_vars
    PROVE  /\ caller' \in [Nodes -> [CrawlWorkers -> CallerState]]
           /\ \A n \in Nodes, w \in CrawlWorkers :
                  caller'[n][w].pc # "idle" => caller'[n][w].doc \in Versions
  <1> DEFINE InHand(c) == c \in CallerState /\ (c.pc # "idle" => c.doc \in Versions)
             AllInHand(f) == /\ f \in [Nodes -> [CrawlWorkers -> CallerState]]
                             /\ \A n \in Nodes, w \in CrawlWorkers : InHand(f[n][w])
  <1>1. AllInHand(caller) /\ page \in Versions
    BY DEF TypeOK, LocalsSound, CallerState
  <1>2. InHand(IdleCaller) /\ InHand([pc |-> "submit", doc |-> page])
    BY <1>1 DEF IdleCaller, CallerState
  <1>3. ASSUME NEW n \in Nodes, NEW w \in CrawlWorkers, Enter(n, w)
        PROVE  AllInHand(caller')
    <2> DEFINE c == [caller[n][w] EXCEPT !.pc = "select"]
    <2>1. caller[n][w] \in CallerState /\ caller[n][w].doc \in Versions
      BY <1>1, <1>3 DEF Enter
    <2>2. InHand(c)
      BY <2>1 DEF CallerState
    <2>3. caller' = [caller EXCEPT ![n][w] = IF closed[n] THEN IdleCaller ELSE c]
      BY <1>3 DEF Enter
    <2> HIDE DEF c, InHand
    <2>4. \E d \in CallerState : InHand(d) /\ caller' = [caller EXCEPT ![n][w] = d]
      <3>1. c \in CallerState /\ IdleCaller \in CallerState
        BY <1>2, <2>2 DEF InHand
      <3> QED BY <1>2, <2>2, <2>3, <3>1
    <2> QED BY <1>1, <2>4
  <1>4. ASSUME NEW n \in Nodes, NEW w \in CrawlWorkers, Fetch(n, w) \/ Select(n, w)
        PROVE  AllInHand(caller')
    <2>1. \E d \in CallerState : InHand(d) /\ caller' = [caller EXCEPT ![n][w] = d]
      BY <1>2, <1>4 DEF Fetch, Select
    <2> HIDE DEF InHand
    <2> QED BY <1>1, <2>1
  <1>5. ASSUME NEW n \in Nodes, Restart(n) \/ Crash(n)
        PROVE  AllInHand(caller')
    <2>1. caller' = [caller EXCEPT ![n] = [w \in CrawlWorkers |-> IdleCaller]]
      BY <1>5 DEF Restart, Crash, Gone
    <2>2. IdleCaller \in CallerState
      BY <1>2
    <2> HIDE DEF InHand
    <2> QED BY <1>1, <1>2, <2>1, <2>2
  <1>6. ASSUME \A n \in Nodes : ~Restart(n) /\ ~Crash(n), \A n \in Nodes, w \in CrawlWorkers : ~Submit(n, w)
        PROVE  caller' = caller
    BY <1>6, ZenonT(60) DEF Next, vars, Work, Take, End, Lookup, Query, Upsert, Delete, RecordHash,
                Close, Deadline, Change, HashExpires
  <1> QED BY <1>1, <1>3, <1>4, <1>5, <1>6 DEF Submit

LEMMA TypeStep ==
    ASSUME TypeOK, LocalsSound, [Next]_vars
    PROVE  TypeOK'
  <1> USE IndexingAssumption DEF IndexingAssumption
  <1>1. sink' \in [Nodes -> SinkState]
    <2>1. \A m \in Nodes : sink'[m] \in SinkState
      BY SoundStep DEF Sound
    <2>2. \E f \in [Nodes -> SinkState] : f = sink
      BY DEF TypeOK, SinkState, SinkPC
    <2>3. ASSUME NEW n \in Nodes, NEW o, Lookup(n, o) \/ Query(n, o) \/ Upsert(n, o) \/ Delete(n, o) \/ RecordHash(n, o)
          PROVE  sink' = [m \in Nodes |-> sink'[m]]
      BY <2>2, <2>3 DEF Lookup, Query, Upsert, Delete, RecordHash
    <2>4. ASSUME NEW n \in Nodes, \/ Take(n) \/ End(n) \/ Close(n) \/ Deadline(n) \/ Restart(n) \/ Crash(n)
                                 \/ \E w \in CrawlWorkers : Submit(n, w)
          PROVE  sink' = [m \in Nodes |-> sink'[m]]
      BY <2>2, <2>4 DEF Submit, Fetch, Enter, Select, Take, End, Close, Deadline, Restart, Crash, Gone
    <2>5. CASE (\E v \in Versions : Change(v)) \/ HashExpires \/ UNCHANGED vars
      BY <2>2, <2>5 DEF Change, HashExpires, vars
    <2>6. sink' = [m \in Nodes |-> sink'[m]]
      BY <2>3, <2>4, <2>5 DEF Next, Work
    <2> QED BY <2>1, <2>6
  <1>2. /\ page' \in Versions /\ hash' \in Versions \cup {None} /\ rows' \subseteq Chunks
    <2>1. ASSUME NEW n \in Nodes, NEW o, RecordHash(n, o)
          PROVE  hash' \in Versions \cup {None} /\ UNCHANGED <<page, rows>>
      BY <2>1 DEF RecordHash, TypeOK
    <2>2. ASSUME NEW n \in Nodes, NEW o, Upsert(n, o)
          PROVE  rows' \subseteq Chunks /\ UNCHANGED <<page, hash>>
      <3>1. sink[n].doc \in Versions
        BY <2>2 DEF Upsert, LocalsSound, Sound, Busy, Writing
      <3>2. \A i \in DOMAIN ChunksOf[sink[n].doc] : ChunksOf[sink[n].doc][i] \in Chunks
        BY <3>1, LenProperties, ElementOfSeq
      <3>3. Batch(sink[n]) \subseteq Chunks
        BY <3>2 DEF Batch
      <3> QED BY <2>2, <3>3 DEF Upsert, TypeOK
    <2>3. ASSUME NEW n \in Nodes, NEW o, Delete(n, o)
          PROVE  rows' \subseteq Chunks /\ UNCHANGED <<page, hash>>
      BY <2>3 DEF Delete, TypeOK
    <2>4. ASSUME NEW v \in Versions, Change(v)
          PROVE  page' \in Versions /\ UNCHANGED <<rows, hash>>
      BY <2>4 DEF Change
    <2>5. CASE HashExpires
      BY <2>5 DEF HashExpires, TypeOK
    <2>6. ASSUME \A v \in Versions : ~Change(v), ~HashExpires,
                 \A n \in Nodes, o \in Outcomes : ~RecordHash(n, o) /\ ~Upsert(n, o) /\ ~Delete(n, o)
          PROVE  UNCHANGED <<page, hash, rows>>
      BY <2>6 DEF Next, vars, Submit, Fetch, Enter, Select, Work, Take, End, Lookup, Query, Close,
                  Deadline, Restart, Crash
    <2>7. page \in Versions /\ hash \in Versions \cup {None} /\ rows \subseteq Chunks
      BY DEF TypeOK
    <2> QED BY <2>1, <2>2, <2>3, <2>4, <2>5, <2>6, <2>7
  <1>3. caller' \in [Nodes -> [CrawlWorkers -> CallerState]]
    BY CallerStep
  <1>4. queue' \in [Nodes -> Seq(Versions)] /\ \A m \in Nodes : Len(queue'[m]) <= QueueSize
    <2>1. queue \in [Nodes -> Seq(Versions)] /\ \A m \in Nodes : Len(queue[m]) <= QueueSize
      BY DEF TypeOK
    <2>2. ASSUME NEW n \in Nodes, NEW q \in Seq(Versions), Len(q) <= QueueSize,
                 queue' = [queue EXCEPT ![n] = q]
          PROVE  queue' \in [Nodes -> Seq(Versions)] /\ \A m \in Nodes : Len(queue'[m]) <= QueueSize
      BY <2>1, <2>2
    <2>3. ASSUME NEW n \in Nodes, NEW w \in CrawlWorkers, Select(n, w)
          PROVE  queue' \in [Nodes -> Seq(Versions)] /\ \A m \in Nodes : Len(queue'[m]) <= QueueSize
      <3> DEFINE q == Append(queue[n], caller[n][w].doc)
      <3>1. CASE queue' = queue
        BY <2>1, <3>1
      <3>2. CASE HasRoom(n) /\ queue' = [queue EXCEPT ![n] = q]
        <4>1. caller[n][w].doc \in Versions
          BY <2>3 DEF LocalsSound, Select
        <4>2. q \in Seq(Versions) /\ Len(q) <= QueueSize
          BY <2>1, <3>2, <4>1 DEF HasRoom
        <4> QED BY <2>2, <3>2, <4>2
      <3> QED BY <2>3, <3>1, <3>2 DEF Select
    <2>4. ASSUME NEW n \in Nodes, Take(n)
          PROVE  queue' \in [Nodes -> Seq(Versions)] /\ \A m \in Nodes : Len(queue'[m]) <= QueueSize
      <3>1. queue' = [queue EXCEPT ![n] = Tail(queue[n])] /\ queue[n] # <<>>
        BY <2>4 DEF Take
      <3>2. Tail(queue[n]) \in Seq(Versions) /\ Len(Tail(queue[n])) <= QueueSize
        BY <2>1, <3>1
      <3> QED BY <2>2, <3>1, <3>2
    <2>5. ASSUME NEW n \in Nodes, Restart(n) \/ Crash(n)
          PROVE  queue' \in [Nodes -> Seq(Versions)] /\ \A m \in Nodes : Len(queue'[m]) <= QueueSize
      <3>1. <<>> \in Seq(Versions) /\ Len(<<>>) <= QueueSize
        BY EmptySeq
      <3>2. queue' = [queue EXCEPT ![n] = <<>>]
        BY <2>5 DEF Restart, Crash, Gone
      <3> QED BY <2>2, <3>1, <3>2
    <2>6. ASSUME \A n \in Nodes : ~(Take(n) \/ Restart(n) \/ Crash(n)),
                 \A n \in Nodes, w \in CrawlWorkers : ~Select(n, w)
          PROVE  queue' = queue
      BY <2>6, ZenonT(60) DEF Next, vars, Submit, Fetch, Enter, Work, End, Lookup, Query, Upsert, Delete, RecordHash,
                  Close, Deadline, Change, HashExpires
    <2> QED BY <2>1, <2>3, <2>4, <2>5, <2>6
  <1>5. closed' \in [Nodes -> BOOLEAN] /\ cancelled' \in [Nodes -> BOOLEAN] /\ indexed' \in BOOLEAN
    <2>1. closed \in [Nodes -> BOOLEAN] /\ cancelled \in [Nodes -> BOOLEAN] /\ indexed \in BOOLEAN
      BY DEF TypeOK
    <2>2. ASSUME NEW n \in Nodes, Close(n) \/ Deadline(n) \/ Restart(n) \/ Crash(n)
          PROVE  /\ closed' \in [Nodes -> BOOLEAN] /\ cancelled' \in [Nodes -> BOOLEAN]
                 /\ indexed' = indexed
      BY <2>1, <2>2 DEF Close, Deadline, Restart, Crash, Gone
    <2>3. ASSUME \A n \in Nodes : ~(Close(n) \/ Deadline(n) \/ Restart(n) \/ Crash(n))
          PROVE  UNCHANGED <<closed, cancelled>> /\ (indexed' = indexed \/ indexed' = TRUE)
      BY <2>3, ZenonT(60) DEF Next, vars, Submit, Fetch, Enter, Select, Work, Take, End, Lookup, Query, Upsert,
                  Delete, RecordHash, Change, HashExpires
    <2> QED BY <2>1, <2>2, <2>3
  <1>6. late' \in [Nodes -> Nat] /\ faults' \in 0 .. MaxFaults
    <2>1. late \in [Nodes -> Nat] /\ faults \in 0 .. MaxFaults
      BY DEF TypeOK
    <2>2. ASSUME NEW n \in Nodes, NEW o, Lookup(n, o) \/ Query(n, o) \/ Upsert(n, o) \/ Delete(n, o) \/ RecordHash(n, o)
          PROVE  late' = late /\ faults' \in 0 .. MaxFaults
      BY <2>1, <2>2 DEF Lookup, Query, Upsert, Delete, RecordHash, Answers, Fault
    <2>3. ASSUME NEW n \in Nodes, Close(n) \/ Crash(n) \/ Restart(n) \/ \E w \in CrawlWorkers : Select(n, w)
          PROVE  late' \in [Nodes -> Nat] /\ faults' \in 0 .. MaxFaults
      BY <2>1, <2>3 DEF Close, Crash, Restart, Gone, Select, Fault
    <2>4. ASSUME NEW n \in Nodes, \/ Take(n) \/ End(n) \/ Deadline(n)
                                 \/ \E w \in CrawlWorkers : Fetch(n, w) \/ Enter(n, w)
          PROVE  UNCHANGED <<late, faults>>
      BY <2>4 DEF Fetch, Enter, Take, End, Deadline
    <2>5. CASE (\E v \in Versions : Change(v)) \/ HashExpires \/ UNCHANGED vars
      BY <2>1, <2>5 DEF Change, HashExpires, vars
    <2> QED BY <2>1, <2>2, <2>3, <2>4, <2>5 DEF Next, Submit, Work
  <1>7. arrivals' \in ArrivalState
    <2>1. arrivals \in ArrivalState
      BY DEF TypeOK, ArrivalState
    <2>2. ASSUME NEW v \in Versions
          PROVE  ArrivalsWith(v) \in ArrivalState
      BY <2>1 DEF ArrivalsWith, ArrivalState
    <2>3. ASSUME NEW n \in Nodes, NEW w \in CrawlWorkers, Select(n, w)
          PROVE  arrivals' \in ArrivalState
      <3>1. caller[n][w].doc \in Versions
        BY <2>3 DEF LocalsSound, Select
      <3> QED BY <2>1, <2>2, <2>3, <3>1 DEF Select
    <2>4. ASSUME \A n \in Nodes, w \in CrawlWorkers : ~Select(n, w)
          PROVE  arrivals' = arrivals
      BY <2>4, ZenonT(60) DEF Next, vars, Submit, Fetch, Enter, Work, Take, End, Lookup, Query, Upsert,
                  Delete, RecordHash, Close, Deadline, Restart, Crash, Change, HashExpires
    <2> QED BY <2>1, <2>3, <2>4
  <1> QED BY <1>1, <1>2, <1>3, <1>4, <1>5, <1>6, <1>7
          DEF TypeOK, CallerState, ArrivalState, SinkState, SinkPC

\* A worker has ended only in a process that is shutting down, and what its shard
\* has received since is counted.
LEMMA DrainedStep ==
    ASSUME TypeOK, LocalsSound, DrainedAtEnd, [Next]_vars
    PROVE  LocalsSound' /\ DrainedAtEnd'
  <1>1. SUFFICES ASSUME NEW m \in Nodes
                 PROVE  /\ sink'[m].pc = "ended" => closed'[m] /\ Len(queue'[m]) <= late'[m]
    BY SoundStep, CallerStep DEF LocalsSound, DrainedAtEnd
  <1>2. /\ sink[m].pc = "ended" => closed[m] /\ Len(queue[m]) <= late[m]
        /\ queue \in [Nodes -> Seq(Versions)] /\ late \in [Nodes -> Nat]
        /\ DOMAIN closed = Nodes /\ DOMAIN sink = Nodes
    BY DEF LocalsSound, DrainedAtEnd, TypeOK
  <1>3. ASSUME sink'[m].pc = "ended"
        PROVE  closed'[m] /\ Len(queue'[m]) <= late'[m]
    <2>1. ASSUME NEW n \in Nodes, Crash(n) \/ Restart(n), n = m
          PROVE  FALSE
      BY <1>2, <1>3, <2>1 DEF Crash, Restart, Gone, IdleSink
    <2>2. ASSUME NEW n \in Nodes, Crash(n) \/ Restart(n), n # m
          PROVE  closed'[m] /\ Len(queue'[m]) <= late'[m]
      BY <1>2, <1>3, <2>2 DEF Crash, Restart, Gone
    <2>3. ASSUME NEW n \in Nodes, Take(n)
          PROVE  closed'[m] /\ Len(queue'[m]) <= late'[m]
      BY <1>2, <1>3, <2>3 DEF Take
    <2>4. ASSUME NEW n \in Nodes, End(n)
          PROVE  closed'[m] /\ Len(queue'[m]) <= late'[m]
      BY <1>2, <1>3, <2>4, EmptySeq DEF End
    <2>5. ASSUME NEW n \in Nodes, NEW w \in CrawlWorkers, Select(n, w)
          PROVE  closed'[m] /\ Len(queue'[m]) <= late'[m]
      <3>1. closed' = closed /\ sink' = sink /\ closed[m]
        BY <1>2, <1>3, <2>5 DEF Select
      <3>2. CASE UNCHANGED <<queue, late>>
        BY <1>2, <1>3, <3>1, <3>2
      <3>3. CASE /\ queue' = [queue EXCEPT ![n] = Append(queue[n], caller[n][w].doc)]
                 /\ late' = [late EXCEPT ![n] = IF closed[n] THEN late[n] + 1 ELSE late[n]]
        <4>1. caller[n][w].doc \in Versions
          BY <2>5 DEF LocalsSound, Select
        <4>2. Len(Append(queue[n], caller[n][w].doc)) = Len(queue[n]) + 1 /\ Len(queue[n]) \in Nat
          BY <1>2, <4>1
        <4> DEFINE q == Append(queue[n], caller[n][w].doc)
        <4> HIDE DEF q
        <4>3. CASE n = m
          BY <1>2, <1>3, <3>1, <3>3, <4>2, <4>3 DEF q
        <4>4. CASE n # m
          BY <1>2, <1>3, <3>1, <3>3, <4>4
        <4> QED BY <4>3, <4>4
      <3> QED BY <2>5, <3>2, <3>3 DEF Select
    <2>6. ASSUME NEW n \in Nodes, Close(n)
          PROVE  closed'[m] /\ Len(queue'[m]) <= late'[m]
      BY <1>2, <1>3, <2>6 DEF Close
    <2>7. ASSUME NEW n \in Nodes, NEW o, Lookup(n, o) \/ Query(n, o) \/ Upsert(n, o) \/ Delete(n, o) \/ RecordHash(n, o)
          PROVE  UNCHANGED <<closed, queue, late>>
      BY <2>7 DEF Lookup, Query, Upsert, Delete, RecordHash
    <2>8. ASSUME NEW n \in Nodes, NEW o, Lookup(n, o) \/ Query(n, o) \/ Upsert(n, o) \/ Delete(n, o) \/ RecordHash(n, o)
          PROVE  sink[m].pc = "ended"
      <3>1. CASE n = m
        <4>1. sink[m].pc \in Busy
          BY <2>8, <3>1 DEF Lookup, Query, Upsert, Delete, RecordHash, Busy, Writing
        <4>2. sink[m] \in SinkState
          BY DEF LocalsSound, Sound
        <4>3. \A s \in SinkState : Onward(s).pc # "ended"
          BY DEF Onward, SinkState
        <4>4. /\ \A x : [sink[m] EXCEPT !.stale = sink[m].stale \ x] \in SinkState
              /\ [sink[m] EXCEPT !.stale = rows \ ChunkSet(sink[m].doc)] \in SinkState
              /\ [sink[m] EXCEPT !.at = sink[m].at + WriteBatchSize] \in SinkState
          <5>1. rows \subseteq Chunks /\ sink[m].at + WriteBatchSize \in Nat
            BY <4>2, IndexingAssumption DEF TypeOK, SinkState, IndexingAssumption
          <5> QED BY <4>2, <5>1 DEF SinkState
        <4>5. [sink[m] EXCEPT !.pc = "query"].pc = "query" /\ IdleSink.pc = "idle"
          BY <4>2 DEF SinkState, IdleSink
        <4>6. SinkChange(m)
          BY SinkStep
        <4> QED BY <1>3, <4>1, <4>3, <4>4, <4>5, <4>6 DEF SinkChange, Busy, Writing
      <3>2. CASE n # m
        BY <1>2, <1>3, <2>8, <3>2 DEF Lookup, Query, Upsert, Delete, RecordHash
      <3> QED BY <3>1, <3>2
    <2>9. ASSUME NEW n \in Nodes, Deadline(n) \/ \E w \in CrawlWorkers : Fetch(n, w) \/ Enter(n, w)
          PROVE  UNCHANGED <<closed, queue, late, sink>>
      BY <2>9 DEF Fetch, Enter, Deadline
    <2>10. CASE (\E v \in Versions : Change(v)) \/ HashExpires \/ UNCHANGED vars
      BY <1>2, <1>3, <2>10 DEF Change, HashExpires, vars
    <2>11. ASSUME NEW n \in Nodes, NEW o, Lookup(n, o) \/ Query(n, o) \/ Upsert(n, o) \/ Delete(n, o) \/ RecordHash(n, o)
           PROVE  closed'[m] /\ Len(queue'[m]) <= late'[m]
      BY <1>2, <2>7, <2>8, <2>11
    <2>12. ASSUME NEW n \in Nodes, Deadline(n) \/ \E w \in CrawlWorkers : Fetch(n, w) \/ Enter(n, w)
           PROVE  closed'[m] /\ Len(queue'[m]) <= late'[m]
      BY <1>2, <1>3, <2>9, <2>12
    <2> QED BY <2>1, <2>2, <2>3, <2>4, <2>5, <2>6, <2>10, <2>11, <2>12 DEF Next, Submit, Work
  <1> QED BY <1>3

LEMMA NodesStep == NodesInv /\ [Next]_vars => NodesInv'
  BY TypeStep, DrainedStep DEF NodesInv

\* On any number of nodes, whatever fails: a worker that has ended leaves nothing in
\* its shard but what was accepted after the shutdown began
\* (sink_async.go:96-112).
THEOREM DrainedBeforeEnd == Spec => [](TypeOK /\ DrainedAtEnd)
  <1>1. Spec => []NodesInv
    BY InitNodes, NodesStep, PTL DEF Spec
  <1>2. NodesInv => TypeOK /\ DrainedAtEnd
    BY DEF NodesInv
  <1> QED BY <1>1, <1>2, PTL

-----------------------------------------------------------------------------
(* One node: what the collection holds while a version is being replaced.   *)

\* The batches before the one the worker n is at are in the collection, and nothing
\* is there but the document's chunks and what is still to be deleted.
RowsSound(n) ==
    LET s == sink[n]
    IN  s.pc \in Writing =>
            /\ \A j \in DOMAIN ChunksOf[s.doc] : j < s.at => ChunksOf[s.doc][j] \in rows
            /\ rows \subseteq ChunkSet(s.doc) \cup s.stale

\* A version all of whose batches are written is whole.
LEMMA WholeWhenWritten ==
    ASSUME LocalsSound, NEW n \in Nodes, RowsSound(n), sink[n].pc \in {"delete", "record"}
    PROVE  /\ sink[n].doc \in Versions
           /\ ChunkSet(sink[n].doc) \subseteq rows
           /\ sink[n].stale \cap ChunkSet(sink[n].doc) = {}
           /\ sink[n].pc = "record" => rows = ChunkSet(sink[n].doc)
  <1> DEFINE d == sink[n].doc
  <1>1. /\ d \in Versions /\ sink[n].at > Len(ChunksOf[d]) /\ sink[n].at \in Nat
        /\ sink[n].stale \cap ChunkSet(d) = {}
        /\ sink[n].pc = "record" => sink[n].stale = {}
    BY DEF LocalsSound, Sound, Busy, Writing, SinkState
  <1>2. /\ DOMAIN ChunksOf[d] = 1 .. Len(ChunksOf[d]) /\ Len(ChunksOf[d]) \in Nat
    BY <1>1, IndexingAssumption, LenProperties DEF IndexingAssumption
  <1>3. /\ \A j \in DOMAIN ChunksOf[d] : j < sink[n].at => ChunksOf[d][j] \in rows
        /\ rows \subseteq ChunkSet(d) \cup sink[n].stale
    BY DEF RowsSound, Writing
  <1> HIDE DEF d
  <1>4. ChunkSet(d) \subseteq rows
    BY <1>1, <1>2, <1>3 DEF ChunkSet
  <1>5. sink[n].pc = "record" => rows = ChunkSet(d)
    BY <1>1, <1>3, <1>4
  <1> QED BY <1>1, <1>4, <1>5 DEF d

\* What the calls of the only node's worker do to the collection.
RowsChange(n) ==
    LET s == sink[n]
    IN  \/ rows' = rows /\ (sink'[n].pc \in Writing => sink'[n] = s)
        \/ /\ s.pc = "query" /\ rows' = rows
           /\ sink'[n].doc = s.doc /\ sink'[n].at = 1 /\ sink'[n].stale = rows \ ChunkSet(s.doc)
        \/ /\ s.pc = "upsert" /\ rows' \in {rows, rows \cup Batch(s)}
           /\ \/ sink'[n].pc = "idle"
              \/ /\ rows' = rows \cup Batch(s)
                 /\ sink'[n].doc = s.doc /\ sink'[n].at = s.at + WriteBatchSize /\ sink'[n].stale = s.stale
        \/ /\ s.pc = "delete"
           /\ \E ids \in SUBSET s.stale :
                 /\ rows' \in {rows, rows \ ids}
                 /\ \/ sink'[n].pc = "idle"
                    \/ /\ rows' = rows \ ids
                       /\ sink'[n].doc = s.doc /\ sink'[n].at = s.at /\ sink'[n].stale = s.stale \ ids

LEMMA RowsStep ==
    ASSUME TypeOK, LocalsSound, [Next]_vars, NEW n \in Nodes, Nodes = {n}
    PROVE  RowsChange(n)
  <1> DEFINE s == sink[n]
  <1>1. /\ DOMAIN sink = Nodes /\ s \in SinkState /\ rows \subseteq Chunks
        /\ IdleSink.pc = "idle"
    BY DEF TypeOK, SinkState, SinkPC, IdleSink
  <1>2. ASSUME NEW x \in SinkState
        PROVE  Onward(x).doc = x.doc /\ Onward(x).at = x.at /\ Onward(x).stale = x.stale
    BY <1>2 DEF Onward, SinkState
  <1>3. ASSUME NEW o, Query(n, o)
        PROVE  RowsChange(n)
    <2> DEFINE x == [s EXCEPT !.stale = rows \ ChunkSet(s.doc)]
    <2>1. s.pc = "query" /\ rows' = rows /\ s.at = 1
      BY <1>3 DEF Query, LocalsSound, Sound, Writing
    <2>2. sink'[n] = Onward(x) \/ sink'[n] = IdleSink
      BY <1>1, <1>3 DEF Query, Failed
    <2> HIDE DEF s
    <2>3. x \in SinkState /\ x.doc = s.doc /\ x.at = 1 /\ x.stale = rows \ ChunkSet(s.doc)
      BY <1>1, <2>1 DEF SinkState
    <2> HIDE DEF x
    <2>4. \/ sink'[n].pc = "idle"
          \/ sink'[n].doc = s.doc /\ sink'[n].at = 1 /\ sink'[n].stale = rows \ ChunkSet(s.doc)
      BY <1>1, <1>2, <2>2, <2>3
    <2> QED BY <2>1, <2>4 DEF RowsChange, Writing, s
  <1>4. ASSUME NEW o, Upsert(n, o)
        PROVE  RowsChange(n)
    <2> DEFINE x == [s EXCEPT !.at = s.at + WriteBatchSize]
    <2>1. s.pc = "upsert" /\ rows' = IF o = "down" THEN rows ELSE rows \cup Batch(s)
      BY <1>4 DEF Upsert
    <2>2. sink'[n] = IF o = "ok" THEN Onward(x) ELSE IdleSink
      BY <1>1, <1>4 DEF Upsert, Failed
    <2> HIDE DEF s
    <2>3. x \in SinkState /\ x.doc = s.doc /\ x.at = s.at + WriteBatchSize /\ x.stale = s.stale
      <3>1. s.at + WriteBatchSize \in Nat
        BY <1>1, IndexingAssumption DEF SinkState, IndexingAssumption
      <3> QED BY <1>1, <3>1 DEF SinkState
    <2> HIDE DEF x
    <2>4. \/ sink'[n].pc = "idle"
          \/ /\ rows' = rows \cup Batch(s)
             /\ sink'[n].doc = s.doc /\ sink'[n].at = s.at + WriteBatchSize /\ sink'[n].stale = s.stale
      BY <1>1, <1>2, <2>1, <2>2, <2>3
    <2> QED BY <2>1, <2>4 DEF RowsChange, s
  <1>5. ASSUME NEW o, Delete(n, o)
        PROVE  RowsChange(n)
    <2>1. s.pc = "delete"
      BY <1>5 DEF Delete
    <2>2. PICK ids \in SUBSET s.stale :
             /\ rows' = IF o = "down" THEN rows ELSE rows \ ids
             /\ sink' = [sink EXCEPT ![n] = IF o = "ok" THEN Onward([s EXCEPT !.stale = s.stale \ ids])
                                                        ELSE IdleSink]
      BY <1>5 DEF Delete, Failed
    <2> DEFINE x == [s EXCEPT !.stale = s.stale \ ids]
    <2>3. sink'[n] = IF o = "ok" THEN Onward(x) ELSE IdleSink
      BY <1>1, <2>2
    <2> HIDE DEF s
    <2>4. x \in SinkState /\ x.doc = s.doc /\ x.at = s.at /\ x.stale = s.stale \ ids
      BY <1>1 DEF SinkState
    <2> HIDE DEF x
    <2>5. \/ sink'[n].pc = "idle"
          \/ /\ rows' = rows \ ids
             /\ sink'[n].doc = s.doc /\ sink'[n].at = s.at /\ sink'[n].stale = s.stale \ ids
      BY <1>1, <1>2, <2>2, <2>3, <2>4
    <2>6. rows' \in {rows, rows \ ids}
      BY <2>2
    <2> QED BY <2>1, <2>5, <2>6 DEF RowsChange, s
  <1>6. ASSUME NEW o, Lookup(n, o) \/ RecordHash(n, o)
        PROVE  RowsChange(n)
    <2>1. rows' = rows /\ (sink'[n] = IdleSink \/ sink'[n].pc = "query")
      BY <1>1, <1>6 DEF Lookup, RecordHash, SinkState
    <2> QED BY <1>1, <2>1 DEF RowsChange, Writing
  <1>7. CASE Take(n) \/ End(n)
    <2>1. rows' = rows /\ sink'[n].pc \in {"lookup", "ended"}
      BY <1>1, <1>7 DEF Take, End, SinkState
    <2> QED BY <2>1 DEF RowsChange, Writing
  <1>8. CASE Restart(n) \/ Crash(n)
    <2>1. rows' = rows /\ sink'[n] = IdleSink
      BY <1>1, <1>8 DEF Restart, Crash, Gone
    <2> QED BY <1>1, <2>1 DEF RowsChange, Writing
  <1>9. CASE (\E w \in CrawlWorkers : Submit(n, w)) \/ Close(n) \/ Deadline(n) \/ (\E v \in Versions : Change(v)) \/ HashExpires \/ UNCHANGED vars
    <2>1. rows' = rows /\ sink' = sink
      BY <1>9 DEF Submit, Fetch, Enter, Select, Close, Deadline, Change, HashExpires, vars
    <2> QED BY <2>1 DEF RowsChange
  <1> QED BY <1>3, <1>4, <1>5, <1>6, <1>7, <1>8, <1>9 DEF Next, Work

\* The batches written stay written, and nothing comes but what is the document's.
LEMMA RowsSoundStep ==
    ASSUME TypeOK, LocalsSound, [Next]_vars, NEW n \in Nodes, Nodes = {n}, RowsSound(n)
    PROVE  RowsSound(n)'
  <1> DEFINE s == sink[n]
             t == sink'[n]
  <1>1. SUFFICES ASSUME t.pc \in Writing
                 PROVE  /\ \A j \in DOMAIN ChunksOf[t.doc] : j < t.at => ChunksOf[t.doc][j] \in rows'
                        /\ rows' \subseteq ChunkSet(t.doc) \cup t.stale
    BY DEF RowsSound
  <1>2. /\ s.pc \in Writing =>
             /\ \A j \in DOMAIN ChunksOf[s.doc] : j < s.at => ChunksOf[s.doc][j] \in rows
             /\ rows \subseteq ChunkSet(s.doc) \cup s.stale
        /\ s.pc \in Busy => s.doc \in Versions
        /\ s.at \in Nat
    BY DEF RowsSound, LocalsSound, Sound, SinkState
  <1>3. CASE rows' = rows /\ t = s
    BY <1>1, <1>2, <1>3
  <1>4. CASE /\ s.pc = "query" /\ rows' = rows
             /\ t.doc = s.doc /\ t.at = 1 /\ t.stale = rows \ ChunkSet(s.doc)
    <2>1. DOMAIN ChunksOf[s.doc] = 1 .. Len(ChunksOf[s.doc])
      BY <1>2, <1>4, IndexingAssumption, LenProperties DEF IndexingAssumption, Busy
    <2> QED BY <1>4, <2>1
  <1>5. CASE /\ s.pc = "upsert" /\ rows' = rows \cup Batch(s)
             /\ t.doc = s.doc /\ t.at = s.at + WriteBatchSize /\ t.stale = s.stale
    <2>1. DOMAIN ChunksOf[s.doc] = 1 .. Len(ChunksOf[s.doc])
      BY <1>2, <1>5, IndexingAssumption, LenProperties DEF IndexingAssumption, Busy, Writing
    <2>2. ASSUME NEW j \in DOMAIN ChunksOf[s.doc], j < s.at + WriteBatchSize
          PROVE  ChunksOf[s.doc][j] \in rows'
      <3>1. j < s.at \/ s.at <= j
        BY <1>2, <2>1
      <3>2. CASE j < s.at
        BY <1>2, <1>5, <3>2 DEF Writing
      <3>3. CASE s.at <= j
        BY <1>5, <2>2, <3>3 DEF Batch
      <3> QED BY <3>1, <3>2, <3>3
    <2>3. Batch(s) \subseteq ChunkSet(s.doc)
      BY DEF Batch, ChunkSet
    <2> QED BY <1>2, <1>5, <2>2, <2>3 DEF Writing
  <1>6. ASSUME s.pc = "delete", NEW ids \in SUBSET s.stale, rows' = rows \ ids,
               t.doc = s.doc, t.at = s.at, t.stale = s.stale \ ids
        PROVE  /\ \A j \in DOMAIN ChunksOf[t.doc] : j < t.at => ChunksOf[t.doc][j] \in rows'
               /\ rows' \subseteq ChunkSet(t.doc) \cup t.stale
    <2>1. s.stale \cap ChunkSet(s.doc) = {} /\ ChunkSet(s.doc) \subseteq rows
      BY <1>6, WholeWhenWritten
    <2>2. ChunkSet(s.doc) \subseteq rows'
      BY <1>6, <2>1
    <2>3. \A j \in DOMAIN ChunksOf[s.doc] : ChunksOf[s.doc][j] \in rows'
      BY <2>2 DEF ChunkSet
    <2>4. rows' \subseteq ChunkSet(s.doc) \cup (s.stale \ ids)
      BY <1>2, <1>6 DEF Writing
    <2> QED BY <1>6, <2>3, <2>4
  <1> HIDE DEF s, t
  <1>7. RowsChange(n)
    BY RowsStep
  <1> QED BY <1>1, <1>3, <1>4, <1>5, <1>6, <1>7 DEF RowsChange, Writing, s, t

\* Once a version has been indexed to its end a whole one is there: what is written
\* takes nothing away, and rows go only when the new version is whole.
LEMMA HalfGoneStep ==
    ASSUME TypeOK, LocalsSound, [Next]_vars, NEW n \in Nodes, Nodes = {n}, RowsSound(n),
           NeverHalfGone
    PROVE  NeverHalfGone'
  <1>1. SUFFICES ASSUME indexed'
                 PROVE  \E v \in Versions : ChunkSet(v) \subseteq rows'
    BY DEF NeverHalfGone
  <1>2. CASE \E o \in Outcomes : RecordHash(n, o)
    <2>1. sink[n].pc = "record" /\ rows' = rows
      BY <1>2 DEF RecordHash
    <2> QED BY <2>1, WholeWhenWritten
  <1>3. ASSUME NEW ids \in SUBSET sink[n].stale, sink[n].pc = "delete",
               rows' \in {rows, rows \ ids}
        PROVE  \E v \in Versions : ChunkSet(v) \subseteq rows'
    <2>1. /\ sink[n].doc \in Versions /\ ChunkSet(sink[n].doc) \subseteq rows
          /\ sink[n].stale \cap ChunkSet(sink[n].doc) = {}
      BY <1>3, WholeWhenWritten
    <2>2. ChunkSet(sink[n].doc) \subseteq rows'
      BY <1>3, <2>1
    <2> QED BY <2>1, <2>2
  <1>4. ASSUME \A o \in Outcomes : ~RecordHash(n, o), sink[n].pc # "delete"
        PROVE  \E v \in Versions : ChunkSet(v) \subseteq rows'
    <2>1. indexed' = indexed
      BY <1>4 DEF Next, vars, Submit, Fetch, Enter, Select, Work, Take, End, Lookup, Query, Upsert,
                  Delete, Close, Deadline, Restart, Crash, Change, HashExpires
    <2>2. rows \subseteq rows'
      BY <1>4, RowsStep DEF RowsChange
    <2> QED BY <1>1, <2>1, <2>2 DEF NeverHalfGone
  <1>5. ASSUME \A o \in Outcomes : ~RecordHash(n, o), rows' = rows
        PROVE  \E v \in Versions : ChunkSet(v) \subseteq rows'
    <2>1. indexed' = indexed
      BY <1>5 DEF Next, vars, Submit, Fetch, Enter, Select, Work, Take, End, Lookup, Query, Upsert,
                  Delete, Close, Deadline, Restart, Crash, Change, HashExpires
    <2> QED BY <1>1, <1>5, <2>1 DEF NeverHalfGone
  <1>6. CASE sink[n].pc = "delete" /\ rows' # rows
    BY <1>3, <1>6, RowsStep DEF RowsChange
  <1> QED BY <1>2, <1>4, <1>5, <1>6

OneNodeInv(n) == NodesInv /\ RowsSound(n) /\ NeverHalfGone

LEMMA OneNodeStep ==
    ASSUME NEW n \in Nodes, Nodes = {n}
    PROVE  /\ Init => OneNodeInv(n)
           /\ OneNodeInv(n) /\ [Next]_vars => OneNodeInv(n)'
  <1>1. ASSUME Init
        PROVE  RowsSound(n) /\ NeverHalfGone
    BY <1>1 DEF Init, RowsSound, NeverHalfGone, IdleSink, Writing
  <1>2. Init => OneNodeInv(n)
    BY <1>1, InitNodes DEF OneNodeInv
  <1>3. ASSUME OneNodeInv(n), [Next]_vars
        PROVE  OneNodeInv(n)'
    <2>1. NodesInv /\ RowsSound(n) /\ NeverHalfGone /\ TypeOK /\ LocalsSound
      BY <1>3 DEF OneNodeInv, NodesInv
    <2>2. NodesInv'
      BY <1>3, <2>1, NodesStep
    <2>3. RowsSound(n)'
      BY <1>3, <2>1, RowsSoundStep
    <2>4. NeverHalfGone'
      BY <1>3, <2>1, HalfGoneStep
    <2> QED BY <2>2, <2>3, <2>4 DEF OneNodeInv
  <1> QED BY <1>2, <1>3

\* With one node replacing the page, a search always finds the chunks of a whole
\* version of it once one has been indexed, whichever calls fail and however often
\* the process dies; and a shard that ended has left nothing behind
\* (milvus.go:113-150, sink_async.go:96-112).
THEOREM IndexStaysSound ==
    ASSUME NEW n \in Nodes, Nodes = {n}
    PROVE  Spec => []IndexIsSound
  <1>1. /\ Init => OneNodeInv(n)
        /\ OneNodeInv(n) /\ [Next]_vars => OneNodeInv(n)'
    BY OneNodeStep
  <1>2. OneNodeInv(n) => IndexIsSound
    BY DEF OneNodeInv, NodesInv, IndexIsSound
  <1> QED BY <1>1, <1>2, PTL DEF Spec

-----------------------------------------------------------------------------
(* One node: in which order the versions of the page go through its shard.  *)
(* While no version has come again after another one, equal documents stand *)
(* together: the one in work, then those in the channel, down to the last   *)
(* that has come.  The recorded hash is of a version that was in work before *)
(* them, so once another one is being written it does not come again.       *)

SinkDoc(n) == {v \in {sink[n].doc} : sink[n].pc \in Busy}

\* D is the document in work, if there is one, q the channel, a the arrivals.
EqualsTogether(D, q, a) ==
    /\ D \subseteq a.seen
    /\ \A i \in DOMAIN q : q[i] \in a.seen
    /\ q = <<>> => D \subseteq {a.last}
    /\ q # <<>> => q[Len(q)] = a.last
    /\ \A i, j, k \in DOMAIN q : i <= j /\ j <= k /\ q[i] = q[k] => q[j] = q[k]
    /\ \A j, k \in DOMAIN q : j <= k /\ q[k] \in D => q[j] = q[k]

\* The hash h comes before what is in hand.
HashBefore(D, q, a, h) ==
    h # None =>
        /\ h \in a.seen
        /\ \A j, k \in DOMAIN q : j <= k /\ q[k] = h => q[j] = h
        /\ \A k \in DOMAIN q : q[k] = h => D \subseteq {h}

\* A hash of what the collection, r, does not hold is behind all that is in hand.
FalseHashIsPast(D, q, a, h, r) ==
    h # None /\ r # ChunkSet(h) =>
        /\ h # a.last /\ h \notin D
        /\ \A i \in DOMAIN q : q[i] # h

Flows(D, q, a, h, r) ==
    ~a.wentBack => EqualsTogether(D, q, a) /\ HashBefore(D, q, a, h) /\ FalseHashIsPast(D, q, a, h, r)

\* What stands in a queue that has grown or shrunk by one.
LEMMA QueueAfter ==
    ASSUME NEW q \in Seq(Versions), NEW x \in Versions
    PROVE  /\ DOMAIN Append(q, x) = 1 .. Len(q) + 1 /\ DOMAIN q = 1 .. Len(q) /\ Len(q) \in Nat
           /\ \A i \in DOMAIN q : i \in DOMAIN Append(q, x) /\ Append(q, x)[i] = q[i]
           /\ Append(q, x)[Len(q) + 1] = x
           /\ q # <<>> => /\ Head(q) = q[1] /\ 1 \in DOMAIN q
                          /\ \A i \in DOMAIN Tail(q) : i + 1 \in DOMAIN q /\ Tail(q)[i] = q[i + 1]
  <1>1. DOMAIN Append(q, x) = 1 .. Len(q) + 1 /\ DOMAIN q = 1 .. Len(q) /\ Len(q) \in Nat
    BY LenProperties
  <1>2. /\ \A i \in DOMAIN q : Append(q, x)[i] = q[i]
        /\ Append(q, x)[Len(q) + 1] = x
    BY <1>1
  <1>3. ASSUME q # <<>>
        PROVE  /\ Head(q) = q[1] /\ 1 \in DOMAIN q
               /\ \A i \in DOMAIN Tail(q) : i + 1 \in DOMAIN q /\ Tail(q)[i] = q[i + 1]
    <2>1. /\ Len(q) >= 1 /\ Tail(q) \in Seq(Versions) /\ Len(Tail(q)) = Len(q) - 1
          /\ \A i \in 1 .. Len(Tail(q)) : Tail(q)[i] = q[i + 1]
      BY <1>1, <1>3, HeadTailProperties, EmptySeq
    <2>2. DOMAIN Tail(q) = 1 .. Len(Tail(q))
      BY <2>1, LenProperties
    <2> QED BY <1>1, <1>3, <2>1, <2>2
  <1> QED BY <1>1, <1>2, <1>3

\* A document that arrives is the last one again, or one that never came.
LEMMA ArrivalFlows ==
    ASSUME NEW D \in SUBSET Versions, NEW q \in Seq(Versions), NEW h, NEW r,
           NEW a \in ArrivalState, ~a.wentBack, Flows(D, q, a, h, r),
           NEW x \in Versions, x = a.last \/ x \notin a.seen,
           NEW b \in ArrivalState, b.seen = a.seen \cup {x}, b.last = x
    PROVE  Flows(D, Append(q, x), b, h, r)
  <1> DEFINE p == Append(q, x)
             l == Len(q)
  <1>1. /\ DOMAIN p = 1 .. l + 1 /\ DOMAIN q = 1 .. l /\ l \in Nat
        /\ \A i \in DOMAIN q : i \in DOMAIN p /\ p[i] = q[i]
        /\ p[l + 1] = x
    BY QueueAfter
  <1>2. p \in Seq(Versions) /\ Len(p) = l + 1 /\ p # <<>> /\ (q = <<>> <=> l = 0)
    BY EmptySeq
  <1>3. EqualsTogether(D, q, a) /\ HashBefore(D, q, a, h) /\ FalseHashIsPast(D, q, a, h, r)
    BY DEF Flows
  <1> HIDE DEF p, l
  \* What is equal to x is all that stands before it.
  <1>4. ASSUME NEW i \in DOMAIN q, q[i] = x, NEW j \in DOMAIN q, i <= j
        PROVE  q[j] = x
    <2>1. x = a.last
      BY <1>3, <1>4 DEF EqualsTogether
    <2>2. l \in DOMAIN q /\ q[l] = x /\ j <= l
      BY <1>1, <1>2, <1>3, <1>4, <2>1 DEF EqualsTogether, l
    <2> QED BY <1>3, <1>4, <2>2 DEF EqualsTogether
  <1>5. ASSUME x \in D, NEW j \in DOMAIN q
        PROVE  q[j] = x
    <2>1. x = a.last
      BY <1>3, <1>5 DEF EqualsTogether
    <2>2. l \in DOMAIN q /\ q[l] = x /\ j <= l
      BY <1>1, <1>2, <1>3, <1>5, <2>1 DEF EqualsTogether, l
    <2> QED BY <1>3, <1>5, <2>2 DEF EqualsTogether
  <1>6. EqualsTogether(D, p, b)
    <2>1. D \subseteq b.seen /\ p # <<>> /\ p[Len(p)] = b.last
      BY <1>1, <1>2, <1>3 DEF EqualsTogether
    <2>2. \A i \in DOMAIN p : p[i] \in b.seen
      BY <1>1, <1>3 DEF EqualsTogether
    <2>3. ASSUME NEW i \in DOMAIN p, NEW j \in DOMAIN p, NEW k \in DOMAIN p,
                 i <= j, j <= k, p[i] = p[k]
          PROVE  p[j] = p[k]
      <3>1. CASE k \in DOMAIN q
        <4>1. i \in DOMAIN q /\ j \in DOMAIN q
          BY <1>1, <2>3, <3>1
        <4> QED BY <1>1, <1>3, <2>3, <3>1, <4>1 DEF EqualsTogether
      <3>2. CASE k = l + 1 /\ j # k
        <4>1. i \in DOMAIN q /\ j \in DOMAIN q /\ q[i] = x
          BY <1>1, <2>3, <3>2
        <4> QED BY <1>1, <1>4, <2>3, <3>2, <4>1
      <3> QED BY <1>1, <3>1, <3>2
    <2>4. ASSUME NEW j \in DOMAIN p, NEW k \in DOMAIN p, j <= k, p[k] \in D
          PROVE  p[j] = p[k]
      <3>1. CASE k \in DOMAIN q
        <4>1. j \in DOMAIN q
          BY <1>1, <2>4, <3>1
        <4> QED BY <1>1, <1>3, <2>4, <3>1, <4>1 DEF EqualsTogether
      <3>2. CASE k = l + 1 /\ j # k
        <4>1. j \in DOMAIN q /\ x \in D
          BY <1>1, <2>4, <3>2
        <4> QED BY <1>1, <1>5, <3>2, <4>1
      <3> QED BY <1>1, <3>1, <3>2
    <2> QED BY <2>1, <2>2, <2>3, <2>4 DEF EqualsTogether
  \* A hash of x is of the last that came, and so of all that is in hand.
  <1>7. ASSUME h # None, h = x
        PROVE  (\A j \in DOMAIN q : q[j] = x) /\ D \subseteq {x}
    <2>1. x = a.last
      BY <1>3, <1>7 DEF HashBefore
    <2>2. CASE q = <<>>
      BY <1>1, <1>2, <1>3, <2>1, <2>2 DEF EqualsTogether
    <2>3. CASE q # <<>>
      <3>1. l \in DOMAIN q /\ q[l] = x /\ \A j \in DOMAIN q : j <= l
        BY <1>1, <1>2, <1>3, <2>1, <2>3 DEF EqualsTogether, l
      <3> QED BY <1>3, <1>7, <3>1 DEF HashBefore
    <2> QED BY <2>2, <2>3
  <1>8. HashBefore(D, p, b, h)
    <2> SUFFICES ASSUME h # None
                 PROVE  /\ h \in b.seen
                        /\ \A j, k \in DOMAIN p : j <= k /\ p[k] = h => p[j] = h
                        /\ \A k \in DOMAIN p : p[k] = h => D \subseteq {h}
      BY DEF HashBefore
    <2>1. h \in b.seen
      BY <1>3 DEF HashBefore
    <2>2. ASSUME NEW j \in DOMAIN p, NEW k \in DOMAIN p, j <= k, p[k] = h
          PROVE  p[j] = h /\ D \subseteq {h}
      <3>1. CASE k \in DOMAIN q
        <4>1. j \in DOMAIN q
          BY <1>1, <2>2, <3>1
        <4> QED BY <1>1, <1>3, <2>2, <3>1, <4>1 DEF HashBefore
      <3>2. CASE k = l + 1
        <4>1. h = x
          BY <1>1, <2>2, <3>2
        <4> QED BY <1>1, <1>7, <3>2, <4>1
      <3> QED BY <1>1, <3>1, <3>2
    <2>3. \A k \in DOMAIN p : k <= k
      BY <1>1
    <2> QED BY <2>1, <2>2, <2>3
  <1>9. FalseHashIsPast(D, p, b, h, r)
    <2> SUFFICES ASSUME h # None, r # ChunkSet(h)
                 PROVE  /\ h # x /\ h \notin D
                        /\ \A i \in DOMAIN p : p[i] # h
      BY DEF FalseHashIsPast
    <2>1. h # a.last /\ h \in a.seen /\ h \notin D /\ \A i \in DOMAIN q : q[i] # h
      BY <1>3 DEF FalseHashIsPast, HashBefore
    <2>2. h # x
      BY <2>1
    <2> QED BY <1>1, <2>1, <2>2
  <1> QED BY <1>6, <1>8, <1>9 DEF Flows, p

\* The document at the head of the channel is the one in work.
LEMMA TakingFlows ==
    ASSUME NEW q \in Seq(Versions), q # <<>>, NEW h, NEW r,
           NEW a \in ArrivalState, Flows({}, q, a, h, r)
    PROVE  Flows({Head(q)}, Tail(q), a, h, r)
  <1> DEFINE p == Tail(q)
             d == Head(q)
  <1>1. /\ d = q[1] /\ 1 \in DOMAIN q /\ DOMAIN q = 1 .. Len(q) /\ Len(q) \in Nat
        /\ \A i \in DOMAIN p : i + 1 \in DOMAIN q /\ p[i] = q[i + 1]
    BY QueueAfter, ElementOfSeq
  <1>2. p \in Seq(Versions) /\ Len(p) = Len(q) - 1 /\ DOMAIN p = 1 .. Len(p) /\ (p = <<>> <=> Len(p) = 0)
    BY HeadTailProperties, EmptySeq, LenProperties
  <1> HIDE DEF p, d
  <1>3. SUFFICES ASSUME ~a.wentBack
                 PROVE  EqualsTogether({d}, p, a) /\ HashBefore({d}, p, a, h) /\ FalseHashIsPast({d}, p, a, h, r)
    BY DEF Flows, p, d
  <1>4. EqualsTogether({}, q, a) /\ HashBefore({}, q, a, h) /\ FalseHashIsPast({}, q, a, h, r)
    BY <1>3 DEF Flows
  <1>5. \A i \in DOMAIN p : i \in Nat /\ 1 <= i + 1
    BY <1>2
  <1>6. EqualsTogether({d}, p, a)
    <2>1. /\ d \in a.seen /\ \A i \in DOMAIN p : p[i] \in a.seen
          /\ p = <<>> => d = a.last
          /\ p # <<>> => p[Len(p)] = a.last
      <3>1. p = <<>> => Len(q) = 1
        <4> DEFINE l == Len(q)
        <4>1. l \in Nat /\ Len(p) = l - 1 /\ (p = <<>> => Len(p) = 0)
          BY <1>1, <1>2
        <4> HIDE DEF l
        <4>2. p = <<>> => l = 1
          BY <4>1
        <4> QED BY <4>2 DEF l
      <3>2. p # <<>> => Len(p) \in DOMAIN p /\ Len(p) + 1 = Len(q)
        BY <1>1, <1>2
      <3> QED BY <1>1, <1>4, <3>1, <3>2 DEF EqualsTogether
    <2>2. ASSUME NEW i \in DOMAIN p, NEW j \in DOMAIN p, NEW k \in DOMAIN p,
                 i <= j, j <= k, p[i] = p[k]
          PROVE  p[j] = p[k]
      <3>1. i + 1 <= j + 1 /\ j + 1 <= k + 1
        BY <1>5, <2>2
      <3> QED BY <1>1, <1>4, <2>2, <3>1 DEF EqualsTogether
    <2>3. ASSUME NEW j \in DOMAIN p, NEW k \in DOMAIN p, j <= k, p[k] \in {d}
          PROVE  p[j] = p[k]
      <3>1. 1 <= j + 1 /\ j + 1 <= k + 1
        BY <1>5, <2>3
      <3> QED BY <1>1, <1>4, <2>3, <3>1 DEF EqualsTogether
    <2> QED BY <2>1, <2>2, <2>3 DEF EqualsTogether
  <1>7. HashBefore({d}, p, a, h)
    <2> SUFFICES ASSUME h # None
                 PROVE  /\ h \in a.seen
                        /\ \A j, k \in DOMAIN p : j <= k /\ p[k] = h => p[j] = h
                        /\ \A k \in DOMAIN p : p[k] = h => d = h
      BY DEF HashBefore
    <2>1. h \in a.seen /\ \A j, k \in DOMAIN q : j <= k /\ q[k] = h => q[j] = h
      BY <1>4 DEF HashBefore
    <2>2. \A j, k \in DOMAIN p : j <= k => j + 1 <= k + 1
      BY <1>5
    <2> QED BY <1>1, <1>5, <2>1, <2>2
  <1>8. FalseHashIsPast({d}, p, a, h, r)
    BY <1>1, <1>4 DEF FalseHashIsPast
  <1> QED BY <1>6, <1>7, <1>8

\* How a step moves the documents from stage to stage.
Moves(n) ==
    \/ SinkDoc(n)' \subseteq SinkDoc(n) /\ queue'[n] = queue[n] /\ arrivals' = arrivals
    \/ SinkDoc(n)' = {} /\ queue'[n] = <<>> /\ arrivals' = arrivals
    \/ /\ SinkDoc(n)' = SinkDoc(n)
       /\ \E x \in Versions : queue'[n] = Append(queue[n], x) /\ arrivals' = ArrivalsWith(x)
    \/ /\ SinkDoc(n) = {} /\ queue[n] # <<>> /\ arrivals' = arrivals
       /\ SinkDoc(n)' = {Head(queue[n])} /\ queue'[n] = Tail(queue[n])

LEMMA MoveStep ==
    ASSUME TypeOK, LocalsSound, [Next]_vars, NEW n \in Nodes, Nodes = {n}
    PROVE  Moves(n)
  <1>1. /\ DOMAIN sink = Nodes /\ DOMAIN queue = Nodes
        /\ sink[n] \in SinkState /\ IdleSink.pc = "idle"
    BY DEF TypeOK, SinkState, SinkPC, IdleSink
  <1>2. ASSUME NEW w \in CrawlWorkers, Fetch(n, w) \/ Enter(n, w)
        PROVE  Moves(n)
    BY <1>2 DEF Fetch, Enter, Moves, SinkDoc
  <1>3. ASSUME NEW w \in CrawlWorkers, Select(n, w)
        PROVE  Moves(n)
    <2>1. caller[n][w].doc \in Versions /\ sink' = sink
      BY <1>3 DEF LocalsSound, Select
    <2>2. \/ queue'[n] = queue[n] /\ arrivals' = arrivals
          \/ queue'[n] = Append(queue[n], caller[n][w].doc) /\ arrivals' = ArrivalsWith(caller[n][w].doc)
      BY <1>1, <1>3 DEF Select
    <2> QED BY <2>1, <2>2 DEF Moves, SinkDoc
  <1>4. CASE Take(n)
    <2>1. /\ queue'[n] = Tail(queue[n]) /\ queue[n] # <<>> /\ arrivals' = arrivals /\ sink[n].pc = "idle"
          /\ sink'[n].pc = "lookup" /\ sink'[n].doc = Head(queue[n])
      BY <1>1, <1>4 DEF Take, SinkState
    <2>2. SinkDoc(n) = {} /\ SinkDoc(n)' = {Head(queue[n])}
      BY <2>1 DEF SinkDoc, Busy, Writing
    <2> QED BY <2>1, <2>2 DEF Moves
  <1>5. ASSUME NEW o, Lookup(n, o) \/ Query(n, o) \/ Upsert(n, o) \/ Delete(n, o) \/ RecordHash(n, o)
        PROVE  Moves(n)
    <2>1. UNCHANGED <<queue, arrivals>> /\ sink[n].pc \in Busy
      BY <1>5 DEF Lookup, Query, Upsert, Delete, RecordHash, Busy, Writing
    <2>2. sink'[n].pc = "idle" \/ sink'[n].doc = sink[n].doc
      <3>1. CASE Lookup(n, o) \/ RecordHash(n, o)
        <4>1. [sink[n] EXCEPT !.pc = "query"].doc = sink[n].doc
          BY <1>1 DEF SinkState
        <4>2. sink'[n] = IdleSink \/ sink'[n] = [sink[n] EXCEPT !.pc = "query"]
          BY <1>1, <3>1 DEF Lookup, RecordHash
        <4> QED BY <1>1, <4>1, <4>2
      <3>2. CASE Query(n, o) \/ Upsert(n, o) \/ Delete(n, o)
        <4>1. CASE rows' = rows /\ sink'[n] = sink[n]
          BY <4>1
        <4>2. CASE rows' = rows /\ sink'[n].pc \notin Writing
          <5>1. ASSUME NEW x \in SinkState
                PROVE  Onward(x).pc \in Writing
            BY DEF Onward, SinkState, Writing
          <5>2. sink'[n] = IdleSink \/ sink'[n] \in SinkState
            BY SoundStep DEF Sound
          <5>3. \/ sink'[n] = IdleSink
                \/ sink'[n] = Onward([sink[n] EXCEPT !.stale = rows \ ChunkSet(sink[n].doc)])
                \/ sink'[n] = Onward([sink[n] EXCEPT !.at = sink[n].at + WriteBatchSize])
                \/ \E ids \in SUBSET sink[n].stale :
                      sink'[n] = Onward([sink[n] EXCEPT !.stale = sink[n].stale \ ids])
            BY <1>1, <3>2 DEF Query, Upsert, Delete, Failed
          <5>4. /\ \A x : [sink[n] EXCEPT !.stale = sink[n].stale \ x] \in SinkState
                /\ [sink[n] EXCEPT !.stale = rows \ ChunkSet(sink[n].doc)] \in SinkState
                /\ [sink[n] EXCEPT !.at = sink[n].at + WriteBatchSize] \in SinkState
            <6>1. rows \subseteq Chunks /\ sink[n].at + WriteBatchSize \in Nat
              BY <1>1, IndexingAssumption DEF TypeOK, SinkState, IndexingAssumption
            <6> QED BY <1>1, <6>1 DEF SinkState
          <5> QED BY <1>1, <4>2, <5>1, <5>3, <5>4
        <4> QED BY <4>1, <4>2, RowsStep DEF RowsChange
      <3> QED BY <1>5, <3>1, <3>2
    <2>3. SinkDoc(n)' \subseteq SinkDoc(n)
      BY <2>1, <2>2 DEF SinkDoc, Busy, Writing
    <2> QED BY <2>1, <2>3 DEF Moves
  <1>6. CASE End(n)
    <2>1. UNCHANGED <<queue, arrivals>> /\ sink'[n].pc = "ended"
      BY <1>1, <1>6 DEF End, SinkState
    <2> QED BY <2>1 DEF Moves, SinkDoc, Busy, Writing
  <1>7. CASE Restart(n) \/ Crash(n)
    <2>1. arrivals' = arrivals /\ sink'[n] = IdleSink /\ queue'[n] = <<>>
      BY <1>1, <1>7 DEF Restart, Crash, Gone
    <2> QED BY <1>1, <2>1 DEF Moves, SinkDoc, Busy, Writing
  <1>8. CASE Close(n) \/ Deadline(n) \/ (\E v \in Versions : Change(v)) \/ HashExpires \/ UNCHANGED vars
    <2>1. UNCHANGED <<sink, queue, arrivals>>
      BY <1>8 DEF Close, Deadline, Change, HashExpires, vars
    <2> QED BY <2>1 DEF Moves, SinkDoc
  <1> QED BY <1>2, <1>3, <1>4, <1>5, <1>6, <1>7, <1>8 DEF Next, Submit, Work

\* However the documents move, equal ones stay together, behind the hash.
LEMMA MoveFlows ==
    ASSUME TypeOK, LocalsSound, [Next]_vars, NEW n \in Nodes, Nodes = {n}, NEW h, NEW r,
           Flows(SinkDoc(n), queue[n], arrivals, h, r)
    PROVE  Flows(SinkDoc(n)', queue'[n], arrivals', h, r)
  <1> DEFINE D  == SinkDoc(n)
             q  == queue[n]
             a  == arrivals
             D1 == SinkDoc(n)'
             q1 == queue'[n]
             a1 == arrivals'
  <1>1. /\ D \in SUBSET Versions /\ q \in Seq(Versions) /\ a \in ArrivalState
        /\ Flows(D, q, a, h, r)
    BY DEF SinkDoc, TypeOK, LocalsSound, Sound, ArrivalState
  <1>2. \/ D1 \subseteq D /\ q1 = q /\ a1 = a
        \/ D1 = {} /\ q1 = <<>> /\ a1 = a
        \/ D1 = D /\ \E x \in Versions : q1 = Append(q, x) /\ a1 = ArrivalsWith(x)
        \/ D = {} /\ q # <<>> /\ a1 = a /\ D1 = {Head(q)} /\ q1 = Tail(q)
    BY MoveStep DEF Moves
  <1>3. SUFFICES Flows(D1, q1, a1, h, r)
    OBVIOUS
  <1>4. \A x \in Versions :
           ArrivalsWith(x) = IF a.wentBack \/ (x # a.last /\ x \in a.seen)
                             THEN [seen |-> {}, last |-> None, wentBack |-> TRUE]
                             ELSE [seen |-> a.seen \cup {x}, last |-> x, wentBack |-> FALSE]
    BY DEF ArrivalsWith
  <1> HIDE DEF D, q, a, D1, q1, a1
  <1>5. CASE D1 \subseteq D /\ q1 = q /\ a1 = a
    BY <1>1, <1>5 DEF Flows, EqualsTogether, HashBefore, FalseHashIsPast
  <1>6. CASE D1 = {} /\ q1 = <<>> /\ a1 = a
    <2>1. DOMAIN q1 = {} /\ D1 \subseteq D
      BY <1>6
    <2> QED BY <1>1, <1>6, <2>1 DEF Flows, EqualsTogether, HashBefore, FalseHashIsPast
  <1>7. ASSUME D1 = D, NEW x \in Versions, q1 = Append(q, x), a1 = ArrivalsWith(x)
        PROVE  Flows(D1, q1, a1, h, r)
    <2>1. CASE a.wentBack \/ (x # a.last /\ x \in a.seen)
      <3>1. a1.wentBack
        BY <1>4, <1>7, <2>1
      <3> QED BY <3>1 DEF Flows
    <2>2. CASE ~(a.wentBack \/ (x # a.last /\ x \in a.seen))
      <3> DEFINE b == [seen |-> a.seen \cup {x}, last |-> x, wentBack |-> FALSE]
      <3>1. a1 = b
        BY <1>4, <1>7, <2>2
      <3>2. b \in ArrivalState /\ b.seen = a.seen \cup {x} /\ b.last = x
        BY <1>1 DEF ArrivalState
      <3> HIDE DEF b
      <3>3. ~a.wentBack /\ (x = a.last \/ x \notin a.seen)
        BY <2>2
      <3>4. Flows(D, Append(q, x), b, h, r)
        BY <1>1, <3>2, <3>3, ArrivalFlows
      <3> QED BY <1>7, <3>1, <3>4
    <2> QED BY <2>1, <2>2
  <1>8. CASE D = {} /\ q # <<>> /\ a1 = a /\ D1 = {Head(q)} /\ q1 = Tail(q)
    <2>1. Flows({}, q, a, h, r)
      BY <1>1, <1>8
    <2>2. Flows({Head(q)}, Tail(q), a, h, r)
      BY <1>1, <1>8, <2>1, TakingFlows
    <2> QED BY <1>8, <2>2
  <1> QED BY <1>2, <1>5, <1>6, <1>7, <1>8

\* What a step does to the hash and to the rows leaves only hashes that are true, or
\* of versions that are past: what it does, it does for the document in work.
LEMMA HashFlows ==
    ASSUME TypeOK, LocalsSound, [Next]_vars, NEW n \in Nodes, Nodes = {n}, RowsSound(n),
           Flows(SinkDoc(n), queue[n], arrivals, hash, rows)
    PROVE  Flows(SinkDoc(n), queue[n], arrivals, hash', rows')
  <1> DEFINE D == SinkDoc(n)
             q == queue[n]
             a == arrivals
             s == sink[n]
  <1>1. SUFFICES ASSUME ~a.wentBack
                 PROVE  Flows(D, q, a, hash', rows')
    BY DEF Flows
  <1>2. EqualsTogether(D, q, a) /\ HashBefore(D, q, a, hash) /\ FalseHashIsPast(D, q, a, hash, rows)
    BY <1>1 DEF Flows
  <1>3. s.pc \in Busy => D = {s.doc}
    BY DEF SinkDoc
  <1>4. q \in Seq(Versions) /\ \A k \in DOMAIN q : k \in Nat /\ k <= Len(q) /\ Len(q) \in DOMAIN q
    <2>1. q \in Seq(Versions)
      BY DEF TypeOK
    <2> HIDE DEF q
    <2> QED BY <2>1, LenProperties
  <1> HIDE DEF D, q, a
  <1>5. CASE \E o \in Outcomes : RecordHash(n, o) /\ hash' = s.doc
    <2>1. s.pc = "record" /\ rows' = rows /\ D = {s.doc}
      BY <1>3, <1>5 DEF RecordHash, Busy, Writing
    <2>2. rows = ChunkSet(s.doc)
      BY <2>1, WholeWhenWritten
    <2>3. HashBefore(D, q, a, s.doc)
      BY <1>2, <2>1 DEF EqualsTogether, HashBefore
    <2>4. FalseHashIsPast(D, q, a, s.doc, rows)
      BY <2>2 DEF FalseHashIsPast
    <2> QED BY <1>2, <1>5, <2>1, <2>3, <2>4 DEF Flows
  <1>6. CASE hash' = None
    BY <1>2, <1>6 DEF Flows, HashBefore, FalseHashIsPast
  <1>7. CASE hash' = hash
    <2>1. CASE rows' = rows
      BY <1>2, <1>7, <2>1 DEF Flows
    <2>2. CASE rows' # rows
      <3>1. s.pc \in {"upsert", "delete"}
        BY <2>2, RowsStep DEF RowsChange
      <3>2. s.pc \in Busy /\ D = {s.doc}
        BY <1>3, <3>1 DEF Busy, Writing
      <3>3. CASE hash = s.doc
        <4>1. rows = ChunkSet(s.doc) \/ hash = None
          BY <1>2, <3>2, <3>3 DEF FalseHashIsPast
        <4>2. hash # None
          BY <3>2, <3>3, IndexingAssumption DEF LocalsSound, Sound, IndexingAssumption
        <4>3. Batch(s) \subseteq ChunkSet(s.doc)
          BY DEF Batch, ChunkSet
        <4>4. s.stale \cap ChunkSet(s.doc) = {}
          BY <3>1 DEF LocalsSound, Sound, Writing
        <4>5. \/ rows' = rows \cup Batch(s)
              \/ \E ids \in SUBSET s.stale : rows' = rows \ ids
          BY <2>2, RowsStep DEF RowsChange
        <4> QED BY <2>2, <4>1, <4>2, <4>3, <4>4, <4>5
      <3>4. CASE hash # s.doc
        <4>1. hash # None => hash \notin D /\ \A i \in DOMAIN q : q[i] # hash
          BY <1>2, <3>2, <3>4 DEF HashBefore
        <4>2. hash # None => hash # a.last
          BY <1>2, <1>4, <3>2, <3>4, <4>1 DEF EqualsTogether
        <4>3. FalseHashIsPast(D, q, a, hash, rows')
          BY <4>1, <4>2 DEF FalseHashIsPast
        <4> QED BY <1>2, <1>7, <4>3 DEF Flows
      <3> QED BY <3>3, <3>4
    <2> QED BY <2>1, <2>2
  <1>8. hash' \in {hash, None} \/ \E o \in Outcomes : RecordHash(n, o) /\ hash' = s.doc
    <2>1. ASSUME NEW o \in Outcomes, RecordHash(n, o)
          PROVE  hash' = hash \/ hash' = s.doc
      BY <2>1 DEF RecordHash
    <2>2. ASSUME \A o \in Outcomes : ~RecordHash(n, o)
          PROVE  hash' \in {hash, None}
      <3>1. CASE HashExpires
        BY <3>1 DEF HashExpires
      <3>2. CASE ~HashExpires
        <4>1. hash' = hash
          BY <2>2, <3>2, ZenonT(60) DEF Next, vars, Submit, Fetch, Enter, Select, Work, Take, End, Lookup, Query, Upsert,
                    Delete, Close, Deadline, Restart, Crash, Change
        <4> QED BY <4>1
      <3> QED BY <3>1, <3>2
    <2> QED BY <2>1, <2>2
  <1> QED BY <1>5, <1>6, <1>7, <1>8

FlowInv(n) == OneNodeInv(n) /\ Flows(SinkDoc(n), queue[n], arrivals, hash, rows)

LEMMA FlowStep ==
    ASSUME NEW n \in Nodes, Nodes = {n}
    PROVE  /\ Init => FlowInv(n)
           /\ FlowInv(n) /\ [Next]_vars => FlowInv(n)'
  <1>1. ASSUME Init
        PROVE  FlowInv(n)
    <2>1. OneNodeInv(n)
      BY <1>1, OneNodeStep
    <2>2. SinkDoc(n) = {} /\ queue[n] = <<>> /\ hash = None
      BY <1>1 DEF Init, SinkDoc, IdleSink, Busy, Writing
    <2>3. Flows({}, <<>>, arrivals, None, rows)
      BY DEF Flows, EqualsTogether, HashBefore, FalseHashIsPast
    <2> QED BY <2>1, <2>2, <2>3 DEF FlowInv
  <1>2. ASSUME FlowInv(n), [Next]_vars
        PROVE  FlowInv(n)'
    <2>1. /\ OneNodeInv(n) /\ Flows(SinkDoc(n), queue[n], arrivals, hash, rows)
          /\ TypeOK /\ LocalsSound /\ RowsSound(n)
      BY <1>2 DEF FlowInv, OneNodeInv, NodesInv
    <2>2. OneNodeInv(n)'
      BY <1>2, <2>1, OneNodeStep
    <2>3. Flows(SinkDoc(n), queue[n], arrivals, hash', rows')
      BY <1>2, <2>1, HashFlows
    <2>4. Flows(SinkDoc(n)', queue'[n], arrivals', hash', rows')
      BY <1>2, <2>1, <2>3, MoveFlows
    <2>5. Flows(SinkDoc(n), queue[n], arrivals, hash, rows)'
      BY <2>4
    <2> QED BY <2>2, <2>5 DEF FlowInv
  <1> QED BY <1>1, <1>2

\* With one node, any number of crawl workers, and any page: until a version comes to
\* the sink again after another one, a document that is skipped as unchanged is in the
\* index with exactly its chunks, whatever failed half way since its hash was recorded
\* (sink_chunking.go:43-49, 62-66).  After that it need not be, whether the page goes
\* back (the run indexing_stale_hash) or a worker submits late what it fetched before.
THEOREM SkipsOnlyWhatIsWhole ==
    ASSUME NEW n \in Nodes, Nodes = {n}
    PROVE  Spec => []SkippedInOrderIsWhole
  <1>1. /\ Init => FlowInv(n)
        /\ FlowInv(n) /\ [Next]_vars => FlowInv(n)'
    BY FlowStep
  <1>2. FlowInv(n) => SkippedInOrderIsWhole
    <2>1. SUFFICES ASSUME FlowInv(n), ~arrivals.wentBack, sink[n].pc = "lookup", hash = sink[n].doc
                   PROVE  rows = ChunkSet(sink[n].doc)
      BY DEF SkippedInOrderIsWhole, SkippedIsWhole, Skips
    <2>2. sink[n].doc \in SinkDoc(n) /\ sink[n].doc \in Versions
      BY <2>1 DEF FlowInv, OneNodeInv, NodesInv, LocalsSound, Sound, SinkDoc, Busy
    <2>3. hash # None
      BY <2>1, <2>2, IndexingAssumption DEF IndexingAssumption
    <2> QED BY <2>1, <2>2, <2>3 DEF FlowInv, Flows, FalseHashIsPast
  <1> QED BY <1>1, <1>2, PTL DEF Spec

-----------------------------------------------------------------------------
(* The vectors of the rows: the embeddings client on any page, in batches   *)
(* of any size and with any answers of the server.                          *)

Probe == <<<<"probe", 1, 5>>>>
Vectors(T) == [index : Int, dim : ServerDims \ {0}, of : T]

\* What decode lets through is one vector for each text of the batch, in order.
LEMMA DecodedIsInOrder ==
    ASSUME NEW T, NEW batch \in Seq(T), NEW data \in Replies(batch), NEW vs \in decode(data, batch)
    PROVE  /\ vs \in Seq(Vectors(T)) /\ Len(vs) = Len(batch)
           /\ \A p \in 1 .. Len(batch) : vs[p].of = batch[p]
  <1> DEFINE IndexOf(p) == CHOOSE i \in DOMAIN data : data[i].index = p - 1
  <1>1. /\ {data[i].index : i \in DOMAIN data} = 0 .. (Len(batch) - 1)
        /\ \A i \in DOMAIN data : data[i].dim # 0
        /\ vs = [p \in 1 .. Len(batch) |-> data[IndexOf(p)]]
    BY DEF decode
  <1>2. Len(batch) \in Nat /\ \A i \in 1 .. Len(batch) : batch[i] \in T
    BY LenProperties
  <1>3. \A i \in DOMAIN data : \E x \in -1 .. Len(batch), d \in ServerDims : data[i] = Item(batch, x, d)
    BY DEF Replies
  <1>4. ASSUME NEW p \in 1 .. Len(batch)
        PROVE  vs[p] \in Vectors(T) /\ vs[p].of = batch[p]
    <2>1. p - 1 \in 0 .. (Len(batch) - 1)
      BY <1>2
    <2>2. PICK i \in DOMAIN data : data[i].index = p - 1
      BY <1>1, <2>1
    <2>3. IndexOf(p) \in DOMAIN data /\ data[IndexOf(p)].index = p - 1
      BY <2>2
    <2> HIDE DEF IndexOf
    <2>4. PICK x \in -1 .. Len(batch), d \in ServerDims : data[IndexOf(p)] = Item(batch, x, d)
      BY <1>3, <2>3
    <2>5. x = p - 1 /\ d # 0
      BY <1>1, <2>3, <2>4 DEF Item
    <2>6. data[IndexOf(p)] = [index |-> p - 1, dim |-> d, of |-> batch[p]]
      BY <1>2, <2>1, <2>4, <2>5 DEF Item
    <2> QED BY <1>1, <1>2, <2>1, <2>5, <2>6 DEF Vectors
  <1> HIDE DEF IndexOf
  <1>5. vs \in [1 .. Len(batch) -> Vectors(T)]
    BY <1>1, <1>4
  <1> QED BY <1>2, <1>4, <1>5

\* The texts of the next batch are those after the vectors there are.
LEMMA NextBatch ==
    ASSUME ClientIsValid, NEW T, texts \in Seq(T), Len(vectors) \in Nat, Len(vectors) <= Len(texts)
    PROVE  /\ TextsNow \in Seq(T) /\ Len(vectors) + Len(TextsNow) <= Len(texts)
           /\ \A i \in 1 .. Len(TextsNow) : TextsNow[i] = texts[Len(vectors) + i]
           /\ TextsNow = <<>> => Len(vectors) = Len(texts)
  <1> DEFINE n == IF Len(texts) < Len(vectors) + BatchSize THEN Len(texts) ELSE Len(vectors) + BatchSize
  <1>1. Len(texts) \in Nat /\ BatchSize \in Nat \ {0}
    BY LenProperties DEF ClientIsValid
  <1>2. n \in Nat /\ Len(vectors) <= n /\ n <= Len(texts) /\ (n = Len(vectors) => n = Len(texts))
    BY <1>1
  <1>3. TextsNow = SubSeq(texts, Len(vectors) + 1, n)
    BY DEF TextsNow
  <1> HIDE DEF n
  <1>4. /\ TextsNow \in Seq(T) /\ Len(TextsNow) = n - Len(vectors)
        /\ \A i \in 1 .. Len(TextsNow) : TextsNow[i] = texts[Len(vectors) + i]
    BY <1>1, <1>2, <1>3
  <1>5. TextsNow = <<>> => Len(TextsNow) = 0
    OBVIOUS
  <1> QED BY <1>1, <1>2, <1>4, <1>5

\* Of the page with content c and settings s, T its chunks: the vectors so far
\* are those of the texts they stand for.
EmbedInv(c, s, T) ==
    /\ VectorsMatchTexts
    /\ chunks = Chunk(c, s)
    /\ texts \in Seq(T) /\ vectors \in Seq(Vectors(T))
    /\ \A i \in DOMAIN vectors : vectors[i].of = texts[i]
    /\ call = "probe" => Len(texts) = 1
    /\ turn = "sleep" => attempt < MaxRetries

\* A client starts with the probe, and no vectors.
LEMMA EmbedStarts ==
    ASSUME NEW c \in Contents, NEW s \in ValidSettings, NEW T, Probe \in T, Chunk(c, s) \in Seq(T),
           EmbedsStart(c, s)
    PROVE  EmbedInv(c, s, T)
  <1>1. texts = <<Probe>> /\ vectors = <<>> /\ Len(texts) = 1 /\ Len(vectors) = 0
    BY DEF EmbedsStart, Probe
  <1>2. texts \in Seq(T) /\ vectors \in Seq(Vectors(T))
    BY <1>1
  <1> QED BY <1>1, <1>2, ClientIsValid DEF EmbedsStart, EmbedInv, VectorsMatchTexts, EmbedTypeOK, ClientIsValid

\* Whatever comes of a request, the vectors stay those of the first texts.
LEMMA EmbedGoesOn ==
    ASSUME NEW c \in Contents, NEW s \in ValidSettings, NEW T, Probe \in T, Chunk(c, s) \in Seq(T),
           EmbedInv(c, s, T), [EmbedStep]_embedVars
    PROVE  EmbedInv(c, s, T)'
  <1> USE ClientIsValid
  <1>1. /\ Len(texts) \in Nat /\ DOMAIN texts = 1 .. Len(texts)
        /\ Len(vectors) \in Nat /\ DOMAIN vectors = 1 .. Len(vectors) /\ Len(vectors) <= Len(texts)
        /\ \A i \in DOMAIN vectors : vectors[i] \in Vectors(T)
    BY DEF EmbedInv, VectorsMatchTexts, EmbedTypeOK
  <1>2. /\ TextsNow \in Seq(T) /\ Len(vectors) + Len(TextsNow) <= Len(texts)
        /\ \A i \in 1 .. Len(TextsNow) : TextsNow[i] = texts[Len(vectors) + i]
        /\ TextsNow = <<>> => Len(vectors) = Len(texts)
    BY <1>1, NextBatch DEF EmbedInv
  <1>3. MaxRetries \in Nat /\ attempt \in 0 .. MaxRetries
    BY DEF EmbedInv, VectorsMatchTexts, EmbedTypeOK, ClientIsValid
  <1>4. CASE Answered
    <2>1. PICK data \in Replies(TextsNow) :
            \/ turn' = "failed" /\ UNCHANGED <<vectors, attempt>>
            \/ /\ \E vs \in decode(data, TextsNow) : vectors' = vectors \o vs
               /\ attempt' = 0 /\ turn' = turn
      BY <1>4 DEF Answered
    <2>2. turn = "request" /\ UNCHANGED <<content, settings, chunks, call, texts>>
      BY <1>4 DEF Answered
    <2>3. CASE turn' = "failed" /\ UNCHANGED <<vectors, attempt>>
      BY <2>2, <2>3 DEF EmbedInv, VectorsMatchTexts, EmbedTypeOK
    <2>4. ASSUME NEW vs \in decode(data, TextsNow), vectors' = vectors \o vs, attempt' = 0, turn' = turn
          PROVE  EmbedInv(c, s, T)'
      <3>1. /\ vs \in Seq(Vectors(T)) /\ Len(vs) = Len(TextsNow)
            /\ \A p \in 1 .. Len(TextsNow) : vs[p].of = TextsNow[p]
        BY <1>2, DecodedIsInOrder
      <3>2. /\ vectors' \in Seq(Vectors(T)) /\ Len(vectors') = Len(vectors) + Len(vs)
            /\ \A i \in 1 .. Len(vectors') : vectors'[i] = IF i <= Len(vectors) THEN vectors[i] ELSE vs[i - Len(vectors)]
        <4>1. vectors \in Seq(Vectors(T))
          BY DEF EmbedInv
        <4>2. Len(vectors \o vs) = Len(vectors) + Len(vs) /\ vectors \o vs \in Seq(Vectors(T))
          BY <3>1, <4>1, ConcatProperties
        <4>3. \A i \in 1 .. (Len(vectors) + Len(vs)) :
                 (vectors \o vs)[i] = IF i <= Len(vectors) THEN vectors[i] ELSE vs[i - Len(vectors)]
          BY <3>1, <4>1, ConcatProperties
        <4> QED BY <2>4, <4>2, <4>3
      <3>3. \A i \in DOMAIN vectors' : vectors'[i].of = texts[i]
        <4>3. Len(TextsNow) \in Nat /\ Len(vectors') = Len(vectors) + Len(TextsNow)
          BY <1>2, <3>1, <3>2, LenProperties
        <4> SUFFICES ASSUME NEW i \in 1 .. Len(vectors') PROVE vectors'[i].of = texts[i]
          BY <3>2
        <4>1. CASE i <= Len(vectors)
          BY <1>1, <3>2, <4>1 DEF EmbedInv
        <4>2. CASE ~(i <= Len(vectors))
          <5>1. i - Len(vectors) \in 1 .. Len(TextsNow) /\ Len(vectors) + (i - Len(vectors)) = i
            BY <1>1, <4>2, <4>3
          <5> QED BY <1>2, <3>1, <3>2, <4>2, <5>1
        <4> QED BY <4>1, <4>2
      <3>4. Len(vectors') <= Len(texts)
        BY <1>2, <3>1, <3>2
      <3> QED BY <1>3, <2>2, <2>4, <3>2, <3>3, <3>4 DEF EmbedInv, VectorsMatchTexts, EmbedTypeOK
    <2> QED BY <2>1, <2>3, <2>4
  <1>5. CASE RequestFails \/ Slept
    BY <1>3, <1>5 DEF RequestFails, Slept, EmbedInv, VectorsMatchTexts, EmbedTypeOK
  <1>6. CASE EmbedReturns
    <2>1. /\ UNCHANGED <<content, settings, chunks, call, texts, vectors, attempt>>
          /\ TextsNow = <<>> /\ turn' \in {"failed", "content", "done"}
          /\ turn' # "failed" => consistentDimensions(vectors)
          /\ turn' = "content" => call = "probe" /\ Dimensions \in {0, vectors[1].dim}
      BY <1>6 DEF EmbedReturns
    <2>2. Len(vectors) = Len(texts)
      BY <1>2, <2>1
    <2>3. turn' = "done" => \A i \in DOMAIN texts : vectors[i].of = texts[i] /\ vectors[i].dim = vectors[1].dim
      BY <1>1, <2>1, <2>2 DEF EmbedInv, consistentDimensions
    <2>4. turn' = "content" => vectors[1].dim \in (IF Dimensions = 0 THEN ServerDims \ {0} ELSE {Dimensions})
      BY <1>1, <2>1, <2>2 DEF EmbedInv, Vectors
    <2> QED BY <2>1, <2>2, <2>3, <2>4 DEF EmbedInv, VectorsMatchTexts, EmbedTypeOK
  <1>7. CASE EmbedChunks
    <2>1. /\ call' = "chunks" /\ texts' = chunks /\ vectors' = <<>> /\ attempt' = 0
          /\ turn' \in {"request", "unembedded"} /\ UNCHANGED <<content, settings, chunks>>
      BY <1>7 DEF EmbedChunks
    <2>2. texts' \in Seq(T) /\ Len(texts') \in Nat /\ vectors' \in Seq(Vectors(T)) /\ Len(vectors') = 0
      BY <2>1 DEF EmbedInv
    <2> QED BY <1>3, <2>1, <2>2 DEF EmbedInv, VectorsMatchTexts, EmbedTypeOK
  <1>8. CASE UNCHANGED embedVars
    BY <1>8 DEF embedVars, EmbedInv, VectorsMatchTexts, EmbedTypeOK
  <1> QED BY <1>4, <1>5, <1>6, <1>7, <1>8 DEF EmbedStep

\* Whatever the server answers, in whatever order, and however often it is asked
\* again: a page that is embedded has for each of its chunks the vector of that
\* chunk, all of one dimension (openai.go:104-123, 194-231).  That the chunker
\* returns a sequence is a hypothesis, as it is a fold over the page's units.
THEOREM EmbedsEachText ==
    ASSUME NEW c \in Contents, NEW s \in ValidSettings, NEW T, Chunk(c, s) \in Seq(T)
    PROVE  EmbedsStart(c, s) /\ [][EmbedStep]_embedVars => []VectorsMatchTexts
  <1> DEFINE U == T \cup {Probe}
             Inv == EmbedInv(c, s, U)
  <1>1. Chunk(c, s) \in Seq(U) /\ Probe \in U
    <2> DEFINE x == Chunk(c, s)
    <2>1. x \in Seq(T)
      OBVIOUS
    <2> HIDE DEF x
    <2>2. x \in Seq(T \cup {Probe})
      BY <2>1
    <2> QED BY <2>2 DEF x
  <1> HIDE DEF U
  <1>2. EmbedsStart(c, s) => Inv
    BY <1>1, EmbedStarts
  <1>3. Inv /\ [EmbedStep]_embedVars => Inv'
    BY <1>1, EmbedGoesOn
  <1>4. Inv => VectorsMatchTexts
    BY DEF EmbedInv
  <1> HIDE DEF Inv
  <1> QED BY <1>2, <1>3, <1>4, PTL

-----------------------------------------------------------------------------
(* What a search makes of the lists it is given.                            *)

\* A set of naturals that is not empty has a least element.
LEMMA LeastExists ==
    ASSUME NEW S \in SUBSET Nat, NEW n \in S
    PROVE  \E m \in S : \A k \in S : m <= k
  <1> DEFINE R == OpToRel(<, Nat)
  <1>1. IsWellFoundedOn(R, Nat)
    BY NatLessThanWellFounded
  <1> HIDE DEF R
  <1>2. PICK m \in S : \A k \in S : ~(<<k, m>> \in R)
    BY <1>1, WFMin
  <1>3. \A k \in S : ~(k < m)
    BY <1>2 DEF R, OpToRel
  <1> QED BY <1>3

IsOrder(S, before) ==
    /\ \A s \in S : <<s, s>> \notin before
    /\ \A s, t \in S : s # t => <<s, t>> \in before \/ <<t, s>> \in before
    /\ \A r, s, t \in S : <<r, s>> \in before /\ <<s, t>> \in before => <<r, t>> \in before

\* Whatever the order, InOrder has each element of the set once, one before
\* another as the order says.
LEMMA InOrderSorts ==
    ASSUME NEW S, IsFiniteSet(S), NEW before, IsOrder(S, before)
    PROVE  /\ Cardinality(S) \in Nat
           /\ InOrder(S, before) \in [1..Cardinality(S) -> S]
           /\ \A s \in S : \E i \in 1..Cardinality(S) : InOrder(S, before)[i] = s
           /\ \A i, j \in 1..Cardinality(S) :
                i < j => <<InOrder(S, before)[i], InOrder(S, before)[j]>> \in before
  <1> DEFINE n == Cardinality(S)
             Below(s) == {t \in S : <<t, s>> \in before}
             c == [s \in S |-> Cardinality(Below(s))]
             all == InOrder(S, before)
  <1>1. n \in Nat
    BY FS_CardinalityType
  <1>2. /\ \A s \in S : Below(s) \in SUBSET (S \ {s}) /\ c[s] = Cardinality(Below(s))
        /\ \A s, t \in S : <<s, t>> \in before => Below(s) \in SUBSET Below(t) /\ s \in Below(t)
    BY DEF IsOrder
  <1>3. /\ all = [i \in 1..n |-> CHOOSE s \in S : Cardinality(Below(s)) = i - 1]
        /\ c \in [S -> {Cardinality(Below(s)) : s \in S}]
    BY DEF InOrder
  <1> HIDE DEF n, Below, c, all
  <1>4. \A s \in S : IsFiniteSet(Below(s)) /\ c[s] \in 0..(n - 1)
    <2> SUFFICES ASSUME NEW s \in S PROVE IsFiniteSet(Below(s)) /\ c[s] \in 0..(n - 1)
      OBVIOUS
    <2>1. IsFiniteSet(S \ {s}) /\ Cardinality(S \ {s}) = n - 1
      BY FS_RemoveElement DEF n
    <2>2. IsFiniteSet(Below(s)) /\ Cardinality(Below(s)) <= n - 1
      BY <1>2, <2>1, FS_Subset
    <2>3. Cardinality(Below(s)) \in Nat
      BY <2>2, FS_CardinalityType
    <2> QED BY <1>1, <1>2, <2>2, <2>3
  <1>5. \A s, t \in S : <<s, t>> \in before => c[s] < c[t]
    <2> SUFFICES ASSUME NEW s \in S, NEW t \in S, <<s, t>> \in before PROVE c[s] < c[t]
      OBVIOUS
    <2>1. Below(s) \in SUBSET Below(t) /\ Below(s) # Below(t)
      BY <1>2
    <2>2. Cardinality(Below(s)) <= Cardinality(Below(t)) /\ Cardinality(Below(t)) # Cardinality(Below(s))
      BY <1>4, <2>1, FS_Subset
    <2> QED BY <1>1, <1>2, <1>4, <2>2
  <1>6. \A s, t \in S : c[s] = c[t] => s = t
    <2> SUFFICES ASSUME NEW s \in S, NEW t \in S, c[s] = c[t], s # t PROVE FALSE
      OBVIOUS
    <2>1. c[s] < c[t] \/ c[t] < c[s]
      BY <1>5 DEF IsOrder
    <2>2. c[s] \in Int /\ c[t] \in Int
      BY <1>1, <1>4
    <2> QED BY <2>1, <2>2
  <1>7. \A k \in 0..(n - 1) : \E s \in S : c[s] = k
    <2>1. c \in [S -> 0..(n - 1)]
      BY <1>3, <1>4
    <2>2. \A s, t \in S : c[s] = c[t] => s = t
      BY <1>6
    <2>3. c \in Injection(S, 0..(n - 1))
      BY <2>1, <2>2 DEF Injection, IsInjective
    <2>4. IsFiniteSet(0..(n - 1)) /\ Cardinality(0..(n - 1)) = n
      BY <1>1, FS_Interval
    <2>5. c \in Surjection(S, 0..(n - 1))
      BY <2>3, <2>4, FS_Injection DEF n
    <2> QED BY <2>5 DEF Surjection
  <1>8. \A i \in 1..n : all[i] \in S /\ c[all[i]] = i - 1
    <2> SUFFICES ASSUME NEW i \in 1..n PROVE all[i] \in S /\ c[all[i]] = i - 1
      OBVIOUS
    <2>1. i - 1 \in 0..(n - 1)
      BY <1>1
    <2>2. \E s \in S : Cardinality(Below(s)) = i - 1
      BY <1>2, <1>7, <2>1
    <2>3. all[i] \in S /\ Cardinality(Below(all[i])) = i - 1
      BY <1>3, <2>2
    <2> QED BY <1>2, <2>3
  <1>9. all \in [1..n -> S]
    BY <1>3, <1>8
  <1>10. \A s \in S : \E i \in 1..n : all[i] = s
    <2> SUFFICES ASSUME NEW s \in S PROVE \E i \in 1..n : all[i] = s
      OBVIOUS
    <2>1. c[s] + 1 \in 1..n /\ c[s] \in Int
      BY <1>1, <1>4
    <2>2. c[all[c[s] + 1]] = c[s] /\ all[c[s] + 1] \in S
      BY <1>8, <2>1
    <2>3. all[c[s] + 1] = s
      BY <1>6, <2>2
    <2> QED BY <2>1, <2>3
  <1>11. \A i, j \in 1..n : i < j => <<all[i], all[j]>> \in before
    <2> SUFFICES ASSUME NEW i \in 1..n, NEW j \in 1..n, i < j PROVE <<all[i], all[j]>> \in before
      OBVIOUS
    <2>1. c[all[i]] < c[all[j]] /\ ~(c[all[j]] < c[all[i]]) /\ all[i] \in S /\ all[j] \in S
      BY <1>1, <1>8
    <2>2. <<all[j], all[i]>> \notin before /\ all[i] # all[j]
      BY <1>5, <2>1
    <2> QED BY <2>1, <2>2 DEF IsOrder
  <1> QED BY <1>1, <1>9, <1>10, <1>11 DEF n, all

-----------------------------------------------------------------------------
\* A page that a list has is first in it somewhere.
LEMMA FirstChunk ==
    ASSUME NEW list, IsRanked(list), NEW u, Has(list, u)
    PROVE  /\ FirstOf(list, u) \in DOMAIN list
           /\ list[FirstOf(list, u)].url = u
           /\ \A j \in DOMAIN list : list[j].url = u => FirstOf(list, u) <= j
  <1> DEFINE T == {i \in DOMAIN list : list[i].url = u}
  <1>1. T \in SUBSET Nat /\ DOMAIN list = 1..Len(list) /\ Len(list) \in Nat
    BY DEF IsRanked
  <1>2. PICK n \in T : TRUE
    BY DEF Has
  <1>3. PICK m \in T : \A k \in T : m <= k
    BY <1>1, <1>2, LeastExists
  <1>4. m \in DOMAIN list /\ list[m].url = u /\ \A j \in 1..(m - 1) : list[j].url # u
    BY <1>1, <1>3
  <1> DEFINE f == FirstOf(list, u)
  <1>5. f \in DOMAIN list /\ list[f].url = u /\ \A j \in 1..(f - 1) : list[j].url # u
    BY <1>4 DEF FirstOf
  <1> HIDE DEF f
  <1>6. \A j \in DOMAIN list : list[j].url = u => f <= j
    BY <1>1, <1>5
  <1> QED BY <1>5, <1>6 DEF f

\* pages has the first chunk of each address of a list, ranked as it is placed
\* among the addresses.
LEMMA PagesOfList ==
    ASSUME NEW list, IsRanked(list)
    PROVE  /\ \A u : Has(list, u) =>
                \E p : /\ In(pages(list), u) = {p} /\ p.hit = list[FirstOf(list, u)]
                      /\ p.rank = Place(list, u) /\ p.rank \in Nat \ {0}
           /\ \A u : ~Has(list, u) => In(pages(list), u) = {}
           /\ IsFiniteSet(ToSet(pages(list)))
           /\ {p.hit.url : p \in ToSet(pages(list))} = {h.url : h \in ToSet(list)}
           /\ \A u, v : Has(list, u) /\ Has(list, v) /\ u # v => Place(list, u) # Place(list, v)
           /\ \A u, v : Has(list, u) /\ Has(list, v) /\ Place(list, u) < Place(list, v) =>
                list[FirstOf(list, u)].score >= list[FirstOf(list, v)].score
  <1> DEFINE firsts == {i \in DOMAIN list : \A j \in 1..(i - 1) : list[j].url # list[i].url}
             before == {p \in firsts \X firsts : p[1] < p[2]}
             best == InOrder(firsts, before)
             n == Cardinality(firsts)
             P == pages(list)
             F(u) == FirstOf(list, u)
  <1>1. /\ Len(list) \in Nat /\ DOMAIN list = 1..Len(list)
        /\ \A i \in DOMAIN list : list[i].score \in Int
        /\ \A i, j \in DOMAIN list : i < j => list[i].score >= list[j].score
    BY DEF IsRanked
  <1>2. IsFiniteSet(firsts)
    <2>1. IsFiniteSet(DOMAIN list)
      BY <1>1, FS_Interval
    <2> QED BY <2>1, FS_Subset
  <1>3. \A i, j : <<i, j>> \in before <=> i \in firsts /\ j \in firsts /\ i < j
    OBVIOUS
  <1>4. firsts \in SUBSET Nat /\ firsts \in SUBSET (DOMAIN list)
    BY <1>1
  <1>5. P = [r \in DOMAIN best |-> [hit |-> list[best[r]], rank |-> r]]
    BY DEF pages, Least
  <1>6. \A u : Has(list, u) => F(u) \in DOMAIN list /\ list[F(u)].url = u /\ \A j \in DOMAIN list : list[j].url = u => F(u) <= j
    BY FirstChunk
  <1>7. \A i \in DOMAIN list : Has(list, list[i].url)
    BY DEF Has
  <1>8. \A u : Has(list, u) => F(u) \in firsts
    <2> SUFFICES ASSUME NEW u, Has(list, u) PROVE F(u) \in firsts
      OBVIOUS
    <2> HIDE DEF F
    <2> QED BY <1>1, <1>6
  <1>9. \A i \in firsts : F(list[i].url) = i
    <2> SUFFICES ASSUME NEW i \in firsts PROVE F(list[i].url) = i
      OBVIOUS
    <2> HIDE DEF F
    <2>1. F(list[i].url) \in DOMAIN list /\ list[F(list[i].url)].url = list[i].url /\ F(list[i].url) <= i
      BY <1>4, <1>6, <1>7
    <2> QED BY <1>1, <2>1
  <1> HIDE DEF before, firsts, n, best, P, F
  <1>10. IsOrder(firsts, before)
    BY <1>3, <1>4 DEF IsOrder
  <1>11. /\ n \in Nat /\ best \in [1..n -> firsts]
         /\ \A i \in firsts : \E r \in 1..n : best[r] = i
         /\ \A q, r \in 1..n : q < r => best[q] < best[r]
    BY <1>2, <1>3, <1>10, InOrderSorts DEF best, n
  <1>12. \A r \in 1..n : best[r] \in 1..Len(list) /\ best[r] \in Nat /\ best[r] >= 1 /\ best[r] \in DOMAIN list
    <2> SUFFICES ASSUME NEW r \in 1..n PROVE best[r] \in 1..Len(list)
      BY <1>1
    <2> QED BY <1>1, <1>4, <1>11
  <1>13. DOMAIN P = 1..n /\ \A r \in 1..n : P[r] = [hit |-> list[best[r]], rank |-> r]
    BY <1>5, <1>11
  <1>14. ToSet(P) = {P[r] : r \in 1..n}
    BY <1>13 DEF ToSet
  <1> DEFINE url(r) == list[best[r]].url
  <1>15. \A r \in 1..n : Has(list, url(r)) /\ F(url(r)) = best[r]
    BY <1>4, <1>7, <1>9, <1>11
  <1>16. \A u : Has(list, u) => \E r \in 1..n : best[r] = F(u) /\ url(r) = u
    BY <1>6, <1>8, <1>11
  <1>17. \A q, r \in 1..n : url(q) = url(r) => q = r
    <2> SUFFICES ASSUME NEW q \in 1..n, NEW r \in 1..n, url(q) = url(r), q # r PROVE FALSE
      OBVIOUS
    <2>1. best[q] = best[r]
      BY <1>15
    <2>2. best[q] < best[r] \/ best[r] < best[q]
      BY <1>11
    <2> QED BY <1>12, <2>1, <2>2
  <1>18. \A r \in 1..n : Place(list, url(r)) = r
    <2> SUFFICES ASSUME NEW r \in 1..n PROVE Place(list, url(r)) = r
      OBVIOUS
    <2> DEFINE U == {list[i].url : i \in 1..best[r]}
               g == [k \in 1..r |-> url(k)]
    <2>1. \A k \in 1..r : k \in 1..n /\ best[k] \in 1..best[r]
      <3> SUFFICES ASSUME NEW k \in 1..r PROVE k \in 1..n /\ best[k] \in 1..best[r]
        OBVIOUS
      <3>1. k \in 1..n /\ (k = r \/ k < r)
        BY <1>11
      <3>2. best[k] \in Nat /\ best[k] >= 1 /\ best[r] \in Nat
        BY <1>12, <3>1
      <3> QED BY <1>11, <3>1, <3>2
    <2>2. g \in [1..r -> U]
      BY <2>1
    <2>3. \A u \in U : \E k \in 1..r : g[k] = u
      <3> SUFFICES ASSUME NEW i \in 1..best[r] PROVE \E k \in 1..r : g[k] = list[i].url
        OBVIOUS
      <3>1. best[r] \in DOMAIN list /\ i \in DOMAIN list
        BY <1>1, <1>12
      <3>2. Has(list, list[i].url) /\ F(list[i].url) <= i
        BY <1>6, <1>7, <3>1
      <3>3. PICK k \in 1..n : best[k] = F(list[i].url) /\ url(k) = list[i].url
        BY <1>16, <3>2
      <3>4. best[k] <= best[r] /\ best[k] \in Nat /\ best[r] \in Nat
        BY <1>12, <3>1, <3>2, <3>3
      <3>5. ~(r < k)
        BY <1>11, <3>4
      <3>6. k \in 1..r
        BY <1>11, <3>5
      <3> QED BY <3>3, <3>6
    <2>4. \A k, l \in 1..r : g[k] = g[l] => k = l
      <3> SUFFICES ASSUME NEW k \in 1..r, NEW l \in 1..r, g[k] = g[l] PROVE k = l
        OBVIOUS
      <3>1. k \in 1..n /\ l \in 1..n /\ url(k) = url(l)
        BY <2>1
      <3> HIDE DEF url
      <3> QED BY <1>17, <3>1
    <2>5. ExistsBijection(1..r, U)
      <3> HIDE DEF g, U
      <3>1. g \in Injection(1..r, U) /\ g \in Surjection(1..r, U)
        BY <2>2, <2>3, <2>4 DEF Injection, IsInjective, Surjection
      <3> QED BY <3>1 DEF ExistsBijection, Bijection
    <2>6. Cardinality(U) = r
      <3> HIDE DEF U
      <3> QED BY <1>11, <2>5, FS_CountingElements
    <2>7. FirstOf(list, url(r)) = best[r]
      BY <1>15 DEF F
    <2> QED BY <2>6, <2>7 DEF Place
  <1>19. \A u : In(P, u) = {P[r] : r \in {q \in 1..n : url(q) = u}}
    BY <1>13, <1>14 DEF In
  <1> HIDE DEF url
  <1>20. ASSUME NEW u, Has(list, u)
         PROVE  \E p : /\ In(P, u) = {p} /\ p.hit = list[F(u)] /\ p.rank = Place(list, u) /\ p.rank \in Nat \ {0}
    <2>1. PICK r \in 1..n : best[r] = F(u) /\ url(r) = u
      BY <1>16, <1>20
    <2>2. {q \in 1..n : url(q) = u} = {r}
      BY <1>17, <2>1
    <2>3. In(P, u) = {P[r]}
      BY <1>19, <2>2
    <2>4. P[r].hit = list[F(u)] /\ P[r].rank = r /\ Place(list, u) = r
      BY <1>13, <1>18, <2>1
    <2>5. r \in Nat \ {0}
      BY <1>11
    <2> QED BY <2>3, <2>4, <2>5
  <1>21. ASSUME NEW u, ~Has(list, u) PROVE In(P, u) = {}
    <2>1. \A q \in 1..n : url(q) # u
      BY <1>15, <1>21
    <2> QED BY <1>19, <2>1
  <1>22. IsFiniteSet(ToSet(P))
    <2>1. IsFiniteSet(1..n)
      BY <1>11, FS_Interval
    <2>2. [r \in 1..n |-> P[r]] \in Surjection(1..n, ToSet(P))
      BY <1>14 DEF Surjection
    <2> QED BY <2>1, <2>2, FS_Surjection
  <1>23. {p.hit.url : p \in ToSet(P)} = {h.url : h \in ToSet(list)}
    <2>1. {p.hit.url : p \in ToSet(P)} = {url(r) : r \in 1..n}
      BY <1>13, <1>14 DEF url
    <2>2. {h.url : h \in ToSet(list)} = {list[i].url : i \in DOMAIN list}
      BY DEF ToSet
    <2>3. \A r \in 1..n : \E i \in DOMAIN list : list[i].url = url(r)
      BY <1>15 DEF Has
    <2>4. \A i \in DOMAIN list : \E r \in 1..n : url(r) = list[i].url
      BY <1>7, <1>16
    <2>5. {url(r) : r \in 1..n} = {list[i].url : i \in DOMAIN list}
      BY <2>3, <2>4
    <2> QED BY <2>1, <2>2, <2>5
  <1>24. ASSUME NEW u, NEW v, Has(list, u), Has(list, v), u # v PROVE Place(list, u) # Place(list, v)
    <2>1. PICK q \in 1..n : url(q) = u
      BY <1>16, <1>24
    <2>2. PICK r \in 1..n : url(r) = v
      BY <1>16, <1>24
    <2> QED BY <1>18, <1>24, <2>1, <2>2
  <1>25. ASSUME NEW u, NEW v, Has(list, u), Has(list, v), Place(list, u) < Place(list, v)
         PROVE  list[F(u)].score >= list[F(v)].score
    <2>1. PICK q \in 1..n : url(q) = u /\ best[q] = F(u)
      BY <1>16, <1>25
    <2>2. PICK r \in 1..n : url(r) = v /\ best[r] = F(v)
      BY <1>16, <1>25
    <2>3. q < r
      BY <1>18, <1>25, <2>1, <2>2
    <2>4. F(u) < F(v) /\ F(u) \in DOMAIN list /\ F(v) \in DOMAIN list
      BY <1>4, <1>11, <2>1, <2>2, <2>3
    <2> QED BY <1>1, <2>4
  <1> QED BY <1>20, <1>21, <1>22, <1>23, <1>24, <1>25 DEF P, F

-----------------------------------------------------------------------------
(* What the results are ordered by.                                         *)
Ratio == Int \X (Nat \ {0})

\* Fractions with positive denominators are weakly ordered by cross-multiplying.
LEMMA AboveOrders ==
    /\ \A a \in Ratio : ~Above(a, a)
    /\ \A a, b \in Ratio : Above(a, b) => ~Above(b, a)
    /\ \A a, b, c \in Ratio : ~Above(a, b) /\ ~Above(b, c) => ~Above(a, c)
  <1>1. ASSUME NEW x \in Int, NEW y \in Int, NEW z \in Int,
               NEW p \in Nat \ {0}, NEW q \in Nat \ {0}, NEW r \in Nat \ {0},
               ~(x * q > y * p), ~(y * r > z * q), x * r > z * p
        PROVE  FALSE
    <2>1. x * q <= y * p /\ y * r <= z * q /\ x * r - z * p >= 1
      BY <1>1
    <2>2. (x * q) * r <= (y * p) * r
      BY <2>1
    <2>3. (y * r) * p <= (z * q) * p
      BY <2>1
    <2>4. (x * r) * q <= (z * p) * q
      BY <2>2, <2>3
    <2>5. (x * r - z * p) * q >= 1
      BY <2>1
    <2> QED BY <2>4, <2>5
  <1>2. ASSUME NEW a \in Ratio, NEW b \in Ratio, NEW c \in Ratio, ~Above(a, b), ~Above(b, c) PROVE ~Above(a, c)
    <2>1. /\ a[1] \in Int /\ b[1] \in Int /\ c[1] \in Int
          /\ a[2] \in Nat \ {0} /\ b[2] \in Nat \ {0} /\ c[2] \in Nat \ {0}
      BY DEF Ratio
    <2> QED BY <1>1, <1>2, <2>1 DEF Above
  <1>3. \A a, b \in Ratio : ~Above(a, a) /\ (Above(a, b) => ~Above(b, a))
    BY DEF Above, Ratio
  <1> QED BY <1>2, <1>3

\* A result: in each list at most once, in one at least, and in the one it is asked of.
IsPlaced(places) ==
    places = {} \/ \E p : places = {p} /\ p.rank \in Nat \ {0} /\ p.hit.score \in Int
IsResult(r) ==
    /\ IsPlaced(r.dense) /\ IsPlaced(r.bm25)
    /\ r.dense # {} \/ r.bm25 # {}
    /\ mode = "dense" => r.dense # {}
    /\ mode = "bm25" => r.bm25 # {}

\* A place's reciprocal is a fraction with a positive denominator.
LEMMA FractionOf ==
    /\ Fraction({}) = <<0, 1>>
    /\ \A p : p.rank \in Nat \ {0} => Fraction({p}) = <<1, RRFK + p.rank>>
    /\ \A places : IsPlaced(places) => Fraction(places) \in Ratio
  <1>1. Fraction({}) = <<0, 1>>
    BY DEF Fraction
  <1>2. \A p : p.rank \in Nat \ {0} => Fraction({p}) = <<1, RRFK + p.rank>>
    BY DEF Fraction
  <1>3. ASSUME NEW places, IsPlaced(places) PROVE Fraction(places) \in Ratio
    <2>1. CASE places = {}
      BY <1>1, <2>1 DEF Ratio
    <2>2. CASE places # {}
      <3>1. PICK p : places = {p} /\ p.rank \in Nat \ {0}
        BY <1>3, <2>2 DEF IsPlaced
      <3>2. RRFK + p.rank \in Nat \ {0}
        BY <3>1, SearchIsConfigured
      <3> QED BY <1>2, <3>1, <3>2 DEF Ratio
    <2> QED BY <2>1, <2>2
  <1> QED BY <1>1, <1>2, <1>3

\* A result's score is such a fraction.
LEMMA ScoreType ==
    ASSUME NEW r, IsResult(r)
    PROVE  Score(r) \in Ratio
  <1>1. CASE mode = "dense"
    <2>1. PICK p : r.dense = {p} /\ p.hit.score \in Int
      BY <1>1 DEF IsResult, IsPlaced
    <2> QED BY <1>1, <2>1 DEF Score, Ratio
  <1>2. CASE mode = "bm25"
    <2>1. PICK p : r.bm25 = {p} /\ p.hit.score \in Int
      BY <1>2 DEF IsResult, IsPlaced
    <2> QED BY <1>2, <2>1 DEF Score, Ratio
  <1>3. CASE mode \notin {"dense", "bm25"}
    <2> DEFINE f == Fraction(r.dense)
               g == Fraction(r.bm25)
    <2>1. f \in Ratio /\ g \in Ratio
      BY FractionOf DEF IsResult
    <2>2. Score(r) = Plus(f, g)
      BY <1>3 DEF Score
    <2> HIDE DEF f, g
    <2>3. /\ f[1] \in Int /\ g[1] \in Int /\ f[2] \in Int /\ g[2] \in Int /\ f[2] > 0 /\ g[2] > 0
      BY <2>1 DEF Ratio
    <2>4. f[1] * g[2] + g[1] * f[2] \in Int /\ f[2] * g[2] \in Nat \ {0}
      BY <2>3
    <2> QED BY <2>2, <2>4 DEF Plus, Ratio
  <1> QED BY <1>1, <1>2, <1>3

\* The best rank is the least of the ranks there are.
LEMMA BestRankIsLeast ==
    ASSUME NEW r, IsResult(r)
    PROVE  bestRank(r) \in Ranks(r) /\ bestRank(r) \in Nat /\ \A q \in Ranks(r) : bestRank(r) <= q
  <1>1. Ranks(r) \in SUBSET Nat
    BY DEF IsResult, IsPlaced, Ranks
  <1>2. PICK q \in Ranks(r) : TRUE
    BY DEF IsResult, IsPlaced, Ranks
  <1>3. \E m \in Ranks(r) : \A k \in Ranks(r) : m <= k
    BY <1>1, <1>2, LeastExists
  <1>4. bestRank(r) \in Ranks(r) /\ \A k \in Ranks(r) : bestRank(r) <= k
    BY <1>3 DEF bestRank
  <1> QED BY <1>1, <1>4

\* The stable sort's comparison orders the results of different pages.
LEMMA PrecedesOrders ==
    ASSUME NEW results, \A r \in results : IsResult(r),
           \A r, s \in results : r # s =>
                \A p, q : (r.dense = {p} /\ s.dense = {q}) \/ (r.bm25 = {p} /\ s.bm25 = {q}) => p.rank # q.rank
    PROVE  IsOrder(results, {p \in results \X results : Precedes(p[1], p[2])})
  <1> DEFINE before == {p \in results \X results : Precedes(p[1], p[2])}
             Ab(r, s) == Above(Score(r), Score(s))
             Fb(r, s) == FoundBefore(r, s)
  <1>1. \A r, s \in results : <<r, s>> \in before <=> Precedes(r, s)
    OBVIOUS
  <1>2. \A r, s \in results : Precedes(r, s) <=>
            Ab(r, s) \/ (~Ab(s, r) /\ (bestRank(r) < bestRank(s) \/ (bestRank(r) = bestRank(s) /\ Fb(r, s))))
    BY DEF Precedes
  <1>3. /\ \A r \in results : ~Ab(r, r)
        /\ \A r, s \in results : Ab(r, s) => ~Ab(s, r)
        /\ \A r, s, t \in results : ~Ab(r, s) /\ ~Ab(s, t) => ~Ab(r, t)
    <2>1. \A r \in results : Score(r) \in Ratio
      BY ScoreType
    <2> QED BY <2>1, AboveOrders
  <1>4. \A r \in results : bestRank(r) \in Nat
    BY BestRankIsLeast
  <1>5. /\ \A r \in results : ~Fb(r, r)
        /\ \A r, s \in results : r # s => Fb(r, s) \/ Fb(s, r)
        /\ \A r, s, t \in results : Fb(r, s) /\ Fb(s, t) => Fb(r, t)
    <2>1. ASSUME NEW r \in results PROVE ~Fb(r, r)
      BY DEF FoundBefore, IsResult, IsPlaced
    <2>2. ASSUME NEW r \in results, NEW s \in results, r # s PROVE Fb(r, s) \/ Fb(s, r)
      <3>1. CASE r.dense = {} /\ s.dense = {}
        <4>1. PICK p, q : r.bm25 = {p} /\ s.bm25 = {q} /\ p.rank \in Nat /\ q.rank \in Nat
          BY <3>1 DEF IsResult, IsPlaced
        <4>2. p.rank < q.rank \/ q.rank < p.rank
          BY <2>2, <4>1
        <4> QED BY <3>1, <4>1, <4>2 DEF FoundBefore
      <3>2. CASE r.dense # {} /\ s.dense # {}
        <4>1. PICK p, q : r.dense = {p} /\ s.dense = {q} /\ p.rank \in Nat /\ q.rank \in Nat
          BY <3>2 DEF IsResult, IsPlaced
        <4>2. p.rank < q.rank \/ q.rank < p.rank
          BY <2>2, <4>1
        <4> QED BY <3>2, <4>1, <4>2 DEF FoundBefore
      <3> QED BY <3>1, <3>2 DEF FoundBefore
    <2>3. ASSUME NEW r \in results, NEW s \in results, NEW t \in results, Fb(r, s), Fb(s, t) PROVE Fb(r, t)
      <3>1. CASE r.dense = {}
        <4>1. s.dense = {} /\ t.dense = {}
          BY <2>3, <3>1 DEF FoundBefore
        <4>2. PICK p, q, x : /\ r.bm25 = {p} /\ s.bm25 = {q} /\ t.bm25 = {x}
                             /\ p.rank \in Nat /\ q.rank \in Nat /\ x.rank \in Nat
          BY <3>1, <4>1 DEF IsResult, IsPlaced
        <4>3. p.rank < q.rank /\ q.rank < x.rank
          BY <2>3, <3>1, <4>1, <4>2 DEF FoundBefore
        <4> QED BY <3>1, <4>1, <4>2, <4>3 DEF FoundBefore
      <3>2. CASE r.dense # {} /\ t.dense # {}
        <4>1. s.dense # {}
          BY <2>3, <3>2 DEF FoundBefore
        <4>2. PICK p, q, x : /\ r.dense = {p} /\ s.dense = {q} /\ t.dense = {x}
                             /\ p.rank \in Nat /\ q.rank \in Nat /\ x.rank \in Nat
          BY <3>2, <4>1 DEF IsResult, IsPlaced
        <4>3. p.rank < q.rank /\ q.rank < x.rank
          BY <2>3, <3>2, <4>1, <4>2 DEF FoundBefore
        <4> QED BY <3>2, <4>1, <4>2, <4>3 DEF FoundBefore
      <3> QED BY <3>1, <3>2 DEF FoundBefore
    <2> QED BY <2>1, <2>2, <2>3
  <1> HIDE DEF before, Ab, Fb
  <1>6. \A s \in results : <<s, s>> \notin before
    BY <1>1, <1>2, <1>3, <1>4, <1>5
  <1>7. \A s, t \in results : s # t => <<s, t>> \in before \/ <<t, s>> \in before
    BY <1>1, <1>2, <1>3, <1>4, <1>5
  <1>8. \A r, s, t \in results : <<r, s>> \in before /\ <<s, t>> \in before => <<r, t>> \in before
    BY <1>1, <1>2, <1>3, <1>4, <1>5
  <1> QED BY <1>6, <1>7, <1>8 DEF IsOrder, before

\* A sum of reciprocals grows with a better rank and with another list.
LEMMA Reciprocals ==
    ASSUME NEW a \in Nat \ {0}, NEW b \in Nat \ {0}, NEW c \in Nat \ {0}, a <= c
    PROVE  /\ Above(Plus(<<1, a>>, <<1, b>>), Plus(<<1, c>>, <<0, 1>>))
           /\ Above(Plus(<<1, b>>, <<1, a>>), Plus(<<0, 1>>, <<1, c>>))
           /\ a < c => /\ Above(Plus(<<1, a>>, <<0, 1>>), Plus(<<1, c>>, <<0, 1>>))
                      /\ Above(Plus(<<0, 1>>, <<1, a>>), Plus(<<0, 1>>, <<1, c>>))
           /\ \A d \in Nat : b <= d /\ (a < c \/ b < d) =>
                Above(Plus(<<1, a>>, <<1, b>>), Plus(<<1, c>>, <<1, d>>))
  <1>1. (b + a) * c > a * b
    <2>1. (b + a) * c >= (b + a) * a
      OBVIOUS
    <2>2. (b + a) * a = b * a + a * a /\ a * a > 0 /\ a * b = b * a
      OBVIOUS
    <2>3. (b + a) * c \in Int /\ (b + a) * a \in Int /\ a * b \in Int /\ a * a \in Int
      OBVIOUS
    <2> QED BY <2>1, <2>2, <2>3
  <1>2. ASSUME NEW d \in Nat, b <= d, a < c \/ b < d PROVE (b + a) * (c * d) > (d + c) * (a * b)
    <2>1. d > 0
      BY <1>2
    <2>2. (b * d) * c >= (b * d) * a /\ (a * c) * d >= (a * c) * b
      BY <1>2
    <2>3. a < c => (b * d) * c > (b * d) * a
      <3>1. b * d > 0 /\ b * d \in Int
        BY <2>1
      <3> QED BY <3>1
    <2>4. b < d => (a * c) * d > (a * c) * b
      <3>1. a * c > 0 /\ a * c \in Int
        OBVIOUS
      <3> QED BY <1>2, <3>1
    <2>5. (b + a) * (c * d) = (b * d) * c + (a * c) * d /\ (d + c) * (a * b) = (b * d) * a + (a * c) * b
      OBVIOUS
    <2>6. /\ (b * d) * c \in Int /\ (b * d) * a \in Int /\ (a * c) * d \in Int /\ (a * c) * b \in Int
      OBVIOUS
    <2> QED BY <1>2, <2>2, <2>3, <2>4, <2>5, <2>6
  <1>3. /\ Plus(<<1, a>>, <<1, b>>) = <<b + a, a * b>> /\ Plus(<<1, b>>, <<1, a>>) = <<b + a, a * b>>
        /\ \A x \in Nat : Plus(<<1, x>>, <<0, 1>>) = <<1, x>> /\ Plus(<<0, 1>>, <<1, x>>) = <<1, x>>
        /\ \A d \in Nat : Plus(<<1, c>>, <<1, d>>) = <<d + c, c * d>>
    BY DEF Plus
  <1>4. \A d \in Nat : b <= d /\ (a < c \/ b < d) =>
            Above(Plus(<<1, a>>, <<1, b>>), Plus(<<1, c>>, <<1, d>>))
    <2> SUFFICES ASSUME NEW d \in Nat, b <= d, a < c \/ b < d
                 PROVE  Above(Plus(<<1, a>>, <<1, b>>), Plus(<<1, c>>, <<1, d>>))
      OBVIOUS
    <2>1. (b + a) * (c * d) > (d + c) * (a * b)
      BY <1>2
    <2>2. Above(<<b + a, a * b>>, <<d + c, c * d>>)
      BY <2>1 DEF Above
    <2> QED BY <1>3, <2>2
  <1>5. /\ Above(Plus(<<1, a>>, <<1, b>>), Plus(<<1, c>>, <<0, 1>>))
        /\ Above(Plus(<<1, b>>, <<1, a>>), Plus(<<0, 1>>, <<1, c>>))
    <2>1. Above(<<b + a, a * b>>, <<1, c>>)
      BY <1>1 DEF Above
    <2> QED BY <1>3, <2>1
  <1>6. a < c => /\ Above(Plus(<<1, a>>, <<0, 1>>), Plus(<<1, c>>, <<0, 1>>))
                 /\ Above(Plus(<<0, 1>>, <<1, a>>), Plus(<<0, 1>>, <<1, c>>))
    <2>1. a < c => Above(<<1, a>>, <<1, c>>)
      BY DEF Above
    <2> QED BY <1>3, <2>1
  <1> QED BY <1>4, <1>5, <1>6

NoWorseIn(ps, qs) == \A q \in qs : \E p \in ps : p.rank <= q.rank
BetterIn(ps, qs) == ps # {} /\ \A p \in ps, q \in qs : p.rank < q.rank
\* Where only one list is asked, a better place there has no lower score.
OneList(ps, qs, other, others) ==
    other = {} /\ others = {} /\ \A p \in ps, q \in qs : p.rank < q.rank => p.hit.score >= q.hit.score

\* A page no list places below another and one places above it precedes it.
LEMMA HigherPrecedes ==
    ASSUME NEW r, NEW s, IsResult(r), IsResult(s), mode \in {"hybrid", "dense", "bm25"},
           NoWorseIn(r.dense, s.dense), NoWorseIn(r.bm25, s.bm25),
           BetterIn(r.dense, s.dense) \/ BetterIn(r.bm25, s.bm25),
           mode = "dense" => OneList(r.dense, s.dense, r.bm25, s.bm25),
           mode = "bm25" => OneList(r.bm25, s.bm25, r.dense, s.dense)
    PROVE  Precedes(r, s)
  <1>1. bestRank(r) \in Ranks(r) /\ bestRank(s) \in Ranks(s)
    BY BestRankIsLeast
  <1>2. CASE mode = "dense"
    <2>1. PICK p, q : /\ r.dense = {p} /\ p.rank \in Nat /\ p.hit.score \in Int
                      /\ s.dense = {q} /\ q.rank \in Nat /\ q.hit.score \in Int
      BY <1>2 DEF IsResult, IsPlaced
    <2>2. r.bm25 = {} /\ s.bm25 = {} /\ p.rank < q.rank /\ p.hit.score >= q.hit.score
      BY <1>2, <2>1 DEF OneList, BetterIn
    <2>3. bestRank(r) = p.rank /\ bestRank(s) = q.rank
      BY <1>1, <2>1, <2>2 DEF Ranks
    <2>4. Score(r) = <<p.hit.score, 1>> /\ Score(s) = <<q.hit.score, 1>>
      BY <1>2, <2>1 DEF Score
    <2> QED BY <2>1, <2>2, <2>3, <2>4 DEF Precedes, Above
  <1>3. CASE mode = "bm25"
    <2>1. PICK p, q : /\ r.bm25 = {p} /\ p.rank \in Nat /\ p.hit.score \in Int
                      /\ s.bm25 = {q} /\ q.rank \in Nat /\ q.hit.score \in Int
      BY <1>3 DEF IsResult, IsPlaced
    <2>2. r.dense = {} /\ s.dense = {} /\ p.rank < q.rank /\ p.hit.score >= q.hit.score
      BY <1>3, <2>1 DEF OneList, BetterIn
    <2>3. bestRank(r) = p.rank /\ bestRank(s) = q.rank
      BY <1>1, <2>1, <2>2 DEF Ranks
    <2>4. Score(r) = <<p.hit.score, 1>> /\ Score(s) = <<q.hit.score, 1>>
      BY <1>3, <2>1 DEF Score
    <2> QED BY <2>1, <2>2, <2>3, <2>4 DEF Precedes, Above
  <1>4. CASE mode = "hybrid"
    <2>1. /\ Score(r) = Plus(Fraction(r.dense), Fraction(r.bm25))
          /\ Score(s) = Plus(Fraction(s.dense), Fraction(s.bm25))
      BY <1>4 DEF Score
    <2>2. RRFK \in Nat
      BY SearchIsConfigured
    <2>3. CASE s.bm25 = {}
      <3>1. PICK p, q : r.dense = {p} /\ s.dense = {q} /\ p.rank \in Nat \ {0} /\ q.rank \in Nat \ {0} /\ p.rank <= q.rank
        BY <2>3 DEF IsResult, IsPlaced, NoWorseIn
      <3> DEFINE a == RRFK + p.rank
                 c == RRFK + q.rank
      <3>2. a \in Nat \ {0} /\ c \in Nat \ {0} /\ a <= c /\ (p.rank < q.rank => a < c)
        BY <2>2, <3>1
      <3>3. Fraction(r.dense) = <<1, a>> /\ Fraction(s.dense) = <<1, c>> /\ Fraction(s.bm25) = <<0, 1>>
        BY <2>3, <3>1, FractionOf
      <3> HIDE DEF a, c
      <3>4. CASE r.bm25 = {}
        <4>1. a < c /\ Fraction(r.bm25) = <<0, 1>>
          BY <3>1, <3>2, <3>4, FractionOf DEF BetterIn
        <4> QED BY <2>1, <3>2, <3>3, <4>1, Reciprocals DEF Precedes
      <3>5. CASE r.bm25 # {}
        <4>1. PICK x : r.bm25 = {x} /\ x.rank \in Nat \ {0}
          BY <3>5 DEF IsResult, IsPlaced
        <4> DEFINE b == RRFK + x.rank
        <4>2. b \in Nat \ {0} /\ Fraction(r.bm25) = <<1, b>>
          BY <2>2, <4>1, FractionOf
        <4> HIDE DEF b
        <4> QED BY <2>1, <3>2, <3>3, <4>2, Reciprocals DEF Precedes
      <3> QED BY <3>4, <3>5
    <2>4. CASE s.dense = {}
      <3>1. PICK p, q : r.bm25 = {p} /\ s.bm25 = {q} /\ p.rank \in Nat \ {0} /\ q.rank \in Nat \ {0} /\ p.rank <= q.rank
        BY <2>4 DEF IsResult, IsPlaced, NoWorseIn
      <3> DEFINE a == RRFK + p.rank
                 c == RRFK + q.rank
      <3>2. a \in Nat \ {0} /\ c \in Nat \ {0} /\ a <= c /\ (p.rank < q.rank => a < c)
        BY <2>2, <3>1
      <3>3. Fraction(r.bm25) = <<1, a>> /\ Fraction(s.bm25) = <<1, c>> /\ Fraction(s.dense) = <<0, 1>>
        BY <2>4, <3>1, FractionOf
      <3> HIDE DEF a, c
      <3>4. CASE r.dense = {}
        <4>1. a < c /\ Fraction(r.dense) = <<0, 1>>
          BY <3>1, <3>2, <3>4, FractionOf DEF BetterIn
        <4> QED BY <2>1, <3>2, <3>3, <4>1, Reciprocals DEF Precedes
      <3>5. CASE r.dense # {}
        <4>1. PICK x : r.dense = {x} /\ x.rank \in Nat \ {0}
          BY <3>5 DEF IsResult, IsPlaced
        <4> DEFINE b == RRFK + x.rank
        <4>2. b \in Nat \ {0} /\ Fraction(r.dense) = <<1, b>>
          BY <2>2, <4>1, FractionOf
        <4> HIDE DEF b
        <4> QED BY <2>1, <3>2, <3>3, <4>2, Reciprocals DEF Precedes
      <3> QED BY <3>4, <3>5
    <2>5. CASE s.dense # {} /\ s.bm25 # {}
      <3>1. PICK p, q : r.dense = {p} /\ s.dense = {q} /\ p.rank \in Nat \ {0} /\ q.rank \in Nat \ {0} /\ p.rank <= q.rank
        BY <2>5 DEF IsResult, IsPlaced, NoWorseIn
      <3>2. PICK x, y : r.bm25 = {x} /\ s.bm25 = {y} /\ x.rank \in Nat \ {0} /\ y.rank \in Nat \ {0} /\ x.rank <= y.rank
        BY <2>5 DEF IsResult, IsPlaced, NoWorseIn
      <3>3. p.rank < q.rank \/ x.rank < y.rank
        BY <3>1, <3>2 DEF BetterIn
      <3> DEFINE a == RRFK + p.rank
                 c == RRFK + q.rank
                 b == RRFK + x.rank
                 d == RRFK + y.rank
      <3>4. /\ a \in Nat \ {0} /\ c \in Nat \ {0} /\ a <= c
            /\ b \in Nat \ {0} /\ d \in Nat \ {0} /\ b <= d
            /\ a < c \/ b < d
        BY <2>2, <3>1, <3>2, <3>3
      <3>5. /\ Fraction(r.dense) = <<1, a>> /\ Fraction(s.dense) = <<1, c>>
            /\ Fraction(r.bm25) = <<1, b>> /\ Fraction(s.bm25) = <<1, d>>
        BY <3>1, <3>2, FractionOf
      <3> HIDE DEF a, b, c, d
      <3>6. d \in Nat
        BY <3>4
      <3> QED BY <2>1, <3>4, <3>5, <3>6, Reciprocals DEF Precedes
    <2> QED BY <2>3, <2>4, <2>5
  <1> QED BY <1>2, <1>3, <1>4

-----------------------------------------------------------------------------
\* A list is a sequence of its items.
LEMMA ListOfItsItems ==
    ASSUME NEW n \in Nat, NEW f, f = [i \in 1..n |-> f[i]]
    PROVE  f \in Seq({f[i] : i \in 1..n}) /\ Len(f) = n
  <1> DEFINE T == {f[i] : i \in 1..n}
  <1>1. \A i \in 1..n : f[i] \in T
    OBVIOUS
  <1> HIDE DEF T
  <1>2. [i \in 1..n |-> f[i]] \in Seq(T)
    BY <1>1, IsASeq
  <1>3. f \in Seq(T)
    BY <1>2
  <1>4. Len(f) \in Nat /\ 1..Len(f) = 1..n
    BY <1>3
  <1> QED BY <1>3, <1>4 DEF T

IsPlacedAs(list, ps, u) ==
    IF Has(list, u) THEN \E p : In(ps, u) = {p} /\ p.rank = Place(list, u) /\ p.rank \in Nat ELSE In(ps, u) = {}

\* What holds of places in a list holds of the ranks of its pages.
LEMMA PlacesAreRanks ==
    ASSUME NEW list, NEW ps, NEW u, NEW v, IsPlacedAs(list, ps, u), IsPlacedAs(list, ps, v)
    PROVE  /\ NoWorse(list, u, v) => NoWorseIn(In(ps, u), In(ps, v))
           /\ Better(list, u, v) => BetterIn(In(ps, u), In(ps, v))
  <1>1. CASE Has(list, v)
    <2>1. PICK q : In(ps, v) = {q} /\ q.rank = Place(list, v) /\ q.rank \in Nat
      BY <1>1 DEF IsPlacedAs
    <2>2. CASE Has(list, u)
      <3>1. PICK p : In(ps, u) = {p} /\ p.rank = Place(list, u) /\ p.rank \in Nat
        BY <2>2 DEF IsPlacedAs
      <3> QED BY <1>1, <2>1, <2>2, <3>1 DEF NoWorse, NoWorseIn, Better, BetterIn
    <2>3. CASE ~Has(list, u)
      BY <1>1, <2>3 DEF NoWorse, Better
    <2> QED BY <2>2, <2>3
  <1>2. CASE ~Has(list, v)
    <2>1. In(ps, v) = {}
      BY <1>2 DEF IsPlacedAs
    <2>2. Has(list, u) => In(ps, u) # {}
      BY DEF IsPlacedAs
    <2> QED BY <2>1, <2>2 DEF NoWorseIn, Better, BetterIn
  <1> QED BY <1>1, <1>2

IsFusion(D, B, found, n, all) ==
    /\ found = {h.url : h \in ToSet(D) \cup ToSet(B)} /\ n = Cardinality(found)
    /\ all = fuse(pages(D), pages(B))

\* Every page once, those no list places below another and one places above it
\* before it, each with the chunk of the list that places it highest.
IsRightFusion(D, B, found, n, all) ==
    /\ n \in Nat /\ DOMAIN all = 1..n /\ all \in Seq({all[i] : i \in 1..n})
    /\ \A i \in 1..n : all[i].url \in found
    /\ \A u \in found : \E i \in 1..n : all[i].url = u
    /\ \A i, j \in 1..n : all[i].url = all[j].url => i = j
    /\ \A i, j \in 1..n :
         /\ NoWorse(D, all[i].url, all[j].url) /\ NoWorse(B, all[i].url, all[j].url)
         /\ Better(D, all[i].url, all[j].url) \/ Better(B, all[i].url, all[j].url)
         => i < j
    /\ \A i \in 1..n : \E list \in {D, B} :
         /\ Has(list, all[i].url) /\ all[i].snippet = list[FirstOf(list, all[i].url)].text
         /\ \A other \in {D, B} : Has(other, all[i].url) => Place(list, all[i].url) <= Place(other, all[i].url)

\* What is made of two lists, whatever they are.
LEMMA FuseOfLists ==
    ASSUME NEW D, NEW B, IsRanked(D), IsRanked(B), mode \in {"hybrid", "dense", "bm25"},
           mode = "dense" => B = <<>>, mode = "bm25" => D = <<>>,
           NEW found, NEW n, NEW all, IsFusion(D, B, found, n, all)
    PROVE  IsRightFusion(D, B, found, n, all)
  <1> DEFINE ds == pages(D)
             bs == pages(B)
             res(u) == [url |-> u, dense |-> In(ds, u), bm25 |-> In(bs, u)]
             results == {res(p.hit.url) : p \in ToSet(ds) \cup ToSet(bs)}
             before == {p \in results \X results : Precedes(p[1], p[2])}
             order == InOrder(results, before)
  <1>1. /\ IsFiniteSet(ToSet(ds)) /\ {p.hit.url : p \in ToSet(ds)} = {h.url : h \in ToSet(D)}
        /\ \A u : ~Has(D, u) => In(ds, u) = {}
        /\ \A u : Has(D, u) => \E p : /\ In(ds, u) = {p} /\ p.hit = D[FirstOf(D, u)]
                                      /\ p.rank = Place(D, u) /\ p.rank \in Nat \ {0}
    BY PagesOfList
  <1>2. /\ IsFiniteSet(ToSet(bs)) /\ {p.hit.url : p \in ToSet(bs)} = {h.url : h \in ToSet(B)}
        /\ \A u : ~Has(B, u) => In(bs, u) = {}
        /\ \A u : Has(B, u) => \E p : /\ In(bs, u) = {p} /\ p.hit = B[FirstOf(B, u)]
                                      /\ p.rank = Place(B, u) /\ p.rank \in Nat \ {0}
    BY PagesOfList
  <1>3. /\ \A u, v : Has(D, u) /\ Has(D, v) /\ u # v => Place(D, u) # Place(D, v)
        /\ \A u, v : Has(B, u) /\ Has(B, v) /\ u # v => Place(B, u) # Place(B, v)
        /\ \A u, v : Has(D, u) /\ Has(D, v) /\ Place(D, u) < Place(D, v) =>
                D[FirstOf(D, u)].score >= D[FirstOf(D, v)].score
        /\ \A u, v : Has(B, u) /\ Has(B, v) /\ Place(B, u) < Place(B, v) =>
                B[FirstOf(B, u)].score >= B[FirstOf(B, v)].score
    BY PagesOfList
  <1>4. /\ \A u : Has(D, u) => D[FirstOf(D, u)].score \in Int
        /\ \A u : Has(B, u) => B[FirstOf(B, u)].score \in Int
    BY FirstChunk DEF IsRanked
  <1>5. all = [i \in DOMAIN order |-> [url |-> order[i].url, dense |-> order[i].dense, bm25 |-> order[i].bm25,
                                      snippet |-> snippet(order[i])]]
    BY DEF IsFusion, fuse
  <1>6. \A u : u \in found <=> Has(D, u) \/ Has(B, u)
    BY DEF IsFusion, Has, ToSet
  <1>7. IsFiniteSet(found) /\ found = {p.hit.url : p \in ToSet(ds) \cup ToSet(bs)}
    <2> DEFINE Ps == ToSet(ds) \cup ToSet(bs)
               g == [p \in Ps |-> p.hit.url]
    <2>1. found = {p.hit.url : p \in Ps}
      <3>1. {p.hit.url : p \in Ps} = {p.hit.url : p \in ToSet(ds)} \cup {p.hit.url : p \in ToSet(bs)}
        <4> HIDE DEF ds, bs
        <4> QED OBVIOUS
      <3>2. found = {h.url : h \in ToSet(D)} \cup {h.url : h \in ToSet(B)}
        BY DEF IsFusion
      <3> HIDE DEF Ps, ds, bs
      <3> QED BY <1>1, <1>2, <3>1, <3>2
    <2>2. IsFiniteSet(Ps)
      BY <1>1, <1>2, FS_Union
    <2> HIDE DEF Ps
    <2>3. g \in Surjection(Ps, found)
      BY <2>1 DEF Surjection
    <2>4. IsFiniteSet(found)
      BY <2>2, <2>3, FS_Surjection
    <2> QED BY <2>1, <2>4 DEF Ps
  <1>8. results = {res(u) : u \in found}
    BY <1>7
  <1>9. /\ \A u : res(u).url = u /\ res(u).dense = In(ds, u) /\ res(u).bm25 = In(bs, u)
        /\ \A r, s \in results : <<r, s>> \in before <=> Precedes(r, s)
    OBVIOUS
  <1> HIDE DEF ds, bs, res, results, before, order
  <1>10. n \in Nat /\ IsFiniteSet(results) /\ Cardinality(results) = n
    <2> DEFINE g == [u \in found |-> res(u)]
    <2>1. g \in Injection(found, results) /\ g \in Surjection(found, results)
      <3>1. g \in [found -> results] /\ \A r \in results : \E u \in found : g[u] = r
        BY <1>8
      <3>2. \A u, v \in found : g[u] = g[v] => u = v
        BY <1>9
      <3> HIDE DEF g
      <3> QED BY <3>1, <3>2 DEF Injection, IsInjective, Surjection
    <2>2. ExistsBijection(found, results)
      BY <2>1 DEF ExistsBijection, Bijection
    <2> QED BY <1>7, <2>2, FS_Bijection, FS_CardinalityType DEF IsFusion
  <1>11. \A u \in found : IsResult(res(u))
    <2> SUFFICES ASSUME NEW u \in found PROVE IsResult(res(u))
      OBVIOUS
    <2>1. Has(D, u) \/ Has(B, u)
      BY <1>6
    <2>2. IsPlaced(In(ds, u)) /\ (Has(D, u) => In(ds, u) # {})
      BY <1>1, <1>4 DEF IsPlaced
    <2>3. IsPlaced(In(bs, u)) /\ (Has(B, u) => In(bs, u) # {})
      BY <1>2, <1>4 DEF IsPlaced
    <2>4. (mode = "dense" => ~Has(B, u)) /\ (mode = "bm25" => ~Has(D, u))
      BY DEF Has
    <2> QED BY <1>9, <2>1, <2>2, <2>3, <2>4 DEF IsResult
  <1>12. IsOrder(results, before)
    <2>1. \A r \in results : IsResult(r)
      BY <1>8, <1>11
    <2>2. ASSUME NEW u \in found, NEW v \in found, u # v, NEW p, NEW q,
                 (In(ds, u) = {p} /\ In(ds, v) = {q}) \/ (In(bs, u) = {p} /\ In(bs, v) = {q})
          PROVE  p.rank # q.rank
      <3>1. CASE In(ds, u) = {p} /\ In(ds, v) = {q}
        <4>1. Has(D, u) /\ Has(D, v)
          BY <1>1, <3>1
        <4>2. p.rank = Place(D, u) /\ q.rank = Place(D, v)
          BY <1>1, <3>1, <4>1
        <4> QED BY <1>3, <2>2, <4>1, <4>2
      <3>2. CASE In(bs, u) = {p} /\ In(bs, v) = {q}
        <4>1. Has(B, u) /\ Has(B, v)
          BY <1>2, <3>2
        <4>2. p.rank = Place(B, u) /\ q.rank = Place(B, v)
          BY <1>2, <3>2, <4>1
        <4> QED BY <1>3, <2>2, <4>1, <4>2
      <3> QED BY <2>2, <3>1, <3>2
    <2>3. \A r, s \in results : r # s =>
            \A p, q : (r.dense = {p} /\ s.dense = {q}) \/ (r.bm25 = {p} /\ s.bm25 = {q}) => p.rank # q.rank
      <3> SUFFICES ASSUME NEW u \in found, NEW v \in found, res(u) # res(v), NEW p, NEW q,
                          \/ res(u).dense = {p} /\ res(v).dense = {q}
                          \/ res(u).bm25 = {p} /\ res(v).bm25 = {q}
                   PROVE  p.rank # q.rank
        BY <1>8
      <3> QED BY <1>9, <2>2
    <2> QED BY <2>1, <2>3, PrecedesOrders DEF before
  <1>13. /\ order \in [1..n -> results]
         /\ \A r \in results : \E i \in 1..n : order[i] = r
         /\ \A i, j \in 1..n : i < j => <<order[i], order[j]>> \in before
    <2>1. /\ order \in [1..Cardinality(results) -> results]
          /\ \A r \in results : \E i \in 1..Cardinality(results) : order[i] = r
          /\ \A i, j \in 1..Cardinality(results) : i < j => <<order[i], order[j]>> \in before
      BY <1>10, <1>12, InOrderSorts DEF order
    <2> QED BY <1>10, <2>1
  <1>14. /\ DOMAIN all = 1..n
         /\ \A i \in 1..n : /\ all[i].url \in found /\ order[i] = res(all[i].url)
                            /\ all[i].snippet = snippet(res(all[i].url))
    <2>1. DOMAIN all = 1..n /\ \A i \in 1..n : all[i].url = order[i].url /\ all[i].snippet = snippet(order[i])
      BY <1>5, <1>13
    <2>2. \A i \in 1..n : \E u \in found : order[i] = res(u)
      BY <1>8, <1>13
    <2> QED BY <1>9, <2>1, <2>2
  <1>15. all \in Seq({all[i] : i \in 1..n})
    <2>1. all = [i \in 1..n |-> all[i]]
      BY <1>5, <1>14
    <2> QED BY <1>10, <2>1, ListOfItsItems
  <1>16. \A u \in found : \E i \in 1..n : all[i].url = u
    BY <1>8, <1>9, <1>13, <1>14
  <1>17. \A i, j \in 1..n : all[i].url = all[j].url => i = j
    <2> SUFFICES ASSUME NEW i \in 1..n, NEW j \in 1..n, all[i].url = all[j].url, i # j PROVE FALSE
      OBVIOUS
    <2>1. order[i] = order[j] /\ order[i] \in results
      BY <1>13, <1>14
    <2>2. i < j \/ j < i
      BY <1>10
    <2> QED BY <1>12, <1>13, <2>1, <2>2 DEF IsOrder
  <1>18. ASSUME NEW i \in 1..n, NEW j \in 1..n,
                NoWorse(D, all[i].url, all[j].url), NoWorse(B, all[i].url, all[j].url),
                Better(D, all[i].url, all[j].url) \/ Better(B, all[i].url, all[j].url)
         PROVE  i < j
    <2> DEFINE u == all[i].url
               v == all[j].url
    <2>1. /\ u \in found /\ v \in found /\ order[i] = res(u) /\ order[j] = res(v)
          /\ NoWorse(D, u, v) /\ NoWorse(B, u, v) /\ (Better(D, u, v) \/ Better(B, u, v))
      BY <1>14, <1>18
    <2> HIDE DEF u, v
    <2>2. NoWorseIn(In(ds, u), In(ds, v)) /\ (Better(D, u, v) => BetterIn(In(ds, u), In(ds, v)))
      <3>1. IsPlacedAs(D, ds, u) /\ IsPlacedAs(D, ds, v)
        BY <1>1 DEF IsPlacedAs
      <3>2. /\ NoWorse(D, u, v) => NoWorseIn(In(ds, u), In(ds, v))
            /\ Better(D, u, v) => BetterIn(In(ds, u), In(ds, v))
        BY <3>1, PlacesAreRanks
      <3> QED BY <2>1, <3>2
    <2>3. NoWorseIn(In(bs, u), In(bs, v)) /\ (Better(B, u, v) => BetterIn(In(bs, u), In(bs, v)))
      <3>1. IsPlacedAs(B, bs, u) /\ IsPlacedAs(B, bs, v)
        BY <1>2 DEF IsPlacedAs
      <3>2. /\ NoWorse(B, u, v) => NoWorseIn(In(bs, u), In(bs, v))
            /\ Better(B, u, v) => BetterIn(In(bs, u), In(bs, v))
        BY <3>1, PlacesAreRanks
      <3> QED BY <2>1, <3>2
    <2>4. mode = "dense" => OneList(In(ds, u), In(ds, v), In(bs, u), In(bs, v))
      <3>1. mode = "dense" => ~Has(B, u) /\ ~Has(B, v)
        BY DEF Has
      <3> QED BY <1>1, <1>2, <1>3, <3>1 DEF OneList
    <2>5. mode = "bm25" => OneList(In(bs, u), In(bs, v), In(ds, u), In(ds, v))
      <3>1. mode = "bm25" => ~Has(D, u) /\ ~Has(D, v)
        BY DEF Has
      <3> QED BY <1>1, <1>2, <1>3, <3>1 DEF OneList
    <2>6. Precedes(res(u), res(v))
      BY <1>9, <1>11, <2>1, <2>2, <2>3, <2>4, <2>5, HigherPrecedes
    <2>7. <<order[i], order[j]>> \in before /\ order[i] \in results /\ order[j] \in results
      BY <1>8, <1>9, <2>1, <2>6
    <2>8. ~(j < i) /\ i # j
      BY <1>12, <1>13, <2>7 DEF IsOrder
    <2> QED BY <1>10, <2>8
  <1>19. ASSUME NEW i \in 1..n
         PROVE  \E list \in {D, B} :
                    /\ Has(list, all[i].url) /\ all[i].snippet = list[FirstOf(list, all[i].url)].text
                    /\ \A other \in {D, B} : Has(other, all[i].url) => Place(list, all[i].url) <= Place(other, all[i].url)
    <2> DEFINE u == all[i].url
    <2>1. u \in found /\ all[i].snippet = snippet(res(u))
      BY <1>14
    <2>2. Has(D, u) \/ Has(B, u)
      BY <1>6, <2>1
    <2> HIDE DEF u
    <2>3. snippet(res(u)) = IF In(ds, u) = {} \/ \E d \in In(ds, u), b \in In(bs, u) : b.rank < d.rank
                            THEN (CHOOSE p \in In(bs, u) : TRUE).hit.text ELSE (CHOOSE p \in In(ds, u) : TRUE).hit.text
      BY <1>9 DEF snippet
    <2>4. CASE ~Has(D, u)
      <3>1. PICK p : In(bs, u) = {p} /\ p.hit = B[FirstOf(B, u)] /\ p.rank = Place(B, u) /\ p.rank \in Nat
        BY <1>2, <2>2, <2>4
      <3>2. snippet(res(u)) = B[FirstOf(B, u)].text
        BY <1>1, <2>3, <2>4, <3>1
      <3> QED BY <2>1, <2>2, <2>4, <3>1, <3>2 DEF u
    <2>5. CASE ~Has(B, u)
      <3>1. PICK p : In(ds, u) = {p} /\ p.hit = D[FirstOf(D, u)] /\ p.rank = Place(D, u) /\ p.rank \in Nat
        BY <1>1, <2>2, <2>5
      <3>2. snippet(res(u)) = D[FirstOf(D, u)].text
        BY <1>2, <2>3, <2>5, <3>1
      <3> QED BY <2>1, <2>2, <2>5, <3>1, <3>2 DEF u
    <2>6. CASE Has(D, u) /\ Has(B, u)
      <3>1. PICK p : In(ds, u) = {p} /\ p.hit = D[FirstOf(D, u)] /\ p.rank = Place(D, u) /\ p.rank \in Nat
        BY <1>1, <2>6
      <3>2. PICK q : In(bs, u) = {q} /\ q.hit = B[FirstOf(B, u)] /\ q.rank = Place(B, u) /\ q.rank \in Nat
        BY <1>2, <2>6
      <3>3. CASE q.rank < p.rank
        <4>1. snippet(res(u)) = B[FirstOf(B, u)].text /\ Place(B, u) <= Place(D, u) /\ Place(B, u) <= Place(B, u)
          BY <2>3, <3>1, <3>2, <3>3
        <4> QED BY <2>1, <2>6, <4>1 DEF u
      <3>4. CASE ~(q.rank < p.rank)
        <4>1. snippet(res(u)) = D[FirstOf(D, u)].text /\ Place(D, u) <= Place(B, u) /\ Place(D, u) <= Place(D, u)
          BY <2>3, <3>1, <3>2, <3>4
        <4> QED BY <2>1, <2>6, <4>1 DEF u
      <3> QED BY <3>3, <3>4
    <2> QED BY <2>4, <2>5, <2>6
  <1> QED BY <1>10, <1>14, <1>15, <1>16, <1>17, <1>18, <1>19 DEF IsRightFusion

-----------------------------------------------------------------------------
(* A search request.                                                        *)
SearchInv ==
    /\ SearchTypeOK
    /\ hits \in [dense : Lists \cup {<<>>}, bm25 : Lists \cup {<<>>}]
    /\ failure \in {{}, {"timeout"}, {"error"}}
    /\ "failed" \in {dense, bm25} => failure # {}
    /\ status # 0 => "running" \notin {dense, bm25}
    /\ status = 200 => failure = {}
    /\ status = 200 \/ {dense, bm25} # {"idle"} => RequestIsValid
    /\ dense # "idle" => mode # "bm25"
    /\ bm25 # "idle" => mode # "dense"
    /\ hits.dense # <<>> => dense = "found"
    /\ hits.bm25 # <<>> => bm25 = "found"

\* A search begins with nothing found and nothing failed.
LEMMA SearchBegins ==
    ASSUME NEW p \in Parameters
    PROVE  SearchStarts(p) => SearchInv
  BY DEF SearchStarts, SearchInv, SearchTypeOK

\* The lists are those of the searches that were asked for, and a failure of one
\* is the request's.
LEMMA SearchGoesOn == SearchInv /\ [SearchStep]_searchVars => SearchInv'
  <1> SUFFICES ASSUME SearchInv, [SearchStep]_searchVars PROVE SearchInv'
    OBVIOUS
  <1>1. asked' = asked => (RequestIsValid' <=> RequestIsValid) /\ mode' = mode
    BY DEF RequestIsValid, LimitIsValid, limit, mode, Given
  <1>2. CASE Refused
    BY <1>1, <1>2 DEF Refused, SearchInv, SearchTypeOK
  <1>3. CASE Searches
    BY <1>1, <1>3 DEF Searches, SearchInv, SearchTypeOK
  <1>4. CASE DenseEnds
    <2>1. asked' = asked /\ bm25' = bm25 /\ status' = status /\ dense = "running"
      BY <1>4 DEF DenseEnds, Ends
    <2>2. CASE dense' = "found"
      <3>1. PICK list \in Lists : hits' = [hits EXCEPT !.dense = list]
        BY <1>4, <2>2 DEF DenseEnds
      <3>2. failure' = failure
        BY <1>4, <2>2 DEF DenseEnds, Ends
      <3> QED BY <1>1, <2>1, <2>2, <3>1, <3>2 DEF SearchInv, SearchTypeOK
    <2>3. CASE dense' # "found"
      <3>1. dense' = "failed" /\ hits' = hits /\ failure' # {} /\ failure' \in {{}, {"timeout"}, {"error"}}
        BY <1>4, <2>3 DEF DenseEnds, Ends, SearchInv
      <3>2. status # 200 \/ hits.dense = <<>>
        BY <2>1 DEF SearchInv
      <3> QED BY <1>1, <2>1, <3>1, <3>2 DEF SearchInv, SearchTypeOK
    <2> QED BY <2>2, <2>3
  <1>5. CASE BM25Ends
    <2>1. asked' = asked /\ dense' = dense /\ status' = status /\ bm25 = "running"
      BY <1>5 DEF BM25Ends, Ends
    <2>2. CASE bm25' = "found"
      <3>1. PICK list \in Lists : hits' = [hits EXCEPT !.bm25 = list]
        BY <1>5, <2>2 DEF BM25Ends
      <3>2. failure' = failure
        BY <1>5, <2>2 DEF BM25Ends, Ends
      <3> QED BY <1>1, <2>1, <2>2, <3>1, <3>2 DEF SearchInv, SearchTypeOK
    <2>3. CASE bm25' # "found"
      <3>1. bm25' = "failed" /\ hits' = hits /\ failure' # {} /\ failure' \in {{}, {"timeout"}, {"error"}}
        BY <1>5, <2>3 DEF BM25Ends, Ends, SearchInv
      <3> QED BY <1>1, <2>1, <3>1 DEF SearchInv, SearchTypeOK
    <2> QED BY <2>2, <2>3
  <1>6. CASE Responds
    <2>1. status' \in {200, 500, 504} /\ (status' = 200 => failure = {})
      BY <1>6 DEF Responds, SearchInv
    <2>2. UNCHANGED <<asked, dense, bm25, hits, failure>> /\ {dense, bm25} # {"idle"} /\ "running" \notin {dense, bm25}
      BY <1>6 DEF Responds
    <2> QED BY <1>1, <2>1, <2>2 DEF SearchInv, SearchTypeOK
  <1>7. CASE UNCHANGED searchVars
    BY <1>1, <1>7 DEF searchVars, SearchInv, SearchTypeOK
  <1> QED BY <1>2, <1>3, <1>4, <1>5, <1>6, <1>7 DEF SearchStep

\* What is answered is the fusion of what was found.
LEMMA InvFuses == SearchInv => RankingIsFused
  <1> SUFFICES ASSUME SearchInv, status = 200
               PROVE  RankingIsFused
    BY DEF SearchInv, RankingIsFused
  <1> DEFINE D == hits.dense
             B == hits.bm25
             found == {h.url : h \in ToSet(D) \cup ToSet(B)}
             n == Cardinality(found)
             all == fuse(pages(D), pages(B))
  <1>1. IsFusion(D, B, found, n, all)
    BY DEF IsFusion
  <1>2. Results = IF Len(all) > limit THEN SubSeq(all, 1, limit) ELSE all
    BY DEF Results
  <1>3. RankingIsFused <=>
        /\ SearchTypeOK
        /\ Len(Results) = (IF n < limit THEN n ELSE limit)
        /\ \A i, j \in DOMAIN Results : Results[i].url = Results[j].url => i = j
        /\ \A u, v \in found :
                (/\ \A list \in {D, B} : NoWorse(list, u, v)
                 /\ \E list \in {D, B} : Better(list, u, v)
                 /\ \E i \in DOMAIN Results : Results[i].url = v)
                => \E i, j \in DOMAIN Results : i < j /\ Results[i].url = u /\ Results[j].url = v
        /\ \A r \in ToSet(Results) :
                \E list \in {D, B} :
                    /\ Has(list, r.url)
                    /\ r.snippet = list[FirstOf(list, r.url)].text
                    /\ \A other \in {D, B} : Has(other, r.url) => Place(list, r.url) <= Place(other, r.url)
        /\ "failed" \notin {dense, bm25}
    BY DEF RankingIsFused
  <1>4. IsRanked(D) /\ IsRanked(B)
    <2>1. IsRanked(<<>>)
      BY DEF IsRanked
    <2>2. D \in Lists \cup {<<>>} /\ B \in Lists \cup {<<>>}
      BY DEF SearchInv
    <2> QED BY <2>1, <2>2, SearchesAreRanked
  <1>5. mode \in {"hybrid", "dense", "bm25"} /\ (mode = "dense" => B = <<>>) /\ (mode = "bm25" => D = <<>>)
    BY DEF SearchInv, RequestIsValid
  <1>6. limit \in Nat
    BY SearchIsConfigured DEF SearchInv, RequestIsValid, LimitIsValid, limit, Given
  <1>7. "failed" \notin {dense, bm25} /\ SearchTypeOK
    BY DEF SearchInv
  <1> HIDE DEF D, B, found, n, all
  <1>8. /\ n \in Nat /\ DOMAIN all = 1..n /\ all \in Seq({all[i] : i \in 1..n})
        /\ \A i \in 1..n : all[i].url \in found
        /\ \A u \in found : \E i \in 1..n : all[i].url = u
        /\ \A i, j \in 1..n : all[i].url = all[j].url => i = j
        /\ \A i, j \in 1..n :
             /\ NoWorse(D, all[i].url, all[j].url) /\ NoWorse(B, all[i].url, all[j].url)
             /\ Better(D, all[i].url, all[j].url) \/ Better(B, all[i].url, all[j].url)
             => i < j
        /\ \A i \in 1..n : \E list \in {D, B} :
             /\ Has(list, all[i].url) /\ all[i].snippet = list[FirstOf(list, all[i].url)].text
             /\ \A other \in {D, B} : Has(other, all[i].url) => Place(list, all[i].url) <= Place(other, all[i].url)
    <2>1. IsRightFusion(D, B, found, n, all)
      BY <1>1, <1>4, <1>5, FuseOfLists
    <2> QED BY <2>1 DEF IsRightFusion
  <1> DEFINE m == IF n < limit THEN n ELSE limit
             shown == Results
  <1>9. /\ m \in Nat /\ m <= n /\ Len(shown) = m /\ DOMAIN shown = 1..m
        /\ \A i \in 1..m : i \in 1..n /\ shown[i] = all[i]
    <2>1. Len(all) = n
      BY <1>8
    <2>2. CASE n > limit
      <3>1. shown = SubSeq(all, 1, limit)
        BY <1>2, <2>1, <2>2
      <3> HIDE DEF shown
      <3> QED BY <1>6, <1>8, <2>1, <2>2, <3>1
    <2>3. CASE ~(n > limit)
      <3>1. shown = all /\ m = n
        BY <1>2, <1>6, <1>8, <2>1, <2>3
      <3> HIDE DEF shown, m
      <3> QED BY <1>8, <2>1, <3>1
    <2> QED BY <2>2, <2>3
  <1> HIDE DEF shown
  <1>10. \A i, j \in DOMAIN shown : shown[i].url = shown[j].url => i = j
    BY <1>8, <1>9
  <1>11. ASSUME NEW u \in found, NEW v \in found,
                \A list \in {D, B} : NoWorse(list, u, v),
                \E list \in {D, B} : Better(list, u, v),
                \E i \in DOMAIN shown : shown[i].url = v
         PROVE  \E i, j \in DOMAIN shown : i < j /\ shown[i].url = u /\ shown[j].url = v
    <2>1. PICK j \in 1..m : shown[j].url = v
      BY <1>9, <1>11
    <2>2. PICK i \in 1..n : all[i].url = u
      BY <1>8
    <2>3. j \in 1..n /\ all[j].url = v
      BY <1>9, <2>1
    <2>4. i < j
      BY <1>8, <1>11, <2>2, <2>3
    <2>5. i \in 1..m
      BY <1>9, <2>1, <2>2, <2>4
    <2> QED BY <1>9, <2>1, <2>2, <2>4, <2>5
  <1>12. ASSUME NEW r \in ToSet(shown)
         PROVE  \E list \in {D, B} :
                    /\ Has(list, r.url)
                    /\ r.snippet = list[FirstOf(list, r.url)].text
                    /\ \A other \in {D, B} : Has(other, r.url) => Place(list, r.url) <= Place(other, r.url)
    <2>1. PICK i \in 1..n : r = all[i]
      BY <1>9, <1>12 DEF ToSet
    <2> QED BY <1>8, <2>1
  <1> QED BY <1>3, <1>7, <1>9, <1>10, <1>11, <1>12 DEF shown

\* However the two searches end, and whatever they find: what a search answers is
\* every page found, once, up to the limit, in an order that agrees with the lists
\* where they agree, with the text of the list that places it highest, and nothing
\* from one list where the other has failed (retrieval.go:70-243).
THEOREM SearchIsFused ==
    ASSUME NEW p \in Parameters
    PROVE  SearchStarts(p) /\ [][SearchStep]_searchVars => []RankingIsFused
  <1>1. SearchStarts(p) => SearchInv
    BY SearchBegins
  <1> QED BY <1>1, SearchGoesOn, InvFuses, PTL
=============================================================================
