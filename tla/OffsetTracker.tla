--------------------------- MODULE OffsetTracker ---------------------------
(***************************************************************************)
(* The consuming half of KafkaQueue (processor/queue/kafka_queue.go) with  *)
(* its offsetTracker (offsets.go): on every node a loop polls records,     *)
(* tracks each and hands it to the workers; workers ack in any order; a    *)
(* committer takes what may be committed once per flush interval; and      *)
(* partitions move between nodes at any time.                              *)
(*                                                                         *)
(* The broker and the client library are external.  They are modelled by   *)
(* what the code leaves to them: a group member's commit moves the         *)
(* partition's committed offset to whatever it says; a member the group    *)
(* has dropped is refused; a newly assigned partition is read from its     *)
(* committed offset; and the revoke callback runs beside the loops, also   *)
(* while the loop is in the middle of the records of its last poll (the    *)
(* client is not told to block rebalances while it polls).                 *)
(* A graceful exit is the same as a crash after the committer's last step. *)
(***************************************************************************)
EXTENDS Integers, Sequences, FiniteSets

CONSTANTS
    Nodes,       \* members of the consumer group
    Partitions,  \* partitions of the topic
    LogLen,      \* bound: records in a partition at most, offsets 0 .. LogLen - 1
    BatchSize,   \* bound: records one poll returns at most
    MaxGen,      \* bound: how often a partition is assigned; it is taken away from
                 \* its owner only while it may be assigned again
    Plans,       \* the environments: the kinds of rebalance and of fault that may
                 \* happen, how many in one behaviour, and the length of the log
    None         \* no record, no node

\* "revoke" is no fault and is not counted as one; an environment without it is
\* one whose members never change.
FaultKinds == {"revoke", "midBatch", "commitFails", "replyLost", "fence", "crash"}

ASSUME TrackerAssumption ==
    /\ LogLen \in Nat /\ BatchSize \in Nat \ {0} /\ MaxGen \in Nat
    /\ Plans \subseteq [kinds : SUBSET FaultKinds, max : Nat, log : 0 .. LogLen]
    /\ None \notin Nodes

VARIABLES
    \* the broker
    broker,     \* broker[p]: committed offset, the next one to deliver
    owner,      \* owner[p]: the member p is assigned to
    gen,        \* gen[p]: number of assignments of p so far
    fenced,     \* members the group has dropped and that do not know it yet
    \* each node
    session,    \* session[n][p]: the assignment under which n reads p, 0 if none
    pos,        \* pos[n][p]: next offset n fetches from p
    batch,      \* batch[n]: records of the last poll not yet iterated over
    held,       \* held[n]: records handed to the workers of n and not acked
    inFlight,   \* inFlight[n][p]: the tracked records of p, in delivery order
    committed,  \* committed[n][p]: the newest committable record of p
    taken,      \* taken[n]: what the committer of n is committing
    revoking,   \* revoking[n]: what the revoke callback of n is committing
    \* history
    acked,      \* records acked by a worker
    plan        \* the environment of this behaviour; its max counts down

brokerVars  == <<broker, owner, gen, fenced>>
trackerVars == <<inFlight, committed>>
vars == <<broker, owner, gen, fenced, session, pos, batch, held, inFlight, committed,
          taken, revoking, acked, plan>>

\* One delivery of a record: the same offset delivered under another assignment
\* is another record, as it is another *kgo.Record in the code.
Record == [part : Partitions, off : 0 .. LogLen - 1, gen : 1 .. MaxGen]
Tracked == [rec : Record, done : BOOLEAN]

TypeOK ==
    /\ broker \in [Partitions -> 0 .. LogLen]
    /\ owner \in [Partitions -> Nodes \cup {None}]
    /\ gen \in [Partitions -> 0 .. MaxGen]
    /\ fenced \subseteq Nodes
    /\ session \in [Nodes -> [Partitions -> 0 .. MaxGen]]
    /\ pos \in [Nodes -> [Partitions -> 0 .. LogLen]]
    /\ batch \in [Nodes -> Seq(Record)]
    /\ held \in [Nodes -> SUBSET Record]
    /\ inFlight \in [Nodes -> [Partitions -> Seq(Tracked)]]
    /\ committed \in [Nodes -> [Partitions -> Record \cup {None}]]
    /\ taken \in [Nodes -> SUBSET Record]
    /\ revoking \in [Nodes -> SUBSET Record]
    /\ acked \subseteq Record
    /\ \E e \in Plans : plan \in [kinds : {e.kinds}, log : {e.log}, max : 0 .. e.max]

Init ==
    /\ broker = [p \in Partitions |-> 0]
    /\ owner = [p \in Partitions |-> None]
    /\ gen = [p \in Partitions |-> 0]
    /\ fenced = {}
    /\ session = [n \in Nodes |-> [p \in Partitions |-> 0]]
    /\ pos = [n \in Nodes |-> [p \in Partitions |-> 0]]
    /\ batch = [n \in Nodes |-> <<>>]
    /\ held = [n \in Nodes |-> {}]
    /\ inFlight = [n \in Nodes |-> [p \in Partitions |-> <<>>]]
    /\ committed = [n \in Nodes |-> [p \in Partitions |-> None]]
    /\ taken = [n \in Nodes |-> {}]
    /\ revoking = [n \in Nodes |-> {}]
    /\ acked = {}
    /\ plan \in Plans

Fault(k) ==
    /\ k \in plan.kinds
    /\ plan.max > 0
    /\ plan' = [plan EXCEPT !.max = @ - 1]

Owns(n, p) == session[n][p] > 0

-----------------------------------------------------------------------------
(* offsets.go.                                                              *)

Track(n, rec) ==
    inFlight' = [inFlight EXCEPT ![n][rec.part] =
                    Append(@, [rec |-> rec, done |-> FALSE])]

\* The record itself is looked for, not its offset.
Marked(queue, rec) ==
    [i \in DOMAIN queue |-> IF queue[i].rec = rec THEN [queue[i] EXCEPT !.done = TRUE]
                                                  ELSE queue[i]]

\* Mutant: gaps are not looked for.
AdvancedOverGaps(queue) == Cardinality({i \in DOMAIN queue : queue[i].done})

\* How many records at the head of the queue are done.
Advanced(queue) ==
    Cardinality({i \in DOMAIN queue : \A j \in 1 .. i : queue[j].done})

\* Mutant: what was acked last is committed next.
DoneInAnyOrder(n, rec) ==
    LET rest == SelectSeq(inFlight[n][rec.part], LAMBDA x : x.rec # rec)
    IN /\ inFlight' = [inFlight EXCEPT ![n][rec.part] = rest]
       /\ committed' = IF rest # inFlight[n][rec.part]
                       THEN [committed EXCEPT ![n][rec.part] = rec]
                       ELSE committed

Done(n, rec) ==
    LET queue == Marked(inFlight[n][rec.part], rec)
        k     == Advanced(queue)
    IN /\ inFlight' = [inFlight EXCEPT ![n][rec.part] = SubSeq(queue, k + 1, Len(queue))]
       /\ committed' = IF k > 0
                       THEN [committed EXCEPT ![n][rec.part] = queue[k].rec]
                       ELSE committed

Committable(n) == {committed[n][p] : p \in Partitions} \ {None}

\* Mutant: what became committable in the meantime is overwritten.
RestoredBlindly(n, records) ==
    [committed EXCEPT ![n] = [p \in Partitions |->
        LET failed == {r \in records : r.part = p}
        IN IF failed = {} THEN committed[n][p] ELSE CHOOSE r \in failed : TRUE]]

\* restore, for a commit that failed.
Restored(n, records) ==
    [committed EXCEPT ![n] = [p \in Partitions |->
        LET failed == {r \in records : /\ r.part = p
                                       /\ committed[n][p] = None \/ committed[n][p].off < r.off}
        IN IF failed = {} THEN committed[n][p] ELSE CHOOSE r \in failed : TRUE]]

\* Mutant: only the records in flight are forgotten.
ReleaseInFlight(n, ps) ==
    /\ inFlight' = [inFlight EXCEPT ![n] =
                      [p \in Partitions |-> IF p \in ps THEN <<>> ELSE @[p]]]
    /\ UNCHANGED committed

\* release, for the partitions ps; what it returns is Committable restricted to
\* them, in the state before.
Release(n, ps) ==
    /\ inFlight' = [inFlight EXCEPT ![n] =
                      [p \in Partitions |-> IF p \in ps THEN <<>> ELSE @[p]]]
    /\ committed' = [committed EXCEPT ![n] =
                      [p \in Partitions |-> IF p \in ps THEN None ELSE @[p]]]

-----------------------------------------------------------------------------
(* The loops of a node.                                                     *)

Poll(n, p, k) ==
    /\ batch[n] = <<>>
    /\ Owns(n, p)
    /\ pos[n][p] + k <= plan.log
    /\ batch' = [batch EXCEPT ![n] =
          [i \in 1 .. k |-> [part |-> p, off |-> pos[n][p] + i - 1, gen |-> session[n][p]]]]
    /\ pos' = [pos EXCEPT ![n][p] = @ + k]
    /\ UNCHANGED <<brokerVars, session, held, trackerVars, taken, revoking, acked, plan>>

\* The next record of the poll is tracked and sent to the workers.
Deliver(n) ==
    /\ batch[n] # <<>>
    /\ Track(n, Head(batch[n]))
    /\ held' = [held EXCEPT ![n] = @ \cup {Head(batch[n])}]
    /\ batch' = [batch EXCEPT ![n] = Tail(@)]
    /\ UNCHANGED <<brokerVars, session, pos, committed, taken, revoking, acked, plan>>

Ack(n, rec) ==
    /\ rec \in held[n]
    /\ Done(n, rec)
    /\ held' = [held EXCEPT ![n] = @ \ {rec}]
    /\ acked' = acked \cup {rec}
    /\ UNCHANGED <<brokerVars, session, pos, batch, taken, revoking, plan>>

\* The committer's tick: take.
Take(n) ==
    /\ taken[n] = {}
    /\ Committable(n) # {}
    /\ taken' = [taken EXCEPT ![n] = Committable(n)]
    /\ committed' = [committed EXCEPT ![n] = [p \in Partitions |-> None]]
    /\ UNCHANGED <<brokerVars, session, pos, batch, held, inFlight, revoking, acked, plan>>

\* The offset that stands for a committed record: the next one to read.
NextOffset(rec) == rec.off + 1

\* CommitRecords on records: it works; or it fails - the member was dropped, or
\* the request timed out, before or after the broker took it - and the records
\* are put back.
CommitRecords(n, records) ==
    LET moved == [p \in Partitions |->
                    IF \E r \in records : r.part = p
                    THEN NextOffset(CHOOSE r \in records : r.part = p) ELSE broker[p]]
    IN \/ /\ n \notin fenced
          /\ broker' = moved
          /\ UNCHANGED <<committed, plan>>
       \/ /\ n \in fenced
          /\ committed' = Restored(n, records)
          /\ UNCHANGED <<broker, plan>>
       \/ /\ Fault("commitFails")
          /\ committed' = Restored(n, records)
          /\ UNCHANGED broker
       \/ /\ Fault("replyLost")
          /\ n \notin fenced
          /\ broker' = moved
          /\ committed' = Restored(n, records)

Commit(n) ==
    /\ taken[n] # {}
    /\ CommitRecords(n, taken[n])
    /\ taken' = [taken EXCEPT ![n] = {}]
    /\ UNCHANGED <<owner, gen, fenced, session, pos, batch, held, inFlight, revoking, acked>>

-----------------------------------------------------------------------------
(* Rebalances.                                                              *)

\* A rebalance while records of p wait in the loop of n is a fault of its own
\* kind, so that an environment without it can be told apart.
MidBatch(n, ps) ==
    IF \E i \in DOMAIN batch[n] : batch[n][i].part \in ps
    THEN Fault("midBatch") ELSE UNCHANGED plan

\* onRevoked, first half: release.  With nothing to commit it is over at once.
Revoke(n, p) ==
    /\ "revoke" \in plan.kinds /\ gen[p] < MaxGen
    /\ Owns(n, p) /\ n \notin fenced
    /\ revoking[n] = {}
    /\ MidBatch(n, {p})
    /\ session' = [session EXCEPT ![n][p] = 0]
    /\ Release(n, {p})
    /\ revoking' = [revoking EXCEPT ![n] = {committed[n][p]} \ {None}]
    /\ owner' = IF committed[n][p] = None THEN [owner EXCEPT ![p] = None] ELSE owner
    /\ UNCHANGED <<broker, gen, fenced, pos, batch, held, taken, acked>>

\* onRevoked, second half: commit; only then may the partition go to another.
RevokeCommit(n) ==
    /\ revoking[n] # {}
    /\ CommitRecords(n, revoking[n])
    /\ revoking' = [revoking EXCEPT ![n] = {}]
    /\ owner' = [p \in Partitions |->
                   IF owner[p] = n /\ \E r \in revoking[n] : r.part = p THEN None ELSE owner[p]]
    /\ UNCHANGED <<gen, fenced, session, pos, batch, held, inFlight, taken, acked>>

Assign(n, p) ==
    /\ owner[p] = None
    /\ n \notin fenced
    /\ revoking[n] = {}
    /\ gen[p] < MaxGen
    /\ owner' = [owner EXCEPT ![p] = n]
    /\ gen' = [gen EXCEPT ![p] = @ + 1]
    /\ session' = [session EXCEPT ![n][p] = gen[p] + 1]
    /\ pos' = [pos EXCEPT ![n][p] = broker[p]]
    /\ UNCHANGED <<broker, fenced, batch, held, trackerVars, taken, revoking, acked, plan>>

\* The group drops n, whose session timed out; n goes on until it finds out.
Fence(n) ==
    /\ n \notin fenced
    /\ \E p \in Partitions : owner[p] = n
    /\ \A p \in Partitions : owner[p] = n => gen[p] < MaxGen
    /\ Fault("fence")
    /\ fenced' = fenced \cup {n}
    /\ owner' = [p \in Partitions |-> IF owner[p] = n THEN None ELSE owner[p]]
    /\ UNCHANGED <<broker, gen, session, pos, batch, held, trackerVars, taken, revoking, acked>>

\* onLost: release without a commit; the member joins again.
Lost(n) ==
    /\ n \in fenced
    /\ revoking[n] = {}
    /\ LET ps == {p \in Partitions : Owns(n, p)} IN MidBatch(n, ps) /\ Release(n, ps)
    /\ fenced' = fenced \ {n}
    /\ session' = [session EXCEPT ![n] = [p \in Partitions |-> 0]]
    /\ UNCHANGED <<broker, owner, gen, pos, batch, held, taken, revoking, acked>>

Crash(n) ==
    /\ \A p \in Partitions : owner[p] = n => gen[p] < MaxGen
    /\ Fault("crash")
    /\ owner' = [p \in Partitions |-> IF owner[p] = n THEN None ELSE owner[p]]
    /\ fenced' = fenced \ {n}
    /\ session' = [session EXCEPT ![n] = [p \in Partitions |-> 0]]
    /\ batch' = [batch EXCEPT ![n] = <<>>]
    /\ held' = [held EXCEPT ![n] = {}]
    /\ Release(n, Partitions)
    /\ taken' = [taken EXCEPT ![n] = {}]
    /\ revoking' = [revoking EXCEPT ![n] = {}]
    /\ UNCHANGED <<broker, gen, pos, acked>>

-----------------------------------------------------------------------------

Next ==
    \E n \in Nodes :
        \/ \E p \in Partitions :
              \/ \E k \in 1 .. BatchSize : Poll(n, p, k)
              \/ Revoke(n, p) \/ Assign(n, p)
        \/ Deliver(n)
        \/ \E rec \in held[n] : Ack(n, rec)
        \/ Take(n) \/ Commit(n) \/ RevokeCommit(n)
        \/ Fence(n) \/ Lost(n) \/ Crash(n)

Spec == Init /\ [][Next]_vars

\* The loops run, the workers ack what they were handed, callbacks return, and a
\* partition nobody owns is assigned.  Nothing makes a rebalance happen.
Fairness ==
    /\ \A n \in Nodes :
          /\ WF_vars(\E p \in Partitions, k \in 1 .. BatchSize : Poll(n, p, k))
          /\ WF_vars(Deliver(n))
          /\ WF_vars(\E rec \in held[n] : Ack(n, rec))
          /\ WF_vars(Take(n)) /\ WF_vars(Commit(n))
          /\ WF_vars(RevokeCommit(n)) /\ WF_vars(Lost(n))
    /\ \A p \in Partitions : WF_vars(\E n \in Nodes : Assign(n, p))

FairSpec == Spec /\ Fairness

-----------------------------------------------------------------------------

\* A committed offset covers only records that were acked: "Its offset is
\* committed once every earlier message in its partition is acked as well; until
\* then a restart or rebalance redelivers it" (queue.go:28-30; offsets.go:19-22).
CommittedIsAcked ==
    \A p \in Partitions, o \in 0 .. LogLen - 1 :
        o < broker[p] => \E r \in acked : r.part = p /\ r.off = o

\* A tracked record is done only if that very delivery was acked: "a late ack from
\* the old delivery must not complete the new one" (offsets.go:44-45).
LateAckIgnored ==
    \A n \in Nodes, p \in Partitions : \A i \in DOMAIN inFlight[n][p] :
        inFlight[n][p][i].done => inFlight[n][p][i].rec \in acked

\* An environment in which members come and go only by crashing.
Steady == plan.kinds \cap {"revoke", "fence"} = {}

\* An environment in which partitions move too, but no commit fails and no poll is
\* interrupted.
Orderly == plan.kinds \cap {"fence", "commitFails", "replyLost", "midBatch"} = {}

\* What is due to be committed belongs to an assignment the node still has: "a
\* released partition must not be committed any more" (offsets_test.go:115;
\* offsets.go:98-100, kafka_queue.go:181).
CommittableIsOwned ==
    Steady \/ Orderly =>
        \A n \in Nodes, p \in Partitions : committed[n][p] # None => Owns(n, p)

\* The committed offset of a partition never goes back, whichever nodes commit it.
CommitNeverRewinds ==
    [][Steady => \A p \in Partitions : broker'[p] >= broker[p]]_vars

\* Nothing stays behind: when rebalances and faults end, every record is in the
\* end committed.
AllCommitted == Steady => <>[](\A p \in Partitions : broker[p] = plan.log)

\* The tracker agrees with the consumer group: it knows of no ack that was not
\* given to the delivery it tracks, and of no partition that is gone.
TrackerIsSound == TypeOK /\ LateAckIgnored /\ CommittableIsOwned
=============================================================================
