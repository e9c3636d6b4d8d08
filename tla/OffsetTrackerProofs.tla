------------------------ MODULE OffsetTrackerProofs ------------------------
(***************************************************************************)
(* What OffsetTracker promises, for every group of members, every number   *)
(* of partitions, every log and every poll size.                           *)
(*                                                                         *)
(* The records a member has polled of a partition it owns form one line:   *)
(* the tracked ones, then those of the poll still to be tracked, then the  *)
(* position it fetches from.  Their offsets have no gap, and every record  *)
(* below the first of them was acked.  This is what makes a commit right,  *)
(* and what a rebalance in the middle of a poll breaks.                    *)
(***************************************************************************)
EXTENDS OffsetTracker, FiniteSetTheorems, SequenceTheorems, WellFoundedInduction, TLAPS

\* No poll is interrupted: an environment without "midBatch", or one in which no
\* partition is ever taken from a live member.
Undisturbed == "midBatch" \notin plan.kinds \/ Steady

Acked(p, o) == \E r \in acked : r.part = p /\ r.off = o
AckedBelow(p, o) == \A i \in 0 .. LogLen - 1 : i < o => Acked(p, i)
Covered(r) == AckedBelow(r.part, r.off + 1)

\* Records of p in the poll of n that are still to be tracked, the offset of the
\* next one, and the offset of the oldest one that is not committable.
Waiting(n, p) == IF batch[n] # <<>> /\ batch[n][1].part = p THEN Len(batch[n]) ELSE 0
NextTracked(n, p) == pos[n][p] - Waiting(n, p)
Oldest(n, p) == NextTracked(n, p) - Len(inFlight[n][p])

BatchInLine ==
    \A n \in Nodes, p \in Partitions : batch[n] # <<>> /\ batch[n][1].part = p =>
        /\ Owns(n, p)
        /\ \A i \in 1 .. Len(batch[n]) :
              batch[n][i].part = p /\ batch[n][i].off = NextTracked(n, p) + i - 1

QueueInLine ==
    \A n \in Nodes, p \in Partitions : \A i \in 1 .. Len(inFlight[n][p]) :
        /\ Owns(n, p)
        /\ inFlight[n][p][i].rec.off = Oldest(n, p) + i - 1

LineIsAcked ==
    \A n \in Nodes, p \in Partitions : Owns(n, p) => AckedBelow(p, Oldest(n, p))

CommittableIsCovered ==
    \A n \in Nodes :
        /\ \A p \in Partitions : committed[n][p] # None => Covered(committed[n][p])
        /\ \A r \in taken[n] \cup revoking[n] : Covered(r)

InLine == BatchInLine /\ QueueInLine /\ LineIsAcked /\ CommittableIsCovered

\* Records are kept under their partition.
PartsAgree ==
    \A n \in Nodes, p \in Partitions :
        /\ \A i \in 1 .. Len(inFlight[n][p]) : inFlight[n][p][i].rec.part = p
        /\ committed[n][p] # None => committed[n][p].part = p

\* The revoke callback commits for partitions the member has given up.
RevokedIsGone == \A n \in Nodes : \A r \in revoking[n] : ~ Owns(n, r.part)

\* A member the group has not dropped is the owner of what it reads.
OwnerAgrees ==
    \A n \in Nodes, p \in Partitions : Owns(n, p) /\ n \notin fenced => owner[p] = n

\* In a steady group nobody is dropped, and what a member commits is its own.
SteadyGroup ==
    /\ "fence" \notin plan.kinds => fenced = {}
    /\ "revoke" \notin plan.kinds => \A n \in Nodes : revoking[n] = {}
    /\ Steady => \A n \in Nodes : \A r \in taken[n] : Owns(n, r.part)

\* What a member has committed, commits, may commit and has in flight follow one
\* another.
CommitsFollow ==
    \A n \in Nodes, p \in Partitions : Owns(n, p) =>
        /\ broker[p] <= Oldest(n, p)
        /\ committed[n][p] # None =>
              /\ committed[n][p].off < Oldest(n, p)
              /\ broker[p] <= committed[n][p].off + 1
        /\ \A r \in taken[n] : r.part = p =>
              /\ r.off < Oldest(n, p)
              /\ broker[p] <= r.off + 1
              /\ committed[n][p] # None => r.off < committed[n][p].off
              /\ \A s \in taken[n] : s.part = p => s = r

IInv ==
    /\ TypeOK
    /\ LateAckIgnored
    /\ PartsAgree
    /\ RevokedIsGone
    /\ OwnerAgrees
    /\ SteadyGroup
    /\ CommittableIsOwned
    /\ Undisturbed => InLine /\ CommittedIsAcked
    /\ Steady => CommitsFollow

-----------------------------------------------------------------------------
(* The operators of the model.                                              *)

\* A set of naturals that is not empty has a least element.
LEMMA LeastExists ==
    ASSUME NEW T, T \subseteq Nat, T # {}
    PROVE  \E x \in T : \A y \in T : x <= y
  <1> DEFINE R == OpToRel(<, Nat)
  <1>1. PICK x \in T : \A y \in T : ~ (<<y, x>> \in R)
    <2>1. IsWellFoundedOn(R, Nat)
      BY NatLessThanWellFounded
    <2> HIDE DEF R
    <2> QED BY <2>1, WFMin
  <1>2. \A y \in T : ~ (y < x)
    BY <1>1 DEF OpToRel
  <1> QED BY <1>2

\* What Advanced counts is the head of the queue: all of it is done.
LEMMA AdvancedIsDone ==
    ASSUME NEW queue \in Seq(Tracked)
    PROVE  /\ Advanced(queue) \in 0 .. Len(queue)
           /\ \A j \in 1 .. Advanced(queue) : queue[j].done
  <1> DEFINE S == {i \in DOMAIN queue : \A j \in 1 .. i : queue[j].done}
             T == {i \in 1 .. Len(queue) : ~ queue[i].done}
  <1>1. PICK k \in 0 .. Len(queue) : S = 1 .. k /\ \A j \in 1 .. k : queue[j].done
    <2>1. CASE T = {}
      <3>1. S = 1 .. Len(queue) /\ \A j \in 1 .. Len(queue) : queue[j].done
        BY <2>1
      <3> QED BY <3>1
    <2>2. CASE T # {}
      <3>1. PICK x \in T : \A y \in T : x <= y
        <4>1. T \subseteq Nat
          OBVIOUS
        <4> HIDE DEF T
        <4> QED BY <2>2, <4>1, LeastExists
      <3>2. S = 1 .. (x - 1) /\ \A j \in 1 .. (x - 1) : queue[j].done
        BY <3>1
      <3> QED BY <3>2
    <2> QED BY <2>1, <2>2
  <1>2. Cardinality(S) = k
    <2>1. Cardinality(1 .. k) = k
      BY FS_Interval
    <2> QED BY <1>1, <2>1
  <1> QED BY <1>1, <1>2 DEF Advanced

\* Faults use up the plan and change nothing else of it.
LEMMA PlanStep ==
    ASSUME TypeOK,
           plan' = plan \/ (plan.max > 0 /\ plan' = [plan EXCEPT !.max = @ - 1])
    PROVE  /\ \E e \in Plans : plan' \in [kinds : {e.kinds}, log : {e.log}, max : 0 .. e.max]
           /\ plan.kinds \subseteq FaultKinds /\ plan.log \in 0 .. LogLen
           /\ plan'.kinds = plan.kinds /\ plan'.log = plan.log
  <1>1. PICK e \in Plans : plan \in [kinds : {e.kinds}, log : {e.log}, max : 0 .. e.max]
    BY DEF TypeOK
  <1>2. e \in [kinds : SUBSET FaultKinds, max : Nat, log : 0 .. LogLen]
    BY TrackerAssumption DEF TrackerAssumption
  <1>3. plan' \in [kinds : {e.kinds}, log : {e.log}, max : 0 .. e.max]
    BY <1>1, <1>2
  <1> QED BY <1>1, <1>2, <1>3

\* Positions in a line are integers.
LEMMA LineType ==
    ASSUME TypeOK, NEW m \in Nodes, NEW q \in Partitions
    PROVE  /\ Len(inFlight[m][q]) \in Nat /\ Len(batch[m]) \in Nat /\ pos[m][q] \in Int
           /\ NextTracked(m, q) \in Int /\ Oldest(m, q) \in Int
           /\ Oldest(m, q) = NextTracked(m, q) - Len(inFlight[m][q])
  <1>1. Len(inFlight[m][q]) \in Nat /\ Len(batch[m]) \in Nat
    BY DEF TypeOK
  <1>2. pos[m][q] \in Int
    BY TrackerAssumption DEF TypeOK, TrackerAssumption
  <1>3. NextTracked(m, q) \in Int
    BY <1>1, <1>2 DEF NextTracked, Waiting
  <1>4. Oldest(m, q) = NextTracked(m, q) - Len(inFlight[m][q])
    BY DEF Oldest
  <1> QED BY <1>1, <1>2, <1>3, <1>4

\* The step takes the k oldest records, done by the ack of rec at the latest, off
\* the queue of p.
Shortened(n, p, rec, k) ==
    /\ k \in 0 .. Len(inFlight[n][p])
    /\ Len(inFlight'[n][p]) = Len(inFlight[n][p]) - k
    /\ \A i \in 1 .. Len(inFlight[n][p]) - k :
          /\ inFlight'[n][p][i].rec = inFlight[n][p][i + k].rec
          /\ inFlight'[n][p][i].done =>
                inFlight[n][p][i + k].done \/ inFlight[n][p][i + k].rec = rec
    /\ \A j \in 1 .. k : inFlight[n][p][j].done \/ inFlight[n][p][j].rec = rec
    /\ k = 0 => committed'[n][p] = committed[n][p]
    /\ k > 0 => committed'[n][p] = inFlight[n][p][k].rec

\* done moves the head of the queue that is done, and only that, to committed.
LEMMA DoneEffect ==
    ASSUME TypeOK, NEW n \in Nodes, NEW rec \in Record, Done(n, rec)
    PROVE  /\ inFlight' \in [Nodes -> [Partitions -> Seq(Tracked)]]
           /\ committed' \in [Nodes -> [Partitions -> Record \cup {None}]]
           /\ \A m \in Nodes, q \in Partitions : m # n \/ q # rec.part =>
                 inFlight'[m][q] = inFlight[m][q] /\ committed'[m][q] = committed[m][q]
           /\ \E k \in Nat : Shortened(n, rec.part, rec, k)
  <1> DEFINE p == rec.part
             queue == inFlight[n][p]
             marked == Marked(queue, rec)
             k == Advanced(marked)
  <1>1. /\ p \in Partitions /\ queue \in Seq(Tracked)
        /\ inFlight \in [Nodes -> [Partitions -> Seq(Tracked)]]
        /\ committed \in [Nodes -> [Partitions -> Record \cup {None}]]
    BY DEF TypeOK, Record
  <1>2. /\ marked \in Seq(Tracked) /\ Len(marked) = Len(queue)
        /\ \A i \in 1 .. Len(queue) :
              /\ marked[i].rec = queue[i].rec
              /\ marked[i].done => queue[i].done \/ queue[i].rec = rec
    <2>1. \A i \in 1 .. Len(queue) : queue[i] \in Tracked
      BY <1>1, ElementOfSeq
    <2>2. marked = [i \in 1 .. Len(queue) |->
                      IF queue[i].rec = rec THEN [queue[i] EXCEPT !.done = TRUE] ELSE queue[i]]
      BY <1>1 DEF Marked
    <2>3. \A i \in 1 .. Len(queue) :
             /\ marked[i] \in Tracked
             /\ marked[i].rec = queue[i].rec
             /\ marked[i].done => queue[i].done \/ queue[i].rec = rec
      BY <2>1, <2>2 DEF Tracked
    <2> HIDE DEF marked
    <2>4. Len(queue) \in Nat
      BY <1>1
    <2>5. marked \in [1 .. Len(queue) -> Tracked]
      BY <2>2, <2>3
    <2>6. marked \in Seq(Tracked) /\ Len(marked) = Len(queue)
      BY <2>4, <2>5
    <2> QED BY <2>3, <2>6
  <1> HIDE DEF marked
  <1>3. k \in 0 .. Len(queue) /\ \A j \in 1 .. k : marked[j].done
    BY <1>2, AdvancedIsDone
  <1> HIDE DEF k
  <1>4. /\ inFlight' = [inFlight EXCEPT ![n][p] = SubSeq(marked, k + 1, Len(marked))]
        /\ committed' = IF k > 0 THEN [committed EXCEPT ![n][p] = marked[k].rec]
                                 ELSE committed
    BY DEF Done, k, marked
  <1> DEFINE rest == SubSeq(marked, k + 1, Len(marked))
  <1>5. /\ rest \in Seq(Tracked) /\ Len(rest) = Len(queue) - k
        /\ \A i \in 1 .. Len(queue) - k : rest[i] = marked[i + k]
    <2>1. Len(queue) \in Nat
      BY <1>1
    <2>2. \A i \in k + 1 .. Len(marked) : marked[i] \in Tracked
      BY <1>2, <1>3, <2>1, ElementOfSeq
    <2> QED BY <1>2, <1>3, <2>1, <2>2, SubSeqProperties
  <1> HIDE DEF rest
  <1>6. inFlight' = [inFlight EXCEPT ![n][p] = rest]
    BY <1>4 DEF rest
  <1>7. k > 0 => marked[k].rec = queue[k].rec /\ marked[k].rec \in Record
    <2>1. \A i \in 1 .. Len(queue) : queue[i] \in Tracked
      BY <1>1, ElementOfSeq
    <2>2. Len(queue) \in Nat
      BY <1>1
    <2> QED BY <1>2, <1>3, <2>1, <2>2 DEF Tracked
  <1>8. /\ inFlight'[n][p] = rest
        /\ inFlight' \in [Nodes -> [Partitions -> Seq(Tracked)]]
        /\ \A m \in Nodes, q \in Partitions : m # n \/ q # p => inFlight'[m][q] = inFlight[m][q]
    BY <1>1, <1>5, <1>6
  <1>9. /\ committed' \in [Nodes -> [Partitions -> Record \cup {None}]]
        /\ k = 0 => committed'[n][p] = committed[n][p]
        /\ k > 0 => committed'[n][p] = queue[k].rec
        /\ \A m \in Nodes, q \in Partitions : m # n \/ q # p => committed'[m][q] = committed[m][q]
    <2>1. CASE k > 0
      BY <1>1, <1>4, <1>7, <2>1
    <2>2. CASE k = 0
      BY <1>1, <1>4, <2>2
    <2> QED BY <1>3, <2>1, <2>2
  <1>10. /\ \A i \in 1 .. Len(queue) - k :
               /\ inFlight'[n][p][i].rec = queue[i + k].rec
               /\ inFlight'[n][p][i].done => queue[i + k].done \/ queue[i + k].rec = rec
         /\ \A j \in 1 .. k : queue[j].done \/ queue[j].rec = rec
    <2>1. Len(queue) \in Nat
      BY <1>1
    <2> QED BY <1>2, <1>3, <1>5, <1>8, <2>1
  <1>11. ASSUME NEW m \in Nodes, NEW q \in Partitions, m # n \/ q # p
         PROVE  inFlight'[m][q] = inFlight[m][q] /\ committed'[m][q] = committed[m][q]
    BY <1>8, <1>9, <1>11
  <1>12. Len(inFlight'[n][p]) = Len(queue) - k
    BY <1>5, <1>8
  <1>13. k \in Nat /\ Shortened(n, p, rec, k)
    BY <1>1, <1>3, <1>9, <1>10, <1>12 DEF Shortened
  <1> QED BY <1>8, <1>9, <1>11, <1>13

\* restore puts back failed records only, over nothing or over an older one.
LEMMA RestoreEffect ==
    ASSUME TypeOK, NEW n \in Nodes, NEW records \in SUBSET Record
    PROVE  /\ Restored(n, records) \in [Nodes -> [Partitions -> Record \cup {None}]]
           /\ \A m \in Nodes, p \in Partitions :
                 \/ Restored(n, records)[m][p] = committed[m][p]
                 \/ /\ m = n
                    /\ Restored(n, records)[m][p] \in records
                    /\ Restored(n, records)[m][p].part = p
                    /\ \/ committed[m][p] = None
                       \/ committed[m][p].off < Restored(n, records)[m][p].off
  <1> DEFINE failed(p) == {r \in records : /\ r.part = p
                                           /\ \/ committed[n][p] = None
                                              \/ committed[n][p].off < r.off}
             new(p) == IF failed(p) = {} THEN committed[n][p] ELSE CHOOSE r \in failed(p) : TRUE
  <1>1. committed \in [Nodes -> [Partitions -> Record \cup {None}]]
    BY DEF TypeOK
  <1>2. Restored(n, records) = [committed EXCEPT ![n] = [p \in Partitions |-> new(p)]]
    BY DEF Restored
  <1>3. ASSUME NEW p \in Partitions
        PROVE  \/ new(p) = committed[n][p]
               \/ new(p) \in failed(p)
    <2>1. CASE failed(p) = {}
      BY <2>1
    <2>2. CASE failed(p) # {}
      <3> HIDE DEF failed
      <3> QED BY <2>2
    <2> QED BY <2>1, <2>2
  <1>4. \A p \in Partitions : new(p) \in Record \cup {None}
    BY <1>1, <1>3
  <1> HIDE DEF new
  <1>5. /\ Restored(n, records) \in [Nodes -> [Partitions -> Record \cup {None}]]
        /\ \A p \in Partitions : Restored(n, records)[n][p] = new(p)
        /\ \A m \in Nodes \ {n} : Restored(n, records)[m] = committed[m]
    BY <1>1, <1>2, <1>4
  <1> QED BY <1>3, <1>5

\* CommitRecords moves the committed offset of a partition to one of the records,
\* or puts the records back, or both.
LEMMA CommitEffect ==
    ASSUME TypeOK, NEW n \in Nodes, NEW records \in SUBSET Record,
           CommitRecords(n, records)
    PROVE  /\ broker' \in [Partitions -> 0 .. LogLen]
           /\ committed' \in [Nodes -> [Partitions -> Record \cup {None}]]
           /\ plan' = plan \/ (plan.max > 0 /\ plan' = [plan EXCEPT !.max = @ - 1])
           /\ \A p \in Partitions :
                 \/ broker'[p] = broker[p]
                 \/ \E r \in records : r.part = p /\ broker'[p] = r.off + 1
           /\ \A m \in Nodes, p \in Partitions :
                 \/ committed'[m][p] = committed[m][p]
                 \/ /\ m = n
                    /\ committed'[m][p] \in records
                    /\ committed'[m][p].part = p
                    /\ committed[m][p] = None \/ committed[m][p].off < committed'[m][p].off
           /\ Orderly /\ n \notin fenced => committed' = committed
  <1> DEFINE moved == [p \in Partitions |->
                    IF \E r \in records : r.part = p
                    THEN NextOffset(CHOOSE r \in records : r.part = p) ELSE broker[p]]
  <1>1. \/ broker' = moved \/ broker' = broker
    BY DEF CommitRecords
  <1>2. \/ committed' = committed \/ committed' = Restored(n, records)
    BY DEF CommitRecords
  <1>3. plan' = plan \/ (plan.max > 0 /\ plan' = [plan EXCEPT !.max = @ - 1])
    BY DEF CommitRecords, Fault
  <1>4. Orderly /\ n \notin fenced => committed' = committed
    BY DEF CommitRecords, Fault, Orderly
  <1>5. ASSUME NEW p \in Partitions, \E r \in records : r.part = p
        PROVE  \E r \in records : r.part = p /\ moved[p] = r.off + 1
    <2>1. PICK r \in records : r = CHOOSE s \in records : s.part = p
      BY <1>5
    <2>2. r.part = p
      BY <1>5, <2>1
    <2>3. moved[p] = r.off + 1
      BY <1>5, <2>1 DEF NextOffset
    <2> QED BY <2>2, <2>3
  <1>6. \A p \in Partitions :
           \/ moved[p] = broker[p]
           \/ \E r \in records : r.part = p /\ moved[p] = r.off + 1
    BY <1>5
  <1>7. broker \in [Partitions -> 0 .. LogLen]
    BY DEF TypeOK
  <1>8. moved \in [Partitions -> 0 .. LogLen]
    <2>1. \A p \in Partitions : moved[p] \in 0 .. LogLen
      BY <1>6, <1>7, TrackerAssumption DEF Record, TrackerAssumption
    <2>2. moved = [p \in Partitions |-> moved[p]]
      OBVIOUS
    <2> HIDE DEF moved
    <2> QED BY <2>1, <2>2
  <1> HIDE DEF moved
  <1>9. committed \in [Nodes -> [Partitions -> Record \cup {None}]]
    BY DEF TypeOK
  <1> QED BY <1>1, <1>2, <1>3, <1>4, <1>6, <1>7, <1>8, <1>9, RestoreEffect

-----------------------------------------------------------------------------
(* Type correctness, and what depends on no environment.                    *)

\* A step that is no fault, or is one, keeps the plan what it is.
LEMMA PlanIsKept ==
    ASSUME TypeOK, [Next]_vars
    PROVE  plan' = plan \/ (plan.max > 0 /\ plan' = [plan EXCEPT !.max = @ - 1])
  <1> SUFFICES ASSUME Next, plan' # plan
               PROVE  plan.max > 0 /\ plan' = [plan EXCEPT !.max = @ - 1]
    BY DEF vars
  <1> PICK n \in Nodes :
        \/ \E p \in Partitions : Revoke(n, p)
        \/ Commit(n) \/ RevokeCommit(n) \/ Fence(n) \/ Lost(n) \/ Crash(n)
    BY DEF Next, Poll, Assign, Deliver, Ack, Take
  <1> QED BY DEF Revoke, Commit, RevokeCommit, Fence, Lost, Crash, CommitRecords, MidBatch, Fault

LEMMA TypeStep ==
    ASSUME TypeOK, [Next]_vars
    PROVE  TypeOK'
  <1> USE TrackerAssumption DEF TrackerAssumption
  <1>1. /\ broker \in [Partitions -> 0 .. LogLen]
        /\ owner \in [Partitions -> Nodes \cup {None}]
        /\ gen \in [Partitions -> 0 .. MaxGen]
        /\ fenced \subseteq Nodes
        /\ session \in [Nodes -> [Partitions -> 0 .. MaxGen]]
        /\ pos \in [Nodes -> [Partitions -> 0 .. LogLen]]
        /\ batch \in [Nodes -> Seq(Record)]
        /\ held \in [Nodes -> SUBSET Record]
        /\ inFlight \in [Nodes -> [Partitions -> Seq(Tracked)]]
        /\ committed \in [Nodes -> [Partitions -> Record \cup {None}]]
        /\ taken \in [Nodes -> SUBSET Record]
        /\ revoking \in [Nodes -> SUBSET Record]
        /\ acked \subseteq Record
    BY DEF TypeOK
  <1>2. /\ \E e \in Plans : plan' \in [kinds : {e.kinds}, log : {e.log}, max : 0 .. e.max]
        /\ plan.log \in 0 .. LogLen
    BY PlanIsKept, PlanStep
  <1>3. CASE UNCHANGED vars
    BY <1>1, <1>2, <1>3 DEF vars, TypeOK
  <1>4. ASSUME NEW n \in Nodes, NEW p \in Partitions, NEW k \in 1 .. BatchSize, Poll(n, p, k)
        PROVE  TypeOK'
    <2>1. /\ pos[n][p] + k <= plan.log /\ session[n][p] \in 1 .. MaxGen
          /\ batch' = [batch EXCEPT ![n] =
                [i \in 1 .. k |-> [part |-> p, off |-> pos[n][p] + i - 1, gen |-> session[n][p]]]]
          /\ pos' = [pos EXCEPT ![n][p] = @ + k]
      BY <1>1, <1>4 DEF Poll, Owns
    <2>2. \A i \in 1 .. k :
             [part |-> p, off |-> pos[n][p] + i - 1, gen |-> session[n][p]] \in Record
      <3>1. pos[n][p] \in 0 .. LogLen /\ pos[n][p] + k <= LogLen
        BY <1>1, <1>2, <2>1
      <3>2. \A i \in 1 .. k : pos[n][p] + i - 1 \in 0 .. LogLen - 1
        BY <3>1
      <3> QED BY <2>1, <3>2 DEF Record
    <2>3. batch' \in [Nodes -> Seq(Record)]
      <3> DEFINE b == [i \in 1 .. k |-> [part |-> p, off |-> pos[n][p] + i - 1, gen |-> session[n][p]]]
      <3>1. b \in Seq(Record)
        BY <2>2
      <3> HIDE DEF b
      <3> QED BY <1>1, <2>1, <3>1 DEF b
    <2>4. pos' \in [Nodes -> [Partitions -> 0 .. LogLen]]
      <3>1. pos[n][p] \in 0 .. LogLen /\ pos[n][p] + k \in 0 .. LogLen
        BY SMTT(30), <1>1, <1>2, <2>1
      <3> QED BY <1>1, <2>1, <3>1
    <2> QED BY <1>1, <1>2, <1>4, <2>3, <2>4 DEF Poll, TypeOK, brokerVars, trackerVars
  <1>5. ASSUME NEW n \in Nodes, Deliver(n)
        PROVE  TypeOK'
    <2>1. /\ batch[n] # <<>> /\ batch[n] \in Seq(Record)
          /\ batch' = [batch EXCEPT ![n] = Tail(@)]
          /\ held' = [held EXCEPT ![n] = @ \cup {Head(batch[n])}]
          /\ inFlight' = [inFlight EXCEPT ![n][Head(batch[n]).part] =
                Append(@, [rec |-> Head(batch[n]), done |-> FALSE])]
      BY <1>1, <1>5 DEF Deliver, Track
    <2>2. Head(batch[n]) \in Record /\ Tail(batch[n]) \in Seq(Record)
      BY <2>1
    <2>3. [rec |-> Head(batch[n]), done |-> FALSE] \in Tracked /\ Head(batch[n]).part \in Partitions
      BY <2>2 DEF Tracked, Record
    <2>4. inFlight' \in [Nodes -> [Partitions -> Seq(Tracked)]]
      BY <1>1, <2>1, <2>3
    <2>5. batch' \in [Nodes -> Seq(Record)] /\ held' \in [Nodes -> SUBSET Record]
      BY <1>1, <2>1, <2>2
    <2> QED BY <1>1, <1>2, <1>5, <2>4, <2>5 DEF Deliver, TypeOK, brokerVars
  <1>6. ASSUME NEW n \in Nodes, NEW rec \in held[n], Ack(n, rec)
        PROVE  TypeOK'
    <2>1. rec \in Record /\ Done(n, rec)
      BY <1>1, <1>6 DEF Ack
    <2>2. /\ inFlight' \in [Nodes -> [Partitions -> Seq(Tracked)]]
          /\ committed' \in [Nodes -> [Partitions -> Record \cup {None}]]
      BY <2>1, DoneEffect
    <2>3. held' \in [Nodes -> SUBSET Record] /\ acked' \subseteq Record
      BY <1>1, <1>6, <2>1 DEF Ack
    <2> QED BY <1>1, <1>2, <1>6, <2>2, <2>3 DEF Ack, TypeOK, brokerVars
  <1>7. ASSUME NEW n \in Nodes, Take(n)
        PROVE  TypeOK'
    <2>1. Committable(n) \subseteq Record
      BY <1>1 DEF Committable
    <2>2. taken' \in [Nodes -> SUBSET Record]
      BY <1>1, <1>7, <2>1 DEF Take
    <2>3. committed' \in [Nodes -> [Partitions -> Record \cup {None}]]
      BY <1>1, <1>7 DEF Take
    <2> QED BY <1>1, <1>2, <1>7, <2>2, <2>3 DEF Take, TypeOK, brokerVars
  <1>8. ASSUME NEW n \in Nodes, Commit(n)
        PROVE  TypeOK'
    <2>1. /\ broker' \in [Partitions -> 0 .. LogLen]
          /\ committed' \in [Nodes -> [Partitions -> Record \cup {None}]]
      BY <1>1, <1>8, CommitEffect DEF Commit
    <2>2. taken' \in [Nodes -> SUBSET Record]
      BY <1>1, <1>8 DEF Commit
    <2> QED BY <1>1, <1>2, <1>8, <2>1, <2>2 DEF Commit, TypeOK
  <1>9. ASSUME NEW n \in Nodes, RevokeCommit(n)
        PROVE  TypeOK'
    <2>1. /\ broker' \in [Partitions -> 0 .. LogLen]
          /\ committed' \in [Nodes -> [Partitions -> Record \cup {None}]]
      BY <1>1, <1>9, CommitEffect DEF RevokeCommit
    <2>2. /\ revoking' \in [Nodes -> SUBSET Record]
          /\ owner' \in [Partitions -> Nodes \cup {None}]
      BY <1>1, <1>9 DEF RevokeCommit
    <2> QED BY <1>1, <1>2, <1>9, <2>1, <2>2 DEF RevokeCommit, TypeOK
  <1>10. ASSUME NEW n \in Nodes, NEW p \in Partitions, Revoke(n, p)
         PROVE  TypeOK'
    <2>1. /\ inFlight' \in [Nodes -> [Partitions -> Seq(Tracked)]]
          /\ committed' \in [Nodes -> [Partitions -> Record \cup {None}]]
      BY <1>1, <1>10 DEF Revoke, Release
    <2>2. /\ revoking' \in [Nodes -> SUBSET Record]
          /\ owner' \in [Partitions -> Nodes \cup {None}]
          /\ session' \in [Nodes -> [Partitions -> 0 .. MaxGen]]
      BY <1>1, <1>10 DEF Revoke
    <2> QED BY <1>1, <1>2, <1>10, <2>1, <2>2 DEF Revoke, TypeOK
  <1>11. ASSUME NEW n \in Nodes, NEW p \in Partitions, Assign(n, p)
         PROVE  TypeOK'
    <2>1. gen[p] + 1 \in 0 .. MaxGen
      BY <1>1, <1>11 DEF Assign
    <2>2. /\ owner' \in [Partitions -> Nodes \cup {None}]
          /\ gen' \in [Partitions -> 0 .. MaxGen]
      BY <1>1, <1>11, <2>1 DEF Assign
    <2>3. /\ session' \in [Nodes -> [Partitions -> 0 .. MaxGen]]
          /\ pos' \in [Nodes -> [Partitions -> 0 .. LogLen]]
      BY <1>1, <1>11, <2>1 DEF Assign
    <2> QED BY <1>1, <1>2, <1>11, <2>2, <2>3 DEF Assign, TypeOK, trackerVars
  <1>12. ASSUME NEW n \in Nodes, Fence(n)
         PROVE  TypeOK'
    BY <1>1, <1>2, <1>12 DEF Fence, TypeOK, trackerVars
  <1>13. ASSUME NEW n \in Nodes, Lost(n)
         PROVE  TypeOK'
    <2>1. /\ inFlight' \in [Nodes -> [Partitions -> Seq(Tracked)]]
          /\ committed' \in [Nodes -> [Partitions -> Record \cup {None}]]
      BY <1>1, <1>13 DEF Lost, Release
    <2>2. /\ fenced' \subseteq Nodes
          /\ session' \in [Nodes -> [Partitions -> 0 .. MaxGen]]
      BY <1>1, <1>13 DEF Lost
    <2> QED BY <1>1, <1>2, <1>13, <2>1, <2>2 DEF Lost, TypeOK
  <1>14. ASSUME NEW n \in Nodes, Crash(n)
         PROVE  TypeOK'
    <2>1. /\ inFlight' \in [Nodes -> [Partitions -> Seq(Tracked)]]
          /\ committed' \in [Nodes -> [Partitions -> Record \cup {None}]]
      BY <1>1, <1>14 DEF Crash, Release
    <2>2. /\ fenced' \subseteq Nodes
          /\ session' \in [Nodes -> [Partitions -> 0 .. MaxGen]]
          /\ owner' \in [Partitions -> Nodes \cup {None}]
          /\ batch' \in [Nodes -> Seq(Record)]
          /\ held' \in [Nodes -> SUBSET Record]
      BY <1>1, <1>14 DEF Crash
    <2>3. taken' \in [Nodes -> SUBSET Record] /\ revoking' \in [Nodes -> SUBSET Record]
      BY <1>1, <1>14 DEF Crash
    <2> QED BY <1>1, <1>2, <1>14, <2>1, <2>2, <2>3 DEF Crash, TypeOK
  <1> QED BY <1>3, <1>4, <1>5, <1>6, <1>7, <1>8, <1>9, <1>10, <1>11, <1>12, <1>13, <1>14
          DEF Next

\* What release and a crash leave of the queues, and of what may be committed.
LEMMA ReleaseEffect ==
    ASSUME TypeOK, NEW n \in Nodes, NEW ps \in SUBSET Partitions, Release(n, ps)
    PROVE  \A m \in Nodes, p \in Partitions :
              IF m = n /\ p \in ps
              THEN inFlight'[m][p] = <<>> /\ committed'[m][p] = None
              ELSE inFlight'[m][p] = inFlight[m][p] /\ committed'[m][p] = committed[m][p]
  BY DEF TypeOK, Release

\* The step puts r at the end of the queue of p.
Lengthened(n, p, r) ==
    /\ Len(inFlight'[n][p]) = Len(inFlight[n][p]) + 1
    /\ \A i \in 1 .. Len(inFlight[n][p]) : inFlight'[n][p][i] = inFlight[n][p][i]
    /\ inFlight'[n][p][Len(inFlight[n][p]) + 1].rec = r
    /\ ~ inFlight'[n][p][Len(inFlight[n][p]) + 1].done

\* The record that is tracked goes from the poll to the queue of its partition.
LEMMA TrackEffect ==
    ASSUME TypeOK, NEW n \in Nodes, Deliver(n)
    PROVE  /\ batch[n][1] \in Record /\ Len(batch[n]) > 0
           /\ Len(batch'[n]) = Len(batch[n]) - 1
           /\ \A i \in 1 .. Len(batch[n]) - 1 : batch'[n][i] = batch[n][i + 1]
           /\ \A m \in Nodes : m # n => batch'[m] = batch[m]
           /\ \A m \in Nodes, q \in Partitions : m # n \/ q # batch[n][1].part =>
                 inFlight'[m][q] = inFlight[m][q]
           /\ Lengthened(n, batch[n][1].part, batch[n][1])
  <1> DEFINE r == batch[n][1]
             queue == inFlight[n][r.part]
  <1>1. /\ batch \in [Nodes -> Seq(Record)]
        /\ inFlight \in [Nodes -> [Partitions -> Seq(Tracked)]]
    BY DEF TypeOK
  <1>2. batch[n] \in Seq(Record) /\ batch[n] # <<>> /\ Head(batch[n]) = r
    BY <1>1 DEF Deliver
  <1>3. /\ r \in Record /\ Len(batch[n]) > 0
        /\ Tail(batch[n]) \in Seq(Record)
        /\ Len(Tail(batch[n])) = Len(batch[n]) - 1
        /\ \A i \in 1 .. Len(batch[n]) - 1 : Tail(batch[n])[i] = batch[n][i + 1]
    BY <1>2
  <1>4. batch' = [batch EXCEPT ![n] = Tail(batch[n])]
    BY DEF Deliver
  <1>5. r.part \in Partitions /\ [rec |-> r, done |-> FALSE] \in Tracked
    BY <1>3 DEF Record, Tracked
  <1>6. inFlight' = [inFlight EXCEPT ![n][r.part] = Append(queue, [rec |-> r, done |-> FALSE])]
    BY <1>1, <1>2 DEF Deliver, Track
  <1>7. queue \in Seq(Tracked)
    BY <1>1, <1>5
  <1> DEFINE longer == Append(queue, [rec |-> r, done |-> FALSE])
  <1>8. /\ Len(longer) = Len(queue) + 1
        /\ \A i \in 1 .. Len(queue) : longer[i] = queue[i]
        /\ longer[Len(queue) + 1].rec = r
        /\ ~ longer[Len(queue) + 1].done
    <2> DEFINE x == [rec |-> r, done |-> FALSE]
    <2>1. x.rec = r /\ ~ x.done
      OBVIOUS
    <2> HIDE DEF x, queue
    <2> QED BY <1>5, <1>7, <2>1, AppendProperties DEF x
  <1> HIDE DEF longer
  <1>9. /\ inFlight'[n][r.part] = longer
        /\ \A m \in Nodes, p \in Partitions : m # n \/ p # r.part =>
              inFlight'[m][p] = inFlight[m][p]
    BY <1>1, <1>5, <1>6 DEF longer
  <1>10. /\ batch'[n] = Tail(batch[n])
         /\ \A m \in Nodes : m # n => batch'[m] = batch[m]
    BY <1>1, <1>4
  <1>11. Lengthened(n, r.part, r)
    BY <1>8, <1>9 DEF Lengthened
  <1> QED BY <1>3, <1>9, <1>10, <1>11

\* No ack completes another delivery than its own.
LEMMA LateAckStep ==
    ASSUME TypeOK, LateAckIgnored, [Next]_vars
    PROVE  LateAckIgnored'
  <1> SUFFICES ASSUME NEW m \in Nodes, NEW q \in Partitions, NEW i \in DOMAIN inFlight'[m][q],
                      inFlight'[m][q][i].done
               PROVE  inFlight'[m][q][i].rec \in acked'
    BY DEF LateAckIgnored
  <1>1. /\ inFlight \in [Nodes -> [Partitions -> Seq(Tracked)]]
        /\ inFlight' \in [Nodes -> [Partitions -> Seq(Tracked)]]
        /\ held \in [Nodes -> SUBSET Record]
    BY TypeStep DEF TypeOK
  <1>2. i \in 1 .. Len(inFlight'[m][q])
    BY <1>1
  <1>3. CASE UNCHANGED <<inFlight, acked>>
    BY <1>3 DEF LateAckIgnored
  <1>4. ASSUME NEW n \in Nodes, Deliver(n)
        PROVE  inFlight'[m][q][i].rec \in acked'
    <2>1. acked' = acked
      BY <1>4 DEF Deliver
    <2>2. CASE m # n \/ q # batch[n][1].part
      <3>1. inFlight'[m][q] = inFlight[m][q]
        BY <1>4, <2>2, TrackEffect
      <3> QED BY <2>1, <3>1 DEF LateAckIgnored
    <2>3. CASE m = n /\ q = batch[n][1].part
      <3>1. Lengthened(m, q, batch[n][1])
        BY <1>4, <2>3, TrackEffect
      <3>2. Len(inFlight[m][q]) \in Nat /\ DOMAIN inFlight[m][q] = 1 .. Len(inFlight[m][q])
        BY <1>1
      <3>3. i \in 1 .. Len(inFlight[m][q])
        BY <1>2, <3>1, <3>2 DEF Lengthened
      <3> QED BY <2>1, <3>1, <3>2, <3>3 DEF LateAckIgnored, Lengthened
    <2> QED BY <2>2, <2>3
  <1>5. ASSUME NEW n \in Nodes, NEW rec \in held[n], Ack(n, rec)
        PROVE  inFlight'[m][q][i].rec \in acked'
    <2>1. rec \in Record /\ Done(n, rec) /\ acked' = acked \cup {rec}
      BY <1>1, <1>5 DEF Ack
    <2>2. CASE m # n \/ q # rec.part
      BY <1>1, <2>1, <2>2, DoneEffect DEF LateAckIgnored
    <2>3. CASE m = n /\ q = rec.part
      <3>1. PICK k \in Nat : Shortened(m, q, rec, k)
        BY <2>1, <2>3, DoneEffect
      <3>2. Len(inFlight[m][q]) \in Nat /\ DOMAIN inFlight[m][q] = 1 .. Len(inFlight[m][q])
        BY <1>1
      <3>3. i \in 1 .. Len(inFlight[m][q]) - k /\ i + k \in DOMAIN inFlight[m][q]
        BY <1>2, <3>1, <3>2 DEF Shortened
      <3> QED BY <2>1, <3>1, <3>3 DEF LateAckIgnored, Shortened
    <2> QED BY <2>2, <2>3
  <1>6. ASSUME NEW n \in Nodes, NEW ps \in SUBSET Partitions, Release(n, ps), acked' = acked
        PROVE  inFlight'[m][q][i].rec \in acked'
    <2>1. CASE m = n /\ q \in ps
      BY <1>2, <1>6, <2>1, ReleaseEffect
    <2>2. CASE ~ (m = n /\ q \in ps)
      BY <1>6, <2>2, ReleaseEffect DEF LateAckIgnored
    <2> QED BY <2>1, <2>2
  <1>7. ASSUME NEW n \in Nodes, \/ \E p \in Partitions : Revoke(n, p)
                                \/ Lost(n) \/ Crash(n)
        PROVE  inFlight'[m][q][i].rec \in acked'
    BY <1>6, <1>7 DEF Revoke, Lost, Crash
  <1>8. ASSUME NEW n \in Nodes, \/ \E p \in Partitions :
                                      Assign(n, p) \/ \E k \in 1 .. BatchSize : Poll(n, p, k)
                                \/ Take(n) \/ Commit(n) \/ RevokeCommit(n) \/ Fence(n)
        PROVE  UNCHANGED <<inFlight, acked>>
    BY <1>8 DEF Assign, Poll, Take, Commit, RevokeCommit, Fence, trackerVars
  <1> QED BY <1>3, <1>4, <1>5, <1>7, <1>8 DEF Next, vars

\* What a step can do to the queue and the committable record of one partition of
\* one member: nothing, release it, track, ack, take, or put back.
QueueChange(m, q) ==
    \/ inFlight'[m][q] = inFlight[m][q] /\ committed'[m][q] = committed[m][q]
    \/ session'[m][q] = 0 /\ inFlight'[m][q] = <<>> /\ committed'[m][q] = None
    \/ /\ Deliver(m) /\ batch[m] # <<>> /\ batch[m][1].part = q
       /\ Lengthened(m, q, batch[m][1])
       /\ committed'[m][q] = committed[m][q]
    \/ \E rec \in held[m], k \in Nat :
          Ack(m, rec) /\ rec.part = q /\ Shortened(m, q, rec, k)
    \/ Take(m) /\ inFlight'[m][q] = inFlight[m][q] /\ committed'[m][q] = None
    \/ \E records \in {taken[m], revoking[m]} :
          /\ \/ Commit(m) /\ records = taken[m]
             \/ RevokeCommit(m) /\ records = revoking[m]
          /\ ~ (Orderly /\ m \notin fenced)
          /\ inFlight'[m][q] = inFlight[m][q]
          /\ committed'[m][q] \in records
          /\ committed'[m][q].part = q
          /\ committed[m][q] = None \/ committed[m][q].off < committed'[m][q].off

LEMMA QueueStep ==
    ASSUME TypeOK, [Next]_vars, NEW m \in Nodes, NEW q \in Partitions
    PROVE  QueueChange(m, q)
  <1>1. /\ held \in [Nodes -> SUBSET Record] /\ committed \in [Nodes -> [Partitions -> Record \cup {None}]]
        /\ taken \in [Nodes -> SUBSET Record] /\ revoking \in [Nodes -> SUBSET Record]
    BY DEF TypeOK
  <1>2. ASSUME UNCHANGED <<inFlight, committed>>
        PROVE  QueueChange(m, q)
    BY <1>2 DEF QueueChange
  <1>3. ASSUME NEW n \in Nodes, Deliver(n)
        PROVE  QueueChange(m, q)
    <2>1. committed' = committed /\ batch[n] # <<>>
      BY <1>3 DEF Deliver
    <2>2. CASE m # n \/ q # batch[n][1].part
      BY <1>3, <2>1, <2>2, TrackEffect DEF QueueChange
    <2>3. CASE m = n /\ q = batch[n][1].part
      BY <1>3, <2>1, <2>3, TrackEffect DEF QueueChange
    <2> QED BY <2>2, <2>3
  <1>4. ASSUME NEW n \in Nodes, NEW rec \in held[n], Ack(n, rec)
        PROVE  QueueChange(m, q)
    <2>1. rec \in Record /\ Done(n, rec)
      BY <1>1, <1>4 DEF Ack
    <2>2. CASE m # n \/ q # rec.part
      BY <2>1, <2>2, DoneEffect DEF QueueChange
    <2>3. CASE m = n /\ q = rec.part
      BY <1>4, <2>1, <2>3, DoneEffect DEF QueueChange
    <2> QED BY <2>2, <2>3
  <1>5. ASSUME NEW n \in Nodes, NEW ps \in SUBSET Partitions, Release(n, ps),
               \A p \in ps : session'[n][p] = 0
        PROVE  QueueChange(m, q)
    BY <1>5, ReleaseEffect DEF QueueChange
  <1>6. ASSUME NEW n \in Nodes, \/ \E p \in Partitions : Revoke(n, p)
                                \/ Lost(n) \/ Crash(n)
        PROVE  QueueChange(m, q)
    <2>1. \E ps \in SUBSET Partitions : Release(n, ps) /\ \A p \in ps : session'[n][p] = 0
      <3>1. session \in [Nodes -> [Partitions -> 0 .. MaxGen]]
        BY DEF TypeOK
      <3>2. ASSUME NEW p \in Partitions, Revoke(n, p)
            PROVE  Release(n, {p}) /\ session'[n][p] = 0
        BY <3>1, <3>2 DEF Revoke
      <3>3. ASSUME Lost(n) \/ Crash(n)
            PROVE  /\ \A p \in Partitions : session'[n][p] = 0
                   /\ \E ps \in SUBSET Partitions : Release(n, ps)
        BY <3>1, <3>3 DEF Lost, Crash
      <3>4. CASE \E p \in Partitions : Revoke(n, p)
        <4>1. PICK p \in Partitions : Revoke(n, p)
          BY <3>4
        <4>2. {p} \in SUBSET Partitions /\ Release(n, {p}) /\ \A r \in {p} : session'[n][r] = 0
          BY <3>2, <4>1
        <4> QED BY <4>2
      <3>5. CASE Lost(n) \/ Crash(n)
        BY <3>3, <3>5
      <3> QED BY <1>6, <3>4, <3>5
    <2> QED BY <1>5, <2>1
  <1>7. ASSUME NEW n \in Nodes, Take(n)
        PROVE  QueueChange(m, q)
    BY <1>1, <1>7 DEF Take, QueueChange
  <1>8. ASSUME NEW n \in Nodes, NEW records \in {taken[n], revoking[n]},
               CommitRecords(n, records), inFlight' = inFlight,
               \/ Commit(n) /\ records = taken[n]
               \/ RevokeCommit(n) /\ records = revoking[n]
        PROVE  QueueChange(m, q)
    <2>1. records \in SUBSET Record
      BY <1>1, <1>8
    <2>2. CASE committed'[m][q] = committed[m][q]
      BY <1>8, <2>2 DEF QueueChange
    <2>3. CASE committed'[m][q] # committed[m][q]
      <3>1. /\ m = n
            /\ committed'[m][q] \in records
            /\ committed'[m][q].part = q
            /\ committed[m][q] = None \/ committed[m][q].off < committed'[m][q].off
        BY <1>8, <2>1, <2>3, CommitEffect
      <3>2. ~ (Orderly /\ m \notin fenced)
        BY <1>8, <2>1, <2>3, <3>1, CommitEffect
      <3> QED BY <1>8, <3>1, <3>2 DEF QueueChange
    <2> QED BY <2>2, <2>3
  <1>9. ASSUME NEW n \in Nodes, Commit(n) \/ RevokeCommit(n)
        PROVE  QueueChange(m, q)
    <2>1. CASE Commit(n)
      <3>1. CommitRecords(n, taken[n]) /\ inFlight' = inFlight
        BY <2>1 DEF Commit
      <3> QED BY <1>8, <2>1, <3>1
    <2>2. CASE RevokeCommit(n)
      <3>1. CommitRecords(n, revoking[n]) /\ inFlight' = inFlight
        BY <2>2 DEF RevokeCommit
      <3> QED BY <1>8, <2>2, <3>1
    <2> QED BY <1>9, <2>1, <2>2
  <1>10. ASSUME NEW n \in Nodes, \/ \E p \in Partitions :
                                       Assign(n, p) \/ \E k \in 1 .. BatchSize : Poll(n, p, k)
                                 \/ Fence(n)
         PROVE  UNCHANGED <<inFlight, committed>>
    BY <1>10 DEF Assign, Poll, Fence, trackerVars
  <1> QED BY <1>2, <1>3, <1>4, <1>6, <1>7, <1>9, <1>10 DEF Next, vars

\* The kinds of the plan never change, so neither does the kind of environment.
LEMMA KindsStep ==
    ASSUME TypeOK, [Next]_vars
    PROVE  /\ plan'.kinds = plan.kinds
           /\ Steady' = Steady /\ Orderly' = Orderly /\ Undisturbed' = Undisturbed
  <1>1. plan'.kinds = plan.kinds
    BY PlanIsKept, PlanStep
  <1> QED BY <1>1 DEF Steady, Orderly, Undisturbed

\* A partition is gained by an assignment only, and is given up together with all
\* that is known of it.
LEMMA SessionStep ==
    ASSUME TypeOK, [Next]_vars, NEW m \in Nodes, NEW q \in Partitions
    PROVE  \/ session'[m][q] = session[m][q]
           \/ Assign(m, q) /\ session'[m][q] > 0
           \/ /\ Revoke(m, q) \/ Lost(m) \/ Crash(m)
              /\ session'[m][q] = 0
              /\ inFlight'[m][q] = <<>> /\ committed'[m][q] = None
  <1>1. session \in [Nodes -> [Partitions -> 0 .. MaxGen]] /\ gen \in [Partitions -> 0 .. MaxGen]
    BY DEF TypeOK
  <1>2. CASE session' = session
    BY <1>2
  <1>3. ASSUME NEW n \in Nodes, NEW p \in Partitions, Assign(n, p)
        PROVE  \/ session'[m][q] = session[m][q]
               \/ Assign(m, q) /\ session'[m][q] > 0
    <2>1. session' = [session EXCEPT ![n][p] = gen[p] + 1] /\ gen[p] \in Nat
      BY <1>1, <1>3 DEF Assign
    <2>2. CASE m # n \/ q # p
      BY <1>1, <2>1, <2>2
    <2>3. CASE m = n /\ q = p
      <3>1. session'[m][q] = gen[p] + 1
        BY <1>1, <2>1, <2>3
      <3> QED BY <1>3, <2>1, <2>3, <3>1
    <2> QED BY <2>2, <2>3
  <1>4. ASSUME NEW n \in Nodes, NEW p \in Partitions, Revoke(n, p)
        PROVE  \/ session'[m][q] = session[m][q]
               \/ /\ Revoke(m, q) /\ session'[m][q] = 0
                  /\ inFlight'[m][q] = <<>> /\ committed'[m][q] = None
    <2>1. session' = [session EXCEPT ![n][p] = 0] /\ Release(n, {p})
      BY <1>4 DEF Revoke
    <2>2. CASE m # n \/ q # p
      BY <1>1, <2>1, <2>2
    <2>3. CASE m = n /\ q = p
      <3>1. session'[m][q] = 0
        BY <1>1, <2>1, <2>3
      <3>2. inFlight'[m][q] = <<>> /\ committed'[m][q] = None
        BY <2>1, <2>3, ReleaseEffect
      <3> QED BY <1>4, <2>3, <3>1, <3>2
    <2> QED BY <2>2, <2>3
  <1>5. ASSUME NEW n \in Nodes, Lost(n) \/ Crash(n)
        PROVE  \/ session'[m][q] = session[m][q]
               \/ /\ Lost(m) \/ Crash(m)
                  /\ session'[m][q] = 0
                  /\ inFlight'[m][q] = <<>> /\ committed'[m][q] = None
    <2>1. session' = [session EXCEPT ![n] = [p \in Partitions |-> 0]]
      BY <1>5 DEF Lost, Crash
    <2>2. CASE m # n
      BY <1>1, <2>1, <2>2
    <2>3. CASE m = n
      <3>1. session'[m][q] = 0
        BY <1>1, <2>1, <2>3
      <3>2. CASE Owns(m, q)
        <4>1. \E ps \in SUBSET Partitions : q \in ps /\ Release(n, ps)
          BY <1>5, <2>3, <3>2 DEF Lost, Crash
        <4>2. inFlight'[m][q] = <<>> /\ committed'[m][q] = None
          BY <2>3, <4>1, ReleaseEffect
        <4> QED BY <1>5, <2>3, <3>1, <4>2
      <3>3. CASE ~ Owns(m, q)
        BY <1>1, <3>1, <3>3 DEF Owns
      <3> QED BY <3>2, <3>3
    <2> QED BY <2>2, <2>3
  <1>6. ASSUME NEW n \in Nodes,
               \/ \E p \in Partitions, k \in 1 .. BatchSize : Poll(n, p, k)
               \/ \E rec \in held[n] : Ack(n, rec)
               \/ Deliver(n) \/ Take(n) \/ Commit(n) \/ RevokeCommit(n) \/ Fence(n)
        PROVE  session' = session
    BY <1>6 DEF Poll, Ack, Deliver, Take, Commit, RevokeCommit, Fence
  <1> QED BY <1>2, <1>3, <1>4, <1>5, <1>6 DEF Next, vars

LEMMA PartsStep ==
    ASSUME TypeOK, PartsAgree, [Next]_vars
    PROVE  PartsAgree'
  <1>1. /\ inFlight \in [Nodes -> [Partitions -> Seq(Tracked)]]
        /\ inFlight' \in [Nodes -> [Partitions -> Seq(Tracked)]]
    BY TypeStep DEF TypeOK
  <1> SUFFICES ASSUME NEW m \in Nodes, NEW q \in Partitions
               PROVE  /\ \A i \in 1 .. Len(inFlight'[m][q]) : inFlight'[m][q][i].rec.part = q
                      /\ committed'[m][q] # None => committed'[m][q].part = q
    BY DEF PartsAgree
  <1>2. /\ \A i \in 1 .. Len(inFlight[m][q]) : inFlight[m][q][i].rec.part = q
        /\ committed[m][q] # None => committed[m][q].part = q
        /\ Len(inFlight[m][q]) \in Nat /\ Len(inFlight'[m][q]) \in Nat
    BY <1>1 DEF PartsAgree
  <1>3. ASSUME Lengthened(m, q, batch[m][1]), batch[m][1].part = q
        PROVE  \A i \in 1 .. Len(inFlight'[m][q]) : inFlight'[m][q][i].rec.part = q
    <2> SUFFICES ASSUME NEW i \in 1 .. Len(inFlight'[m][q])
                 PROVE  inFlight'[m][q][i].rec.part = q
      OBVIOUS
    <2>1. i \in 1 .. Len(inFlight[m][q]) \/ i = Len(inFlight[m][q]) + 1
      BY <1>2, <1>3 DEF Lengthened
    <2> QED BY <1>2, <1>3, <2>1 DEF Lengthened
  <1>4. ASSUME NEW rec, NEW k \in Nat, Shortened(m, q, rec, k)
        PROVE  /\ \A i \in 1 .. Len(inFlight'[m][q]) : inFlight'[m][q][i].rec.part = q
               /\ committed'[m][q] # None => committed'[m][q].part = q
    <2>1. k \in 0 .. Len(inFlight[m][q])
      BY <1>4 DEF Shortened
    <2>2. \A i \in 1 .. Len(inFlight'[m][q]) : inFlight'[m][q][i].rec.part = q
      <3> SUFFICES ASSUME NEW i \in 1 .. Len(inFlight'[m][q])
                   PROVE  inFlight'[m][q][i].rec.part = q
        OBVIOUS
      <3>1. i \in 1 .. Len(inFlight[m][q]) - k /\ i + k \in 1 .. Len(inFlight[m][q])
        BY <1>2, <1>4, <2>1 DEF Shortened
      <3>2. inFlight'[m][q][i].rec = inFlight[m][q][i + k].rec
        BY <1>4, <3>1 DEF Shortened
      <3> QED BY <1>2, <3>1, <3>2
    <2>3. CASE k = 0
      BY <1>2, <1>4, <2>2, <2>3 DEF Shortened
    <2>4. CASE k > 0
      BY <1>2, <1>4, <2>1, <2>2, <2>4 DEF Shortened
    <2> QED BY <2>3, <2>4
  <1> QED BY <1>2, <1>3, <1>4, QueueStep DEF QueueChange

LEMMA RevokedStep ==
    ASSUME TypeOK, PartsAgree, RevokedIsGone, [Next]_vars
    PROVE  RevokedIsGone'
  <1> SUFFICES ASSUME NEW m \in Nodes, NEW r \in revoking'[m]
               PROVE  ~ (session'[m][r.part] > 0)
    BY DEF RevokedIsGone, Owns
  <1>1. /\ revoking \in [Nodes -> SUBSET Record] /\ r \in Record /\ r.part \in Partitions
        /\ session \in [Nodes -> [Partitions -> 0 .. MaxGen]]
    <2>1. revoking' \in [Nodes -> SUBSET Record]
      BY TypeStep DEF TypeOK
    <2>2. r \in Record
      BY <2>1
    <2> QED BY <2>2 DEF TypeOK, Record
  <1>2. ASSUME NEW p \in Partitions, Revoke(m, p), r \notin revoking[m]
        PROVE  ~ (session'[m][r.part] > 0)
    <2>1. r = committed[m][p] /\ committed[m][p] # None
      BY <1>1, <1>2 DEF Revoke
    <2>2. r.part = p
      BY <2>1 DEF PartsAgree
    <2> QED BY <1>1, <1>2, <2>2 DEF Revoke
  <1>3. CASE r \in revoking[m]
    <2>1. ~ (session[m][r.part] > 0) /\ revoking[m] # {}
      BY <1>3 DEF RevokedIsGone, Owns
    <2>2. ~ Assign(m, r.part)
      BY <2>1 DEF Assign
    <2>3. session'[m][r.part] = session[m][r.part] \/ session'[m][r.part] = 0
      BY <1>1, <2>2, SessionStep
    <2> QED BY <2>1, <2>3
  <1>4. ASSUME r \notin revoking[m]
        PROVE  \E p \in Partitions : Revoke(m, p)
    <2>1. ASSUME NEW n \in Nodes, NEW p \in Partitions, Revoke(n, p)
          PROVE  n = m
      BY <1>1, <1>4, <2>1 DEF Revoke
    <2>2. ASSUME NEW n \in Nodes, RevokeCommit(n) \/ Crash(n)
          PROVE  FALSE
      BY <1>1, <1>4, <2>2 DEF RevokeCommit, Crash
    <2>3. revoking' # revoking
      BY <1>4
    <2>4. \E n \in Nodes : \/ \E p \in Partitions : Revoke(n, p)
                           \/ RevokeCommit(n) \/ Crash(n)
      BY ZenonT(60), <2>3 DEF Next, vars, Poll, Assign, Deliver, Ack, Take, Commit, Fence, Lost
    <2> QED BY <2>1, <2>2, <2>4
  <1> QED BY <1>2, <1>3, <1>4

LEMMA OwnerStep ==
    ASSUME TypeOK, RevokedIsGone, OwnerAgrees, [Next]_vars
    PROVE  OwnerAgrees'
  <1> USE TrackerAssumption DEF TrackerAssumption
  <1> SUFFICES ASSUME NEW m \in Nodes, NEW q \in Partitions,
                      session'[m][q] > 0, m \notin fenced'
               PROVE  owner'[q] = m
    BY DEF OwnerAgrees, Owns
  <1>1. /\ owner \in [Partitions -> Nodes \cup {None}]
        /\ session \in [Nodes -> [Partitions -> 0 .. MaxGen]]
    BY DEF TypeOK
  <1>2. ASSUME m \notin fenced, ~ Assign(m, q)
        PROVE  owner[q] = m /\ session[m][q] > 0
    <2>1. session'[m][q] = session[m][q] \/ session'[m][q] = 0
      BY <1>2, SessionStep
    <2> QED BY <1>2, <2>1 DEF OwnerAgrees, Owns
  <1>3. CASE Assign(m, q)
    BY <1>1, <1>3 DEF Assign
  <1> SUFFICES ASSUME ~ Assign(m, q) PROVE owner'[q] = m
    BY <1>3
  <1>4. ASSUME NEW n \in Nodes, NEW p \in Partitions, Assign(n, p)
        PROVE  owner'[q] = m
    <2>1. owner[q] = m /\ owner' = [owner EXCEPT ![p] = n] /\ owner[p] = None
      BY <1>2, <1>4 DEF Assign
    <2> QED BY <1>1, <2>1
  <1>5. ASSUME NEW n \in Nodes, NEW p \in Partitions, Revoke(n, p)
        PROVE  owner'[q] = m
    <2>1. /\ owner[q] = m /\ owner[p] = n /\ fenced' = fenced
          /\ session' = [session EXCEPT ![n][p] = 0]
          /\ owner' = owner \/ owner' = [owner EXCEPT ![p] = None]
      BY <1>2, <1>5 DEF Revoke, OwnerAgrees
    <2>2. q # p
      BY <1>1, <2>1
    <2> QED BY <1>1, <2>1, <2>2
  <1>6. ASSUME NEW n \in Nodes, RevokeCommit(n)
        PROVE  owner'[q] = m
    <2>1. /\ owner[q] = m /\ session[m][q] > 0
          /\ owner' = [p \in Partitions |->
                IF owner[p] = n /\ \E r \in revoking[n] : r.part = p THEN None ELSE owner[p]]
      BY <1>2, <1>6 DEF RevokeCommit
    <2>2. ~ (owner[q] = n /\ \E r \in revoking[n] : r.part = q)
      BY <2>1 DEF RevokedIsGone, Owns
    <2> QED BY <2>1, <2>2
  <1>7. ASSUME NEW n \in Nodes, Fence(n)
        PROVE  owner'[q] = m
    <2>1. /\ owner[q] = m /\ m # n
          /\ owner' = [p \in Partitions |-> IF owner[p] = n THEN None ELSE owner[p]]
      BY <1>2, <1>7 DEF Fence
    <2> QED BY <2>1
  <1>8. ASSUME NEW n \in Nodes, Lost(n) \/ Crash(n)
        PROVE  owner'[q] = m
    <2>1. m # n /\ m \notin fenced
      BY <1>1, <1>8 DEF Lost, Crash
    <2>2. owner[q] = m
      BY <1>2, <2>1
    <2> QED BY <1>8, <2>1, <2>2 DEF Lost, Crash
  <1>9. CASE UNCHANGED <<owner, fenced, session>>
    BY <1>9 DEF OwnerAgrees, Owns
  <1>10. ASSUME NEW n \in Nodes,
                \/ \E p \in Partitions, k \in 1 .. BatchSize : Poll(n, p, k)
                \/ \E rec \in held[n] : Ack(n, rec)
                \/ Deliver(n) \/ Take(n) \/ Commit(n)
         PROVE  UNCHANGED <<owner, fenced, session>>
    BY <1>10 DEF Poll, Ack, Deliver, Take, Commit, brokerVars
  <1> QED BY <1>3, <1>4, <1>5, <1>6, <1>7, <1>8, <1>9, <1>10 DEF Next, vars

LEMMA SteadyStep ==
    ASSUME TypeOK, PartsAgree, SteadyGroup, CommittableIsOwned, [Next]_vars
    PROVE  SteadyGroup'
  <1>1. plan'.kinds = plan.kinds /\ Steady' = Steady
    BY KindsStep
  <1>2. ASSUME "fence" \notin plan.kinds, fenced = {}
        PROVE  fenced' = {}
    <2>1. ASSUME NEW n \in Nodes
          PROVE  ~ Fence(n)
      BY <1>2 DEF Fence, Fault
    <2>2. fenced' # fenced => \E n \in Nodes : Lost(n) \/ Crash(n)
      BY ZenonT(60), <2>1 DEF Next, vars, Poll, Assign, Deliver, Ack, Take, Commit, Revoke,
           RevokeCommit,
                  brokerVars
    <2>3. \A n \in Nodes : Lost(n) \/ Crash(n) => fenced' = fenced \ {n}
      BY DEF Lost, Crash
    <2> QED BY <1>2, <2>2, <2>3
  <1>3. ASSUME "revoke" \notin plan.kinds, \A n \in Nodes : revoking[n] = {}
        PROVE  \A n \in Nodes : revoking'[n] = {}
    <2>1. ASSUME NEW n \in Nodes
          PROVE  ~ RevokeCommit(n) /\ \A p \in Partitions : ~ Revoke(n, p)
      BY <1>3 DEF RevokeCommit, Revoke
    <2>2. ASSUME NEW n \in Nodes, Crash(n)
          PROVE  \A m \in Nodes : revoking'[m] = {}
      BY <1>3, <2>2 DEF Crash, TypeOK
    <2> QED BY ZenonT(60), <1>3, <2>1, <2>2 DEF Next, vars, Poll, Assign, Deliver, Ack, Take,
                 Commit,
                   Lost, Fence
  <1>4. ASSUME Steady, NEW m \in Nodes, NEW r \in taken'[m]
        PROVE  session'[m][r.part] > 0
    <2>1. /\ taken \in [Nodes -> SUBSET Record] /\ r \in Record /\ r.part \in Partitions
          /\ session \in [Nodes -> [Partitions -> 0 .. MaxGen]]
      <3>1. taken' \in [Nodes -> SUBSET Record]
        BY TypeStep DEF TypeOK
      <3>2. r \in Record
        BY <1>4, <3>1
      <3> QED BY <3>2 DEF TypeOK, Record
    <2>2. ASSUME r \notin taken[m]
          PROVE  Take(m)
      <3>1. ASSUME NEW n \in Nodes, Commit(n) \/ Crash(n)
            PROVE  FALSE
        BY <2>1, <2>2, <3>1 DEF Commit, Crash
      <3>2. ASSUME NEW n \in Nodes, Take(n)
            PROVE  n = m
        BY <2>1, <2>2, <3>2 DEF Take
      <3>3. taken' # taken
        BY <2>2
      <3>4. \E n \in Nodes : Take(n) \/ Commit(n) \/ Crash(n)
        BY ZenonT(60), <3>3 DEF Next, vars, Poll, Assign, Deliver, Ack, Fence, Lost, Revoke,
             RevokeCommit
      <3> QED BY <3>1, <3>2, <3>4
    <2>3. session[m][r.part] > 0
      <3>1. CASE r \in taken[m]
        BY <1>4, <3>1 DEF SteadyGroup, Owns
      <3>2. CASE r \notin taken[m]
        <4>1. taken' = [taken EXCEPT ![m] = Committable(m)]
          BY <2>2, <3>2 DEF Take
        <4>2. PICK p \in Partitions : r = committed[m][p] /\ committed[m][p] # None
          BY <2>1, <4>1 DEF Committable
        <4> QED BY <1>4, <4>2 DEF PartsAgree, CommittableIsOwned, Owns
      <3> QED BY <3>1, <3>2
    <2>4. ~ Revoke(m, r.part) /\ ~ Lost(m)
      BY <1>4 DEF Steady, SteadyGroup, Revoke, Lost
    <2>5. ~ Crash(m)
      BY <2>1 DEF Crash
    <2> QED BY <2>1, <2>3, <2>4, <2>5, SessionStep
  <1> QED BY <1>1, <1>2, <1>3, <1>4 DEF SteadyGroup, Owns

-----------------------------------------------------------------------------
(* The line of the records of a partition.                                  *)

\* The next record to be tracked changes with a delivery and with an assignment
\* only, while the partition is owned.
LEMMA NextTrackedStep ==
    ASSUME IInv, Undisturbed, [Next]_vars, NEW m \in Nodes, NEW q \in Partitions,
           session'[m][q] > 0
    PROVE  \/ /\ Assign(m, q) /\ ~ Owns(m, q)
              /\ NextTracked(m, q)' = broker[q]
           \/ /\ Owns(m, q) /\ Deliver(m) /\ batch[m][1].part = q
              /\ NextTracked(m, q)' = NextTracked(m, q) + 1
           \/ /\ Owns(m, q) /\ ~ (Deliver(m) /\ batch[m][1].part = q)
              /\ NextTracked(m, q)' = NextTracked(m, q)
  <1>1. /\ TypeOK /\ TypeOK' /\ BatchInLine /\ OwnerAgrees
        /\ batch \in [Nodes -> Seq(Record)] /\ batch' \in [Nodes -> Seq(Record)]
        /\ pos \in [Nodes -> [Partitions -> 0 .. LogLen]]
        /\ session \in [Nodes -> [Partitions -> 0 .. MaxGen]]
    BY TypeStep DEF IInv, InLine, TypeOK
  <1>2. /\ Len(batch[m]) \in Nat /\ Len(batch'[m]) \in Nat /\ pos[m][q] \in Nat
        /\ batch[m] \in Seq(Record) /\ batch'[m] \in Seq(Record)
        /\ pos[m][q] \in Int /\ NextTracked(m, q) \in Int
    BY <1>1, TrackerAssumption DEF NextTracked, Waiting, TrackerAssumption
  <1>3. CASE Assign(m, q)
    <2>1. owner[q] = None /\ m \notin fenced /\ batch' = batch /\ pos'[m][q] = broker[q]
      BY <1>1, <1>3 DEF Assign
    <2>2. ~ Owns(m, q)
      BY <2>1, <1>1, TrackerAssumption DEF OwnerAgrees, TrackerAssumption
    <2>3. Waiting(m, q) = 0 /\ Waiting(m, q)' = 0
      <3>1. ~ (batch[m] # <<>> /\ batch[m][1].part = q)
        BY <1>1, <2>2 DEF BatchInLine
      <3> QED BY <2>1, <3>1 DEF Waiting
    <2>4. broker[q] \in Int
      BY <1>1, TrackerAssumption DEF TypeOK, TrackerAssumption
    <2> QED BY <1>3, <2>1, <2>2, <2>3, <2>4 DEF NextTracked
  <1>4. ASSUME ~ Assign(m, q)
        PROVE  Owns(m, q) /\ session'[m][q] = session[m][q]
    <2>1. session'[m][q] = session[m][q] \/ session'[m][q] = 0
      BY <1>1, <1>4, SessionStep
    <2> QED BY <2>1 DEF Owns
  <1> SUFFICES ASSUME ~ Assign(m, q)
               PROVE  \/ /\ Deliver(m) /\ batch[m][1].part = q
                         /\ NextTracked(m, q)' = NextTracked(m, q) + 1
                      \/ /\ ~ (Deliver(m) /\ batch[m][1].part = q)
                         /\ NextTracked(m, q)' = NextTracked(m, q)
    BY <1>3, <1>4
  <1>5. CASE Deliver(m)
    <2>1. /\ pos' = pos /\ Len(batch[m]) > 0 /\ Len(batch'[m]) = Len(batch[m]) - 1
          /\ \A i \in 1 .. Len(batch[m]) - 1 : batch'[m][i] = batch[m][i + 1]
      BY <1>1, <1>5, TrackEffect DEF Deliver
    <2>2. batch'[m] # <<>> => batch'[m][1].part = batch[m][1].part
      <3> SUFFICES ASSUME batch'[m] # <<>> PROVE batch'[m][1].part = batch[m][1].part
        OBVIOUS
      <3>1. Len(batch[m]) >= 2 /\ 2 \in 1 .. Len(batch[m]) /\ 1 \in 1 .. Len(batch[m]) - 1
        BY <1>2, <2>1
      <3>2. batch'[m][1] = batch[m][2]
        BY <2>1, <3>1
      <3>3. batch[m][1].part \in Partitions
        <4>1. 1 \in 1 .. Len(batch[m])
          BY <1>2, <3>1
        <4>2. batch[m][1] \in Record
          BY <1>2, <4>1, ElementOfSeq
        <4> QED BY <4>2 DEF Record
      <3>4. batch[m][2].part = batch[m][1].part
        BY <1>1, <1>2, <3>1, <3>3 DEF BatchInLine
      <3> QED BY <3>2, <3>4
    <2>3. batch[m] # <<>> /\ (batch'[m] = <<>> => Len(batch[m]) = 1)
      <3>1. batch[m] = <<>> => Len(batch[m]) = 0
        OBVIOUS
      <3>2. batch'[m] = <<>> => Len(batch'[m]) = 0
        OBVIOUS
      <3> QED BY <1>2, <2>1, <3>1, <3>2
    <2>4. CASE batch[m][1].part = q
      <3>1. Waiting(m, q) = Len(batch[m]) /\ Waiting(m, q)' = Len(batch[m]) - 1
        BY <1>2, <2>1, <2>2, <2>3, <2>4 DEF Waiting
      <3> QED BY <1>2, <1>5, <2>1, <2>4, <3>1 DEF NextTracked
    <2>5. CASE batch[m][1].part # q
      <3>1. Waiting(m, q) = 0 /\ Waiting(m, q)' = 0
        BY <2>2, <2>5 DEF Waiting
      <3> QED BY <2>1, <2>5, <3>1 DEF NextTracked
    <2> QED BY <2>4, <2>5
  <1>6. ASSUME NEW p \in Partitions, NEW k \in 1 .. BatchSize, Poll(m, p, k)
        PROVE  NextTracked(m, q)' = NextTracked(m, q)
    <2>1. /\ batch[m] = <<>> /\ pos' = [pos EXCEPT ![m][p] = @ + k]
          /\ batch' = [batch EXCEPT ![m] = [i \in 1 .. k |->
                [part |-> p, off |-> pos[m][p] + i - 1, gen |-> session[m][p]]]]
      BY <1>6 DEF Poll
    <2>2. Waiting(m, q) = 0
      BY <2>1 DEF Waiting
    <2>3. k \in Nat /\ k >= 1
      BY TrackerAssumption DEF TrackerAssumption
    <2>4. Len(batch'[m]) = k /\ batch'[m] # <<>> /\ batch'[m][1].part = p
      <3> DEFINE b == [i \in 1 .. k |->
                         [part |-> p, off |-> pos[m][p] + i - 1, gen |-> session[m][p]]]
      <3>1. Len(b) = k /\ b # <<>> /\ b[1].part = p
        <4>1. DOMAIN b = 1 .. k /\ 1 \in 1 .. k
          BY <2>3
        <4>2. b[1].part = p
          BY <4>1
        <4> HIDE DEF b
        <4>3. Len(b) = k
          BY <1>1, <2>1, <2>3, <4>1 DEF b
        <4>4. b # <<>>
          BY <4>1
        <4> QED BY <4>2, <4>3, <4>4
      <3>2. batch'[m] = b
        BY <1>1, <2>1
      <3> HIDE DEF b
      <3> QED BY <3>1, <3>2
    <2>5. CASE q = p
      <3>1. Waiting(m, q)' = k /\ pos'[m][q] = pos[m][q] + k
        BY <1>1, <2>1, <2>4, <2>5 DEF Waiting
      <3> QED BY <1>2, <2>2, <2>3, <3>1 DEF NextTracked
    <2>6. CASE q # p
      <3>1. Waiting(m, q)' = 0 /\ pos'[m][q] = pos[m][q]
        BY <1>1, <2>1, <2>4, <2>6 DEF Waiting
      <3> QED BY <2>2, <3>1 DEF NextTracked
    <2> QED BY <2>5, <2>6
  <1>7. ASSUME pos'[m][q] = pos[m][q], batch'[m] = batch[m]
        PROVE  NextTracked(m, q)' = NextTracked(m, q)
    BY <1>7 DEF NextTracked, Waiting
  <1>8. ASSUME ~ Deliver(m), ~ \E p \in Partitions, k \in 1 .. BatchSize : Poll(m, p, k)
        PROVE  pos'[m][q] = pos[m][q] /\ batch'[m] = batch[m]
    <2>1. ASSUME NEW n \in Nodes, NEW p \in Partitions, NEW k \in 1 .. BatchSize, Poll(n, p, k)
          PROVE  pos'[m][q] = pos[m][q] /\ batch'[m] = batch[m]
      <3>1. n # m
        BY <1>8, <2>1
      <3> QED BY <1>1, <2>1, <3>1 DEF Poll
    <2>2. ASSUME NEW n \in Nodes, Deliver(n)
          PROVE  pos'[m][q] = pos[m][q] /\ batch'[m] = batch[m]
      BY <1>1, <1>8, <2>2 DEF Deliver
    <2>3. ASSUME NEW n \in Nodes, NEW p \in Partitions, Assign(n, p)
          PROVE  pos'[m][q] = pos[m][q] /\ batch'[m] = batch[m]
      <3>1. n # m \/ p # q
        BY <2>3
      <3> QED BY <1>1, <2>3, <3>1 DEF Assign
    <2>4. ASSUME NEW n \in Nodes, Crash(n)
          PROVE  pos'[m][q] = pos[m][q] /\ batch'[m] = batch[m]
      <3>1. n # m
        BY <1>1, <2>4 DEF Crash
      <3> QED BY <1>1, <2>4, <3>1 DEF Crash
    <2>5. CASE UNCHANGED <<pos, batch>>
      BY <2>5
    <2>6. ASSUME NEW n \in Nodes,
                 \/ \E p \in Partitions : Revoke(n, p)
                 \/ \E rec \in held[n] : Ack(n, rec)
                 \/ Take(n) \/ Commit(n) \/ RevokeCommit(n) \/ Fence(n) \/ Lost(n)
          PROVE  UNCHANGED <<pos, batch>>
      BY <2>6 DEF Revoke, Ack, Take, Commit, RevokeCommit, Fence, Lost
    <2> QED BY <2>1, <2>2, <2>3, <2>4, <2>5, <2>6 DEF Next, vars
  <1>9. CASE ~ Deliver(m)
    <2>1. NextTracked(m, q)' = NextTracked(m, q)
      BY <1>6, <1>7, <1>8, <1>9
    <2> QED BY <1>9, <2>1
  <1> QED BY <1>5, <1>9

\* A partition with records still to be tracked is not given up, but by a crash.
LEMMA PollIsWhole ==
    ASSUME IInv, Undisturbed, [Next]_vars, NEW m \in Nodes, batch[m] # <<>>, ~ Crash(m)
    PROVE  /\ batch[m][1].part \in Partitions
           /\ Owns(m, batch[m][1].part) /\ session'[m][batch[m][1].part] > 0
  <1>1. /\ TypeOK /\ BatchInLine /\ SteadyGroup /\ batch[m] \in Seq(Record)
    BY DEF IInv, InLine, TypeOK
  <1>2. 1 \in 1 .. Len(batch[m]) /\ 1 \in DOMAIN batch[m] /\ batch[m][1] \in Record
    BY <1>1
  <1> DEFINE q == batch[m][1].part
  <1>3. q \in Partitions /\ Owns(m, q)
    BY <1>1, <1>2 DEF Record, BatchInLine
  <1>4. ~ Revoke(m, q)
    <2>1. ~ MidBatch(m, {q}) \/ "revoke" \notin plan.kinds
      BY <1>2 DEF Undisturbed, Steady, MidBatch, Fault
    <2> QED BY <2>1 DEF Revoke
  <1>5. ~ Lost(m)
    <2>1. ~ MidBatch(m, {p \in Partitions : Owns(m, p)}) \/ "fence" \notin plan.kinds
      BY <1>2, <1>3 DEF Undisturbed, Steady, MidBatch, Fault
    <2> QED BY <1>1, <2>1 DEF Lost, SteadyGroup
  <1>6. session'[m][q] = session[m][q] \/ session'[m][q] > 0
    BY <1>1, <1>3, <1>4, <1>5, SessionStep
  <1> QED BY <1>3, <1>6 DEF Owns

LEMMA BatchStep ==
    ASSUME IInv, Undisturbed, [Next]_vars
    PROVE  BatchInLine'
  <1>1. /\ TypeOK /\ BatchInLine
        /\ batch \in [Nodes -> Seq(Record)] /\ batch' \in [Nodes -> Seq(Record)]
        /\ pos \in [Nodes -> [Partitions -> 0 .. LogLen]]
        /\ pos' \in [Nodes -> [Partitions -> 0 .. LogLen]]
    BY TypeStep DEF IInv, InLine, TypeOK
  <1> SUFFICES ASSUME NEW m \in Nodes, NEW p \in Partitions, NEW i \in 1 .. Len(batch'[m]),
                      batch'[m] # <<>>, batch'[m][1].part = p
               PROVE  /\ batch'[m][i].part = p /\ session'[m][p] > 0
                      /\ batch'[m][i].off = NextTracked(m, p)' + i - 1
    <2>1. \A m \in Nodes : batch'[m] # <<>> => 1 \in 1 .. Len(batch'[m])
      BY <1>1
    <2> QED BY <2>1 DEF BatchInLine, Owns
  <1>2. Len(batch[m]) \in Nat /\ Len(batch'[m]) \in Nat
    BY <1>1
  <1>3. ~ Crash(m)
    <2> SUFFICES ASSUME Crash(m) PROVE FALSE
      OBVIOUS
    <2>1. batch'[m] = <<>>
      BY <1>1 DEF Crash
    <2> QED BY <2>1
  <1>4. ASSUME NEW q \in Partitions, NEW k \in 1 .. BatchSize, Poll(m, q, k)
        PROVE  /\ batch'[m][i].part = p /\ session'[m][p] > 0
               /\ batch'[m][i].off = NextTracked(m, p)' + i - 1
    <2>1. /\ batch[m] = <<>> /\ Owns(m, q) /\ session' = session
          /\ batch' = [batch EXCEPT ![m] = [j \in 1 .. k |->
                [part |-> q, off |-> pos[m][q] + j - 1, gen |-> session[m][q]]]]
      BY <1>4 DEF Poll
    <2>2. k \in Nat /\ k >= 1
      BY TrackerAssumption DEF TrackerAssumption
    <2> DEFINE b == [j \in 1 .. k |->
                       [part |-> q, off |-> pos[m][q] + j - 1, gen |-> session[m][q]]]
    <2>3. batch'[m] = b
      BY <1>1, <2>1
    <2>4. \A j \in 1 .. k : b[j].part = q /\ b[j].off = pos[m][q] + j - 1
      OBVIOUS
    <2>5. DOMAIN b = 1 .. k
      OBVIOUS
    <2> HIDE DEF b
    <2>6. i \in 1 .. k /\ 1 \in 1 .. k
      BY <1>1, <2>2, <2>3, <2>5
    <2>7. p = q /\ batch'[m][i].part = p /\ batch'[m][i].off = pos[m][p] + i - 1
      BY <2>3, <2>4, <2>6
    <2>8. NextTracked(m, p)' = NextTracked(m, p)
      <3>1. session'[m][p] > 0 /\ ~ Assign(m, p) /\ ~ Deliver(m)
        BY <1>4, <2>1, <2>7, TrackerAssumption DEF Owns, Assign, Deliver, TrackerAssumption
      <3> QED BY <3>1, NextTrackedStep
    <2>9. NextTracked(m, p) = pos[m][p]
      BY <1>1, <2>1, TrackerAssumption DEF NextTracked, Waiting, TrackerAssumption
    <2> QED BY <2>1, <2>7, <2>8, <2>9 DEF Owns
  <1>5. CASE Deliver(m)
    <2>1. /\ session' = session /\ batch[m] # <<>>
          /\ Len(batch[m]) > 0 /\ Len(batch'[m]) = Len(batch[m]) - 1
          /\ \A j \in 1 .. Len(batch[m]) - 1 : batch'[m][j] = batch[m][j + 1]
      BY <1>1, <1>5, TrackEffect DEF Deliver
    <2>2. i + 1 \in 1 .. Len(batch[m]) /\ batch'[m][i] = batch[m][i + 1]
      BY <1>2, <2>1
    <2>3. 2 \in 1 .. Len(batch[m]) /\ batch'[m][1] = batch[m][2]
      <3>1. 1 \in 1 .. Len(batch[m]) - 1
        BY <1>2, <2>1
      <3> QED BY <1>2, <2>1, <3>1
    <2>4. batch[m][1].part \in Partitions /\ session'[m][batch[m][1].part] > 0
      BY <1>3, <2>1, PollIsWhole
    <2>5. batch[m][1].part = p
      <3>1. batch[m][2].part = batch[m][1].part
        BY <1>1, <2>1, <2>3, <2>4 DEF BatchInLine
      <3> QED BY <2>3, <3>1
    <2>6. batch[m][i + 1].part = p /\ batch[m][i + 1].off = NextTracked(m, p) + (i + 1) - 1
      BY <1>1, <2>1, <2>2, <2>5 DEF BatchInLine
    <2>7. NextTracked(m, p)' = NextTracked(m, p) + 1
      <3>1. Owns(m, p)
        BY <1>1, <2>1, <2>5 DEF BatchInLine
      <3>2. ~ Assign(m, p)
        <4> SUFFICES ASSUME Assign(m, p) PROVE FALSE
          OBVIOUS
        <4>1. owner[p] = None /\ m \notin fenced
          BY DEF Assign
        <4> QED BY <3>1, <4>1, TrackerAssumption DEF IInv, OwnerAgrees, TrackerAssumption
      <3> QED BY <1>5, <2>4, <2>5, <3>2, NextTrackedStep
    <2>8. NextTracked(m, p) \in Int
      BY <1>1, <1>2, TrackerAssumption DEF NextTracked, Waiting, TrackerAssumption
    <2>9. batch'[m][i].part = p /\ batch'[m][i].off = NextTracked(m, p)' + i - 1
      BY <2>2, <2>6, <2>7, <2>8
    <2> QED BY <2>4, <2>5, <2>9
  <1>6. ASSUME batch'[m] = batch[m], ~ Deliver(m)
        PROVE  /\ batch'[m][i].part = p /\ session'[m][p] > 0
               /\ batch'[m][i].off = NextTracked(m, p)' + i - 1
    <2>1. Owns(m, p) /\ session'[m][p] > 0
      BY <1>3, <1>6, PollIsWhole
    <2>2. NextTracked(m, p)' = NextTracked(m, p)
      BY <1>6, <2>1, NextTrackedStep
    <2>3. batch[m][i].part = p /\ batch[m][i].off = NextTracked(m, p) + i - 1
      <3>1. batch[m] # <<>> /\ batch[m][1].part = p /\ i \in 1 .. Len(batch[m])
        BY <1>6
      <3> QED BY <1>1, <3>1 DEF BatchInLine
    <2> QED BY <1>6, <2>1, <2>2, <2>3
  <1>7. ASSUME ~ Deliver(m), ~ \E q \in Partitions, k \in 1 .. BatchSize : Poll(m, q, k)
        PROVE  batch'[m] = batch[m]
    <2>1. ASSUME NEW n \in Nodes, NEW q \in Partitions, NEW k \in 1 .. BatchSize, Poll(n, q, k)
          PROVE  batch'[m] = batch[m]
      <3>1. n # m
        BY <1>7, <2>1
      <3> QED BY <1>1, <2>1, <3>1 DEF Poll
    <2>2. ASSUME NEW n \in Nodes, Deliver(n) \/ Crash(n)
          PROVE  batch'[m] = batch[m]
      BY <1>1, <1>3, <1>7, <2>2 DEF Deliver, Crash
    <2>3. CASE UNCHANGED batch
      BY <2>3
    <2>4. ASSUME NEW n \in Nodes,
                 \/ \E q \in Partitions : Revoke(n, q) \/ Assign(n, q)
                 \/ \E rec \in held[n] : Ack(n, rec)
                 \/ Take(n) \/ Commit(n) \/ RevokeCommit(n) \/ Fence(n) \/ Lost(n)
          PROVE  UNCHANGED batch
      BY <2>4 DEF Revoke, Assign, Ack, Take, Commit, RevokeCommit, Fence, Lost
    <2> QED BY <2>1, <2>2, <2>3, <2>4 DEF Next, vars
  <1> QED BY <1>4, <1>5, <1>6, <1>7

\* What a step does to the line of a partition the member owns after it: the line
\* starts at the committed offset, stays, or gets shorter by what was acked.
LineChange(m, q) ==
    \/ /\ Assign(m, q) /\ ~ Owns(m, q) /\ inFlight'[m][q] = <<>>
       /\ Oldest(m, q)' = broker[q] /\ committed'[m][q] = committed[m][q]
    \/ /\ Owns(m, q) /\ Oldest(m, q)' = Oldest(m, q)
       /\ Lengthened(m, q, batch[m][1]) /\ committed'[m][q] = committed[m][q]
       /\ batch[m][1].off = Oldest(m, q) + Len(inFlight[m][q])
    \/ /\ Owns(m, q)
       /\ \E rec \in held[m], k \in Nat :
             Ack(m, rec) /\ Shortened(m, q, rec, k) /\ Oldest(m, q)' = Oldest(m, q) + k
    \/ /\ Owns(m, q) /\ Oldest(m, q)' = Oldest(m, q) /\ inFlight'[m][q] = inFlight[m][q]

LEMMA LineStep ==
    ASSUME IInv, Undisturbed, [Next]_vars, NEW m \in Nodes, NEW q \in Partitions,
           session'[m][q] > 0
    PROVE  LineChange(m, q)
  <1>1. /\ TypeOK /\ TypeOK' /\ BatchInLine /\ QueueInLine
        /\ batch \in [Nodes -> Seq(Record)]
        /\ pos \in [Nodes -> [Partitions -> 0 .. LogLen]]
        /\ inFlight \in [Nodes -> [Partitions -> Seq(Tracked)]]
        /\ inFlight' \in [Nodes -> [Partitions -> Seq(Tracked)]]
    BY TypeStep DEF IInv, InLine, TypeOK
  <1>2. /\ Len(inFlight[m][q]) \in Nat /\ Len(inFlight'[m][q]) \in Nat
        /\ NextTracked(m, q) \in Int /\ Oldest(m, q) \in Int
    BY <1>1, LineType
  <1>3. /\ Oldest(m, q) = NextTracked(m, q) - Len(inFlight[m][q])
        /\ Oldest(m, q)' = NextTracked(m, q)' - Len(inFlight'[m][q])
    BY DEF Oldest
  <1>4. ASSUME NEW n \in Nodes, NEW p \in Partitions, Assign(n, p)
        PROVE  UNCHANGED <<inFlight, committed>>
    BY <1>4 DEF Assign, trackerVars
  <1>5. CASE Assign(m, q) /\ ~ Owns(m, q) /\ NextTracked(m, q)' = broker[q]
    <2>1. inFlight[m][q] = <<>>
      <3>1. ~ (1 \in 1 .. Len(inFlight[m][q]))
        BY <1>1, <1>5 DEF QueueInLine
      <3> QED BY <1>1, <1>2, <3>1
    <2>2. inFlight'[m][q] = <<>> /\ committed'[m][q] = committed[m][q]
      BY <1>4, <1>5, <2>1
    <2>3. broker[q] \in Int
      BY <1>1, TrackerAssumption DEF TypeOK, TrackerAssumption
    <2>4. Len(inFlight'[m][q]) = 0
      BY <2>2
    <2>5. Oldest(m, q)' = broker[q]
      BY <1>3, <1>5, <2>3, <2>4
    <2> QED BY <1>5, <2>2, <2>5 DEF LineChange
  <1>6. CASE Owns(m, q) /\ Deliver(m) /\ batch[m][1].part = q /\ NextTracked(m, q)' = NextTracked(m, q) + 1
    <2>1. Lengthened(m, q, batch[m][1]) /\ committed' = committed /\ batch[m] # <<>>
      BY <1>1, <1>6, TrackEffect DEF Deliver
    <2>2. Oldest(m, q)' = Oldest(m, q)
      <3>1. Len(inFlight'[m][q]) = Len(inFlight[m][q]) + 1
        BY <2>1 DEF Lengthened
      <3> QED BY SMTT(30), <1>2, <1>3, <1>6, <3>1
    <2>3. batch[m][1].off = NextTracked(m, q)
      <3>1. 1 \in 1 .. Len(batch[m])
        BY <1>1, <2>1
      <3>2. \A i \in 1 .. Len(batch[m]) : batch[m][i].off = NextTracked(m, q) + i - 1
        BY <1>1, <1>6, <2>1 DEF BatchInLine
      <3> QED BY <1>2, <3>1, <3>2
    <2>4. batch[m][1].off = Oldest(m, q) + Len(inFlight[m][q])
      BY <1>2, <1>3, <2>3
    <2> QED BY <1>6, <2>1, <2>2, <2>4 DEF LineChange
  <1>7. CASE Owns(m, q) /\ ~ (Deliver(m) /\ batch[m][1].part = q) /\ NextTracked(m, q)' = NextTracked(m, q)
    <2>1. CASE inFlight'[m][q] = inFlight[m][q]
      BY <1>3, <1>7, <2>1 DEF LineChange
    <2>2. ASSUME NEW rec \in held[m], NEW k \in Nat, Ack(m, rec), Shortened(m, q, rec, k)
          PROVE  LineChange(m, q)
      <3>1. Oldest(m, q)' = Oldest(m, q) + k
        <4>1. Len(inFlight'[m][q]) = Len(inFlight[m][q]) - k
          BY <2>2 DEF Shortened
        <4> QED BY SMTT(30), <1>2, <1>3, <1>7, <4>1
      <3> QED BY <1>7, <2>2, <3>1 DEF LineChange
    <2>3. session'[m][q] # 0
      OBVIOUS
    <2>4. QueueChange(m, q)
      BY <1>1, QueueStep
    <2> QED BY <1>7, <2>1, <2>2, <2>3, <2>4 DEF QueueChange
  <1> QED BY <1>5, <1>6, <1>7, NextTrackedStep

\* Acks are never taken back.
LEMMA AckedStep ==
    ASSUME [Next]_vars
    PROVE  /\ acked \subseteq acked'
           /\ \A p, o : AckedBelow(p, o) => AckedBelow(p, o)'
  <1>1. acked \subseteq acked'
    <2>1. ASSUME NEW n \in Nodes,
                 \/ \E p \in Partitions : \/ Revoke(n, p) \/ Assign(n, p)
                                        \/ \E k \in 1 .. BatchSize : Poll(n, p, k)
                 \/ Deliver(n) \/ Take(n) \/ Commit(n) \/ RevokeCommit(n)
                 \/ Fence(n) \/ Lost(n) \/ Crash(n)
          PROVE  acked' = acked
      BY <2>1 DEF Poll, Assign, Deliver, Take, Commit, Fence, Lost, Revoke, RevokeCommit, Crash
    <2>2. ASSUME NEW n \in Nodes, NEW rec \in held[n], Ack(n, rec)
          PROVE  acked \subseteq acked'
      BY <2>2 DEF Ack
    <2> QED BY <2>1, <2>2 DEF Next, vars
  <1> QED BY <1>1 DEF AckedBelow, Acked

LEMMA QueueInLineStep ==
    ASSUME IInv, Undisturbed, [Next]_vars
    PROVE  QueueInLine'
  <1>1. /\ TypeOK /\ TypeOK' /\ QueueInLine
        /\ inFlight \in [Nodes -> [Partitions -> Seq(Tracked)]]
        /\ inFlight' \in [Nodes -> [Partitions -> Seq(Tracked)]]
    BY TypeStep DEF IInv, InLine, TypeOK
  <1> SUFFICES ASSUME NEW m \in Nodes, NEW q \in Partitions, NEW i \in 1 .. Len(inFlight'[m][q])
               PROVE  /\ session'[m][q] > 0
                      /\ inFlight'[m][q][i].rec.off = Oldest(m, q)' + i - 1
    BY DEF QueueInLine, Owns
  <1>2. /\ Len(inFlight[m][q]) \in Nat /\ Len(inFlight'[m][q]) \in Nat
        /\ Oldest(m, q) \in Int
    BY <1>1, LineType
  <1>3. session'[m][q] > 0
    <2>1. CASE Owns(m, q)
      <3>1. inFlight'[m][q] # <<>>
        BY <1>2
      <3>2. session'[m][q] = session[m][q] \/ session'[m][q] > 0
        BY <1>1, <3>1, SessionStep
      <3> QED BY <2>1, <3>2 DEF Owns
    <2>2. CASE ~ Owns(m, q)
      <3>1. Len(inFlight[m][q]) = 0
        <4>1. ~ (1 \in 1 .. Len(inFlight[m][q]))
          BY <1>1, <2>2 DEF QueueInLine
        <4> QED BY <1>2, <4>1
      <3>2. inFlight'[m][q] # inFlight[m][q] /\ inFlight'[m][q] # <<>>
        BY <1>2, <3>1
      <3>3. ASSUME Deliver(m), batch[m] # <<>>, batch[m][1].part = q
            PROVE  FALSE
        BY <1>1, <2>2, <3>3 DEF IInv, InLine, BatchInLine, Undisturbed
      <3>4. ASSUME NEW rec, NEW k \in Nat, Shortened(m, q, rec, k)
            PROVE  FALSE
        BY <1>2, <3>1, <3>4 DEF Shortened
      <3> QED BY <1>1, <3>2, <3>3, <3>4, QueueStep DEF QueueChange
    <2> QED BY <2>1, <2>2
  <1>4. \A j \in 1 .. Len(inFlight[m][q]) : inFlight[m][q][j].rec.off = Oldest(m, q) + j - 1
    BY <1>1 DEF QueueInLine
  <1>5. ASSUME Oldest(m, q)' = Oldest(m, q), Lengthened(m, q, batch[m][1]),
               batch[m][1].off = Oldest(m, q) + Len(inFlight[m][q])
        PROVE  inFlight'[m][q][i].rec.off = Oldest(m, q)' + i - 1
    <2>1. i \in 1 .. Len(inFlight[m][q]) \/ i = Len(inFlight[m][q]) + 1
      BY <1>2, <1>5 DEF Lengthened
    <2>2. CASE i \in 1 .. Len(inFlight[m][q])
      <3>1. inFlight'[m][q][i] = inFlight[m][q][i]
        BY <1>5, <2>2 DEF Lengthened
      <3> QED BY <1>4, <1>5, <2>2, <3>1
    <2>3. CASE i = Len(inFlight[m][q]) + 1
      <3>1. inFlight'[m][q][i].rec = batch[m][1]
        BY <1>5, <2>3 DEF Lengthened
      <3> QED BY <1>2, <1>5, <2>3, <3>1
    <2> QED BY <2>1, <2>2, <2>3
  <1>6. ASSUME NEW rec, NEW k \in Nat, Shortened(m, q, rec, k), Oldest(m, q)' = Oldest(m, q) + k
        PROVE  inFlight'[m][q][i].rec.off = Oldest(m, q)' + i - 1
    <2>1. i \in 1 .. Len(inFlight[m][q]) - k /\ i + k \in 1 .. Len(inFlight[m][q])
      BY <1>2, <1>6 DEF Shortened
    <2>2. inFlight'[m][q][i].rec = inFlight[m][q][i + k].rec
      BY <1>6, <2>1 DEF Shortened
    <2>3. inFlight[m][q][i + k].rec.off = Oldest(m, q) + (i + k) - 1
      BY <1>4, <2>1
    <2> QED BY <1>2, <1>6, <2>2, <2>3
  <1>7. ASSUME Oldest(m, q)' = Oldest(m, q), inFlight'[m][q] = inFlight[m][q]
        PROVE  inFlight'[m][q][i].rec.off = Oldest(m, q)' + i - 1
    BY <1>4, <1>7
  <1>8. inFlight'[m][q] # <<>>
    BY <1>2
  <1> QED BY <1>3, <1>5, <1>6, <1>7, <1>8, LineStep DEF LineChange

\* What was taken off the queue was acked: the line below its oldest record, and
\* below each record committed of it.
LEMMA ShortenedIsAcked ==
    ASSUME IInv, Undisturbed, [Next]_vars, NEW m \in Nodes, NEW q \in Partitions, Owns(m, q),
           NEW rec \in held[m], NEW k \in Nat, Ack(m, rec), Shortened(m, q, rec, k)
    PROVE  /\ \A i \in 0 .. LogLen - 1 : i < Oldest(m, q) + k => Acked(q, i)'
           /\ k > 0 => /\ committed'[m][q].part = q
                       /\ committed'[m][q].off = Oldest(m, q) + k - 1
  <1>1. /\ TypeOK /\ QueueInLine /\ LineIsAcked /\ LateAckIgnored /\ PartsAgree
        /\ inFlight \in [Nodes -> [Partitions -> Seq(Tracked)]]
    BY DEF IInv, InLine, TypeOK
  <1>2. Len(inFlight[m][q]) \in Nat /\ Oldest(m, q) \in Int
    BY <1>1, LineType
  <1>3. k \in 0 .. Len(inFlight[m][q])
    BY DEF Shortened
  <1>4. ASSUME NEW j \in 1 .. k
        PROVE  /\ inFlight[m][q][j].rec \in acked'
               /\ inFlight[m][q][j].rec.part = q
               /\ inFlight[m][q][j].rec.off = Oldest(m, q) + j - 1
    <2>1. j \in 1 .. Len(inFlight[m][q]) /\ j \in DOMAIN inFlight[m][q]
      BY <1>1, <1>2, <1>3
    <2>2. acked' = acked \cup {rec}
      BY DEF Ack
    <2>3. inFlight[m][q][j].done \/ inFlight[m][q][j].rec = rec
      BY DEF Shortened
    <2>4. inFlight[m][q][j].rec \in acked'
      BY <1>1, <2>1, <2>2, <2>3 DEF LateAckIgnored
    <2> QED BY <1>1, <2>1, <2>4 DEF QueueInLine, PartsAgree
  <1>5. ASSUME NEW i \in 0 .. LogLen - 1, i < Oldest(m, q) + k
        PROVE  Acked(q, i)'
    <2>1. CASE i < Oldest(m, q)
      <3>1. Acked(q, i)
        BY <1>1, <2>1 DEF LineIsAcked, AckedBelow
      <3> QED BY <3>1, AckedStep DEF Acked
    <2>2. CASE i >= Oldest(m, q)
      <3> DEFINE j == i - Oldest(m, q) + 1
      <3>1. j \in 1 .. k /\ Oldest(m, q) + j - 1 = i
        BY <1>2, <1>3, <1>5, <2>2, TrackerAssumption DEF TrackerAssumption
      <3> HIDE DEF j
      <3>2. /\ inFlight[m][q][j].rec \in acked' /\ inFlight[m][q][j].rec.part = q
            /\ inFlight[m][q][j].rec.off = i
        BY <1>4, <3>1
      <3> QED BY <3>2 DEF Acked
    <2> QED BY <1>2, <2>1, <2>2, TrackerAssumption DEF TrackerAssumption
  <1>6. ASSUME k > 0
        PROVE  committed'[m][q] = inFlight[m][q][k].rec /\ k \in 1 .. k
    BY <1>3, <1>6 DEF Shortened
  <1> QED BY <1>4, <1>5, <1>6

LEMMA LineIsAckedStep ==
    ASSUME IInv, CommittedIsAcked, Undisturbed, [Next]_vars
    PROVE  LineIsAcked'
  <1> SUFFICES ASSUME NEW m \in Nodes, NEW q \in Partitions, session'[m][q] > 0,
                      NEW i \in 0 .. LogLen - 1, i < Oldest(m, q)'
               PROVE  Acked(q, i)'
    BY DEF LineIsAcked, AckedBelow, Owns
  <1>1. ASSUME i < broker[q]
        PROVE  Acked(q, i)'
    BY <1>1, AckedStep DEF CommittedIsAcked, Acked
  <1>2. ASSUME Owns(m, q), i < Oldest(m, q)
        PROVE  Acked(q, i)'
    <2>1. Acked(q, i)
      BY <1>2 DEF IInv, InLine, LineIsAcked, AckedBelow
    <2> QED BY <2>1, AckedStep DEF Acked
  <1>3. ASSUME Owns(m, q), NEW rec \in held[m], NEW k \in Nat, Ack(m, rec),
               Shortened(m, q, rec, k), Oldest(m, q)' = Oldest(m, q) + k
        PROVE  Acked(q, i)'
    <2>1. i < Oldest(m, q) + k
      BY <1>3
    <2> QED BY <1>3, <2>1, ShortenedIsAcked
  <1> QED BY <1>1, <1>2, <1>3, LineStep DEF LineChange

\* What is committed, being committed, or due to be committed.
LEMMA CoveredStep ==
    ASSUME IInv, Undisturbed, [Next]_vars
    PROVE  CommittableIsCovered'
  <1>1. /\ TypeOK /\ CommittableIsCovered /\ PartsAgree /\ QueueInLine
        /\ committed \in [Nodes -> [Partitions -> Record \cup {None}]]
        /\ taken \in [Nodes -> SUBSET Record] /\ revoking \in [Nodes -> SUBSET Record]
    BY DEF IInv, InLine, TypeOK
  <1>2. \A r : Covered(r) => Covered(r)'
    BY AckedStep DEF Covered
  <1>3. ASSUME NEW m \in Nodes, NEW q \in Partitions, NEW r, r = committed'[m][q], r # None
        PROVE  Covered(r)'
    <2>1. CASE r = committed[m][q]
      BY <1>1, <1>2, <1>3, <2>1 DEF CommittableIsCovered
    <2>2. CASE r \in taken[m] \cup revoking[m]
      BY <1>1, <1>2, <2>2 DEF CommittableIsCovered
    <2>3. ASSUME NEW rec \in held[m], NEW k \in Nat, Ack(m, rec), Shortened(m, q, rec, k), k > 0
          PROVE  Covered(r)'
      <3>1. Owns(m, q)
        <4>1. 1 \in 1 .. Len(inFlight[m][q])
          BY <1>1, <2>3 DEF Shortened, TypeOK
        <4> QED BY <1>1, <4>1 DEF QueueInLine
      <3>2. /\ \A i \in 0 .. LogLen - 1 : i < Oldest(m, q) + k => Acked(q, i)'
            /\ r.part = q /\ r.off = Oldest(m, q) + k - 1
        BY <1>3, <2>3, <3>1, ShortenedIsAcked
      <3>3. Oldest(m, q) \in Int
        BY <1>1, LineType
      <3>4. r.off + 1 = Oldest(m, q) + k
        BY <3>2, <3>3
      <3> QED BY <3>2, <3>4 DEF Covered, AckedBelow
    <2>4. ASSUME NEW rec \in held[m], NEW k \in Nat, Shortened(m, q, rec, k), ~ (k > 0)
          PROVE  r = committed[m][q]
      BY <1>3, <2>4 DEF Shortened
    <2>5. QueueChange(m, q)
      BY <1>1, QueueStep
    <2>6. \/ r \in {committed[m][q]} \cup taken[m] \cup revoking[m]
          \/ \E rec \in held[m], k \in Nat : Ack(m, rec) /\ Shortened(m, q, rec, k)
      BY <1>3, <2>5 DEF QueueChange
    <2> QED BY <2>1, <2>2, <2>3, <2>4, <2>6
  <1>4. ASSUME NEW m \in Nodes, NEW r \in taken'[m] \cup revoking'[m]
        PROVE  Covered(r)'
    <2>1. CASE r \in taken[m] \cup revoking[m]
      BY <1>1, <1>2, <2>1 DEF CommittableIsCovered
    <2>2. CASE \E q \in Partitions : r = committed[m][q] /\ r # None
      BY <1>1, <1>2, <2>2 DEF CommittableIsCovered
    <2>3. r \in taken'[m] => r \in taken[m] \/ \E q \in Partitions : r = committed[m][q] /\ r # None
      <3>1. ASSUME NEW n \in Nodes, Take(n)
            PROVE  taken'[m] = taken[m] \/ taken'[m] = Committable(m)
        BY <1>1, <3>1 DEF Take
      <3>2. ASSUME NEW n \in Nodes, Commit(n) \/ Crash(n)
            PROVE  taken'[m] \subseteq taken[m]
        BY <1>1, <3>2 DEF Commit, Crash
      <3>3. ASSUME taken' # taken
            PROVE  \E n \in Nodes : Take(n) \/ Commit(n) \/ Crash(n)
        BY ZenonT(60), <3>3 DEF Next, vars, Poll, Assign, Deliver, Ack, Fence, Lost, Revoke,
             RevokeCommit
      <3> QED BY <3>1, <3>2, <3>3 DEF Committable
    <2>4. r \in revoking'[m] =>
             r \in revoking[m] \/ \E q \in Partitions : r = committed[m][q] /\ r # None
      <3>1. ASSUME NEW n \in Nodes, NEW p \in Partitions, Revoke(n, p)
            PROVE  revoking'[m] = revoking[m] \/ revoking'[m] = {committed[m][p]} \ {None}
        BY <1>1, <3>1 DEF Revoke
      <3>2. ASSUME NEW n \in Nodes, RevokeCommit(n) \/ Crash(n)
            PROVE  revoking'[m] \subseteq revoking[m]
        BY <1>1, <3>2 DEF RevokeCommit, Crash
      <3>3. ASSUME revoking' # revoking
            PROVE  \E n \in Nodes : \/ \E p \in Partitions : Revoke(n, p)
                                   \/ RevokeCommit(n) \/ Crash(n)
        BY ZenonT(60), <3>3 DEF Next, vars, Poll, Assign, Deliver, Ack, Fence, Lost, Take, Commit
      <3> QED BY <3>1, <3>2, <3>3
    <2> QED BY <2>1, <2>2, <2>3, <2>4
  <1>5. \A m \in Nodes, q \in Partitions : committed'[m][q] # None => Covered(committed[m][q])'
    BY <1>3 DEF Covered, AckedBelow
  <1> QED BY <1>4, <1>5 DEF CommittableIsCovered

\* A committed offset is moved by a commit only, to the end of a record of it.
LEMMA BrokerStep ==
    ASSUME TypeOK, [Next]_vars, NEW p \in Partitions, broker'[p] # broker[p]
    PROVE  \E n \in Nodes :
              \/ Commit(n) /\ \E r \in taken[n] : r.part = p /\ broker'[p] = r.off + 1
              \/ RevokeCommit(n) /\ \E r \in revoking[n] : r.part = p /\ broker'[p] = r.off + 1
  <1>1. taken \in [Nodes -> SUBSET Record] /\ revoking \in [Nodes -> SUBSET Record]
    BY DEF TypeOK
  <1>2. ASSUME NEW n \in Nodes,
               \/ \E q \in Partitions : \/ Revoke(n, q) \/ Assign(n, q)
                                      \/ \E k \in 1 .. BatchSize : Poll(n, q, k)
               \/ \E rec \in held[n] : Ack(n, rec)
               \/ Deliver(n) \/ Take(n) \/ Fence(n) \/ Lost(n) \/ Crash(n)
        PROVE  broker' = broker
    BY <1>2 DEF Poll, Assign, Deliver, Ack, Take, Fence, Lost, Revoke, Crash, brokerVars
  <1>3. PICK n \in Nodes : Commit(n) \/ RevokeCommit(n)
    BY <1>2 DEF Next, vars
  <1>4. CASE Commit(n)
    <2>1. CommitRecords(n, taken[n])
      BY <1>4 DEF Commit
    <2> QED BY <1>1, <1>4, <2>1, CommitEffect
  <1>5. CASE RevokeCommit(n)
    <2>1. CommitRecords(n, revoking[n])
      BY <1>5 DEF RevokeCommit
    <2> QED BY <1>1, <1>5, <2>1, CommitEffect
  <1> QED BY <1>3, <1>4, <1>5

LEMMA CommittedStep ==
    ASSUME IInv, CommittedIsAcked, Undisturbed, [Next]_vars
    PROVE  CommittedIsAcked'
  <1> SUFFICES ASSUME NEW p \in Partitions, NEW o \in 0 .. LogLen - 1, o < broker'[p]
               PROVE  Acked(p, o)'
    BY DEF CommittedIsAcked, Acked
  <1>1. TypeOK /\ CommittableIsCovered /\ acked \subseteq acked'
    BY AckedStep DEF IInv, InLine
  <1>2. Acked(p, o)
    <2>1. CASE broker'[p] = broker[p]
      BY <2>1 DEF CommittedIsAcked, Acked
    <2>2. CASE broker'[p] # broker[p]
      <3>1. PICK n \in Nodes : \E r \in taken[n] \cup revoking[n] :
               r.part = p /\ broker'[p] = r.off + 1
        BY <1>1, <2>2, BrokerStep
      <3>2. PICK r \in taken[n] \cup revoking[n] : r.part = p /\ broker'[p] = r.off + 1
        BY <3>1
      <3>3. Covered(r)
        BY <1>1 DEF CommittableIsCovered
      <3> QED BY <3>2, <3>3 DEF Covered, AckedBelow
    <2> QED BY <2>1, <2>2
  <1> QED BY <1>1, <1>2 DEF Acked

-----------------------------------------------------------------------------
(* Environments in which the group is steady, or nothing fails.             *)

LEMMA OwnedStep ==
    ASSUME IInv, [Next]_vars
    PROVE  CommittableIsOwned'
  <1> SUFFICES ASSUME Steady \/ Orderly, NEW m \in Nodes, NEW q \in Partitions,
                      committed'[m][q] # None
               PROVE  session'[m][q] > 0
    BY KindsStep DEF IInv, CommittableIsOwned, Owns
  <1>1. /\ TypeOK /\ SteadyGroup /\ Undisturbed
        /\ committed[m][q] # None => Owns(m, q)
    BY DEF IInv, CommittableIsOwned, Undisturbed, Steady, Orderly
  <1>2. QueueInLine
    BY <1>1 DEF IInv, InLine
  <1>3. CASE committed'[m][q] = committed[m][q]
    <2>1. session'[m][q] = session[m][q] \/ session'[m][q] > 0
      BY <1>1, SessionStep
    <2> QED BY <1>1, <1>3, <2>1 DEF Owns
  <1>4. ASSUME NEW rec \in held[m], NEW k \in Nat, Ack(m, rec), Shortened(m, q, rec, k), k > 0
        PROVE  session'[m][q] > 0
    <2>1. 1 \in 1 .. Len(inFlight[m][q])
      BY <1>1, <1>4 DEF Shortened, TypeOK
    <2>2. Owns(m, q)
      BY <1>2, <2>1 DEF QueueInLine
    <2> QED BY <1>4, <2>2 DEF Ack, Owns
  <1>5. ASSUME NEW rec \in held[m], NEW k \in Nat, Shortened(m, q, rec, k), ~ (k > 0)
        PROVE  committed'[m][q] = committed[m][q]
    BY <1>5 DEF Shortened
  <1>6. ASSUME ~ (Orderly /\ m \notin fenced), Commit(m), committed'[m][q] \in taken[m],
               committed'[m][q].part = q
        PROVE  session'[m][q] > 0
    <2>1. Steady
      BY <1>1, <1>6 DEF Orderly, SteadyGroup
    <2>2. Owns(m, q)
      BY <1>1, <1>6, <2>1 DEF SteadyGroup
    <2> QED BY <1>6, <2>2 DEF Commit, Owns
  <1>7. ASSUME ~ (Orderly /\ m \notin fenced), committed'[m][q] \in revoking[m]
        PROVE  FALSE
    BY <1>1, <1>7 DEF Orderly, Steady, SteadyGroup
  <1> QED BY <1>1, <1>3, <1>4, <1>5, <1>6, <1>7, QueueStep DEF QueueChange

\* A step takes what may be committed, ends a commit, or leaves it to go on.
LEMMA TakenStep ==
    ASSUME TypeOK, [Next]_vars, NEW m \in Nodes
    PROVE  \/ taken'[m] = taken[m] /\ ~ Commit(m)
           \/ Take(m) /\ taken[m] = {} /\ taken'[m] = Committable(m)
           \/ taken'[m] = {}
  <1>1. taken \in [Nodes -> SUBSET Record]
    BY DEF TypeOK
  <1>2. ASSUME NEW n \in Nodes, Take(n)
        PROVE  \/ taken'[m] = taken[m]
               \/ Take(m) /\ taken[m] = {} /\ taken'[m] = Committable(m)
    BY <1>1, <1>2 DEF Take
  <1>3. ASSUME NEW n \in Nodes, Commit(n) \/ Crash(n)
        PROVE  taken'[m] = taken[m] \/ taken'[m] = {}
    BY <1>1, <1>3 DEF Commit, Crash
  <1>4. Commit(m) => taken'[m] = {}
    BY <1>1 DEF Commit
  <1>5. ASSUME taken' # taken
        PROVE  \E n \in Nodes : Take(n) \/ Commit(n) \/ Crash(n)
    <2>1. ASSUME NEW n \in Nodes,
                 \/ \E q \in Partitions : \/ Revoke(n, q) \/ Assign(n, q)
                                        \/ \E k \in 1 .. BatchSize : Poll(n, q, k)
                 \/ \E rec \in held[n] : Ack(n, rec)
                 \/ Deliver(n) \/ RevokeCommit(n) \/ Fence(n) \/ Lost(n)
          PROVE  taken' = taken
      BY <2>1 DEF Poll, Assign, Deliver, Ack, Fence, Lost, Revoke, RevokeCommit
    <2> QED BY <1>5, <2>1 DEF Next, vars
  <1> QED BY <1>2, <1>3, <1>4, <1>5

\* In a steady group the line of a partition is committed in its order.
LEMMA FollowStep ==
    ASSUME IInv, Steady, [Next]_vars
    PROVE  /\ CommitsFollow'
           /\ \A p \in Partitions : broker'[p] >= broker[p]
  <1>1. /\ TypeOK /\ TypeOK' /\ Undisturbed /\ OwnerAgrees /\ PartsAgree /\ QueueInLine
        /\ CommitsFollow
        /\ \A n \in Nodes : revoking[n] = {} /\ \A r \in taken[n] : Owns(n, r.part)
        /\ \A n \in Nodes, p \in Partitions : Owns(n, p) => owner[p] = n
        /\ \A n \in Nodes, p \in Partitions : committed[n][p] # None => Owns(n, p)
    BY TypeStep DEF IInv, InLine, Undisturbed, Steady, SteadyGroup, OwnerAgrees,
                    CommittableIsOwned
  <1>2. ASSUME NEW p \in Partitions, broker'[p] # broker[p]
        PROVE  \E n \in Nodes :
                  /\ Commit(n) /\ Owns(n, p)
                  /\ \E r \in taken[n] : r.part = p /\ broker'[p] = r.off + 1
    <2>1. PICK n \in Nodes :
             \/ Commit(n) /\ \E r \in taken[n] : r.part = p /\ broker'[p] = r.off + 1
             \/ RevokeCommit(n) /\ \E r \in revoking[n] : r.part = p /\ broker'[p] = r.off + 1
      BY <1>1, <1>2, BrokerStep
    <2> QED BY <1>1, <2>1
  <1>3. ASSUME NEW p \in Partitions
        PROVE  broker'[p] >= broker[p]
    <2>1. broker[p] \in Int /\ broker'[p] \in Int
      BY <1>1, TrackerAssumption DEF TypeOK, TrackerAssumption
    <2>2. CASE broker'[p] # broker[p]
      BY <1>1, <1>2, <2>2 DEF CommitsFollow
    <2> QED BY <2>1, <2>2
  <1> SUFFICES ASSUME NEW m \in Nodes, NEW q \in Partitions, session'[m][q] > 0
               PROVE  /\ broker'[q] <= Oldest(m, q)'
                      /\ committed'[m][q] # None =>
                            /\ committed'[m][q].off < Oldest(m, q)'
                            /\ broker'[q] <= committed'[m][q].off + 1
                      /\ \A r \in taken'[m] : r.part = q =>
                            /\ r.off < Oldest(m, q)'
                            /\ broker'[q] <= r.off + 1
                            /\ committed'[m][q] # None => r.off < committed'[m][q].off
                            /\ \A s \in taken'[m] : s.part = q => s = r
    BY <1>3 DEF CommitsFollow, Owns
  <1> DEFINE O == Oldest(m, q)
             O1 == Oldest(m, q)'
             c == committed[m][q]
             c1 == committed'[m][q]
  <1>4. /\ broker[q] \in Int /\ broker'[q] \in Int /\ O \in Int
        /\ taken \in [Nodes -> SUBSET Record] /\ taken' \in [Nodes -> SUBSET Record]
        /\ c \in Record \cup {None} /\ c1 \in Record \cup {None}
        /\ \A r \in Record : r.off \in Int
    <2>1. O \in Int
      BY <1>1, LineType
    <2>2. \A r \in Record : r.off \in Int
      BY TrackerAssumption DEF Record, TrackerAssumption
    <2>3. broker[q] \in Int /\ broker'[q] \in Int
      BY <1>1, TrackerAssumption DEF TypeOK, TrackerAssumption
    <2> HIDE DEF O
    <2> QED BY <1>1, <2>1, <2>2, <2>3 DEF TypeOK
  <1>5. CASE Assign(m, q) /\ ~ Owns(m, q) /\ O1 = broker[q] /\ c1 = c
    <2>1. c1 = None
      BY <1>1, <1>5
    <2>2. broker'[q] = broker[q] /\ taken'[m] = taken[m]
      BY <1>5 DEF Assign
    <2>3. \A r \in taken'[m] : r.part # q
      BY <1>1, <1>5, <2>2
    <2> QED BY <1>4, <1>5, <2>1, <2>2, <2>3
  <1>6. CASE Owns(m, q)
    <2>1. /\ broker[q] <= O
          /\ c # None => c.off < O /\ broker[q] <= c.off + 1
          /\ \A r \in taken[m] : r.part = q =>
                /\ r.off < O /\ broker[q] <= r.off + 1
                /\ c # None => r.off < c.off
                /\ \A s \in taken[m] : s.part = q => s = r
      BY <1>1, <1>6 DEF CommitsFollow
    <2>2. \/ broker'[q] = broker[q]
          \/ Commit(m) /\ \E r \in taken[m] : r.part = q /\ broker'[q] = r.off + 1
      BY <1>1, <1>2, <1>6
    <2>3. O1 \in Int /\ O1 >= O
      BY <1>1, <1>4, <1>6, LineStep DEF LineChange, Assign
    <2>4. \/ c1 = c
          \/ c1 = None
          \/ broker'[q] = broker[q] /\ taken'[m] = taken[m] /\ O <= c1.off /\ c1.off < O1
          \/ Commit(m) /\ c1 \in taken[m] /\ c1.part = q /\ c = None
      <3>1. ASSUME NEW rec \in held[m], NEW k \in Nat, Ack(m, rec), Shortened(m, q, rec, k)
            PROVE  \/ c1 = c
                   \/ broker'[q] = broker[q] /\ taken'[m] = taken[m] /\ O <= c1.off /\ c1.off < O1
        <4>1. CASE k = 0
          BY <3>1, <4>1 DEF Shortened
        <4>2. CASE k > 0
          <5>1. c1.off = O + k - 1
            BY <1>1, <1>6, <3>1, <4>2, ShortenedIsAcked
          <5>2. O1 = O + k
            <6>1. Len(inFlight'[m][q]) = Len(inFlight[m][q]) - k
              BY <3>1 DEF Shortened
            <6>2. NextTracked(m, q)' = NextTracked(m, q)
              BY <3>1 DEF Ack, NextTracked, Waiting
            <6>3. Len(inFlight[m][q]) \in Nat /\ Len(batch[m]) \in Nat /\ pos[m][q] \in Int
              BY <1>1, LineType
            <6> QED BY <6>1, <6>2, <6>3 DEF Oldest, NextTracked, Waiting
          <5>3. broker' = broker /\ taken' = taken
            BY <3>1 DEF Ack, brokerVars
          <5> QED BY <1>4, <4>2, <5>1, <5>2, <5>3
        <4> QED BY <4>1, <4>2
      <3>2. ASSUME c1 \in revoking[m] PROVE FALSE
        BY <1>1, <3>2
      <3>3. ASSUME c1 \in taken[m], c1.part = q, c # None, c.off < c1.off PROVE FALSE
        BY <1>4, <2>1, <3>3
      <3> QED BY <1>1, <3>1, <3>2, <3>3, QueueStep DEF QueueChange
    <2>5. broker'[q] <= O1
      BY <1>4, <2>1, <2>2, <2>3
    <2>6. c1 # None => c1.off < O1 /\ broker'[q] <= c1.off + 1
      BY <1>4, <2>1, <2>2, <2>3, <2>4
    <2>7. ASSUME NEW r \in taken'[m], r.part = q
          PROVE  /\ r.off < O1 /\ broker'[q] <= r.off + 1
                 /\ c1 # None => r.off < c1.off
                 /\ \A s \in taken'[m] : s.part = q => s = r
      <3>1. CASE taken'[m] = taken[m] /\ ~ Commit(m)
        BY <1>4, <2>1, <2>2, <2>3, <2>4, <2>7, <3>1
      <3>2. CASE Take(m) /\ taken'[m] = Committable(m)
        <4>1. \A s \in Committable(m) : s.part = q => s = c /\ c # None
          BY <1>1 DEF Committable, PartsAgree
        <4>2. c1 = None /\ broker' = broker
          BY <1>1, <3>2 DEF Take, TypeOK, brokerVars
        <4> QED BY <1>4, <2>1, <2>3, <2>7, <3>2, <4>1, <4>2
      <3> QED BY <1>1, <2>7, <3>1, <3>2, TakenStep
    <2> QED BY <2>5, <2>6, <2>7
  <1> QED BY <1>1, <1>5, <1>6, LineStep DEF LineChange

-----------------------------------------------------------------------------
(* The theorems.                                                            *)

LEMMA InitInv == Init => IInv
  <1> SUFFICES ASSUME Init PROVE IInv
    OBVIOUS
  <1> USE TrackerAssumption DEF TrackerAssumption
  <1>1. /\ \A n \in Nodes : batch[n] = <<>> /\ taken[n] = {} /\ revoking[n] = {}
        /\ \A n \in Nodes, p \in Partitions :
              /\ ~ Owns(n, p)
              /\ inFlight[n][p] = <<>> /\ committed[n][p] = None
        /\ \A p \in Partitions : broker[p] = 0
        /\ fenced = {}
    BY DEF Init, Owns
  <1>2. TypeOK
    <2>1. /\ broker \in [Partitions -> 0 .. LogLen]
          /\ owner \in [Partitions -> Nodes \cup {None}]
          /\ gen \in [Partitions -> 0 .. MaxGen]
          /\ fenced \subseteq Nodes
          /\ session \in [Nodes -> [Partitions -> 0 .. MaxGen]]
          /\ pos \in [Nodes -> [Partitions -> 0 .. LogLen]]
      BY DEF Init
    <2>2. /\ batch \in [Nodes -> Seq(Record)]
          /\ held \in [Nodes -> SUBSET Record]
          /\ inFlight \in [Nodes -> [Partitions -> Seq(Tracked)]]
          /\ committed \in [Nodes -> [Partitions -> Record \cup {None}]]
          /\ taken \in [Nodes -> SUBSET Record]
          /\ revoking \in [Nodes -> SUBSET Record]
          /\ acked \subseteq Record
      BY DEF Init
    <2>3. plan \in [kinds : {plan.kinds}, log : {plan.log}, max : 0 .. plan.max]
      <3>1. plan \in [kinds : SUBSET FaultKinds, max : Nat, log : 0 .. LogLen]
        BY DEF Init
      <3> QED BY <3>1
    <2> QED BY <2>1, <2>2, <2>3 DEF TypeOK, Init
  <1>3. LateAckIgnored /\ PartsAgree
    BY <1>1 DEF LateAckIgnored, PartsAgree
  <1>4. RevokedIsGone /\ OwnerAgrees /\ SteadyGroup /\ CommittableIsOwned
    BY <1>1 DEF RevokedIsGone, OwnerAgrees, SteadyGroup, CommittableIsOwned
  <1>5. InLine /\ CommittedIsAcked /\ CommitsFollow
    BY <1>1 DEF InLine, BatchInLine, QueueInLine, LineIsAcked, CommittableIsCovered,
                CommittedIsAcked, CommitsFollow
  <1> QED BY <1>2, <1>3, <1>4, <1>5 DEF IInv

\* The inductive invariant of OffsetTracker, from which the theorems below follow.
LEMMA Inductive == Spec => []IInv
  <1>1. IInv /\ [Next]_vars => IInv'
    <2> SUFFICES ASSUME IInv, [Next]_vars PROVE IInv'
      OBVIOUS
    <2>1. /\ TypeOK /\ LateAckIgnored /\ PartsAgree /\ RevokedIsGone /\ OwnerAgrees
          /\ SteadyGroup /\ CommittableIsOwned
          /\ Undisturbed => CommittedIsAcked
      BY DEF IInv
    <2>2. Steady' = Steady /\ Undisturbed' = Undisturbed
      BY <2>1, KindsStep
    <2>3. TypeOK' /\ LateAckIgnored' /\ PartsAgree' /\ RevokedIsGone' /\ OwnerAgrees'
      BY <2>1, TypeStep, LateAckStep, PartsStep, RevokedStep, OwnerStep
    <2>4. SteadyGroup' /\ CommittableIsOwned'
      BY <2>1, SteadyStep, OwnedStep
    <2>5. Undisturbed => InLine' /\ CommittedIsAcked'
      BY <2>1, BatchStep, QueueInLineStep, LineIsAckedStep, CoveredStep, CommittedStep
         DEF InLine
    <2>6. Steady => CommitsFollow'
      BY FollowStep
    <2> QED BY <2>2, <2>3, <2>4, <2>5, <2>6 DEF IInv
  <1> QED BY <1>1, InitInv, PTL DEF Spec

\* OffsetTracker is type correct, whatever the environment: no member reads beyond
\* the log, commits a record that was never delivered or runs out of assignments.
THEOREM TypeCorrect == Spec => []TypeOK
  <1>1. IInv => TypeOK
    BY DEF IInv
  <1> QED BY <1>1, Inductive, PTL

\* Unless a rebalance interrupts a poll, a committed offset never covers a record no
\* worker has acked, whatever else fails: rebalances, failed commits, lost replies,
\* dropped members and crashes (queue.go:28-30, offsets.go:19-22).  The interrupted
\* poll is the violation the run OffsetMidBatch shows.
THEOREM OnlyAckedIsCommitted ==
    Spec => []("midBatch" \notin plan.kinds => CommittedIsAcked)
  <1>1. IInv => ("midBatch" \notin plan.kinds => CommittedIsAcked)
    BY DEF IInv, Undisturbed
  <1> QED BY <1>1, Inductive, PTL

\* In every environment a tracked record is done only if that very delivery was
\* acked; and what is due to be committed is the member's own, unless commits fail
\* where partitions move (offsets.go:44-45, 98-100).
THEOREM TrackerSound == Spec => []TrackerIsSound
  <1>1. IInv => TrackerIsSound
    BY DEF IInv, TrackerIsSound
  <1> QED BY <1>1, Inductive, PTL

\* While members come and go only by crashing, no commit, failed, repeated or by
\* another member, takes a committed offset back (offsets.go:86-96).
THEOREM CommitsGoForward == Spec => CommitNeverRewinds
  <1>1. IInv /\ [Next]_vars =>
           [Steady => \A p \in Partitions : broker'[p] >= broker[p]]_vars
    BY FollowStep
  <1> QED BY <1>1, Inductive, PTL DEF Spec, CommitNeverRewinds
=============================================================================
