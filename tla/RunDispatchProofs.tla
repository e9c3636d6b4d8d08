------------------------- MODULE RunDispatchProofs -------------------------
(***************************************************************************)
(* From the run message to the run's crawl, for any runs, nodes and limits.*)
(* Under every plan of faults: the types, and the store's counters and     *)
(* slots.  Where calls only fail, however many: no run is lost, because it *)
(* is in one place at a time and leaves one only for the next.             *)
(***************************************************************************)
EXTENDS RunDispatch, RunStoreProofs

-----------------------------------------------------------------------------
(* Types. *)

Records == [run : Runs \cup {None}, state : {"free", "ready", "held", "acked"}, owner : Nodes \cup {None}]
Listeners == [pc : PC, rec : 0 .. plan.room, run : Runs \cup {None}]

\* TypeOK without the store's part, which holds by StoreStep.
Typed ==
    /\ topic \in [1 .. plan.room -> Records]
    /\ buffer \in [Nodes -> SUBSET Runs]
    /\ listener \in [Nodes -> Listeners]
    /\ phase \in [Nodes -> {"up", "cancelled", "closing", "closed"}]
    /\ work \subseteq Runs
    /\ ending \in [Runs -> {"no", "release", "cleanup"}]
    /\ finished \subseteq Runs /\ expired \subseteq Runs
    /\ \E e \in Plans : plan \in [unusable : {e.unusable}, room : {e.room},
                                  kinds : {e.kinds}, max : 0 .. e.max]

LEMMA TypeOKIsTyped == TypeOK <=> StoreTypeOK /\ Typed
  BY Zenon DEF TypeOK, Typed, Records, Listeners

\* A record that is not free is some run's, one that has been delivered is held or
\* acked, and a listener at work has a record and a run.
HasRun ==
    /\ \A i \in DOMAIN topic : topic[i] # Free => topic[i].run \in Runs
    /\ \A i \in DOMAIN topic : topic[i].owner \in Nodes => topic[i].state \in {"held", "acked"}
    /\ \A n \in Nodes : listener[n].pc \notin {"idle", "stopped"} =>
                           listener[n].run \in Runs /\ listener[n].rec \in DOMAIN topic

LEMMA PlanStep ==
    ASSUME Typed, [Next]_vars
    PROVE  /\ plan'.kinds = plan.kinds /\ plan'.room = plan.room /\ plan'.unusable = plan.unusable
           /\ \E e \in Plans : plan' \in [unusable : {e.unusable}, room : {e.room},
                                          kinds : {e.kinds}, max : 0 .. e.max]
  <1>1. PICK e \in Plans : plan \in [unusable : {e.unusable}, room : {e.room},
                                     kinds : {e.kinds}, max : 0 .. e.max]
    BY DEF Typed
  <1>2. ASSUME NEW k, Fault(k)
        PROVE  /\ plan'.kinds = plan.kinds /\ plan'.room = plan.room /\ plan'.unusable = plan.unusable
               /\ plan' \in [unusable : {e.unusable}, room : {e.room}, kinds : {e.kinds}, max : 0 .. e.max]
    <2>1. plan' = [plan EXCEPT !.max = plan.max - 1] /\ plan.max > 0
      BY <1>2 DEF Fault
    <2>2. e.max \in Nat
      BY DispatchAssumption DEF DispatchAssumption
    <2> QED BY <1>1, <2>1, <2>2
  <1>3. UNCHANGED plan \/ \E k \in FaultKinds : Fault(k)
    <2>1. ASSUME NEW n \in Nodes, NEW o \in Outcomes, Poll(n, o) \/ Admit(n, o) \/ Undo(n, o) \/ DispatchError(n, o)
          PROVE  UNCHANGED plan \/ Fault(o)
      <3>1. UNCHANGED plan \/ Answers(o)
        BY <2>1, Zenon DEF Poll, Admit, Undo, DispatchError
      <3> QED BY <3>1, Zenon DEF Answers
    <2>2. Outcomes \ {"ok"} \subseteq FaultKinds /\ {"produceFails", "crash", "rebalance", "shutdown"} \subseteq FaultKinds
      BY DEF Outcomes, FaultKinds
    <2>3. ASSUME NEW n \in Nodes, NEW o \in Outcomes, Poll(n, o) \/ Admit(n, o) \/ Undo(n, o) \/ DispatchError(n, o)
          PROVE  UNCHANGED plan \/ \E k \in FaultKinds : Fault(k)
      <3>1. o = "ok" => UNCHANGED plan
        BY <2>3, ZenonT(60) DEF Poll, Admit, Undo, DispatchError, Answers
      <3> QED BY <2>1, <2>2, <2>3, <3>1
    <2>4. ASSUME NEW n \in Nodes, Listen(n)
          PROVE  UNCHANGED plan \/ \E k \in FaultKinds : Fault(k)
      <3>1. Wait(n) \/ NoSlotInTime(n) \/ AfterDispatchError(n) \/ Ack(n) => UNCHANGED plan
        BY Zenon DEF Wait, NoSlotInTime, AfterDispatchError, Ack
      <3>2. Requeue(n) \/ Produce(n) => UNCHANGED plan \/ Fault("produceFails")
        BY Zenon DEF Requeue, Produce
      <3> QED BY <2>2, <2>3, <2>4, <3>1, <3>2, ZenonT(60) DEF Listen
    <2>5. ASSUME NEW n \in Nodes, (\E i \in DOMAIN topic : Receive(n, i)) \/ (\E r \in buffer[n] : Flush(n, r))
                                  \/ Commit(n) \/ GoDown(n)
          PROVE  UNCHANGED plan
      BY <2>5, ZenonT(60) DEF Receive, Flush, Commit, GoDown, StopProcessor, QueuesClosed, Restart
    <2>6. ASSUME NEW n \in Nodes, Rebalance(n) \/ Cancel(n) \/ Crash(n)
          PROVE  \E k \in FaultKinds : Fault(k)
      BY <2>2, <2>6, ZenonT(60) DEF Rebalance, Cancel, Crash
    <2>7. ASSUME NEW r \in Runs, EndRun(r)
          PROVE  UNCHANGED plan
      BY <2>7, ZenonT(60) DEF EndRun, Crawl, EndRelease, EndCleanup
    <2>8. Tick \/ UNCHANGED vars => UNCHANGED plan
      BY Zenon DEF Tick, vars
    <2> QED BY <2>4, <2>5, <2>6, <2>7, <2>8, ZenonT(60) DEF Next
  <1> QED BY <1>1, <1>2, <1>3

-----------------------------------------------------------------------------
(* What one step does to the topic and to the listeners. *)

LEMMA ReturnedIs ==
    ASSUME Typed, HasRun, NEW n \in Nodes
    PROVE  /\ Returned(n) \in [DOMAIN topic -> Records] /\ Committed(n) \in [DOMAIN topic -> Records]
           /\ \A i \in DOMAIN topic :
                /\ Returned(n)[i] = IF topic[i].owner = n THEN Record(topic[i].run) ELSE topic[i]
                /\ Committed(n)[i] = IF topic[i].owner = n /\ topic[i].state = "acked" THEN Free ELSE topic[i]
  <1>1. \A i \in DOMAIN topic : topic[i] \in Records
    BY DEF Typed
  <1>2. \A i \in DOMAIN topic : Record(topic[i].run) \in Records
    BY <1>1 DEF Record, Records
  <1>3. Free \in Records
    BY DEF Free, Records
  <1> QED BY <1>1, <1>2, <1>3 DEF Returned, Committed

\* A record is delivered, acked, put back, or freed, and a free one is written.
TopicSteps ==
    \A i \in DOMAIN topic :
        \/ topic'[i] = topic[i]
        \/ /\ topic[i].state = "ready"
           /\ \E n \in Nodes : Receive(n, i) /\ topic'[i] = [run |-> topic[i].run, state |-> "held", owner |-> n]
        \/ /\ topic[i].state = "held" /\ topic[i].owner \in Nodes
           /\ topic'[i] = [run |-> topic[i].run, state |-> "acked", owner |-> topic[i].owner]
        \/ topic[i].owner \in Nodes /\ topic'[i] = Record(topic[i].run)
        \/ topic[i].state = "acked" /\ topic'[i] = Free
        \/ topic[i] = Free /\ \E r \in Runs : topic'[i] = Record(r)

LEMMA TopicStep ==
    ASSUME Typed, HasRun, [Next]_vars
    PROVE  topic' \in [DOMAIN topic -> Records] /\ TopicSteps
  <1>1. topic \in [DOMAIN topic -> Records] /\ \A i \in DOMAIN topic : topic[i] \in Records
    BY DEF Typed
  <1>2. ASSUME NEW n \in Nodes, NEW i \in DOMAIN topic, Receive(n, i)
        PROVE  topic' \in [DOMAIN topic -> Records] /\ TopicSteps
    <2> DEFINE x == [run |-> topic[i].run, state |-> "held", owner |-> n]
    <2>1. topic' = [topic EXCEPT ![i] = x] /\ topic[i].state = "ready"
      <3> DEFINE y == [topic[i] EXCEPT !.state = "held", !.owner = n]
      <3>1. topic' = [topic EXCEPT ![i] = y] /\ topic[i].state = "ready"
        BY <1>1, <1>2 DEF Receive
      <3>2. y = x
        <4> DEFINE z == [topic[i] EXCEPT !.state = "held"]
        <4>1. z = [run |-> topic[i].run, state |-> "held", owner |-> topic[i].owner]
          BY <1>1 DEF Records
        <4>2. y = [z EXCEPT !.owner = n]
          OBVIOUS
        <4> HIDE DEF z
        <4> QED BY <4>1, <4>2
      <3> QED BY <3>1, <3>2
    <2>2. x \in Records
      BY <1>1 DEF Records
    <2>3. topic'[i] = x /\ \A j \in DOMAIN topic \ {i} : topic'[j] = topic[j]
      BY <1>1, <2>1
    <2>4. topic' \in [DOMAIN topic -> Records]
      BY <1>1, <2>1, <2>2
    <2> QED BY <1>2, <2>1, <2>3, <2>4 DEF TopicSteps
  <1>3. ASSUME NEW n \in Nodes, Ack(n)
        PROVE  topic' \in [DOMAIN topic -> Records] /\ TopicSteps
    <2> DEFINE i == listener[n].rec
               x == [run |-> topic[i].run, state |-> "acked", owner |-> topic[i].owner]
    <2>1. i \in DOMAIN topic
      BY <1>3 DEF Ack, HasRun
    <2>2. CASE topic[i].state = "held" /\ topic[i].owner = n
      <3>1. topic' = [topic EXCEPT ![i] = x]
        <4> DEFINE y == [topic[i] EXCEPT !.state = "acked"]
        <4>1. topic' = [topic EXCEPT ![i] = y]
          BY <1>1, <1>3, <2>1, <2>2 DEF Ack
        <4>2. y = x
          BY <1>1, <2>1 DEF Records
        <4> QED BY <4>1, <4>2
      <3>2. x \in Records
        BY <1>1, <2>1 DEF Records
      <3> HIDE DEF x, i
      <3>3. topic'[i] = x /\ \A j \in DOMAIN topic \ {i} : topic'[j] = topic[j]
        BY <1>1, <2>1, <3>1
      <3>4. topic' \in [DOMAIN topic -> Records]
        BY <1>1, <3>1, <3>2
      <3> QED BY <2>2, <3>3, <3>4 DEF TopicSteps, x
    <2>3. CASE ~ (topic[i].state = "held" /\ topic[i].owner = n)
      <3>1. topic' = topic
        BY <1>3, <2>3 DEF Ack
      <3> QED BY <1>1, <3>1 DEF TopicSteps
    <2> QED BY <2>2, <2>3
  <1>4. ASSUME NEW n \in Nodes, NEW r \in buffer[n], Flush(n, r)
        PROVE  topic' \in [DOMAIN topic -> Records] /\ TopicSteps
    <2>1. PICK i \in DOMAIN topic : topic[i] = Free /\ topic' = [topic EXCEPT ![i] = Record(r)]
      BY <1>4, Zenon DEF Flush
    <2>2. r \in Runs
      BY DEF Typed
    <2>3. Record(r) \in Records
      BY <2>2 DEF Record, Records
    <2>4. topic'[i] = Record(r) /\ \A j \in DOMAIN topic \ {i} : topic'[j] = topic[j]
      BY <1>1, <2>1
    <2>5. topic' \in [DOMAIN topic -> Records]
      BY <1>1, <2>1, <2>3
    <2> QED BY <2>1, <2>2, <2>4, <2>5 DEF TopicSteps
  <1>5. ASSUME NEW n \in Nodes, Commit(n)
        PROVE  topic' \in [DOMAIN topic -> Records] /\ TopicSteps
    <2>1. topic' = Committed(n)
      BY <1>5 DEF Commit
    <2>2. \A i \in DOMAIN topic : topic'[i] = IF topic[i].owner = n /\ topic[i].state = "acked" THEN Free ELSE topic[i]
      BY <2>1, ReturnedIs
    <2> QED BY <2>1, <2>2, ReturnedIs DEF TopicSteps
  <1>6. ASSUME NEW n \in Nodes, Rebalance(n) \/ Crash(n)
        PROVE  topic' \in [DOMAIN topic -> Records] /\ TopicSteps
    <2>1. topic' = Returned(n)
      BY <1>6 DEF Rebalance, Crash
    <2>2. \A i \in DOMAIN topic : topic'[i] = IF topic[i].owner = n THEN Record(topic[i].run) ELSE topic[i]
      BY <2>1, ReturnedIs
    <2> QED BY <2>1, <2>2, ReturnedIs DEF TopicSteps
  <1>7. ASSUME NEW n \in Nodes, QueuesClosed(n)
        PROVE  topic' \in [DOMAIN topic -> Records] /\ TopicSteps
    <2>1. topic' = [i \in DOMAIN topic |->
                     IF topic[i].owner # n THEN topic[i]
                     ELSE IF topic[i].state = "acked" THEN Free ELSE Record(topic[i].run)]
      BY <1>7 DEF QueuesClosed
    <2>2. \A i \in DOMAIN topic : Record(topic[i].run) \in Records
      BY <1>1 DEF Record, Records
    <2>3. Free \in Records
      BY DEF Free, Records
    <2>4. \A i \in DOMAIN topic : topic'[i] = IF topic[i].owner # n THEN topic[i]
                                             ELSE IF topic[i].state = "acked" THEN Free ELSE Record(topic[i].run)
      BY <2>1
    <2>5. topic' \in [DOMAIN topic -> Records]
      BY <1>1, <2>1, <2>2, <2>3
    <2> QED BY <2>4, <2>5 DEF TopicSteps
  <1>8. CASE UNCHANGED topic
    BY <1>1, <1>8 DEF TopicSteps
  <1>9. ASSUME NEW n \in Nodes, Listen(n), ~ Ack(n)
        PROVE  UNCHANGED topic
    BY <1>9, ZenonT(60) DEF Listen, Poll, Admit, Undo, DispatchError, Wait, NoSlotInTime, Requeue,
                            Produce, AfterDispatchError
  <1>10. ASSUME NEW n \in Nodes, Cancel(n) \/ StopProcessor(n) \/ Restart(n)
         PROVE  UNCHANGED topic
    BY <1>10, ZenonT(60) DEF Cancel, StopProcessor, Restart
  <1>11. ASSUME NEW r \in Runs, EndRun(r)
         PROVE  UNCHANGED topic
    BY <1>11, ZenonT(60) DEF EndRun, Crawl, EndRelease, EndCleanup
  <1>12. Tick \/ UNCHANGED vars => UNCHANGED topic
    BY Zenon DEF Tick, vars
  <1> QED BY <1>2, <1>3, <1>4, <1>5, <1>6, <1>7, <1>8, <1>9, <1>10, <1>11, <1>12, ZenonT(60) DEF Next, GoDown

\* A listener goes on with its run, takes the next or has none.
ListenerSteps ==
    \A n \in Nodes :
        \/ listener'[n] = listener[n]
        \/ listener'[n].pc \in {"idle", "stopped"}
        \/ /\ listener[n].pc \notin {"idle", "stopped"}
           /\ listener'[n].rec = listener[n].rec /\ listener'[n].run = listener[n].run
        \/ \E i \in DOMAIN topic : /\ topic[i].state = "ready"
                                   /\ listener'[n].rec = i /\ listener'[n].run = topic[i].run

LEMMA GotoIs ==
    ASSUME Typed, NEW n \in Nodes, NEW pc \in PC, Goto(n, pc)
    PROVE  /\ listener' \in [Nodes -> Listeners]
           /\ listener' = [listener EXCEPT ![n] = [pc |-> pc, rec |-> listener[n].rec, run |-> listener[n].run]]
           /\ listener'[n] = [pc |-> pc, rec |-> listener[n].rec, run |-> listener[n].run]
           /\ \A m \in Nodes \ {n} : listener'[m] = listener[m]
  <1> DEFINE x == [pc |-> pc, rec |-> listener[n].rec, run |-> listener[n].run]
             y == [listener[n] EXCEPT !.pc = pc]
  <1>1. listener \in [Nodes -> Listeners] /\ listener[n] \in Listeners
    BY DEF Typed
  <1>2. listener' = [listener EXCEPT ![n] = y]
    BY DEF Goto
  <1>3. y = x /\ x \in Listeners
    BY <1>1 DEF Listeners
  <1> HIDE DEF x, y
  <1>4. listener' = [listener EXCEPT ![n] = x]
    BY <1>2, <1>3
  <1>5. listener' \in [Nodes -> Listeners] /\ listener'[n] = x /\ \A m \in Nodes \ {n} : listener'[m] = listener[m]
    BY <1>1, <1>3, <1>4
  <1> QED BY <1>4, <1>5 DEF x

LEMMA IdleIs ==
    ASSUME Typed
    PROVE  Idle \in Listeners /\ Stopped \in Listeners /\ Idle.pc = "idle" /\ Stopped.pc = "stopped"
  <1>1. plan.room \in Nat
    BY DispatchAssumption DEF Typed, DispatchAssumption
  <1> QED BY <1>1 DEF Idle, Stopped, Listeners, PC

LEMMA ListenIs ==
    ASSUME Typed, NEW n \in Nodes, Listen(n)
    PROVE  /\ listener[n].pc \notin {"idle", "stopped"}
           /\ \/ \E pc \in PC : Goto(n, pc)
              \/ \E x \in {Idle, Stopped} : listener' = [listener EXCEPT ![n] = x]
  <1> DEFINE Goal == /\ listener[n].pc \notin {"idle", "stopped"}
                     /\ \/ \E pc \in PC : Goto(n, pc)
                        \/ \E x \in {Idle, Stopped} : listener' = [listener EXCEPT ![n] = x]
  <1>1. ASSUME NEW o \in Outcomes, Poll(n, o) PROVE Goal
    <2>1. Goto(n, "noSlot") \/ Goto(n, "admit") \/ Goto(n, "wait")
      <3>1. CASE Cancelled(n)
        BY <1>1, <3>1, Zenon DEF Poll
      <3>2. CASE ~ Cancelled(n)
        <4>1. Goto(n, CASE o # "ok" -> "noSlot"
                        [] o = "ok" /\ AcquireGranted(RunOf(n)) -> "admit"
                        [] o = "ok" /\ ~ AcquireGranted(RunOf(n)) -> "wait")
          BY <1>1, <3>2, Zenon DEF Poll
        <4> QED BY <4>1
      <3> QED BY <3>1, <3>2
    <2>2. listener[n].pc = "poll"
      BY <1>1, Zenon DEF Poll
    <2> QED BY <2>1, <2>2 DEF PC
  <1>2. ASSUME NEW o \in Outcomes, Admit(n, o) PROVE Goal
    <2>1. Goto(n, "failed") \/ Goto(n, "produce") \/ Goto(n, "ack")
      <3>1. Goto(n, CASE o # "ok" -> "failed"
                      [] o = "ok" /\ AdmitReply(RunOf(n), First) = "Admitted" -> "produce"
                      [] o = "ok" /\ AdmitReply(RunOf(n), First) = "Duplicate" -> "ack"
                      [] o = "ok" /\ AdmitReply(RunOf(n), First) \in {"LimitReached", "RunInactive"} -> "failed")
        BY <1>2, Zenon DEF Admit
      <3>2. AdmitReply(RunOf(n), First) \in {"Admitted", "Duplicate", "LimitReached", "RunInactive"}
        BY DEF AdmitReply
      <3> QED BY <3>1, <3>2
    <2>2. listener[n].pc = "admit"
      BY <1>2, Zenon DEF Admit
    <2> QED BY <2>1, <2>2 DEF PC
  <1>3. ASSUME NEW o \in Outcomes, Undo(n, o) \/ DispatchError(n, o) PROVE Goal
    BY <1>3 DEF Undo, DispatchError, PC
  <1>4. ASSUME Wait(n) \/ Requeue(n) \/ Produce(n) PROVE Goal
    BY <1>4 DEF Wait, Requeue, Produce, PC
  <1>5. ASSUME NoSlotInTime(n) \/ AfterDispatchError(n) \/ Ack(n) PROVE Goal
    BY <1>5 DEF NoSlotInTime, AfterDispatchError, Ack, PC
  <1> QED BY <1>1, <1>2, <1>3, <1>4, <1>5, ZenonT(60) DEF Listen

LEMMA ListenerStep ==
    ASSUME Typed, HasRun, [Next]_vars
    PROVE  listener' \in [Nodes -> Listeners] /\ ListenerSteps
  <1>1. listener \in [Nodes -> Listeners]
    BY DEF Typed
  <1>2. ASSUME NEW n \in Nodes, NEW i \in DOMAIN topic, Receive(n, i)
        PROVE  listener' \in [Nodes -> Listeners] /\ ListenerSteps
    <2>1. PICK pc \in {"ack", "poll"} :
            listener' = [listener EXCEPT ![n] = [pc |-> pc, rec |-> i, run |-> topic[i].run]]
      BY <1>2 DEF Receive
    <2>2. [pc |-> pc, rec |-> i, run |-> topic[i].run] \in Listeners
      <3>1. i \in 0 .. plan.room /\ topic[i].run \in Runs \cup {None}
        BY DispatchAssumption DEF Typed, Records, DispatchAssumption
      <3> QED BY <3>1 DEF Listeners, PC
    <2>3. topic[i].state = "ready"
      BY <1>2 DEF Receive
    <2>4. listener' \in [Nodes -> Listeners]
      BY <1>1, <2>1, <2>2
    <2>5. /\ listener'[n].rec = i /\ listener'[n].run = topic[i].run
          /\ \A m \in Nodes \ {n} : listener'[m] = listener[m]
      BY <1>1, <2>1
    <2> QED BY <2>3, <2>4, <2>5 DEF ListenerSteps
  <1>3. ASSUME NEW n \in Nodes, NEW x \in {Idle, Stopped}, listener' = [listener EXCEPT ![n] = x]
        PROVE  listener' \in [Nodes -> Listeners] /\ ListenerSteps
    BY <1>1, <1>3, IdleIs DEF ListenerSteps
  <1>4. ASSUME NEW n \in Nodes, Listen(n)
        PROVE  listener' \in [Nodes -> Listeners] /\ ListenerSteps
    <2>1. listener[n].pc \notin {"idle", "stopped"}
      BY <1>4, ListenIs
    <2>2. CASE \E pc \in PC : Goto(n, pc)
      <3>1. PICK pc \in PC : Goto(n, pc)
        BY <2>2
      <3>2. /\ listener' \in [Nodes -> Listeners]
            /\ listener'[n] = [pc |-> pc, rec |-> listener[n].rec, run |-> listener[n].run]
            /\ \A m \in Nodes \ {n} : listener'[m] = listener[m]
        BY <3>1, GotoIs, Zenon
      <3>3. listener'[n].rec = listener[n].rec /\ listener'[n].run = listener[n].run
        BY <3>2
      <3> QED BY <2>1, <3>2, <3>3 DEF ListenerSteps
    <2> QED BY <1>3, <1>4, <2>2, ListenIs
  <1>5. ASSUME NEW n \in Nodes, Restart(n) \/ Crash(n)
        PROVE  listener' \in [Nodes -> Listeners] /\ ListenerSteps
    BY <1>3, <1>5 DEF Restart, Crash, Down
  <1>6. CASE UNCHANGED listener
    BY <1>1, <1>6 DEF ListenerSteps
  <1>7. ASSUME NEW n \in Nodes, (\E r \in buffer[n] : Flush(n, r)) \/ Commit(n) \/ Rebalance(n)
                                \/ Cancel(n) \/ StopProcessor(n) \/ QueuesClosed(n)
        PROVE  UNCHANGED listener
    BY <1>7, ZenonT(60) DEF Flush, Commit, Rebalance, Cancel, StopProcessor, QueuesClosed
  <1>8. ASSUME NEW r \in Runs, EndRun(r)
        PROVE  UNCHANGED listener
    BY <1>8, ZenonT(60) DEF EndRun, Crawl, EndRelease, EndCleanup
  <1>9. Tick \/ UNCHANGED vars => UNCHANGED listener
    BY Zenon DEF Tick, vars
  <1> QED BY <1>2, <1>4, <1>5, <1>6, <1>7, <1>8, <1>9, ZenonT(60) DEF Next, GoDown

LEMMA HasRunStep ==
    ASSUME Typed, HasRun, [Next]_vars
    PROVE  HasRun'
  <1>1. topic' \in [DOMAIN topic -> Records] /\ TopicSteps
    BY TopicStep
  <1>2. listener' \in [Nodes -> Listeners] /\ ListenerSteps
    BY ListenerStep
  <1>3. DOMAIN topic' = DOMAIN topic
    BY <1>1
  <1>4. None \notin Runs \cup Nodes
    BY DispatchAssumption DEF DispatchAssumption
  <1>5. ASSUME NEW i \in DOMAIN topic
        PROVE  /\ topic'[i] # Free => topic'[i].run \in Runs
               /\ topic'[i].owner \in Nodes => topic'[i].state \in {"held", "acked"}
    <2>1. topic[i] # Free => topic[i].run \in Runs
      BY DEF HasRun
    <2>2. topic[i].owner \in Nodes => topic[i].state \in {"held", "acked"}
      BY DEF HasRun
    <2>3. Free.state = "free" /\ Free.owner = None /\ \A r : Record(r).run = r /\ Record(r).owner = None
      BY DEF Free, Record
    <2> QED BY <1>1, <1>4, <2>1, <2>2, <2>3 DEF TopicSteps
  <1>6. ASSUME NEW n \in Nodes, listener'[n].pc \notin {"idle", "stopped"}
        PROVE  listener'[n].run \in Runs /\ listener'[n].rec \in DOMAIN topic
    <2>1. \A i \in DOMAIN topic : topic[i].state = "ready" => topic[i].run \in Runs
      BY DEF HasRun, Free
    <2> QED BY <1>2, <1>6, <2>1 DEF ListenerSteps, HasRun
  <1> QED BY <1>3, <1>5, <1>6 DEF HasRun

-----------------------------------------------------------------------------
(* The store is changed by its methods only, and the rest keeps its type. *)

LEMMA CallsStore ==
    ASSUME Typed, HasRun, [Next]_vars
    PROVE  [StoreNext]_store
  <1>1. First \in Tasks
    BY DispatchAssumption DEF DispatchAssumption
  <1>2. ASSUME NEW n \in Nodes, Listen(n)
        PROVE  [StoreNext]_store
    <2>1. RunOf(n) \in Runs
      BY <1>2, ListenIs DEF RunOf, HasRun
    <2>2. ASSUME NEW o \in Outcomes, Poll(n, o) PROVE UNCHANGED store \/ AcquireRunSlot(RunOf(n))
      BY <2>2, Zenon DEF Poll
    <2>3. ASSUME NEW o \in Outcomes, Admit(n, o) PROVE UNCHANGED store \/ AdmitTask(RunOf(n), First)
      BY <2>3, Zenon DEF Admit
    <2>4. ASSUME NEW o \in Outcomes, Undo(n, o) PROVE UNCHANGED store \/ UnadmitTask(RunOf(n), First)
      BY <2>4, Zenon DEF Undo
    <2>5. ASSUME NEW o \in Outcomes, DispatchError(n, o) PROVE UNCHANGED store \/ ReleaseRunSlot(RunOf(n))
      BY <2>5, Zenon DEF DispatchError
    <2>6. Wait(n) \/ NoSlotInTime(n) \/ Requeue(n) \/ Produce(n) \/ AfterDispatchError(n) \/ Ack(n) => UNCHANGED store
      BY ZenonT(60) DEF Wait, NoSlotInTime, Requeue, Produce, AfterDispatchError, Ack
    <2>7. UNCHANGED store \/ AcquireRunSlot(RunOf(n)) \/ AdmitTask(RunOf(n), First)
             \/ UnadmitTask(RunOf(n), First) \/ ReleaseRunSlot(RunOf(n))
      BY <1>2, <2>2, <2>3, <2>4, <2>5, <2>6, ZenonT(60) DEF Listen
    <2> QED BY <1>1, <2>1, <2>7, Zenon DEF StoreNext
  <1>3. ASSUME NEW r \in Runs, EndRun(r)
        PROVE  [StoreNext]_store
    <2>1. Crawl(r) => UNCHANGED store \/ CompleteTask(r, First)
      BY Zenon DEF Crawl
    <2>2. EndRelease(r) => ReleaseRunSlot(r)
      BY Zenon DEF EndRelease
    <2>3. EndCleanup(r) => CleanupRun(r)
      BY Zenon DEF EndCleanup
    <2> QED BY <1>1, <1>3, <2>1, <2>2, <2>3, Zenon DEF EndRun, StoreNext
  <1>4. ASSUME NEW n \in Nodes, (\E i \in DOMAIN topic : Receive(n, i)) \/ (\E r \in buffer[n] : Flush(n, r))
                                \/ Commit(n) \/ Rebalance(n) \/ Cancel(n) \/ GoDown(n) \/ Crash(n)
        PROVE  UNCHANGED store
    BY <1>4, ZenonT(60) DEF Receive, Flush, Commit, Rebalance, Cancel, GoDown, StopProcessor, QueuesClosed,
                            Restart, Crash
  <1>5. Tick => LeaseTick
    BY Zenon DEF Tick
  <1>6. UNCHANGED vars => UNCHANGED store
    BY DEF vars, store
  <1> QED BY <1>2, <1>3, <1>4, <1>5, <1>6, ZenonT(60) DEF Next, StoreNext

LEMMA BufferStep ==
    ASSUME Typed, HasRun, [Next]_vars
    PROVE  buffer' \in [Nodes -> SUBSET Runs]
  <1>1. buffer \in [Nodes -> SUBSET Runs]
    BY DEF Typed
  <1>2. ASSUME NEW n \in Nodes, Requeue(n)
        PROVE  buffer' \in [Nodes -> SUBSET Runs]
    <2>1. RunOf(n) \in Runs
      BY <1>2 DEF Requeue, RunOf, HasRun
    <2>2. UNCHANGED buffer \/ buffer' = [buffer EXCEPT ![n] = buffer[n] \cup {RunOf(n)}]
      BY <1>2 DEF Requeue
    <2> QED BY <1>1, <2>1, <2>2
  <1>3. ASSUME NEW n \in Nodes, (\E r \in buffer[n] : Flush(n, r)) \/ Restart(n) \/ Crash(n)
        PROVE  buffer' \in [Nodes -> SUBSET Runs]
    <2>1. \/ \E r \in buffer[n] : buffer' = [buffer EXCEPT ![n] = buffer[n] \ {r}]
          \/ buffer' = [buffer EXCEPT ![n] = {}]
      BY <1>3 DEF Flush, Restart, Crash, Down
    <2> QED BY <1>1, <2>1
  <1>4. ASSUME NEW n \in Nodes, Listen(n), ~ Requeue(n)
        PROVE  UNCHANGED buffer
    BY <1>4, ZenonT(60) DEF Listen, Poll, Admit, Undo, DispatchError, Wait, NoSlotInTime, Produce,
                            AfterDispatchError, Ack
  <1>5. ASSUME NEW n \in Nodes, (\E i \in DOMAIN topic : Receive(n, i)) \/ Commit(n) \/ Rebalance(n)
                                \/ Cancel(n) \/ StopProcessor(n) \/ QueuesClosed(n)
        PROVE  UNCHANGED buffer
    BY <1>5, ZenonT(60) DEF Receive, Commit, Rebalance, Cancel, StopProcessor, QueuesClosed
  <1>6. ASSUME NEW r \in Runs, EndRun(r)
        PROVE  UNCHANGED buffer
    BY <1>6, ZenonT(60) DEF EndRun, Crawl, EndRelease, EndCleanup
  <1>7. Tick \/ UNCHANGED vars => UNCHANGED buffer
    BY Zenon DEF Tick, vars
  <1>8. UNCHANGED buffer => buffer' \in [Nodes -> SUBSET Runs]
    BY <1>1
  <1> QED BY <1>2, <1>3, <1>4, <1>5, <1>6, <1>7, <1>8, ZenonT(60) DEF Next, GoDown

LEMMA PhaseStep ==
    ASSUME Typed, [Next]_vars
    PROVE  phase' \in [Nodes -> {"up", "cancelled", "closing", "closed"}]
  <1>1. phase \in [Nodes -> {"up", "cancelled", "closing", "closed"}]
    BY DEF Typed
  <1>2. ASSUME NEW n \in Nodes, Cancel(n) \/ GoDown(n) \/ Crash(n)
        PROVE  phase' \in [Nodes -> {"up", "cancelled", "closing", "closed"}]
    <2>1. \E x \in {"up", "cancelled", "closing", "closed"} : phase' = [phase EXCEPT ![n] = x]
      BY <1>2 DEF Cancel, GoDown, StopProcessor, QueuesClosed, Restart, Crash, Down
    <2> QED BY <1>1, <2>1
  <1>3. ASSUME NEW n \in Nodes, Listen(n) \/ (\E i \in DOMAIN topic : Receive(n, i))
                                \/ (\E r \in buffer[n] : Flush(n, r)) \/ Commit(n) \/ Rebalance(n)
        PROVE  UNCHANGED phase
    BY <1>3, ZenonT(60) DEF Listen, Poll, Admit, Undo, DispatchError, Wait, NoSlotInTime, Requeue, Produce,
                            AfterDispatchError, Ack, Receive, Flush, Commit, Rebalance
  <1>4. ASSUME NEW r \in Runs, EndRun(r)
        PROVE  UNCHANGED phase
    BY <1>4, ZenonT(60) DEF EndRun, Crawl, EndRelease, EndCleanup
  <1>5. Tick \/ UNCHANGED vars => UNCHANGED phase
    BY Zenon DEF Tick, vars
  <1>6. UNCHANGED phase => phase' \in [Nodes -> {"up", "cancelled", "closing", "closed"}]
    BY <1>1
  <1> QED BY <1>2, <1>3, <1>4, <1>5, <1>6, ZenonT(60) DEF Next

LEMMA CrawlStep ==
    ASSUME Typed, HasRun, [Next]_vars
    PROVE  /\ work' \subseteq Runs /\ finished' \subseteq Runs /\ expired' \subseteq Runs
           /\ ending' \in [Runs -> {"no", "release", "cleanup"}]
  <1> DEFINE Goal == /\ work' \subseteq Runs /\ finished' \subseteq Runs /\ expired' \subseteq Runs
                     /\ ending' \in [Runs -> {"no", "release", "cleanup"}]
  <1>1. /\ work \subseteq Runs /\ finished \subseteq Runs /\ expired \subseteq Runs
        /\ ending \in [Runs -> {"no", "release", "cleanup"}]
    BY DEF Typed
  <1>2. ASSUME NEW n \in Nodes, Produce(n)
        PROVE  Goal
    <2>1. RunOf(n) \in Runs
      BY <1>2 DEF Produce, RunOf, HasRun
    <2>2. (work' = work \/ work' = work \cup {RunOf(n)}) /\ UNCHANGED <<ending, finished, expired>>
      BY <1>2, Zenon DEF Produce
    <2> QED BY <1>1, <2>1, <2>2
  <1>3. ASSUME NEW r \in Runs, EndRun(r)
        PROVE  Goal
    <2>1. CASE Crawl(r)
      <3>1. /\ work' = work \ {r} /\ UNCHANGED expired
            /\ \/ UNCHANGED <<ending, finished>>
               \/ ending' = [ending EXCEPT ![r] = "release"] /\ finished' = finished \cup {r}
        BY <2>1, Zenon DEF Crawl
      <3> QED BY <1>1, <3>1
    <2>2. CASE EndRelease(r) \/ EndCleanup(r)
      <3>1. /\ UNCHANGED <<work, finished, expired>>
            /\ \E x \in {"cleanup", "no"} : ending' = [ending EXCEPT ![r] = x]
        BY <2>2 DEF EndRelease, EndCleanup
      <3> QED BY <1>1, <3>1
    <2> QED BY <1>3, <2>1, <2>2, Zenon DEF EndRun
  <1>4. Tick => expired' \subseteq Runs /\ UNCHANGED <<work, ending, finished>>
    BY <1>1 DEF Tick
  <1>5. ASSUME NEW n \in Nodes, Listen(n), ~ Produce(n)
        PROVE  UNCHANGED crawlVars
    BY <1>5, ZenonT(60) DEF Listen, Poll, Admit, Undo, DispatchError, Wait, NoSlotInTime, Requeue,
                            AfterDispatchError, Ack
  <1>6. ASSUME NEW n \in Nodes, (\E i \in DOMAIN topic : Receive(n, i)) \/ (\E r \in buffer[n] : Flush(n, r))
                                \/ Commit(n) \/ Rebalance(n) \/ Cancel(n) \/ GoDown(n) \/ Crash(n)
        PROVE  UNCHANGED crawlVars
    BY <1>6, ZenonT(60) DEF Receive, Flush, Commit, Rebalance, Cancel, GoDown, StopProcessor, QueuesClosed,
                            Restart, Crash
  <1>7. UNCHANGED vars => UNCHANGED crawlVars
    BY DEF vars, crawlVars
  <1>8. UNCHANGED crawlVars => Goal
    BY <1>1 DEF crawlVars
  <1>9. Tick => Goal
    BY <1>1, <1>4
  <1> HIDE DEF Goal
  <1>10. Goal
    BY <1>2, <1>3, <1>5, <1>6, <1>7, <1>8, <1>9, ZenonT(60) DEF Next
  <1> QED BY <1>10 DEF Goal

LEMMA TypedStep ==
    ASSUME Typed, HasRun, StoreInv, [Next]_vars
    PROVE  Typed' /\ HasRun' /\ StoreInv'
  <1>1. topic' \in [1 .. plan'.room -> Records]
    <2>1. DOMAIN topic = 1 .. plan'.room
      BY PlanStep DEF Typed
    <2> QED BY <2>1, TopicStep
  <1>2. listener' \in [Nodes -> Listeners']
    <2>1. Listeners' = Listeners
      BY PlanStep DEF Listeners
    <2> QED BY <2>1, ListenerStep
  <1>3. Typed'
    BY <1>1, <1>2, PlanStep, BufferStep, PhaseStep, CrawlStep DEF Typed, Records
  <1> QED BY <1>3, HasRunStep, CallsStore, StoreStep

-----------------------------------------------------------------------------
(* Where calls only fail, a run is in one place at a time.                   *)

\* Where a listener has not yet passed its run on.
Active == {"poll", "wait", "noSlot", "requeue", "admit", "produce", "failed", "refused"}

ReadyAt(r)    == {i \in DOMAIN topic : topic[i].run = r /\ topic[i].state = "ready"}
BufferedAt(r) == {n \in Nodes : r \in buffer[n]}
HeldBy(r)     == {n \in Nodes : listener[n].run = r /\ listener[n].pc \in Active}

Single(S) == \A x, y \in S : x = y

InOnePlace(r) ==
    /\ Single(ReadyAt(r)) /\ Single(BufferedAt(r)) /\ Single(HeldBy(r))
    /\ ReadyAt(r) # {} => BufferedAt(r) = {} /\ HeldBy(r) = {} /\ r \notin work \cup finished
    /\ BufferedAt(r) # {} => HeldBy(r) = {} /\ r \notin work \cup finished
    /\ HeldBy(r) # {} => r \notin work \cup finished
    /\ r \in work => r \notin finished

InSomePlace(r) ==
    ReadyAt(r) # {} \/ BufferedAt(r) # {} \/ HeldBy(r) # {} \/ r \in work \/ r \in finished

OnePlace ==
    \A r \in Runs : InOnePlace(r) /\ (r \notin plan.unusable => InSomePlace(r))

\* The nodes stay up, and a listener at work holds the record of its run.
Quiet ==
    /\ expired = {}
    /\ \A n \in Nodes :
        /\ phase[n] = "up" /\ listener[n].pc \notin {"undo", "stopped"}
        /\ listener[n].pc # "idle" =>
              topic[listener[n].rec] = [run |-> listener[n].run, state |-> "held", owner |-> n]

\* What Redis knows of a run follows from where the run is.
Ledger ==
    /\ \A r \in Runs :
        /\ \A t \in Tasks \ {First} : status[r][t] = "absent"
        /\ r \in work => status[r][First] = "queued" /\ Live(r)
        /\ ending[r] # "no" => r \in finished
        /\ status[r][First] # "absent" => \/ r \in work \cup finished
                                          \/ \E n \in HeldBy(r) : listener[n].pc = "produce"
    /\ \A n \in Nodes :
        /\ listener[n].pc = "produce" => status[RunOf(n)][First] = "queued" /\ Live(RunOf(n))
        /\ listener[n].pc = "admit" => Live(RunOf(n))

FlowInv == Quiet /\ OnePlace /\ Ledger

\* The steps that are left where calls only fail.
LEMMA CalmStep ==
    ASSUME Typed, Quiet, Calm, [Next]_vars
    PROVE  \/ \E n \in Nodes : \/ Listen(n) /\ \A o \in Outcomes : ~ Undo(n, o)
                               \/ \E i \in DOMAIN topic : Receive(n, i)
                               \/ \E r \in buffer[n] : Flush(n, r)
                               \/ Commit(n)
           \/ \E r \in Runs : EndRun(r)
           \/ UNCHANGED vars
  <1>1. \A n \in Nodes : ~ Rebalance(n) /\ ~ Cancel(n) /\ ~ Crash(n)
    BY DEF Calm, Rebalance, Cancel, Crash, Fault
  <1>2. \A n \in Nodes : ~ GoDown(n)
    BY DEF Quiet, GoDown, StopProcessor, QueuesClosed, Restart
  <1>3. ~ Tick
    BY DEF Calm, Tick
  <1>4. \A n \in Nodes, o \in Outcomes : ~ Undo(n, o)
    BY DEF Quiet, Undo
  <1> QED BY <1>1, <1>2, <1>3, <1>4, ZenonT(60) DEF Next

\* A listener's move, seen from the runs.
LEMMA HeldMove ==
    ASSUME listener \in [Nodes -> Listeners], NEW n \in Nodes, NEW x \in Listeners,
           listener' = [listener EXCEPT ![n] = x], NEW r
    PROVE  /\ HeldBy(r)' = IF x.run = r /\ x.pc \in Active THEN HeldBy(r) \cup {n} ELSE HeldBy(r) \ {n}
           /\ listener'[n] = x /\ \A m \in Nodes \ {n} : listener'[m] = listener[m]
  BY DEF HeldBy

\* What each step of a listener comes to where calls only fail.
ListensOn(n, from, to) ==
    /\ listener[n].pc \in from /\ Goto(n, to)
    /\ UNCHANGED <<topic, phase, ending, finished, expired>>

LEMMA CalmListens ==
    ASSUME Typed, HasRun, Quiet, Ledger, OnePlace, Calm, StoreInv, NEW n \in Nodes, Listen(n)
    PROVE  \/ /\ ListensOn(n, {"poll"}, "noSlot") \/ ListensOn(n, {"poll"}, "wait") \/ ListensOn(n, {"poll"}, "admit")
              /\ UNCHANGED <<buffer, work>>
              /\ UNCHANGED store \/ AcquireRunSlot(RunOf(n))
              /\ listener'[n].pc = "admit" => AcquireRunSlot(RunOf(n)) /\ AcquireGranted(RunOf(n))
           \/ /\ \/ ListensOn(n, {"wait"}, "poll") \/ ListensOn(n, {"wait"}, "noSlot")
                 \/ ListensOn(n, {"noSlot", "refused"}, "requeue") \/ ListensOn(n, {"admit"}, "failed")
              /\ UNCHANGED <<buffer, work, store>>
           \/ /\ ListensOn(n, {"requeue"}, "ack")
              /\ buffer' = [buffer EXCEPT ![n] = @ \cup {RunOf(n)}]
              /\ UNCHANGED <<work, store>>
           \/ /\ ListensOn(n, {"admit"}, "produce")
              /\ AdmitReply(RunOf(n), First) = "Admitted" /\ AdmitTask(RunOf(n), First)
              /\ UNCHANGED <<buffer, work>>
           \/ /\ ListensOn(n, {"produce"}, "ack")
              /\ work' = work \cup {RunOf(n)}
              /\ UNCHANGED <<buffer, store>>
           \/ /\ ListensOn(n, {"failed"}, "refused")
              /\ UNCHANGED store \/ ReleaseRunSlot(RunOf(n))
              /\ UNCHANGED <<buffer, work>>
           \/ Ack(n)
  <1>1. phase[n] = "up" /\ listener[n].pc # "undo"
    BY DEF Quiet
  <1>2. \A o \in Outcomes : Answers(o) => o \in {"ok", "redisDown"}
    BY DEF Outcomes, Answers, Fault, Calm
  <1>3. ~ Cancelled(n) /\ ~ Refuses(n) /\ ~ Fault("produceFails")
    BY <1>1 DEF Cancelled, Refuses, Fault, Calm
  <1>4. ASSUME NEW o \in Outcomes, Poll(n, o)
        PROVE  /\ ListensOn(n, {"poll"}, "noSlot") \/ ListensOn(n, {"poll"}, "wait") \/ ListensOn(n, {"poll"}, "admit")
               /\ UNCHANGED <<buffer, work>>
               /\ UNCHANGED store \/ AcquireRunSlot(RunOf(n))
               /\ listener'[n].pc = "admit" => AcquireRunSlot(RunOf(n)) /\ AcquireGranted(RunOf(n))
    <2>1. /\ Answers(o)
          /\ IF o = "redisDown" THEN UNCHANGED store ELSE AcquireRunSlot(RunOf(n))
          /\ Goto(n, CASE o # "ok" -> "noSlot"
                       [] o = "ok" /\ AcquireGranted(RunOf(n)) -> "admit"
                       [] o = "ok" /\ ~ AcquireGranted(RunOf(n)) -> "wait")
      BY <1>3, <1>4, Zenon DEF Poll
    <2>2. UNCHANGED <<topic, buffer, phase, crawlVars>> /\ listener[n].pc = "poll"
      BY <1>4, Zenon DEF Poll
    <2>3. \/ Goto(n, "noSlot") \/ Goto(n, "wait")
          \/ Goto(n, "admit") /\ o = "ok" /\ AcquireGranted(RunOf(n))
      BY <2>1
    <2>4. /\ Goto(n, "noSlot") => listener'[n].pc = "noSlot"
          /\ Goto(n, "wait") => listener'[n].pc = "wait"
      BY DEF Goto, Typed, Listeners
    <2> QED BY <2>1, <2>2, <2>3, <2>4 DEF ListensOn, crawlVars
  <1>5. ASSUME Wait(n) \/ NoSlotInTime(n) \/ AfterDispatchError(n)
        PROVE  /\ \/ ListensOn(n, {"wait"}, "poll") \/ ListensOn(n, {"wait"}, "noSlot")
                  \/ ListensOn(n, {"noSlot", "refused"}, "requeue") \/ ListensOn(n, {"admit"}, "failed")
               /\ UNCHANGED <<buffer, work, store>>
    BY <1>3, <1>5 DEF Wait, NoSlotInTime, AfterDispatchError, ListensOn, crawlVars
  <1>6. ASSUME Requeue(n)
        PROVE  /\ ListensOn(n, {"requeue"}, "ack")
               /\ buffer' = [buffer EXCEPT ![n] = @ \cup {RunOf(n)}]
               /\ UNCHANGED <<work, store>>
    BY <1>3, <1>6 DEF Requeue, ListensOn, crawlVars
  <1>7. ASSUME NEW o \in Outcomes, Admit(n, o)
        PROVE  \/ ListensOn(n, {"admit"}, "failed") /\ UNCHANGED <<buffer, work, store>>
               \/ /\ ListensOn(n, {"admit"}, "produce")
                  /\ AdmitReply(RunOf(n), First) = "Admitted" /\ AdmitTask(RunOf(n), First)
                  /\ UNCHANGED <<buffer, work>>
    <2> DEFINE r == RunOf(n)
               reply == AdmitReply(r, First)
    <2>1. listener[n].pc = "admit" /\ UNCHANGED <<topic, buffer, phase, crawlVars>> /\ Answers(o)
      BY <1>7, Zenon DEF Admit
    <2>2. IF o = "redisDown" THEN UNCHANGED store ELSE AdmitTask(r, First)
      BY <1>7, Zenon DEF Admit
    <2>3. Goto(n, CASE o # "ok" -> "failed"
                    [] o = "ok" /\ reply = "Admitted" -> "produce"
                    [] o = "ok" /\ reply = "Duplicate" -> "ack"
                    [] o = "ok" /\ reply \in {"LimitReached", "RunInactive"} -> "failed")
      BY <1>7, Zenon DEF Admit
    <2>4. reply \in {"Admitted", "Duplicate", "LimitReached", "RunInactive"}
      BY DEF AdmitReply
    <2>5. reply # "Duplicate"
      <3>1. r \in Runs /\ n \in HeldBy(r)
        BY <2>1 DEF HasRun, RunOf, HeldBy, Active
      <3>2. r \notin work \cup finished
        BY <3>1 DEF OnePlace, InOnePlace
      <3>3. \A m \in HeldBy(r) : m = n
        BY <3>1 DEF OnePlace, InOnePlace, Single
      <3>4. status[r][First] = "absent"
        BY <2>1, <3>1, <3>2, <3>3 DEF Ledger
      <3> QED BY <3>4 DEF AdmitReply
    <2>6. o \in {"ok", "redisDown"}
      BY <1>2, <2>1
    <2>7. CASE o = "ok" /\ reply = "Admitted"
      BY <2>1, <2>2, <2>3, <2>7 DEF ListensOn, crawlVars
    <2>8. CASE ~ (o = "ok" /\ reply = "Admitted")
      <3>1. Goto(n, "failed")
        BY <2>3, <2>4, <2>5, <2>6, <2>8
      <3>2. UNCHANGED store
        BY <2>2, <2>6, <2>8, Zenon DEF AdmitTask
      <3> QED BY <2>1, <3>1, <3>2 DEF ListensOn, crawlVars
    <2> QED BY <2>7, <2>8
  <1>8. ASSUME Produce(n)
        PROVE  /\ ListensOn(n, {"produce"}, "ack")
               /\ work' = work \cup {RunOf(n)}
               /\ UNCHANGED <<buffer, store>>
    BY <1>3, <1>8 DEF Produce, ListensOn
  <1>9. ASSUME NEW o \in Outcomes, DispatchError(n, o)
        PROVE  /\ ListensOn(n, {"failed"}, "refused")
               /\ UNCHANGED store \/ ReleaseRunSlot(RunOf(n))
               /\ UNCHANGED <<buffer, work>>
    BY <1>9 DEF DispatchError, ListensOn, crawlVars
  <1>10. \A o \in Outcomes : ~ Undo(n, o)
    BY <1>1 DEF Undo
  <1> QED BY <1>4, <1>5, <1>6, <1>7, <1>8, <1>9, <1>10, ZenonT(60) DEF Listen

\* One run, from one place to the next.
PlaceSteps(r) ==
    LET Stays == /\ ReadyAt(r)' = ReadyAt(r) /\ BufferedAt(r)' = BufferedAt(r) /\ HeldBy(r)' = HeldBy(r)
                 /\ (r \in work') = (r \in work) /\ (r \in finished') = (r \in finished)
    IN
    \/ Stays
    \/ \E i \in ReadyAt(r), n \in Nodes :
          /\ ReadyAt(r)' = ReadyAt(r) \ {i} /\ BufferedAt(r)' = BufferedAt(r)
          /\ HeldBy(r)' = HeldBy(r) \cup {n} \/ (HeldBy(r)' = HeldBy(r) /\ r \in plan.unusable)
          /\ (r \in work') = (r \in work) /\ (r \in finished') = (r \in finished)
    \/ \E n \in HeldBy(r) :
          /\ ReadyAt(r)' = ReadyAt(r) /\ HeldBy(r)' = HeldBy(r) \ {n}
          /\ \/ BufferedAt(r)' = BufferedAt(r) \cup {n} /\ (r \in work') = (r \in work)
             \/ BufferedAt(r)' = BufferedAt(r) /\ r \in work'
          /\ (r \in finished') = (r \in finished)
    \/ \E n \in BufferedAt(r), i \in DOMAIN topic :
          /\ ReadyAt(r)' = ReadyAt(r) \cup {i} /\ BufferedAt(r)' = BufferedAt(r) \ {n} /\ HeldBy(r)' = HeldBy(r)
          /\ (r \in work') = (r \in work) /\ (r \in finished') = (r \in finished)
    \/ /\ ReadyAt(r)' = ReadyAt(r) /\ BufferedAt(r)' = BufferedAt(r) /\ HeldBy(r)' = HeldBy(r)
       /\ r \in work /\ r \notin work' /\ r \in finished'

LEMMA OnePlaceByStep ==
    ASSUME NEW r, InOnePlace(r), PlaceSteps(r)
    PROVE  InOnePlace(r)' /\ (r \notin plan.unusable /\ InSomePlace(r) => InSomePlace(r)')
  <1> USE DEF InOnePlace, InSomePlace, Single
  <1>1. CASE /\ ReadyAt(r)' = ReadyAt(r) /\ BufferedAt(r)' = BufferedAt(r) /\ HeldBy(r)' = HeldBy(r)
             /\ (r \in work') = (r \in work) /\ (r \in finished') = (r \in finished)
    BY <1>1
  <1>2. ASSUME NEW i \in ReadyAt(r), NEW n \in Nodes,
               ReadyAt(r)' = ReadyAt(r) \ {i}, BufferedAt(r)' = BufferedAt(r),
               HeldBy(r)' = HeldBy(r) \cup {n} \/ (HeldBy(r)' = HeldBy(r) /\ r \in plan.unusable),
               (r \in work') = (r \in work), (r \in finished') = (r \in finished)
        PROVE  InOnePlace(r)' /\ (r \notin plan.unusable /\ InSomePlace(r) => InSomePlace(r)')
    BY <1>2
  <1>3. ASSUME NEW n \in HeldBy(r), ReadyAt(r)' = ReadyAt(r), HeldBy(r)' = HeldBy(r) \ {n},
               \/ BufferedAt(r)' = BufferedAt(r) \cup {n} /\ (r \in work') = (r \in work)
               \/ BufferedAt(r)' = BufferedAt(r) /\ r \in work',
               (r \in finished') = (r \in finished)
        PROVE  InOnePlace(r)' /\ (r \notin plan.unusable /\ InSomePlace(r) => InSomePlace(r)')
    BY <1>3
  <1>4. ASSUME NEW n \in BufferedAt(r), NEW i \in DOMAIN topic,
               ReadyAt(r)' = ReadyAt(r) \cup {i}, BufferedAt(r)' = BufferedAt(r) \ {n}, HeldBy(r)' = HeldBy(r),
               (r \in work') = (r \in work), (r \in finished') = (r \in finished)
        PROVE  InOnePlace(r)' /\ (r \notin plan.unusable /\ InSomePlace(r) => InSomePlace(r)')
    BY <1>4
  <1>5. CASE /\ ReadyAt(r)' = ReadyAt(r) /\ BufferedAt(r)' = BufferedAt(r) /\ HeldBy(r)' = HeldBy(r)
             /\ r \in work /\ r \notin work' /\ r \in finished'
    BY <1>5
  <1> QED BY <1>1, <1>2, <1>3, <1>4, <1>5, Zenon DEF PlaceSteps

\* The worker that takes a run's first task completes it, and with it the run.
LEMMA CalmCrawl ==
    ASSUME Typed, StoreInv, Ledger, NEW r \in Runs, Crawl(r)
    PROVE  /\ r \in work /\ work' = work \ {r} /\ finished' = finished \cup {r}
           /\ ending' = [ending EXCEPT ![r] = "release"]
           /\ status' = [status EXCEPT ![r][First] = "done"] /\ lease' = Renewed(r)
           /\ UNCHANGED <<topic, buffer, listener, phase, expired, plan>>
  <1>1. r \in work /\ work' = work \ {r} /\ UNCHANGED <<topic, buffer, listener, phase, expired, plan>>
    BY Zenon DEF Crawl
  <1>2. status[r][First] = "queued" /\ Live(r)
    BY <1>1 DEF Ledger
  <1>3. First \in Tasks
    BY DispatchAssumption DEF DispatchAssumption
  <1>4. Queued(r) = {First}
    BY <1>2, <1>3 DEF Queued, Ledger
  <1>5. active[r] = 1
    <2>1. Cardinality({First}) = 1
      BY FS_Singleton
    <2> QED BY <1>4, <2>1 DEF StoreInv, CountersExact
  <1>6. CompleteReply(r, First).counted /\ CompleteReply(r, First).left = 0
    BY <1>2, <1>5 DEF CompleteReply
  <1>7. TaskStateReply(r, First).runActive /\ ~ TaskStateReply(r, First).done
    BY <1>2 DEF TaskStateReply
  <1>8. /\ CompleteTask(r, First)
        /\ ending' = [ending EXCEPT ![r] = "release"] /\ finished' = finished \cup {r}
    BY <1>6, <1>7, Zenon DEF Crawl
  <1>9. status' = [status EXCEPT ![r][First] = "done"] /\ lease' = Renewed(r)
    BY <1>6, <1>8, Zenon DEF CompleteTask
  <1> QED BY <1>1, <1>8, <1>9

LEMMA ReceiveTakes ==
    ASSUME Typed, NEW n \in Nodes, NEW i \in DOMAIN topic, Receive(n, i)
    PROVE  /\ topic'[i] = [run |-> topic[i].run, state |-> "held", owner |-> n]
           /\ topic'[i].state = "held" /\ topic'[i].run = topic[i].run
           /\ \A j \in DOMAIN topic \ {i} : topic'[j] = topic[j]
  <1>1. topic \in [DOMAIN topic -> Records] /\ topic[i] \in Records
    BY DEF Typed
  <1> DEFINE x == [run |-> topic[i].run, state |-> "held", owner |-> n]
             y == [topic[i] EXCEPT !.state = "held", !.owner = n]
             z == [topic[i] EXCEPT !.state = "held"]
  <1>2. y = x
    <2>1. z = [run |-> topic[i].run, state |-> "held", owner |-> topic[i].owner]
      BY <1>1 DEF Records
    <2>2. y = [z EXCEPT !.owner = n]
      OBVIOUS
    <2> HIDE DEF z
    <2> QED BY <2>1, <2>2
  <1>3. topic' = [topic EXCEPT ![i] = y]
    BY <1>1 DEF Receive
  <1>4. topic'[i] = x /\ \A j \in DOMAIN topic \ {i} : topic'[j] = topic[j]
    <2> HIDE DEF x, y
    <2> QED BY <1>1, <1>2, <1>3
  <1>5. x.state = "held" /\ x.run = topic[i].run
    OBVIOUS
  <1> HIDE DEF x
  <1>6. topic'[i].state = "held" /\ topic'[i].run = topic[i].run
    BY <1>4, <1>5
  <1> QED BY <1>4, <1>6 DEF x

LEMMA CalmReceive ==
    ASSUME Typed, HasRun, NEW n \in Nodes, NEW i \in DOMAIN topic, Receive(n, i)
    PROVE  /\ listener[n].pc = "idle" /\ topic[i].state = "ready" /\ topic[i].run \in Runs
           /\ \E pc \in {"ack", "poll"} :
                 /\ listener' = [listener EXCEPT ![n] = [pc |-> pc, rec |-> i, run |-> topic[i].run]]
                 /\ [pc |-> pc, rec |-> i, run |-> topic[i].run] \in Listeners
                 /\ pc = "ack" => topic[i].run \in plan.unusable
           /\ UNCHANGED buffer /\ UNCHANGED phase /\ UNCHANGED work /\ UNCHANGED finished /\ UNCHANGED expired
  <1>1. listener[n].pc = "idle" /\ topic[i].state = "ready"
        /\ UNCHANGED buffer /\ UNCHANGED phase /\ UNCHANGED work /\ UNCHANGED finished /\ UNCHANGED expired
    BY DEF Receive, crawlVars
  <1>2. topic[i].run \in Runs
    BY <1>1 DEF HasRun, Free
  <1>3. \E pc \in {"ack", "poll"} :
            /\ listener' = [listener EXCEPT ![n] = [pc |-> pc, rec |-> i, run |-> topic[i].run]]
            /\ pc = "ack" => topic[i].run \in plan.unusable
    BY DEF Receive
  <1>4. \A pc \in {"ack", "poll"} : [pc |-> pc, rec |-> i, run |-> topic[i].run] \in Listeners
    <2>1. i \in 0 .. plan.room
      BY DispatchAssumption DEF Typed, DispatchAssumption
    <2> QED BY <1>2, <2>1 DEF Listeners, PC
  <1> QED BY <1>1, <1>2, <1>3, <1>4

LEMMA CalmAck ==
    ASSUME Typed, HasRun, Quiet, NEW n \in Nodes, Ack(n)
    PROVE  /\ listener[n].pc = "ack" /\ listener' = [listener EXCEPT ![n] = Idle]
           /\ \A j \in DOMAIN topic :
                 topic'[j] # topic[j] => topic[j].state = "held" /\ topic[j].owner = n /\ topic'[j].state = "acked"
           /\ UNCHANGED <<store, buffer, phase, crawlVars, plan>>
  <1>1. topic \in [DOMAIN topic -> Records]
    BY DEF Typed
  <1>2. /\ listener[n].pc = "ack" /\ listener' = [listener EXCEPT ![n] = Idle]
        /\ UNCHANGED <<store, buffer, phase, crawlVars, plan>>
    BY DEF Ack
  <1> DEFINE i == listener[n].rec
             y == [topic[i] EXCEPT !.state = "acked"]
  <1>3. i \in DOMAIN topic /\ topic[i].state = "held" /\ topic[i].owner = n
    <2>1. listener[n].rec \in DOMAIN topic
      BY <1>2 DEF HasRun
    <2>2. topic[listener[n].rec] = [run |-> listener[n].run, state |-> "held", owner |-> n]
      BY <1>2 DEF Quiet
    <2> QED BY <2>1, <2>2
  <1>4. topic' = [topic EXCEPT ![i] = y]
    BY <1>1, <1>3 DEF Ack
  <1>5. y.state = "acked"
    BY <1>1, <1>3 DEF Records
  <1> HIDE DEF y, i
  <1>6. \A j \in DOMAIN topic : topic'[j] = IF j = i THEN y ELSE topic[j]
    BY <1>1, <1>3, <1>4
  <1> QED BY <1>2, <1>3, <1>5, <1>6

LEMMA CalmCommit ==
    ASSUME Typed, HasRun, NEW n \in Nodes, Commit(n)
    PROVE  /\ \A j \in DOMAIN topic : topic'[j] # topic[j] => topic[j].state = "acked" /\ topic'[j] = Free
           /\ UNCHANGED <<store, buffer, listener, phase, crawlVars, plan>>
  <1>1. topic' = Committed(n) /\ UNCHANGED <<store, buffer, listener, phase, crawlVars, plan>>
    BY DEF Commit
  <1> QED BY <1>1, ReturnedIs

LEMMA CalmFlush ==
    ASSUME Typed, NEW n \in Nodes, NEW r \in buffer[n], Flush(n, r)
    PROVE  /\ \E i \in DOMAIN topic : /\ topic[i] = Free /\ topic'[i] = Record(r)
                                      /\ \A j \in DOMAIN topic \ {i} : topic'[j] = topic[j]
           /\ buffer' = [buffer EXCEPT ![n] = buffer[n] \ {r}]
           /\ UNCHANGED <<store, listener, phase, crawlVars, plan>>
  <1>1. PICK i \in DOMAIN topic : topic[i] = Free /\ topic' = [topic EXCEPT ![i] = Record(r)]
    BY Zenon DEF Flush
  <1>2. buffer' = [buffer EXCEPT ![n] = buffer[n] \ {r}] /\ UNCHANGED <<store, listener, phase, crawlVars, plan>>
    BY DEF Flush
  <1> QED BY <1>1, <1>2 DEF Typed

LEMMA ReadyStays ==
    ASSUME DOMAIN topic' = DOMAIN topic, NEW r,
           \A j \in DOMAIN topic : topic'[j] # topic[j] => topic[j].state # "ready" /\ topic'[j].state # "ready"
    PROVE  ReadyAt(r)' = ReadyAt(r)
  BY DEF ReadyAt

\* A run moves from one place to the next, and no other run moves with it.
LEMMA PlaceStep ==
    ASSUME Typed, HasRun, StoreInv, FlowInv, Calm, [Next]_vars, NEW r \in Runs
    PROVE  PlaceSteps(r)
  <1> USE DEF FlowInv
  <1>1. listener \in [Nodes -> Listeners] /\ buffer \in [Nodes -> SUBSET Runs]
    BY DEF Typed
  <1>2. DOMAIN topic' = DOMAIN topic
    BY TopicStep
  <1>3. ASSUME UNCHANGED topic PROVE ReadyAt(r)' = ReadyAt(r)
    BY <1>3 DEF ReadyAt
  <1>4. ASSUME UNCHANGED buffer PROVE BufferedAt(r)' = BufferedAt(r)
    BY <1>4 DEF BufferedAt
  <1>5. ASSUME UNCHANGED listener PROVE HeldBy(r)' = HeldBy(r)
    BY <1>5 DEF HeldBy
  <1>6. ASSUME NEW n \in Nodes, NEW i \in DOMAIN topic, Receive(n, i)
        PROVE  PlaceSteps(r)
    <2>1. PICK pc \in {"ack", "poll"} :
            /\ listener' = [listener EXCEPT ![n] = [pc |-> pc, rec |-> i, run |-> topic[i].run]]
            /\ [pc |-> pc, rec |-> i, run |-> topic[i].run] \in Listeners
            /\ pc = "ack" => topic[i].run \in plan.unusable
      BY <1>6, CalmReceive
    <2>2. /\ listener[n].pc = "idle" /\ topic[i].state = "ready"
          /\ topic'[i].state = "held" /\ topic'[i].run = topic[i].run
          /\ \A j \in DOMAIN topic \ {i} : topic'[j] = topic[j]
          /\ UNCHANGED buffer /\ UNCHANGED work /\ UNCHANGED finished
      BY <1>6, CalmReceive, ReceiveTakes, ZenonT(60)
    <2>3. ReadyAt(r)' = ReadyAt(r) \ {i}
      BY <1>2, <2>2 DEF ReadyAt
    <2> DEFINE x == [pc |-> pc, rec |-> i, run |-> topic[i].run]
    <2>4. x.pc = pc /\ x.run = topic[i].run /\ n \notin HeldBy(r)
      BY <2>2 DEF HeldBy, Active
    <2>5. HeldBy(r)' = IF x.run = r /\ x.pc \in Active THEN HeldBy(r) \cup {n} ELSE HeldBy(r) \ {n}
      <3>1. x \in Listeners /\ listener' = [listener EXCEPT ![n] = x]
        BY <2>1
      <3> HIDE DEF x
      <3> QED BY <1>1, <3>1, HeldMove
    <2> HIDE DEF x
    <2>6. CASE topic[i].run = r
      <3>1. i \in ReadyAt(r)
        BY <2>2, <2>6 DEF ReadyAt
      <3>2. HeldBy(r)' = HeldBy(r) \cup {n} \/ (HeldBy(r)' = HeldBy(r) /\ r \in plan.unusable)
        BY <2>1, <2>4, <2>5, <2>6 DEF Active
      <3> QED BY <1>4, <2>2, <2>3, <3>1, <3>2, Zenon DEF PlaceSteps
    <2>7. CASE topic[i].run # r
      <3>1. i \notin ReadyAt(r)
        BY <2>7 DEF ReadyAt
      <3>2. HeldBy(r)' = HeldBy(r)
        BY <2>4, <2>5, <2>7
      <3>3. ReadyAt(r)' = ReadyAt(r)
        BY <2>3, <3>1
      <3> QED BY <1>4, <2>2, <3>2, <3>3, Zenon DEF PlaceSteps
    <2> QED BY <2>6, <2>7
  <1>7. ASSUME NEW n \in Nodes, Ack(n)
        PROVE  PlaceSteps(r)
    <2>1. /\ listener[n].pc = "ack" /\ listener' = [listener EXCEPT ![n] = Idle]
          /\ \A j \in DOMAIN topic : topic'[j] # topic[j] => topic[j].state = "held" /\ topic'[j].state = "acked"
          /\ UNCHANGED buffer /\ UNCHANGED work /\ UNCHANGED finished
      BY <1>7, CalmAck DEF crawlVars
    <2>2. ReadyAt(r)' = ReadyAt(r)
      BY <1>2, <2>1, ReadyStays
    <2>3. HeldBy(r)' = HeldBy(r)
      <3>1. Idle \in Listeners /\ Idle.pc \notin Active
        BY IdleIs DEF Active
      <3>2. n \notin HeldBy(r)
        BY <2>1 DEF HeldBy, Active
      <3>3. HeldBy(r)' = HeldBy(r) \ {n}
        BY <1>1, <2>1, <3>1, HeldMove
      <3> QED BY <3>2, <3>3
    <2> QED BY <1>4, <2>1, <2>2, <2>3, Zenon DEF PlaceSteps
  <1>8. ASSUME NEW n \in Nodes, NEW from, NEW to \in PC, ListensOn(n, from, to)
        PROVE  /\ ReadyAt(r)' = ReadyAt(r) /\ (r \in finished') = (r \in finished)
               /\ HeldBy(r)' = IF RunOf(n) = r /\ to \in Active THEN HeldBy(r) \cup {n} ELSE HeldBy(r) \ {n}
    <2> DEFINE x == [pc |-> to, rec |-> listener[n].rec, run |-> listener[n].run]
    <2>1. UNCHANGED topic /\ UNCHANGED finished /\ Goto(n, to)
      BY <1>8, Zenon DEF ListensOn
    <2>2. listener' = [listener EXCEPT ![n] = x]
      BY <2>1, GotoIs
    <2>3. x \in Listeners /\ x.run = RunOf(n) /\ x.pc = to
      BY <1>1 DEF Listeners, RunOf
    <2> HIDE DEF x
    <2>4. HeldBy(r)' = IF x.run = r /\ x.pc \in Active THEN HeldBy(r) \cup {n} ELSE HeldBy(r) \ {n}
      BY <1>1, <2>2, <2>3, HeldMove
    <2> QED BY <1>3, <2>1, <2>3, <2>4
  <1>9. ASSUME NEW n \in Nodes, NEW from \in SUBSET Active, NEW to \in Active,
               ListensOn(n, from, to), UNCHANGED buffer, UNCHANGED work
        PROVE  PlaceSteps(r)
    <2>1. n \in HeldBy(r) <=> RunOf(n) = r
      BY <1>9 DEF HeldBy, RunOf, ListensOn
    <2>2. Active \subseteq PC
      BY DEF Active, PC
    <2>3. HeldBy(r)' = HeldBy(r)
      BY <1>8, <1>9, <2>1, <2>2
    <2> QED BY <1>4, <1>8, <1>9, <2>2, <2>3, Zenon DEF PlaceSteps
  <1>10. ASSUME NEW n \in Nodes, NEW from \in SUBSET Active, ListensOn(n, from, "ack"),
                \/ UNCHANGED work /\ buffer' = [buffer EXCEPT ![n] = @ \cup {RunOf(n)}]
                \/ UNCHANGED buffer /\ work' = work \cup {RunOf(n)}
         PROVE  PlaceSteps(r)
    <2>1. n \in HeldBy(r) <=> RunOf(n) = r
      BY <1>10 DEF HeldBy, RunOf, ListensOn
    <2>2. HeldBy(r)' = HeldBy(r) \ {n} /\ ReadyAt(r)' = ReadyAt(r) /\ (r \in finished') = (r \in finished)
      <3>1. "ack" \in PC /\ "ack" \notin Active
        BY DEF Active, PC
      <3> QED BY <1>8, <1>10, <3>1, Zenon
    <2>3. CASE RunOf(n) = r
      <3>1. \/ BufferedAt(r)' = BufferedAt(r) \cup {n} /\ (r \in work') = (r \in work)
            \/ BufferedAt(r)' = BufferedAt(r) /\ r \in work'
        BY <1>1, <1>10, <2>3 DEF BufferedAt
      <3> QED BY <2>1, <2>2, <2>3, <3>1, Zenon DEF PlaceSteps
    <2>4. CASE RunOf(n) # r
      <3>1. BufferedAt(r)' = BufferedAt(r) /\ (r \in work') = (r \in work)
        BY <1>1, <1>10, <2>4 DEF BufferedAt
      <3>2. HeldBy(r)' = HeldBy(r)
        BY <2>1, <2>2, <2>4
      <3> QED BY <2>2, <3>1, <3>2, Zenon DEF PlaceSteps
    <2> QED BY <2>3, <2>4
  <1>11. ASSUME NEW n \in Nodes, Listen(n), \A o \in Outcomes : ~ Undo(n, o)
         PROVE  PlaceSteps(r)
    <2>1. {"poll"} \in SUBSET Active /\ {"wait"} \in SUBSET Active /\ {"noSlot", "refused"} \in SUBSET Active
          /\ {"admit"} \in SUBSET Active /\ {"requeue"} \in SUBSET Active /\ {"produce"} \in SUBSET Active
          /\ {"failed"} \in SUBSET Active
          /\ {"noSlot", "wait", "admit", "poll", "requeue", "failed", "produce", "refused"} \subseteq Active
      BY DEF Active
    <2> DEFINE Moves == \E from \in SUBSET Active, to \in Active : ListensOn(n, from, to)
    <2>2. \/ Moves /\ UNCHANGED buffer /\ UNCHANGED work
          \/ /\ \E from \in SUBSET Active : ListensOn(n, from, "ack")
             /\ \/ UNCHANGED work /\ buffer' = [buffer EXCEPT ![n] = @ \cup {RunOf(n)}]
                \/ UNCHANGED buffer /\ work' = work \cup {RunOf(n)}
          \/ Ack(n)
      <3>1. \/ ListensOn(n, {"poll"}, "noSlot") \/ ListensOn(n, {"poll"}, "wait") \/ ListensOn(n, {"poll"}, "admit")
            \/ ListensOn(n, {"wait"}, "poll") \/ ListensOn(n, {"wait"}, "noSlot")
            \/ ListensOn(n, {"noSlot", "refused"}, "requeue") \/ ListensOn(n, {"admit"}, "failed")
            \/ ListensOn(n, {"admit"}, "produce") \/ ListensOn(n, {"failed"}, "refused")
            => Moves
        BY <2>1
      <3> QED BY <1>11, <2>1, <3>1, CalmListens
    <2> QED BY <1>7, <1>9, <1>10, <2>2
  <1>12. ASSUME NEW n \in Nodes, NEW q \in buffer[n], Flush(n, q)
         PROVE  PlaceSteps(r)
    <2>1. PICK i \in DOMAIN topic : /\ topic[i] = Free /\ topic'[i] = Record(q)
                                    /\ \A j \in DOMAIN topic \ {i} : topic'[j] = topic[j]
      BY <1>12, CalmFlush
    <2>2. /\ buffer' = [buffer EXCEPT ![n] = buffer[n] \ {q}]
          /\ UNCHANGED listener /\ UNCHANGED work /\ UNCHANGED finished
      BY <1>12, CalmFlush DEF crawlVars
    <2>3. topic[i].state # "ready" /\ topic'[i].state = "ready" /\ topic'[i].run = q
      BY <2>1 DEF Free, Record
    <2>4. CASE q = r
      <3>1. ReadyAt(r)' = ReadyAt(r) \cup {i}
        BY <1>2, <2>1, <2>3, <2>4 DEF ReadyAt
      <3>2. n \in BufferedAt(r) /\ BufferedAt(r)' = BufferedAt(r) \ {n}
        BY <1>1, <2>2, <2>4 DEF BufferedAt
      <3> QED BY <1>5, <2>2, <3>1, <3>2, Zenon DEF PlaceSteps
    <2>5. CASE q # r
      <3>1. ReadyAt(r)' = ReadyAt(r)
        BY <1>2, <2>1, <2>3, <2>5 DEF ReadyAt
      <3>2. BufferedAt(r)' = BufferedAt(r)
        BY <1>1, <2>2, <2>5 DEF BufferedAt
      <3> QED BY <1>5, <2>2, <3>1, <3>2, Zenon DEF PlaceSteps
    <2> QED BY <2>4, <2>5
  <1>13. ASSUME NEW n \in Nodes, Commit(n)
         PROVE  PlaceSteps(r)
    <2>1. /\ \A j \in DOMAIN topic : topic'[j] # topic[j] => topic[j].state = "acked" /\ topic'[j] = Free
          /\ UNCHANGED buffer /\ UNCHANGED listener /\ UNCHANGED work /\ UNCHANGED finished
      BY <1>13, CalmCommit DEF crawlVars
    <2>2. ReadyAt(r)' = ReadyAt(r)
      BY <1>2, <2>1, ReadyStays DEF Free
    <2> QED BY <1>4, <1>5, <2>1, <2>2, Zenon DEF PlaceSteps
  <1>14. ASSUME NEW q \in Runs, EndRun(q)
         PROVE  PlaceSteps(r)
    <2>1. CASE Crawl(q)
      <3>1. /\ q \in work /\ work' = work \ {q} /\ finished' = finished \cup {q}
            /\ UNCHANGED topic /\ UNCHANGED buffer /\ UNCHANGED listener
        BY <2>1, CalmCrawl
      <3>2. CASE q = r
        BY <1>3, <1>4, <1>5, <3>1, <3>2 DEF PlaceSteps
      <3>3. CASE q # r
        <4>1. (r \in work') = (r \in work) /\ (r \in finished') = (r \in finished)
          BY <3>1, <3>3
        <4> QED BY <1>3, <1>4, <1>5, <3>1, <4>1, Zenon DEF PlaceSteps
      <3> QED BY <3>2, <3>3
    <2>2. CASE EndRelease(q) \/ EndCleanup(q)
      <3>1. UNCHANGED topic /\ UNCHANGED buffer /\ UNCHANGED listener /\ UNCHANGED work /\ UNCHANGED finished
        BY <2>2 DEF EndRelease, EndCleanup
      <3> QED BY <1>3, <1>4, <1>5, <3>1, Zenon DEF PlaceSteps
    <2> QED BY <1>14, <2>1, <2>2, Zenon DEF EndRun
  <1>15. CASE UNCHANGED vars
    <2>1. UNCHANGED topic /\ UNCHANGED buffer /\ UNCHANGED listener /\ UNCHANGED work /\ UNCHANGED finished
      BY <1>15 DEF vars
    <2> QED BY <1>3, <1>4, <1>5, <2>1, Zenon DEF PlaceSteps
  <1> QED BY <1>6, <1>11, <1>12, <1>13, <1>14, <1>15, CalmStep, ZenonT(60)

LEMMA OnePlaceStep ==
    ASSUME Typed, HasRun, StoreInv, FlowInv, Calm, [Next]_vars
    PROVE  OnePlace'
  <1>1. ASSUME NEW r \in Runs
        PROVE  InOnePlace(r)' /\ (r \notin plan.unusable => InSomePlace(r)')
    BY PlaceStep, OnePlaceByStep DEF FlowInv, OnePlace
  <1> QED BY <1>1, PlanStep DEF OnePlace

\* Nobody but the listener that holds a record acks it, and nobody takes it away.
LEMMA QuietStep ==
    ASSUME Typed, HasRun, StoreInv, FlowInv, Calm, [Next]_vars
    PROVE  Quiet'
  <1> USE DEF FlowInv
  <1> DEFINE Keeps(m) == listener[m].pc # "idle" => topic'[listener[m].rec] = topic[listener[m].rec]
  <1>1. /\ expired = {} /\ listener \in [Nodes -> Listeners]
        /\ \A m \in Nodes :
             /\ phase[m] = "up" /\ listener[m].pc \notin {"undo", "stopped"}
             /\ listener[m].pc # "idle" =>
                   /\ topic[listener[m].rec] = [run |-> listener[m].run, state |-> "held", owner |-> m]
                   /\ listener[m].rec \in DOMAIN topic
    BY DEF Typed, Quiet, HasRun
  <1>2. \A m \in Nodes : listener[m].pc # "idle" =>
            topic[listener[m].rec].state = "held" /\ topic[listener[m].rec].owner = m
    <2>1. ASSUME NEW m \in Nodes, NEW y, y = [run |-> listener[m].run, state |-> "held", owner |-> m]
          PROVE  y.state = "held" /\ y.owner = m
      BY <2>1
    <2> QED BY <1>1, <2>1
  <1>3. ASSUME UNCHANGED expired, UNCHANGED phase, UNCHANGED listener, \A m \in Nodes : Keeps(m)
        PROVE  Quiet'
    BY <1>1, <1>3 DEF Quiet
  <1>4. ASSUME NEW n \in Nodes, NEW i \in DOMAIN topic, Receive(n, i)
        PROVE  Quiet'
    <2>1. PICK pc \in {"ack", "poll"} :
            listener' = [listener EXCEPT ![n] = [pc |-> pc, rec |-> i, run |-> topic[i].run]]
      BY <1>4 DEF Receive
    <2>2. /\ topic[i].state = "ready"
          /\ topic'[i] = [run |-> topic[i].run, state |-> "held", owner |-> n]
          /\ \A j \in DOMAIN topic \ {i} : topic'[j] = topic[j]
      BY <1>4, CalmReceive, ReceiveTakes, ZenonT(60)
    <2>3. UNCHANGED expired /\ UNCHANGED phase
      BY <1>4, CalmReceive
    <2>4. listener'[n].pc = pc /\ listener'[n].rec = i /\ listener'[n].run = topic[i].run
          /\ \A m \in Nodes \ {n} : listener'[m] = listener[m]
      BY <1>1, <2>1
    <2>5. ASSUME NEW m \in Nodes \ {n} PROVE Keeps(m)
      BY <1>1, <1>2, <2>2
    <2>6. ASSUME NEW m \in Nodes
          PROVE  /\ phase'[m] = "up" /\ listener'[m].pc \notin {"undo", "stopped"}
                 /\ listener'[m].pc # "idle" =>
                      topic'[listener'[m].rec] = [run |-> listener'[m].run, state |-> "held", owner |-> m]
      <3>1. CASE m = n
        BY <1>1, <2>2, <2>3, <2>4, <3>1
      <3>2. CASE m # n
        BY <1>1, <2>3, <2>4, <2>5, <3>2
      <3> QED BY <3>1, <3>2
    <2> QED BY <1>1, <2>3, <2>6 DEF Quiet
  <1>5. ASSUME NEW n \in Nodes, Ack(n)
        PROVE  Quiet'
    <2>1. /\ listener' = [listener EXCEPT ![n] = Idle]
          /\ \A j \in DOMAIN topic :
                topic'[j] # topic[j] => topic[j].state = "held" /\ topic[j].owner = n /\ topic'[j].state = "acked"
          /\ UNCHANGED <<store, buffer, phase, crawlVars, plan>>
      BY <1>5, CalmAck
    <2>2. UNCHANGED expired /\ UNCHANGED phase
      BY <2>1 DEF crawlVars
    <2>3. listener'[n].pc = "idle" /\ \A m \in Nodes \ {n} : listener'[m] = listener[m]
      BY <1>1, <2>1, IdleIs
    <2>4. ASSUME NEW m \in Nodes \ {n} PROVE Keeps(m)
      <3>1. listener[m].pc # "idle" => topic[listener[m].rec].owner = m /\ listener[m].rec \in DOMAIN topic
        BY <1>1, <1>2, Zenon
      <3> QED BY <2>1, <3>1, Zenon
    <2>5. ASSUME NEW m \in Nodes
          PROVE  /\ phase'[m] = "up" /\ listener'[m].pc \notin {"undo", "stopped"}
                 /\ listener'[m].pc # "idle" =>
                      topic'[listener'[m].rec] = [run |-> listener'[m].run, state |-> "held", owner |-> m]
      <3>1. CASE m = n
        BY <1>1, <2>2, <2>3, <3>1
      <3>2. CASE m # n
        <4>1. listener'[m] = listener[m]
          BY <2>3, <3>2
        <4> QED BY <1>1, <2>2, <2>4, <3>2, <4>1
      <3> QED BY <3>1, <3>2
    <2> QED BY <1>1, <2>2, <2>5 DEF Quiet
  <1>6. ASSUME NEW n \in Nodes, NEW from, NEW to \in PC \ {"idle", "undo", "stopped"}, ListensOn(n, from, to),
               listener[n].pc # "idle"
        PROVE  Quiet'
    <2>1. UNCHANGED topic /\ UNCHANGED phase /\ UNCHANGED expired /\ Goto(n, to)
      BY <1>6, Zenon DEF ListensOn
    <2>2. /\ listener'[n] = [pc |-> to, rec |-> listener[n].rec, run |-> listener[n].run]
          /\ \A m \in Nodes \ {n} : listener'[m] = listener[m]
      BY <2>1, GotoIs
    <2>3. ASSUME NEW m \in Nodes
          PROVE  /\ phase'[m] = "up" /\ listener'[m].pc \notin {"undo", "stopped"}
                 /\ listener'[m].pc # "idle" =>
                      topic'[listener'[m].rec] = [run |-> listener'[m].run, state |-> "held", owner |-> m]
      BY <1>1, <1>6, <2>1, <2>2
    <2> QED BY <1>1, <2>1, <2>3 DEF Quiet
  <1>7. ASSUME NEW n \in Nodes, Listen(n), \A o \in Outcomes : ~ Undo(n, o)
        PROVE  Quiet'
    <2>1. \/ \E from, to \in PC \ {"idle", "undo", "stopped"} : ListensOn(n, {from}, to)
          \/ ListensOn(n, {"noSlot", "refused"}, "requeue")
          \/ Ack(n)
      BY <1>7, CalmListens DEF PC
    <2>2. \A from, to : ListensOn(n, from, to) => listener[n].pc \in from
      BY DEF ListensOn
    <2>3. "requeue" \in PC \ {"idle", "undo", "stopped"}
      BY DEF PC
    <2> QED BY <1>5, <1>6, <2>1, <2>2, <2>3
  <1>8. ASSUME NEW n \in Nodes, NEW q \in buffer[n], Flush(n, q)
        PROVE  Quiet'
    <2>1. PICK i \in DOMAIN topic : topic[i] = Free /\ \A j \in DOMAIN topic \ {i} : topic'[j] = topic[j]
      BY <1>8, CalmFlush
    <2>2. UNCHANGED expired /\ UNCHANGED phase /\ UNCHANGED listener
      BY <1>8, CalmFlush DEF crawlVars
    <2>3. topic[i].state # "held"
      BY <2>1 DEF Free
    <2>4. ASSUME NEW m \in Nodes PROVE Keeps(m)
      <3>1. listener[m].pc # "idle" => topic[listener[m].rec].state = "held" /\ listener[m].rec \in DOMAIN topic
        BY <1>1, <1>2, Zenon
      <3> QED BY <2>1, <2>3, <3>1, Zenon
    <2> QED BY <1>3, <2>2, <2>4
  <1>9. ASSUME NEW n \in Nodes, Commit(n)
        PROVE  Quiet'
    <2>1. /\ \A j \in DOMAIN topic : topic'[j] # topic[j] => topic[j].state = "acked" /\ topic'[j] = Free
          /\ UNCHANGED expired /\ UNCHANGED phase /\ UNCHANGED listener
      BY <1>9, CalmCommit DEF crawlVars
    <2>2. ASSUME NEW m \in Nodes PROVE Keeps(m)
      BY <1>1, <1>2, <2>1
    <2> QED BY <1>3, <2>1, <2>2
  <1>10. ASSUME NEW q \in Runs, EndRun(q)
         PROVE  Quiet'
    <2>1. UNCHANGED <<topic, listener, phase, expired>>
      BY <1>10, Zenon DEF EndRun, Crawl, EndRelease, EndCleanup
    <2> QED BY <1>3, <2>1
  <1>11. CASE UNCHANGED vars
    BY <1>3, <1>11 DEF vars
  <1> QED BY <1>4, <1>7, <1>8, <1>9, <1>10, <1>11, CalmStep, ZenonT(60)

\* Steps that admit nothing and produce nothing: they may take a slot only from a
\* run that needs none.
NeedsSlot(r) == r \in work \/ \E m \in Nodes : RunOf(m) = r /\ listener[m].pc \in {"admit", "produce"}

LEMMA LedgerKeeps ==
    ASSUME Ledger, UNCHANGED <<status, work, finished>>,
           \A r \in Runs : ending'[r] # "no" => r \in finished,
           \A r \in Runs : NeedsSlot(r) /\ Live(r) => Live(r)',
           \A n \in Nodes : \/ listener'[n] = listener[n] /\ (listener[n].pc \in {"admit", "produce"} => RunOf(n) \in Runs)
                            \/ /\ listener[n].pc # "produce" /\ listener'[n].pc # "produce"
                               /\ listener'[n].pc = "admit" => Live(RunOf(n))'
    PROVE  Ledger'
  <1>1. ASSUME NEW r \in Runs
        PROVE  /\ \A t \in Tasks \ {First} : status'[r][t] = "absent"
               /\ r \in work' => status'[r][First] = "queued" /\ Live(r)'
               /\ ending'[r] # "no" => r \in finished'
    BY DEF Ledger, NeedsSlot
  <1>2. ASSUME NEW r \in Runs, status'[r][First] # "absent"
        PROVE  r \in work' \cup finished' \/ \E n \in HeldBy(r)' : listener'[n].pc = "produce"
    <2>1. status[r][First] # "absent"
      BY <1>2
    <2>2. CASE r \in work \cup finished
      BY <2>2
    <2>3. ASSUME NEW n \in HeldBy(r), listener[n].pc = "produce"
          PROVE  n \in HeldBy(r)' /\ listener'[n].pc = "produce"
      BY <2>3 DEF HeldBy
    <2> QED BY <2>1, <2>2, <2>3 DEF Ledger
  <1>3. ASSUME NEW n \in Nodes
        PROVE  /\ listener'[n].pc = "produce" => status'[RunOf(n)'][First] = "queued" /\ Live(RunOf(n))'
               /\ listener'[n].pc = "admit" => Live(RunOf(n))'
    <2>1. CASE listener'[n] = listener[n] /\ (listener[n].pc \in {"admit", "produce"} => RunOf(n) \in Runs)
      <3>1. PICK q : q = RunOf(n)
        OBVIOUS
      <3>2. RunOf(n)' = q
        BY <2>1, <3>1 DEF RunOf
      <3>3. listener[n].pc = "produce" => status[q][First] = "queued" /\ Live(q)
        BY <3>1 DEF Ledger
      <3>4. listener[n].pc = "admit" => Live(q)
        BY <3>1 DEF Ledger
      <3>5. listener[n].pc \in {"admit", "produce"} => q \in Runs /\ NeedsSlot(q)
        BY <2>1, <3>1 DEF NeedsSlot
      <3>6. listener[n].pc \in {"admit", "produce"} => Live(q)'
        BY <3>3, <3>4, <3>5
      <3>7. Live(RunOf(n))' <=> Live(q)'
        BY <3>2 DEF Live
      <3> QED BY <2>1, <3>2, <3>3, <3>6, <3>7
    <2>2. CASE /\ listener[n].pc # "produce" /\ listener'[n].pc # "produce"
               /\ listener'[n].pc = "admit" => Live(RunOf(n))'
      BY <2>2
    <2> QED BY <2>1, <2>2
  <1> QED BY <1>1, <1>2, <1>3 DEF Ledger

\* A run with a listener at it is nobody else's.
LEMMA AtListener ==
    ASSUME HasRun, OnePlace, NEW n \in Nodes, listener[n].pc \in Active
    PROVE  /\ RunOf(n) \in Runs /\ n \in HeldBy(RunOf(n)) /\ RunOf(n) \notin work \cup finished
           /\ \A m \in Nodes : listener[m].pc \in Active /\ RunOf(m) = RunOf(n) => m = n
  <1>1. RunOf(n) \in Runs
    BY DEF HasRun, Active, RunOf
  <1>2. n \in HeldBy(RunOf(n))
    BY DEF HeldBy, RunOf
  <1>3. \A m \in Nodes : listener[m].pc \in Active /\ RunOf(m) = RunOf(n) => m \in HeldBy(RunOf(n))
    BY DEF HeldBy, RunOf
  <1> QED BY <1>1, <1>2, <1>3 DEF OnePlace, InOnePlace, Single

LEMMA LedgerAdmits ==
    ASSUME Typed, StoreInv, HasRun, OnePlace, Ledger, NEW n \in Nodes,
           ListensOn(n, {"admit"}, "produce"), AdmitReply(RunOf(n), First) = "Admitted", AdmitTask(RunOf(n), First),
           UNCHANGED work
    PROVE  Ledger'
  <1>1. PICK r \in Runs : r = RunOf(n)
    BY DEF ListensOn, HasRun, RunOf
  <1>2. /\ UNCHANGED work /\ UNCHANGED ending /\ UNCHANGED finished /\ listener[n].pc = "admit" /\ Goto(n, "produce")
    BY DEF ListensOn
  <1>3. /\ listener'[n] = [pc |-> "produce", rec |-> listener[n].rec, run |-> listener[n].run]
        /\ \A m \in Nodes \ {n} : listener'[m] = listener[m]
    <2>1. "produce" \in PC
      BY DEF PC
    <2> QED BY <1>2, <2>1, GotoIs, ZenonT(60)
  <1>4. Live(r) /\ UNCHANGED lease /\ status' = [status EXCEPT ![r][First] = "queued"]
    BY <1>1 DEF AdmitReply, AdmitTask
  <1>5. /\ status'[r][First] = "queued" /\ \A q \in Runs \ {r} : status'[q] = status[q]
        /\ \A t \in Tasks \ {First} : status'[r][t] = status[r][t]
    BY <1>4, DispatchAssumption DEF DispatchAssumption, StoreInv, StoreTypeOK
  <1>6. \A q : Live(q)' <=> Live(q)
    BY <1>4 DEF Live
  <1>7. listener'[n].pc = "produce" /\ RunOf(n)' = r /\ \A m \in Nodes \ {n} : RunOf(m)' = RunOf(m)
    BY <1>1, <1>3 DEF RunOf
  <1>8. r \notin work \cup finished
        /\ \A m \in Nodes \ {n} : listener[m].pc \in {"admit", "produce"} => RunOf(m) \in Runs \ {r}
    <2>1. \A m \in Nodes : listener[m].pc \in {"admit", "produce"} => RunOf(m) \in Runs
      BY DEF HasRun, RunOf
    <2> QED BY <1>1, <1>2, <2>1, AtListener DEF Active
  <1>9. ASSUME NEW q \in Runs
        PROVE  /\ \A t \in Tasks \ {First} : status'[q][t] = "absent"
               /\ q \in work' => status'[q][First] = "queued" /\ Live(q)'
               /\ ending'[q] # "no" => q \in finished'
    BY <1>2, <1>5, <1>6 DEF Ledger
  <1>10. ASSUME NEW q \in Runs, status'[q][First] # "absent"
         PROVE  q \in work' \cup finished' \/ \E m \in HeldBy(q)' : listener'[m].pc = "produce"
    <2>1. CASE q = r
      <3>1. n \in HeldBy(r)'
        BY <1>7 DEF HeldBy, Active, RunOf
      <3> QED BY <1>7, <2>1, <3>1
    <2>2. CASE q # r
      <3>1. \A m \in HeldBy(q) : m # n
        BY <1>1, <2>2 DEF HeldBy, RunOf
      <3>2. \A m \in HeldBy(q) : m \in HeldBy(q)' /\ listener'[m] = listener[m]
        BY <1>3, <3>1 DEF HeldBy
      <3>3. status[q][First] # "absent"
        BY <1>5, <1>10, <2>2
      <3> QED BY <1>2, <3>2, <3>3 DEF Ledger
    <2> QED BY <2>1, <2>2
  <1>11. ASSUME NEW m \in Nodes
         PROVE  /\ listener'[m].pc = "produce" => status'[RunOf(m)'][First] = "queued" /\ Live(RunOf(m))'
                /\ listener'[m].pc = "admit" => Live(RunOf(m))'
    <2>1. CASE m = n
      <3>1. Live(RunOf(n))' <=> Live(r)'
        BY <1>7 DEF Live
      <3> QED BY <1>4, <1>5, <1>6, <1>7, <2>1, <3>1
    <2>2. CASE m # n
      <3>1. listener'[m] = listener[m] /\ RunOf(m)' = RunOf(m) /\ (Live(RunOf(m))' <=> Live(RunOf(m)))
        BY <1>3, <1>4, <1>7, <2>2 DEF Live
      <3> QED BY <1>5, <1>8, <2>2, <3>1 DEF Ledger
    <2> QED BY <2>1, <2>2
  <1> QED BY <1>9, <1>10, <1>11 DEF Ledger

LEMMA LedgerProduces ==
    ASSUME Typed, StoreInv, HasRun, OnePlace, Ledger, NEW n \in Nodes,
           ListensOn(n, {"produce"}, "ack"), work' = work \cup {RunOf(n)}, UNCHANGED store
    PROVE  Ledger'
  <1>1. PICK r \in Runs : r = RunOf(n)
    BY DEF ListensOn, HasRun, RunOf
  <1>2. /\ UNCHANGED ending /\ UNCHANGED finished /\ listener[n].pc = "produce" /\ Goto(n, "ack")
        /\ UNCHANGED lease /\ UNCHANGED status
    BY DEF ListensOn, store
  <1>3. /\ listener'[n] = [pc |-> "ack", rec |-> listener[n].rec, run |-> listener[n].run]
        /\ \A m \in Nodes \ {n} : listener'[m] = listener[m]
    <2>1. "ack" \in PC
      BY DEF PC
    <2> QED BY <1>2, <2>1, GotoIs, ZenonT(60)
  <1>4. \A q : Live(q)' <=> Live(q)
    BY <1>2 DEF Live
  <1>5. status[r][First] = "queued" /\ Live(r)
    BY <1>1, <1>2 DEF Ledger
  <1>6. ASSUME NEW q \in Runs
        PROVE  /\ \A t \in Tasks \ {First} : status'[q][t] = "absent"
               /\ q \in work' => status'[q][First] = "queued" /\ Live(q)'
               /\ ending'[q] # "no" => q \in finished'
    BY <1>1, <1>2, <1>4, <1>5 DEF Ledger
  <1>7. ASSUME NEW q \in Runs, status'[q][First] # "absent"
        PROVE  q \in work' \cup finished' \/ \E m \in HeldBy(q)' : listener'[m].pc = "produce"
    <2>1. CASE q = r
      BY <1>1, <2>1
    <2>2. CASE q # r
      <3>1. \A m \in HeldBy(q) : m # n
        BY <1>1, <2>2 DEF HeldBy, RunOf
      <3>2. \A m \in HeldBy(q) : m \in HeldBy(q)' /\ listener'[m] = listener[m]
        BY <1>3, <3>1 DEF HeldBy
      <3>3. status[q][First] # "absent"
        BY <1>2, <1>7, <2>2
      <3> QED BY <1>2, <3>2, <3>3 DEF Ledger
    <2> QED BY <2>1, <2>2
  <1>8. ASSUME NEW m \in Nodes
        PROVE  /\ listener'[m].pc = "produce" => status'[RunOf(m)'][First] = "queued" /\ Live(RunOf(m))'
               /\ listener'[m].pc = "admit" => Live(RunOf(m))'
    <2>1. CASE m = n
      <3>1. listener'[n].pc = "ack"
        BY <1>3
      <3> QED BY <2>1, <3>1
    <2>2. CASE m # n
      <3>1. listener'[m] = listener[m] /\ RunOf(m)' = RunOf(m) /\ (Live(RunOf(m))' <=> Live(RunOf(m)))
        BY <1>2, <1>3, <2>2 DEF Live, RunOf
      <3> QED BY <1>2, <3>1 DEF Ledger
    <2> QED BY <2>1, <2>2
  <1> QED BY <1>6, <1>7, <1>8 DEF Ledger

\* A crawl, and the clean-up behind it, touch the record of one run, which no
\* listener is at.
LEMMA LedgerCrawls ==
    ASSUME HasRun, OnePlace, Ledger, NEW r \in Runs, r \in work \cup finished,
           UNCHANGED listener, work' = work \ {r}, finished' = finished \cup {r},
           \A q \in Runs \ {r} : status'[q] = status[q] /\ ending'[q] = ending[q],
           \A t \in Tasks \ {First} : status'[r][t] = "absent",
           \A q \in Runs : Live(q) => Live(q)'
    PROVE  Ledger'
  <1>1. \A n \in Nodes : listener[n].pc \in Active => RunOf(n) \in Runs \ {r}
    BY AtListener
  <1>2. ASSUME NEW q \in Runs
        PROVE  /\ \A t \in Tasks \ {First} : status'[q][t] = "absent"
               /\ q \in work' => status'[q][First] = "queued" /\ Live(q)'
               /\ ending'[q] # "no" => q \in finished'
    BY DEF Ledger
  <1>3. ASSUME NEW q \in Runs, status'[q][First] # "absent"
        PROVE  q \in work' \cup finished' \/ \E m \in HeldBy(q)' : listener'[m].pc = "produce"
    <2>1. HeldBy(q)' = HeldBy(q)
      BY DEF HeldBy
    <2>2. CASE q = r
      BY <2>2
    <2>3. CASE q # r
      <3>1. status[q][First] # "absent"
        BY <1>3, <2>3
      <3> QED BY <2>1, <2>3, <3>1 DEF Ledger
    <2> QED BY <2>2, <2>3
  <1>4. ASSUME NEW m \in Nodes
        PROVE  /\ listener'[m].pc = "produce" => status'[RunOf(m)'][First] = "queued" /\ Live(RunOf(m))'
               /\ listener'[m].pc = "admit" => Live(RunOf(m))'
    <2>1. PICK q : q = RunOf(m)
      OBVIOUS
    <2>2. RunOf(m)' = q /\ (Live(RunOf(m))' <=> Live(q)')
      BY <2>1 DEF RunOf, Live
    <2>3. listener[m].pc \in {"admit", "produce"} => q \in Runs \ {r}
      BY <1>1, <2>1 DEF Active
    <2>4. /\ listener[m].pc = "produce" => status[q][First] = "queued" /\ Live(q)
          /\ listener[m].pc = "admit" => Live(q)
      BY <2>1 DEF Ledger
    <2> QED BY <2>2, <2>3, <2>4
  <1> QED BY <1>2, <1>3, <1>4 DEF Ledger

LEMMA AcquireKeeps ==
    ASSUME StoreInv, NEW r \in Runs, AcquireRunSlot(r)
    PROVE  /\ UNCHANGED status /\ \A q \in Runs : Live(q) => Live(q)'
           /\ AcquireGranted(r) => Live(r)'
  <1>1. LeaseLength > 0 /\ LeaseLength \in Nat
    BY StoreAssumption DEF StoreAssumption
  <1>2. \A q \in Runs : lease'[q] = IF q = r /\ AcquireGranted(r) THEN LeaseLength
                                   ELSE IF lease[q] = 0 THEN NoSlot ELSE lease[q]
    BY DEF AcquireRunSlot
  <1>3. \A q \in Runs : Live(q) => Live(q)'
    BY <1>1, <1>2 DEF Live
  <1>4. AcquireGranted(r) => Live(r)'
    BY <1>1, <1>2 DEF Live
  <1> QED BY <1>3, <1>4 DEF AcquireRunSlot

\* A slot is given back only by whoever knows that the run needs it no more.
LEMMA LedgerStep ==
    ASSUME Typed, HasRun, StoreInv, FlowInv, Calm, [Next]_vars
    PROVE  Ledger'
  <1> USE DEF FlowInv
  <1>1. \A n \in Nodes : listener[n].pc \in {"admit", "produce"} => RunOf(n) \in Runs
    BY DEF HasRun, RunOf
  <1>2. \A r \in Runs : ending[r] # "no" => r \in finished
    BY DEF Ledger
  <1>3. ASSUME UNCHANGED store PROVE UNCHANGED status /\ \A r : Live(r)' <=> Live(r)
    BY <1>3 DEF store, Live
  <1>4. ASSUME UNCHANGED store, UNCHANGED <<work, ending, finished>>, UNCHANGED listener
        PROVE  Ledger'
    BY <1>1, <1>2, <1>3, <1>4, LedgerKeeps
  <1>5. ASSUME NEW n \in Nodes, NEW i \in DOMAIN topic, Receive(n, i)
        PROVE  Ledger'
    <2>1. PICK pc \in {"ack", "poll"} :
            listener' = [listener EXCEPT ![n] = [pc |-> pc, rec |-> i, run |-> topic[i].run]]
      BY <1>5 DEF Receive
    <2>2. UNCHANGED store /\ UNCHANGED work /\ UNCHANGED ending /\ UNCHANGED finished /\ listener[n].pc = "idle"
      BY <1>5 DEF Receive, crawlVars
    <2>3. listener'[n].pc = pc /\ \A m \in Nodes \ {n} : listener'[m] = listener[m]
      BY <2>1 DEF Typed
    <2>4. \A m \in Nodes : listener'[m] = listener[m] \/ (listener[m].pc = "idle" /\ listener'[m].pc \in {"ack", "poll"})
      BY <2>2, <2>3
    <2> QED BY <1>1, <1>2, <1>3, <2>2, <2>4, LedgerKeeps
  <1>6. ASSUME NEW n \in Nodes, Ack(n)
        PROVE  Ledger'
    <2>1. UNCHANGED store /\ UNCHANGED work /\ UNCHANGED ending /\ UNCHANGED finished
          /\ listener[n].pc = "ack" /\ listener' = [listener EXCEPT ![n] = Idle]
      BY <1>6 DEF Ack, crawlVars
    <2>2. \A m \in Nodes : listener'[m] = listener[m] \/ (listener[m].pc = "ack" /\ listener'[m].pc = "idle")
      BY <2>1, IdleIs DEF Typed
    <2> QED BY <1>1, <1>2, <1>3, <2>1, <2>2, LedgerKeeps
  <1>7. ASSUME NEW n \in Nodes, NEW from \in SUBSET (Active \ {"produce"}), NEW to \in PC \ {"produce"},
               ListensOn(n, from, to), UNCHANGED work, UNCHANGED status,
               \A r \in Runs : NeedsSlot(r) /\ Live(r) => Live(r)',
               to = "admit" => Live(RunOf(n))'
        PROVE  Ledger'
    <2>1. UNCHANGED ending /\ UNCHANGED finished /\ listener[n].pc \in from /\ Goto(n, to)
      BY <1>7, Zenon DEF ListensOn
    <2>2. /\ listener'[n] = [pc |-> to, rec |-> listener[n].rec, run |-> listener[n].run]
          /\ \A m \in Nodes \ {n} : listener'[m] = listener[m]
      BY <2>1, GotoIs
    <2>3. listener'[n].pc = to
      BY <2>2
    <2>4. ASSUME NEW m \in Nodes
          PROVE  \/ listener'[m] = listener[m] /\ (listener[m].pc \in {"admit", "produce"} => RunOf(m) \in Runs)
                 \/ /\ listener[m].pc # "produce" /\ listener'[m].pc # "produce"
                    /\ listener'[m].pc = "admit" => Live(RunOf(m))'
      <3>1. CASE m = n
        BY <1>7, <2>1, <2>3, <3>1
      <3>2. CASE m # n
        BY <1>1, <2>2, <3>2
      <3> QED BY <3>1, <3>2
    <2> HIDE DEF FlowInv
    <2> QED BY <1>2, <1>7, <2>1, <2>4, LedgerKeeps DEF FlowInv
  <1>8. ASSUME NEW n \in Nodes, NEW to \in {"noSlot", "wait", "admit"}, ListensOn(n, {"poll"}, to), UNCHANGED work,
               UNCHANGED store \/ AcquireRunSlot(RunOf(n)),
               listener'[n].pc = "admit" => AcquireRunSlot(RunOf(n)) /\ AcquireGranted(RunOf(n))
        PROVE  Ledger'
    <2>1. RunOf(n) \in Runs /\ listener[n].pc = "poll" /\ Goto(n, to)
      BY <1>8 DEF ListensOn, HasRun, RunOf
    <2>2. listener'[n].pc = to /\ RunOf(n)' = RunOf(n)
      <3>1. to \in PC
        BY DEF PC
      <3>2. listener'[n] = [pc |-> to, rec |-> listener[n].rec, run |-> listener[n].run]
        BY <2>1, <3>1, GotoIs
      <3> QED BY <3>2 DEF RunOf
    <2>3. UNCHANGED status /\ \A q \in Runs : Live(q) => Live(q)'
      BY <1>3, <1>8, <2>1, AcquireKeeps
    <2>4. to = "admit" => Live(RunOf(n))'
      <3>1. PICK r \in Runs : r = RunOf(n)
        BY <2>1
      <3>2. to = "admit" => Live(r)'
        BY <1>8, <2>2, <3>1, AcquireKeeps
      <3>3. Live(RunOf(n))' <=> Live(r)'
        BY <2>2, <3>1 DEF Live
      <3> QED BY <3>2, <3>3
    <2>5. {"poll"} \in SUBSET (Active \ {"produce"}) /\ to \in PC \ {"produce"}
      BY DEF Active, PC
    <2> QED BY <1>7, <1>8, <2>3, <2>4, <2>5
  <1>9. ASSUME NEW n \in Nodes, NEW from \in SUBSET (Active \ {"produce"}), NEW to \in PC \ {"produce", "admit"},
               ListensOn(n, from, to), UNCHANGED work, UNCHANGED store
        PROVE  Ledger'
    BY <1>3, <1>7, <1>9
  <1>10. ASSUME NEW n \in Nodes, ListensOn(n, {"failed"}, "refused"), UNCHANGED work,
                UNCHANGED store \/ ReleaseRunSlot(RunOf(n))
         PROVE  Ledger'
    <2>1. {"failed"} \in SUBSET (Active \ {"produce"}) /\ "refused" \in PC \ {"produce", "admit"}
      BY DEF Active, PC
    <2>2. CASE UNCHANGED store
      BY <1>9, <1>10, <2>1, <2>2
    <2>3. CASE ReleaseRunSlot(RunOf(n))
      <3>1. listener[n].pc = "failed"
        BY <1>10 DEF ListensOn
      <3>2. RunOf(n) \in Runs /\ ~ NeedsSlot(RunOf(n))
        BY <3>1, AtListener DEF NeedsSlot, Active
      <3>3. UNCHANGED status /\ \A q \in Runs \ {RunOf(n)} : Live(q) => Live(q)'
        BY <2>3 DEF ReleaseRunSlot, Live, StoreInv, StoreTypeOK
      <3> QED BY <1>7, <1>10, <2>1, <3>2, <3>3
    <2> QED BY <1>10, <2>2, <2>3
  <1>11. ASSUME NEW n \in Nodes, Listen(n), \A o \in Outcomes : ~ Undo(n, o)
         PROVE  Ledger'
    <2>1. CASE /\ ListensOn(n, {"poll"}, "noSlot") \/ ListensOn(n, {"poll"}, "wait") \/ ListensOn(n, {"poll"}, "admit")
               /\ UNCHANGED <<buffer, work>>
               /\ UNCHANGED store \/ AcquireRunSlot(RunOf(n))
               /\ listener'[n].pc = "admit" => AcquireRunSlot(RunOf(n)) /\ AcquireGranted(RunOf(n))
      BY <1>8, <2>1
    <2>2. CASE /\ \/ ListensOn(n, {"wait"}, "poll") \/ ListensOn(n, {"wait"}, "noSlot")
                  \/ ListensOn(n, {"noSlot", "refused"}, "requeue") \/ ListensOn(n, {"admit"}, "failed")
               /\ UNCHANGED <<buffer, work, store>>
      <3>1. {"wait"} \in SUBSET (Active \ {"produce"}) /\ {"noSlot", "refused"} \in SUBSET (Active \ {"produce"})
            /\ {"admit"} \in SUBSET (Active \ {"produce"})
            /\ {"poll", "noSlot", "requeue", "failed"} \subseteq PC \ {"produce", "admit"}
        BY DEF Active, PC
      <3> QED BY <1>9, <2>2, <3>1
    <2>3. CASE /\ ListensOn(n, {"requeue"}, "ack")
               /\ buffer' = [buffer EXCEPT ![n] = @ \cup {RunOf(n)}]
               /\ UNCHANGED <<work, store>>
      <3>1. {"requeue"} \in SUBSET (Active \ {"produce"}) /\ "ack" \in PC \ {"produce", "admit"}
        BY DEF Active, PC
      <3> QED BY <1>9, <2>3, <3>1
    <2>4. CASE /\ ListensOn(n, {"admit"}, "produce")
               /\ AdmitReply(RunOf(n), First) = "Admitted" /\ AdmitTask(RunOf(n), First)
               /\ UNCHANGED <<buffer, work>>
      BY <2>4, LedgerAdmits
    <2>5. CASE /\ ListensOn(n, {"produce"}, "ack")
               /\ work' = work \cup {RunOf(n)}
               /\ UNCHANGED <<buffer, store>>
      BY <2>5, LedgerProduces
    <2>6. CASE /\ ListensOn(n, {"failed"}, "refused")
               /\ UNCHANGED store \/ ReleaseRunSlot(RunOf(n))
               /\ UNCHANGED <<buffer, work>>
      BY <1>10, <2>6
    <2> QED BY <1>6, <1>11, <2>1, <2>2, <2>3, <2>4, <2>5, <2>6, CalmListens, ZenonT(60)
  <1>12. ASSUME NEW n \in Nodes, (\E q \in buffer[n] : Flush(n, q)) \/ Commit(n)
         PROVE  Ledger'
    <2>1. UNCHANGED store /\ UNCHANGED <<work, ending, finished>> /\ UNCHANGED listener
      BY <1>12 DEF Flush, Commit, crawlVars
    <2> QED BY <1>4, <2>1
  <1>13. ASSUME NEW r \in Runs, EndRun(r)
         PROVE  Ledger'
    <2>1. \A t \in Tasks \ {First} : status[r][t] = "absent"
      BY DEF Ledger
    <2>2. CASE Crawl(r)
      <3>1. /\ r \in work /\ work' = work \ {r} /\ finished' = finished \cup {r} /\ UNCHANGED listener
            /\ ending' = [ending EXCEPT ![r] = "release"]
            /\ status' = [status EXCEPT ![r][First] = "done"] /\ lease' = Renewed(r)
        BY <2>2, CalmCrawl
      <3>2. \A q \in Runs \ {r} : status'[q] = status[q] /\ ending'[q] = ending[q]
        BY <3>1 DEF StoreInv, StoreTypeOK, Typed
      <3>3. \A t \in Tasks \ {First} : status'[r][t] = "absent"
        BY <2>1, <3>1 DEF StoreInv, StoreTypeOK
      <3>4. \A q \in Runs : Live(q) => Live(q)'
        <4>1. LeaseLength > 0 /\ lease \in [Runs -> NoSlot .. LeaseLength]
          BY StoreAssumption DEF StoreAssumption, StoreInv, StoreTypeOK
        <4> QED BY <3>1, <4>1 DEF Renewed, Live
      <3> HIDE DEF FlowInv
      <3> QED BY <3>1, <3>2, <3>3, <3>4, LedgerCrawls DEF FlowInv
    <2>3. CASE EndRelease(r)
      <3>1. /\ ending[r] = "release" /\ ending' = [ending EXCEPT ![r] = "cleanup"]
            /\ UNCHANGED status /\ lease' = [lease EXCEPT ![r] = NoSlot]
            /\ UNCHANGED listener /\ UNCHANGED work /\ UNCHANGED finished
        BY <2>3 DEF EndRelease, ReleaseRunSlot
      <3>2. r \in finished
        BY <1>2, <3>1
      <3>3. \A q \in Runs : ending'[q] # "no" => q \in finished
        BY <1>2, <3>1, <3>2 DEF Typed
      <3>4. \A q \in Runs \ {r} : Live(q) => Live(q)'
        BY <3>1 DEF Live, StoreInv, StoreTypeOK
      <3>5. ~ NeedsSlot(r)
        <4>1. r \notin work
          BY <3>2 DEF OnePlace, InOnePlace
        <4> QED BY <3>2, <4>1, AtListener DEF NeedsSlot, Active
      <3> QED BY <1>1, <3>1, <3>3, <3>4, <3>5, LedgerKeeps
    <2>4. CASE EndCleanup(r)
      <3>1. /\ ending[r] = "cleanup" /\ ending' = [ending EXCEPT ![r] = "no"]
            /\ status' = [status EXCEPT ![r] = NoTasks] /\ UNCHANGED lease
            /\ UNCHANGED listener /\ UNCHANGED work /\ UNCHANGED finished
        BY <2>4 DEF EndCleanup, CleanupRun
      <3>2. r \in finished /\ r \notin work
        <4>1. r \in finished
          BY <1>2, <3>1
        <4> QED BY <4>1 DEF OnePlace, InOnePlace
      <3>3. work' = work \ {r} /\ finished' = finished \cup {r}
        BY <3>1, <3>2
      <3>4. \A q \in Runs \ {r} : status'[q] = status[q] /\ ending'[q] = ending[q]
        BY <3>1 DEF StoreInv, StoreTypeOK, Typed
      <3>5. \A t \in Tasks \ {First} : status'[r][t] = "absent"
        BY <3>1 DEF StoreInv, StoreTypeOK, NoTasks
      <3>6. \A q \in Runs : Live(q) => Live(q)'
        BY <3>1 DEF Live
      <3> HIDE DEF FlowInv
      <3> QED BY <3>1, <3>2, <3>3, <3>4, <3>5, <3>6, LedgerCrawls DEF FlowInv
    <2> QED BY <1>13, <2>2, <2>3, <2>4, Zenon DEF EndRun
  <1>14. CASE UNCHANGED vars
    BY <1>4, <1>14 DEF vars, store
  <1> QED BY <1>5, <1>11, <1>12, <1>13, <1>14, CalmStep, ZenonT(60)

-----------------------------------------------------------------------------
(* The theorems. *)

\* The strengthening: the flow of runs is only ordered where calls only fail, and
\* it is what the rest of the state says, so all of it is carried through together.
IInv == Typed /\ HasRun /\ StoreInv /\ (Calm => FlowInv)

LEMMA InitTopic ==
    ASSUME Init
    PROVE  /\ topic \in [1 .. plan.room -> Records]
           /\ \A i \in DOMAIN topic : topic[i] = Free \/ \E r \in Runs : topic[i] = Record(r)
           /\ \A i, j \in DOMAIN topic : topic[i].state = "ready" /\ topic[j].state = "ready"
                                         /\ topic[i].run = topic[j].run => i = j
           /\ \A r \in Runs : \E i \in DOMAIN topic : topic[i] = Record(r)
  <1> DEFINE N == Cardinality(Runs)
  <1>1. N \in Nat
    BY StoreAssumption, FS_CardinalityType DEF StoreAssumption
  <1>2. N <= plan.room /\ plan.room \in Nat
    BY DispatchAssumption DEF Init, DispatchAssumption
  <1>3. PICK order \in [1 .. N -> Runs] :
          /\ \A r \in Runs : \E i \in DOMAIN order : order[i] = r
          /\ topic = [i \in 1 .. plan.room |-> IF i \in DOMAIN order THEN Record(order[i]) ELSE Free]
    BY Zenon DEF Init
  <1>4. IsFiniteSet(1 .. N) /\ Cardinality(1 .. N) = N
    BY <1>1, FS_Interval
  <1>5. order \in Surjection(1 .. N, Runs)
    BY <1>3 DEF Surjection
  <1>6. order \in Injection(1 .. N, Runs)
    BY <1>4, <1>5, FS_SurjSameCardinalityImpliesInj
  <1>7. \A i, j \in 1 .. N : order[i] = order[j] => i = j
    BY <1>6 DEF Injection, IsInjective
  <1> HIDE DEF N
  <1>8. /\ DOMAIN topic = 1 .. plan.room /\ 1 .. N \subseteq 1 .. plan.room
        /\ \A i \in 1 .. plan.room : topic[i] = IF i \in 1 .. N THEN Record(order[i]) ELSE Free
    BY <1>1, <1>2, <1>3
  <1>9. Free \in Records /\ \A r \in Runs : Record(r) \in Records
    BY DEF Free, Record, Records
  <1>10. topic \in [1 .. plan.room -> Records]
    BY <1>3, <1>9
  <1>11. Free.state = "free" /\ \A r : Record(r).run = r
    BY DEF Free, Record
  <1>12. \A i \in DOMAIN topic : topic[i].state = "ready" => i \in 1 .. N /\ topic[i].run = order[i]
    BY <1>8, <1>11
  <1>13. \A r \in Runs : \E i \in DOMAIN topic : topic[i] = Record(r)
    BY <1>3, <1>8
  <1> QED BY <1>7, <1>8, <1>10, <1>12, <1>13

LEMMA InitHolds == Init => IInv
  <1> SUFFICES ASSUME Init PROVE IInv
    OBVIOUS
  <1>1. None \notin Runs \cup Nodes
    BY DispatchAssumption DEF DispatchAssumption
  <1>2. StoreInv
    BY StoreInitInv DEF Init
  <1>3. Typed
    <2>1. plan \in Plans /\ plan \in [unusable : {plan.unusable}, room : {plan.room},
                                      kinds : {plan.kinds}, max : 0 .. plan.max] /\ plan.room \in Nat
      <3>1. plan \in Plans /\ plan \in [unusable : SUBSET Runs, room : Nat, kinds : SUBSET FaultKinds, max : Nat]
        BY DispatchAssumption DEF Init, DispatchAssumption
      <3> QED BY <3>1
    <2>2. Idle \in Listeners
      BY <2>1 DEF Idle, Listeners, PC
    <2>3. listener \in [Nodes -> Listeners]
      BY <2>2 DEF Init
    <2>4. /\ buffer \in [Nodes -> SUBSET Runs] /\ phase \in [Nodes -> {"up", "cancelled", "closing", "closed"}]
          /\ work \subseteq Runs /\ ending \in [Runs -> {"no", "release", "cleanup"}]
          /\ finished \subseteq Runs /\ expired \subseteq Runs
      BY DEF Init
    <2> QED BY <2>1, <2>3, <2>4, InitTopic DEF Typed
  <1>4. \A i \in DOMAIN topic : topic[i] = Free \/ \E r \in Runs : topic[i] = Record(r)
    BY InitTopic
  <1>5. \A n \in Nodes : listener[n].pc = "idle"
    BY DEF Init, Idle
  <1>6. HasRun
    <2>1. Free.owner = None /\ \A r : Record(r).run = r /\ Record(r).owner = None
      BY DEF Free, Record
    <2> QED BY <1>1, <1>4, <1>5, <2>1 DEF HasRun
  <1>7. Quiet
    BY <1>5 DEF Quiet, Init
  <1>8. Ledger
    <2>1. \A r \in Runs : ending[r] = "no" /\ \A t \in Tasks : status[r][t] = "absent"
      BY DEF Init, StoreInit, NoTasks
    <2>2. work = {} /\ First \in Tasks
      BY DispatchAssumption DEF Init, DispatchAssumption
    <2> QED BY <1>5, <2>1, <2>2 DEF Ledger
  <1>9. OnePlace
    <2>1. ASSUME NEW r \in Runs PROVE ReadyAt(r) # {} /\ Single(ReadyAt(r))
      <3>1. PICK i \in DOMAIN topic : topic[i] = Record(r)
        BY InitTopic
      <3>2. i \in ReadyAt(r)
        BY <3>1 DEF ReadyAt, Record
      <3>3. \A k, j \in ReadyAt(r) : k = j
        BY InitTopic DEF ReadyAt
      <3> QED BY <3>2, <3>3 DEF Single
    <2>2. \A r : BufferedAt(r) = {} /\ HeldBy(r) = {}
      BY <1>5 DEF BufferedAt, HeldBy, Active, Init
    <2>3. work = {} /\ finished = {} /\ Single({})
      BY DEF Init, Single
    <2> QED BY <2>1, <2>2, <2>3 DEF OnePlace, InOnePlace, InSomePlace
  <1> QED BY <1>2, <1>3, <1>6, <1>7, <1>8, <1>9 DEF IInv, FlowInv

LEMMA StepHolds == IInv /\ [Next]_vars => IInv'
  <1> SUFFICES ASSUME IInv, [Next]_vars PROVE IInv'
    OBVIOUS
  <1>1. Typed' /\ HasRun' /\ StoreInv'
    BY TypedStep DEF IInv
  <1>2. Calm' <=> Calm
    BY PlanStep DEF Calm, IInv
  <1>3. ASSUME Calm PROVE FlowInv'
    BY <1>3, OnePlaceStep, QuietStep, LedgerStep DEF IInv, FlowInv
  <1> QED BY <1>1, <1>2, <1>3 DEF IInv

\* The invariant holds under every plan of faults.
THEOREM InvariantHolds == Spec => []IInv
  <1> QED BY InitHolds, StepHolds, PTL DEF Spec

\* Every run a listener may still have to do with is somewhere: wherever a run can
\* be, its message is still to come or its task is with the workers.
LEMMA NotLostBecause == IInv => RunIsNotLost
  <1> SUFFICES ASSUME IInv, Calm, NEW r \in Runs \ (plan.unusable \cup finished \cup expired)
               PROVE  OnItsWay(r) \/ (r \in work /\ Live(r))
    BY DEF RunIsNotLost
  <1>1. Typed /\ HasRun /\ Quiet /\ OnePlace /\ Ledger
    BY DEF IInv, FlowInv
  <1>2. ReadyAt(r) # {} \/ BufferedAt(r) # {} \/ HeldBy(r) # {} \/ r \in work
    BY <1>1 DEF OnePlace, InSomePlace
  <1>3. CASE ReadyAt(r) # {}
    BY <1>3 DEF ReadyAt, OnItsWay
  <1>4. CASE BufferedAt(r) # {}
    BY <1>4 DEF BufferedAt, OnItsWay
  <1>5. CASE HeldBy(r) # {}
    <2>1. PICK n \in Nodes : listener[n].run = r /\ listener[n].pc \in Active
      BY <1>5 DEF HeldBy
    <2>2. listener[n].rec \in DOMAIN topic
      BY <1>1, <2>1 DEF HasRun, Active
    <2>3. topic[listener[n].rec] = [run |-> r, state |-> "held", owner |-> n]
      BY <1>1, <2>1 DEF Quiet, Active
    <2>4. topic[listener[n].rec].run = r /\ topic[listener[n].rec].state = "held"
      BY <2>3
    <2> QED BY <2>2, <2>4 DEF OnItsWay
  <1>6. CASE r \in work
    BY <1>1, <1>6 DEF Ledger
  <1> QED BY <1>2, <1>3, <1>4, <1>5, <1>6

\* Every environment: the types.  Where calls fail and nothing else does, in any
\* order and however often: no run is lost between its message and its crawl
\* (app_crawler.go:81-205).
THEOREM DispatchStaysSound == Spec => []DispatchIsSound
  <1>1. IInv => DispatchIsSound
    <2>1. IInv => TypeOK
      BY TypeOKIsTyped DEF IInv, StoreInv
    <2> QED BY <2>1, NotLostBecause DEF DispatchIsSound
  <1> QED BY <1>1, InvariantHolds, PTL

\* Whatever the listeners, the workers and the faults do, no more runs than
\* MaxConcurrent hold a slot, and the counters the end of a run is decided on are
\* exact (runstate_redis.go:26-103, as app_crawler.go calls it).
THEOREM SlotsAndCounters == Spec => [](CountersExact /\ SlotBound /\ LinkBound)
  <1>1. IInv => CountersExact /\ SlotBound /\ LinkBound
    BY DEF IInv, StoreInv
  <1> QED BY <1>1, InvariantHolds, PTL
=============================================================================
