--------------------------- MODULE CrawlRunProofs ---------------------------
(***************************************************************************)
(* A crawl run for any runs, pages, nodes and workers.  Under every plan   *)
(* of faults: what is acked is done and no link is left behind.  Under the *)
(* plans that do not take a finished run's state apart: a run ends once.   *)
(* Under the plans that lose nothing: what is queued has its message.      *)
(***************************************************************************)
EXTENDS CrawlRun, RunStoreProofs

-----------------------------------------------------------------------------
(* Types. *)

States == {"ready", "held", "acked", "committed"}
Records == [msg : Message, state : States, owner : Workers \cup {None}]
Locals == [pc : PC, rec : Nat, todo : SUBSET Tasks, child : Tasks \cup {None},
           failed : BOOLEAN, found : SUBSET Tasks, last : BOOLEAN]

\* TypeOK without the store's part, which holds by StoreStep.
Typed ==
    /\ topic \in Seq(Records)
    /\ buffer \in [Nodes -> SUBSET Message]
    /\ worker \in [Workers -> Locals]
    /\ finished \subseteq Runs /\ limited \subseteq Runs /\ expired \subseteq Runs
    /\ expanded \in [Runs -> [Tasks -> SUBSET Tasks]]
    /\ \E e \in Plans : plan \in [kinds : {e.kinds}, max : 0 .. e.max]

LEMMA TypeOKIsTyped == TypeOK <=> StoreTypeOK /\ Typed
  BY DEF TypeOK, Typed, Records, States, Locals

\* Sequences of records, as functions.
LEMMA RecordSeq ==
    ASSUME NEW s \in Seq(Records)
    PROVE  /\ Len(s) \in Nat /\ DOMAIN s = 1 .. Len(s)
           /\ \A i \in DOMAIN s : s[i] \in Records
  OBVIOUS

LEMMA SeqOfRecords ==
    ASSUME NEW s \in Seq(Records), NEW f \in [DOMAIN s -> Records]
    PROVE  f \in Seq(Records) /\ Len(f) = Len(s) /\ DOMAIN f = DOMAIN s
  OBVIOUS

LEMMA AppendRecord ==
    ASSUME NEW s \in Seq(Records), NEW x \in Records
    PROVE  /\ Append(s, x) \in Seq(Records)
           /\ Len(Append(s, x)) = Len(s) + 1
           /\ DOMAIN Append(s, x) = 1 .. Len(s) + 1
           /\ Append(s, x)[Len(s) + 1] = x
           /\ \A i \in 1 .. Len(s) : Append(s, x)[i] = s[i]
  OBVIOUS

-----------------------------------------------------------------------------
(* What one step does to the topic. *)

LEMMA ReturnedIs ==
    ASSUME topic \in Seq(Records), NEW n \in Nodes
    PROVE  /\ Returned(n) \in [DOMAIN topic -> Records]
           /\ \A i \in DOMAIN topic : /\ Returned(n)[i].msg = topic[i].msg
                                      /\ Returned(n)[i].state \in {topic[i].state, "ready"}
  <1>1. \A i \in DOMAIN topic : topic[i] \in Records
    BY RecordSeq
  <1>2. \A i \in DOMAIN topic :
          /\ [topic[i] EXCEPT !.state = "ready", !.owner = None] \in Records
          /\ [topic[i] EXCEPT !.state = "ready", !.owner = None].msg = topic[i].msg
          /\ [topic[i] EXCEPT !.state = "ready", !.owner = None].state = "ready"
    BY <1>1 DEF Records, States
  <1> QED BY <1>1, <1>2 DEF Returned

\* A record changes its state, never its message; records are only added at the
\* end, by a producer loop, and only a worker's ack makes one acked.
TopicSteps ==
    /\ \A i \in DOMAIN topic : i \in DOMAIN topic' /\ topic'[i].msg = topic[i].msg
    /\ \A i \in DOMAIN topic' \ DOMAIN topic :
         /\ i = Len(topic) + 1 /\ topic'[i].state = "ready"
         /\ \E n \in Nodes : \E m \in buffer[n] : Flush(n, m) /\ topic'[i].msg = m
    /\ \A i \in DOMAIN topic :
         topic'[i].state \in {"acked", "committed"} /\ topic[i].state \notin {"acked", "committed"} =>
           \E w \in Workers : Ack(w) /\ worker[w].rec = i

LEMMA TopicStep ==
    ASSUME Typed, [Next]_vars
    PROVE  topic' \in Seq(Records) /\ TopicSteps
  <1>1. topic \in Seq(Records) /\ \A i \in DOMAIN topic : topic[i] \in Records
    BY RecordSeq DEF Typed
  <1> DEFINE Fits(f) ==
               /\ f \in [DOMAIN topic -> Records]
               /\ \A i \in DOMAIN topic : f[i].msg = topic[i].msg
  <1>2. ASSUME Fits(topic'),
               \A i \in DOMAIN topic :
                  topic'[i].state \in {"acked", "committed"} /\ topic[i].state \notin {"acked", "committed"} =>
                    \E w \in Workers : Ack(w) /\ worker[w].rec = i
        PROVE  topic' \in Seq(Records) /\ TopicSteps
    <2>1. topic' \in Seq(Records) /\ DOMAIN topic' = DOMAIN topic
      BY <1>1, <1>2, SeqOfRecords
    <2> QED BY <1>2, <2>1 DEF TopicSteps
  <1>3. ASSUME NEW w \in Workers, NEW i \in DOMAIN topic, Deliver(w, i)
        PROVE  topic' \in Seq(Records) /\ TopicSteps
    <2>1. topic' = [topic EXCEPT ![i].state = "held", ![i].owner = w]
      BY <1>3 DEF Deliver
    <2>2. Fits(topic') /\ topic'[i].state = "held" /\ \A j \in DOMAIN topic : j # i => topic'[j] = topic[j]
      BY <1>1, <2>1 DEF Records, States
    <2> HIDE DEF Fits
    <2> QED BY <1>2, <2>2
  <1>4. ASSUME NEW w \in Workers, Ack(w)
        PROVE  topic' \in Seq(Records) /\ TopicSteps
    <2> DEFINE i == worker[w].rec
    <2>1. topic' = IF topic[i].state = "held" /\ topic[i].owner = w
                      THEN [topic EXCEPT ![i].state = "acked"] ELSE topic
      BY <1>4 DEF Ack
    <2>2. Fits(topic') /\ \A j \in DOMAIN topic : j # i => topic'[j] = topic[j]
      <3> HIDE DEF i
      <3>1. CASE UNCHANGED topic
        BY <1>1, <3>1
      <3>2. CASE i \in DOMAIN topic /\ topic' = [topic EXCEPT ![i].state = "acked"]
        BY <1>1, <3>2 DEF Records, States
      <3>3. CASE i \notin DOMAIN topic /\ topic' = [topic EXCEPT ![i].state = "acked"]
        BY <1>1, <3>3
      <3> QED BY <2>1, <3>1, <3>2, <3>3
    <2> HIDE DEF Fits
    <2> QED BY <1>2, <1>4, <2>2
  <1>5. ASSUME NEW n \in Nodes, NEW m \in buffer[n], Flush(n, m)
        PROVE  topic' \in Seq(Records) /\ TopicSteps
    <2>1. CASE UNCHANGED topic
      <3>1. Fits(topic')
        BY <1>1, <2>1
      <3> HIDE DEF Fits
      <3> QED BY <1>2, <2>1, <3>1
    <2>2. CASE topic' = Append(topic, Record(m))
      <3>1. m \in Message
        BY DEF Typed
      <3>2. Record(m) \in Records /\ Record(m).msg = m /\ Record(m).state = "ready"
        BY <3>1 DEF Record, Records, States
      <3>3. /\ topic' \in Seq(Records)
            /\ DOMAIN topic' = 1 .. Len(topic) + 1 /\ topic'[Len(topic) + 1] = Record(m)
            /\ \A i \in 1 .. Len(topic) : topic'[i] = topic[i]
        BY <1>1, <2>2, <3>2, AppendRecord
      <3>4. DOMAIN topic = 1 .. Len(topic) /\ Len(topic) \in Nat
        BY <1>1, RecordSeq
      <3> QED BY <1>5, <3>2, <3>3, <3>4 DEF TopicSteps
    <2> QED BY <1>5, <2>1, <2>2 DEF Flush
  <1>6. ASSUME NEW n \in Nodes, Commit(n)
        PROVE  topic' \in Seq(Records) /\ TopicSteps
    <2>1. topic' = [i \in DOMAIN topic |->
                     IF i \in Uncommitted(n) /\ topic[i].state = "acked"
                     THEN [topic[i] EXCEPT !.state = "committed"] ELSE topic[i]]
      BY <1>6 DEF Commit
    <2>2. \A i \in DOMAIN topic : /\ [topic[i] EXCEPT !.state = "committed"] \in Records
                                  /\ [topic[i] EXCEPT !.state = "committed"].msg = topic[i].msg
      BY <1>1 DEF Records, States
    <2>3. Fits(topic') /\ \A i \in DOMAIN topic : topic[i].state = "acked" \/ topic'[i] = topic[i]
      BY <1>1, <2>1, <2>2
    <2> HIDE DEF Fits
    <2> QED BY <1>2, <2>3
  <1>7. ASSUME NEW n \in Nodes, topic' = Returned(n)
        PROVE  topic' \in Seq(Records) /\ TopicSteps
    <2>1. Fits(topic') /\ \A i \in DOMAIN topic : topic'[i].state \in {topic[i].state, "ready"}
      BY <1>1, <1>7, ReturnedIs
    <2> HIDE DEF Fits
    <2> QED BY <1>2, <2>1
  <1>8. ASSUME UNCHANGED topic
        PROVE  topic' \in Seq(Records) /\ TopicSteps
    <2>1. Fits(topic')
      BY <1>1, <1>8
    <2> HIDE DEF Fits
    <2> QED BY <1>2, <1>8, <2>1
  <1>9. ASSUME \A w \in Workers : ~ Ack(w) /\ \A i \in DOMAIN topic : ~ Deliver(w, i),
               \A n \in Nodes : ~ Commit(n) /\ ~ Rebalance(n) /\ ~ Crash(n) /\ \A m \in buffer[n] : ~ Flush(n, m)
        PROVE  UNCHANGED topic
    <2>1. ASSUME NEW w \in Workers, Step(w)
          PROVE  UNCHANGED topic
      BY <1>9, <2>1, ZenonT(60) DEF Step, CheckState, Undo, Complete, Release, Cleanup, Admit, Fetch, Produce
    <2>2. (\E r \in Runs : Expire(r)) \/ Tick \/ UNCHANGED vars => UNCHANGED topic
      BY ZenonT(60) DEF Expire, Tick, vars
    <2> QED BY <1>9, <2>1, <2>2, ZenonT(60) DEF Next
  <1>10. \A n \in Nodes : Rebalance(n) \/ Crash(n) => topic' = Returned(n)
    BY DEF Rebalance, Crash
  <1> QED BY <1>3, <1>4, <1>5, <1>6, <1>7, <1>8, <1>9, <1>10

-----------------------------------------------------------------------------
(* What one step does to a worker, handler by handler. *)

OnlyMoves(w) ==
    /\ worker' \in [Workers -> Locals]
    /\ \A v \in Workers \ {w} : worker'[v] = worker[v]

\* On with the same record, from one place to another.
GoesOn(w, from, to) ==
    /\ worker[w].pc \in from /\ worker'[w].pc \in to /\ worker'[w].rec = worker[w].rec

Starts(w) ==
    /\ worker[w].pc = "idle" /\ worker'[w].pc = "start" /\ worker'[w].rec \in DOMAIN topic
    /\ worker'[w].todo = worker[w].todo /\ worker'[w].found = worker[w].found
    /\ worker'[w].last = worker[w].last

Checks(w) ==
    /\ GoesOn(w, {"start"}, {"fetch", "ack"})
    /\ worker'[w].todo = worker[w].todo /\ worker'[w].found = worker[w].found
    /\ worker'[w].last = worker[w].last
    /\ worker'[w].pc = "ack" => ~ Live(RunOf(w)) \/ status[RunOf(w)][Msg(w).task] = "done"

Finds(w) ==
    /\ GoesOn(w, {"fetch"}, {"send", "complete"})
    /\ worker'[w].todo = worker'[w].found /\ worker'[w].last = worker[w].last
    /\ worker'[w].pc = "complete" => worker'[w].found = {}
    /\ \E found \in PageLinks[Msg(w).task] :
         worker'[w].found = IF Msg(w).depth + 1 >= MaxDepth[RunOf(w)] THEN {} ELSE found

Admits(w) ==
    /\ GoesOn(w, {"send"}, {"produce"})
    /\ worker'[w].child \in worker[w].todo
    /\ worker'[w].todo = worker[w].todo \ {worker'[w].child}
    /\ worker'[w].found = worker[w].found
    /\ worker'[w].last = worker[w].last /\ worker'[w].failed = worker[w].failed
    /\ AdmitReply(RunOf(w), worker'[w].child) = "Admitted" /\ AdmitTask(RunOf(w), worker'[w].child)

\* A link behind it, whatever became of it; without a failure it is settled.
NextLink(w) ==
    /\ GoesOn(w, {"send", "produce", "undo"}, {"send", "complete"})
    /\ worker'[w].todo \subseteq worker[w].todo /\ worker'[w].found = worker[w].found
    /\ worker'[w].last = worker[w].last
    /\ worker'[w].pc = "complete" => worker'[w].todo = {}
    /\ worker'[w].pc = "complete" \/ ~ worker'[w].failed =>
         \/ ~ Live(RunOf(w))
         \/ /\ ~ worker[w].failed /\ worker[w].pc # "undo"
            /\ worker[w].pc = "produce" => worker'[w].todo = worker[w].todo
            /\ \A c \in worker[w].todo \ worker'[w].todo :
                 \/ status[RunOf(w)][c] # "absent"
                 \/ links[RunOf(w)] >= MaxLinks[RunOf(w)] /\ RunOf(w) \in limited'

CannotSend(w) ==
    /\ GoesOn(w, {"produce"}, {"undo"})
    /\ worker'[w].todo = worker[w].todo /\ worker'[w].found = worker[w].found
    /\ worker'[w].last = worker[w].last /\ worker'[w].child = worker[w].child
    /\ "produceFails" \in plan.kinds

Completes(w) ==
    /\ GoesOn(w, {"complete"}, {"ack"})
    /\ worker'[w].todo = worker[w].todo /\ worker'[w].found = worker[w].found
    /\ CompleteTask(RunOf(w), Msg(w).task)
    /\ worker'[w].last => /\ RunOf(w) \in finished'
                          /\ Last(CompleteReply(RunOf(w), Msg(w).task))

Finishes(w) ==
    /\ \/ GoesOn(w, {"ack"}, {"release"}) /\ worker[w].last
       \/ /\ GoesOn(w, {"release"}, {"cleanup"})
          /\ "redisDown" \in plan.kinds \/ lease' = [lease EXCEPT ![RunOf(w)] = NoSlot]
    /\ worker'[w].todo = worker[w].todo /\ worker'[w].found = worker[w].found
    /\ worker'[w].last = worker[w].last

Moves(w) ==
    \/ worker'[w] = worker[w] \/ worker'[w] = IdleWorker
    \/ Starts(w) \/ Checks(w) \/ Finds(w) \/ Admits(w) \/ NextLink(w) \/ CannotSend(w)
    \/ Completes(w) \/ Finishes(w)

LEMMA IdleWorkerIsLocal == IdleWorker \in Locals
  BY DEF IdleWorker, Locals, PC

\* What AfterLink makes of a worker.
LEMMA AfterLinkIs ==
    ASSUME worker \in [Workers -> Locals], NEW w \in Workers, NEW rest \in SUBSET Tasks,
           NEW fail \in BOOLEAN, AfterLink(w, rest, fail)
    PROVE  /\ OnlyMoves(w)
           /\ \/ worker'[w] = IdleWorker
              \/ /\ worker'[w].rec = worker[w].rec /\ worker'[w].todo = rest
                 /\ worker'[w].found = worker[w].found /\ worker'[w].last = worker[w].last
                 /\ \/ worker'[w].pc = "complete" /\ rest = {} /\ ~ fail
                    \/ worker'[w].pc = "send" /\ worker'[w].failed = fail
  <1>1. CASE rest # {}
    <2> DEFINE x == [worker[w] EXCEPT !.pc = "send", !.todo = rest, !.child = None, !.failed = fail]
    <2>1. worker' = [worker EXCEPT ![w] = x]
      BY <1>1 DEF AfterLink
    <2>2. /\ x \in Locals /\ x.pc = "send" /\ x.todo = rest /\ x.failed = fail
          /\ x.rec = worker[w].rec /\ x.found = worker[w].found /\ x.last = worker[w].last
      <3>1. worker[w] \in Locals
        OBVIOUS
      <3>2. /\ x.pc = "send" /\ x.todo = rest /\ x.failed = fail /\ x.child = None
            /\ x.rec = worker[w].rec /\ x.found = worker[w].found /\ x.last = worker[w].last
        BY <3>1 DEF Locals
      <3>3. x \in Locals
        BY <3>1, ZenonT(60) DEF Locals, PC
      <3> QED BY <3>2, <3>3
    <2> HIDE DEF x
    <2> QED BY <2>1, <2>2 DEF OnlyMoves
  <1>2. CASE rest = {} /\ fail
    <2>1. worker' = [worker EXCEPT ![w] = IdleWorker]
      BY <1>2 DEF AfterLink
    <2> QED BY <2>1, IdleWorkerIsLocal DEF OnlyMoves
  <1>3. CASE rest = {} /\ ~ fail
    <2> DEFINE x == [worker[w] EXCEPT !.pc = "complete", !.todo = {}, !.child = None]
    <2>1. worker' = [worker EXCEPT ![w] = x]
      BY <1>3 DEF AfterLink
    <2>2. /\ x \in Locals /\ x.pc = "complete" /\ x.todo = {}
          /\ x.rec = worker[w].rec /\ x.found = worker[w].found /\ x.last = worker[w].last
      BY DEF Locals, PC
    <2> HIDE DEF x
    <2> QED BY <1>3, <2>1, <2>2 DEF OnlyMoves
  <1> QED BY <1>1, <1>2, <1>3

LEMMA CheckStateMoves ==
    ASSUME Typed, NEW w \in Workers, NEW o \in Outcomes, CheckState(w, o)
    PROVE  OnlyMoves(w) /\ Checks(w)
  <1>1. worker \in [Workers -> Locals]
    BY DEF Typed
  <1> DEFINE s == TaskStateReply(RunOf(w), Msg(w).task)
             pc == IF o = "ok" /\ AlreadyHandled(s) THEN "ack" ELSE "fetch"
             x == [worker[w] EXCEPT !.pc = pc]
  <1>2. worker[w].pc = "start" /\ worker' = [worker EXCEPT ![w] = x]
    BY <1>1 DEF CheckState
  <1>3. pc = "ack" => ~ Live(RunOf(w)) \/ status[RunOf(w)][Msg(w).task] = "done"
    BY DEF AlreadyHandled, TaskStateReply
  <1>4. pc \in {"fetch", "ack"}
    OBVIOUS
  <1> HIDE DEF pc, s
  <1>5. /\ x \in Locals /\ x.pc = pc /\ x.rec = worker[w].rec /\ x.todo = worker[w].todo
        /\ x.found = worker[w].found /\ x.last = worker[w].last
    BY <1>1, <1>4 DEF Locals, PC
  <1> HIDE DEF x
  <1>6. worker'[w] = x /\ OnlyMoves(w)
    BY <1>1, <1>2, <1>5 DEF OnlyMoves
  <1> QED BY <1>2, <1>3, <1>4, <1>5, <1>6 DEF Checks, GoesOn

LEMMA FetchMoves ==
    ASSUME Typed, NEW w \in Workers, worker[w].rec \in DOMAIN topic, Fetch(w)
    PROVE  OnlyMoves(w) /\ Finds(w)
  <1>1. worker \in [Workers -> Locals]
    BY DEF Typed
  <1>2. Msg(w).task \in Tasks
    BY RecordSeq DEF Typed, Msg, Records, Message
  <1>3. PICK found \in PageLinks[Msg(w).task] :
          worker' = [worker EXCEPT
              ![w].pc = IF (IF Msg(w).depth + 1 >= MaxDepth[RunOf(w)] THEN {} ELSE found) = {} THEN "complete" ELSE "send",
              ![w].todo = IF Msg(w).depth + 1 >= MaxDepth[RunOf(w)] THEN {} ELSE found,
              ![w].found = IF Msg(w).depth + 1 >= MaxDepth[RunOf(w)] THEN {} ELSE found]
    BY DEF Fetch
  <1> DEFINE sent == IF Msg(w).depth + 1 >= MaxDepth[RunOf(w)] THEN {} ELSE found
             pc == IF sent = {} THEN "complete" ELSE "send"
             x == [worker[w] EXCEPT !.pc = pc, !.todo = sent, !.found = sent]
  <1>4. sent \in SUBSET Tasks
    BY <1>2, CrawlAssumption DEF CrawlAssumption
  <1>5. worker' = [worker EXCEPT ![w].pc = pc, ![w].todo = sent, ![w].found = sent] /\ worker[w].pc = "fetch"
    BY <1>3 DEF Fetch
  <1>6. pc \in {"complete", "send"} /\ (pc = "complete" => sent = {})
    OBVIOUS
  <1>7. \E f \in PageLinks[Msg(w).task] :
          sent = IF Msg(w).depth + 1 >= MaxDepth[RunOf(w)] THEN {} ELSE f
    OBVIOUS
  <1> HIDE DEF pc, sent
  <1>8. worker' = [worker EXCEPT ![w] = x]
    BY <1>1, <1>5
  <1>9. /\ x \in Locals /\ x.pc = pc /\ x.rec = worker[w].rec /\ x.todo = sent /\ x.found = sent
        /\ x.last = worker[w].last
    BY <1>1, <1>4, <1>6 DEF Locals, PC
  <1> HIDE DEF x
  <1>10. worker'[w] = x /\ OnlyMoves(w)
    BY <1>1, <1>8, <1>9 DEF OnlyMoves
  <1> QED BY <1>5, <1>6, <1>7, <1>9, <1>10 DEF Finds, GoesOn

LEMMA AdmitMoves ==
    ASSUME Typed, NEW w \in Workers, NEW o \in Outcomes, NEW c \in Tasks, Admit(w, c, o)
    PROVE  /\ OnlyMoves(w)
           /\ worker'[w] = IdleWorker \/ Admits(w) \/ NextLink(w)
           /\ (o = "ok" /\ AdmitReply(RunOf(w), c) = "Admitted") => Admits(w) /\ worker'[w].child = c
  <1>1. worker \in [Workers -> Locals] /\ worker[w].todo \subseteq Tasks /\ worker[w].failed \in BOOLEAN
    BY DEF Typed, Locals
  <1> DEFINE rest == worker[w].todo \ {c}
             reply == AdmitReply(RunOf(w), c)
  <1>2. worker[w].pc = "send" /\ c \in worker[w].todo /\ rest \in SUBSET Tasks
    BY <1>1 DEF Admit
  <1>3. reply \in {"RunInactive", "Duplicate", "LimitReached", "Admitted"}
    BY DEF AdmitReply
  <1>4. /\ reply = "RunInactive" => ~ Live(RunOf(w))
        /\ reply = "Duplicate" => status[RunOf(w)][c] # "absent"
        /\ reply = "LimitReached" => links[RunOf(w)] >= MaxLinks[RunOf(w)]
    BY DEF AdmitReply
  <1>5. CASE o # "ok"
    <2>1. AfterLink(w, rest, TRUE)
      BY <1>5 DEF Admit
    <2>2. /\ OnlyMoves(w)
          /\ \/ worker'[w] = IdleWorker
             \/ /\ worker'[w].rec = worker[w].rec /\ worker'[w].todo = rest
                /\ worker'[w].found = worker[w].found /\ worker'[w].last = worker[w].last
                /\ worker'[w].pc = "send" /\ worker'[w].failed = TRUE
      BY <1>1, <1>2, <2>1, AfterLinkIs
    <2> QED BY <1>2, <1>5, <2>2 DEF NextLink, GoesOn
  <1>6. CASE o = "ok" /\ reply = "Admitted"
    <2> DEFINE x == [worker[w] EXCEPT !.pc = "produce", !.child = c, !.todo = rest]
    <2>1. worker' = [worker EXCEPT ![w].pc = "produce", ![w].child = c, ![w].todo = rest]
      BY <1>6 DEF Admit
    <2>2. worker' = [worker EXCEPT ![w] = x]
      BY <1>1, <2>1
    <2>3. /\ x \in Locals /\ x.pc = "produce" /\ x.child = c /\ x.todo = rest
          /\ x.rec = worker[w].rec /\ x.found = worker[w].found /\ x.last = worker[w].last
          /\ x.failed = worker[w].failed
      BY <1>1, <1>2 DEF Locals, PC
    <2>4. AdmitTask(RunOf(w), c)
      BY <1>6 DEF Admit
    <2> HIDE DEF x
    <2>5. worker'[w] = x /\ OnlyMoves(w)
      BY <1>1, <2>2, <2>3 DEF OnlyMoves
    <2>6. Admits(w)
      BY <1>2, <1>6, <2>3, <2>4, <2>5 DEF Admits, GoesOn
    <2> QED BY <1>6, <2>3, <2>5, <2>6
  <1>7. CASE o = "ok" /\ reply \in {"Duplicate", "LimitReached"}
    <2>1. AfterLink(w, rest, worker[w].failed)
      BY <1>7 DEF Admit
    <2>2. reply = "LimitReached" => RunOf(w) \in limited'
      BY <1>7 DEF Admit
    <2>3. /\ OnlyMoves(w)
          /\ \/ worker'[w] = IdleWorker
             \/ /\ worker'[w].rec = worker[w].rec /\ worker'[w].todo = rest
                /\ worker'[w].found = worker[w].found /\ worker'[w].last = worker[w].last
                /\ \/ worker'[w].pc = "complete" /\ rest = {} /\ ~ worker[w].failed
                   \/ worker'[w].pc = "send" /\ worker'[w].failed = worker[w].failed
      BY <1>1, <1>2, <2>1, AfterLinkIs
    <2>4. worker[w].todo \ rest = {c}
      BY <1>2
    <2> HIDE DEF rest
    <2>5. worker'[w] = IdleWorker \/ NextLink(w)
      <3>1. rest \subseteq worker[w].todo
        BY DEF rest
      <3> QED BY <1>2, <1>4, <1>7, <2>2, <2>3, <2>4, <3>1 DEF NextLink, GoesOn
    <2> QED BY <1>7, <2>3, <2>5
  <1>8. CASE o = "ok" /\ reply = "RunInactive"
    <2>1. AfterLink(w, {}, FALSE)
      BY <1>8 DEF Admit
    <2>2. /\ OnlyMoves(w)
          /\ \/ worker'[w] = IdleWorker
             \/ /\ worker'[w].rec = worker[w].rec /\ worker'[w].todo = {}
                /\ worker'[w].found = worker[w].found /\ worker'[w].last = worker[w].last
                /\ worker'[w].pc \in {"complete", "send"}
      BY <1>1, <2>1, AfterLinkIs
    <2> QED BY <1>2, <1>4, <1>8, <2>2 DEF NextLink, GoesOn
  <1> QED BY <1>3, <1>5, <1>6, <1>7, <1>8

LEMMA FaultIs ==
    ASSUME Typed, NEW k, Fault(k)
    PROVE  k \in plan.kinds /\ plan' # plan
  <1>1. PICK e \in Plans : plan \in [kinds : {e.kinds}, max : 0 .. e.max]
    BY DEF Typed
  <1>2. e.max \in Nat
    BY CrawlAssumption DEF CrawlAssumption
  <1>3. plan.max \in Nat /\ plan' = [plan EXCEPT !.max = @ - 1] /\ k \in plan.kinds
    BY <1>1, <1>2 DEF Fault
  <1>4. plan'.max = plan.max - 1
    BY <1>1, <1>3
  <1>5. ASSUME plan' = plan
        PROVE  FALSE
    <2>1. plan.max = plan.max - 1
      BY <1>4, <1>5, Zenon
    <2> QED BY <1>3, <2>1
  <1> QED BY <1>3, <1>5, Zenon

LEMMA ProduceMoves ==
    ASSUME Typed, NEW w \in Workers, Produce(w)
    PROVE  /\ OnlyMoves(w) /\ worker[w].pc = "produce"
           /\ worker'[w] = IdleWorker \/ NextLink(w) \/ CannotSend(w)
           /\ \/ CannotSend(w) /\ UNCHANGED buffer /\ "produceFails" \in plan.kinds
              \/ /\ worker'[w].pc \notin {"produce", "undo"}
                 /\ buffer' = [buffer EXCEPT ![NodeOf[w]] =
                       @ \cup {[run |-> RunOf(w), task |-> worker[w].child, depth |-> Msg(w).depth + 1]}]
  <1>1. worker \in [Workers -> Locals] /\ worker[w].todo \in SUBSET Tasks /\ worker[w].failed \in BOOLEAN
    BY DEF Typed, Locals
  <1>2. worker[w].pc = "produce"
    BY DEF Produce
  <1>3. CASE Fault("produceFails") /\ worker' = [worker EXCEPT ![w].pc = "undo"] /\ UNCHANGED buffer
    <2> DEFINE x == [worker[w] EXCEPT !.pc = "undo"]
    <2>1. worker' = [worker EXCEPT ![w] = x]
      BY <1>1, <1>3
    <2>2. /\ x \in Locals /\ x.pc = "undo" /\ x.child = worker[w].child /\ x.todo = worker[w].todo
          /\ x.rec = worker[w].rec /\ x.found = worker[w].found /\ x.last = worker[w].last
      BY <1>1 DEF Locals, PC
    <2> HIDE DEF x
    <2>3. worker'[w] = x /\ OnlyMoves(w)
      BY <1>1, <2>1, <2>2 DEF OnlyMoves
    <2>4. "produceFails" \in plan.kinds
      BY <1>3, FaultIs
    <2>5. CannotSend(w)
      BY <1>2, <2>2, <2>3, <2>4 DEF CannotSend, GoesOn
    <2> QED BY <1>2, <1>3, <2>3, <2>4, <2>5
  <1>4. CASE /\ AfterLink(w, worker[w].todo, worker[w].failed)
             /\ buffer' = [buffer EXCEPT ![NodeOf[w]] =
                  @ \cup {[run |-> RunOf(w), task |-> worker[w].child, depth |-> Msg(w).depth + 1]}]
    <2>1. /\ OnlyMoves(w)
          /\ \/ worker'[w] = IdleWorker
             \/ /\ worker'[w].rec = worker[w].rec /\ worker'[w].todo = worker[w].todo
                /\ worker'[w].found = worker[w].found /\ worker'[w].last = worker[w].last
                /\ \/ worker'[w].pc = "complete" /\ worker[w].todo = {} /\ ~ worker[w].failed
                   \/ worker'[w].pc = "send" /\ worker'[w].failed = worker[w].failed
      BY <1>1, <1>4, AfterLinkIs
    <2>2. worker'[w] = IdleWorker \/ NextLink(w)
      BY <1>2, <2>1 DEF NextLink, GoesOn
    <2>3. worker'[w].pc \notin {"produce", "undo"}
      BY <2>1 DEF IdleWorker
    <2> QED BY <1>2, <1>4, <2>1, <2>2, <2>3
  <1> QED BY <1>3, <1>4 DEF Produce

LEMMA UndoMoves ==
    ASSUME Typed, NEW w \in Workers, NEW o \in Outcomes, Undo(w, o)
    PROVE  /\ OnlyMoves(w) /\ worker[w].pc = "undo" /\ worker'[w].pc \notin {"produce", "undo"}
           /\ worker'[w] = IdleWorker \/ NextLink(w)
  <1>1. worker \in [Workers -> Locals] /\ worker[w].todo \in SUBSET Tasks
    BY DEF Typed, Locals
  <1>2. worker[w].pc = "undo" /\ AfterLink(w, worker[w].todo, TRUE)
    BY DEF Undo
  <1>3. /\ OnlyMoves(w)
        /\ \/ worker'[w] = IdleWorker
           \/ /\ worker'[w].rec = worker[w].rec /\ worker'[w].todo = worker[w].todo
              /\ worker'[w].found = worker[w].found /\ worker'[w].last = worker[w].last
              /\ worker'[w].pc = "send" /\ worker'[w].failed = TRUE
    <2>1. TRUE \in BOOLEAN
      OBVIOUS
    <2>2. /\ OnlyMoves(w)
          /\ \/ worker'[w] = IdleWorker
             \/ /\ worker'[w].rec = worker[w].rec /\ worker'[w].todo = worker[w].todo
                /\ worker'[w].found = worker[w].found /\ worker'[w].last = worker[w].last
                /\ \/ worker'[w].pc = "complete" /\ worker[w].todo = {} /\ ~ TRUE
                   \/ worker'[w].pc = "send" /\ worker'[w].failed = TRUE
      BY <1>1, <1>2, <2>1, AfterLinkIs, Zenon
    <2> QED BY <2>2
  <1>4. worker'[w].pc \notin {"produce", "undo"}
    BY <1>3 DEF IdleWorker
  <1> QED BY <1>2, <1>3, <1>4 DEF NextLink, GoesOn

LEMMA CompleteMoves ==
    ASSUME Typed, NEW w \in Workers, NEW o \in Outcomes, Complete(w, o)
    PROVE  /\ OnlyMoves(w) /\ worker[w].pc = "complete"
           /\ worker'[w] = IdleWorker \/ Completes(w)
           /\ o # "redisDown" => CompleteTask(RunOf(w), Msg(w).task)
           /\ o = "redisDown" => UNCHANGED store
           /\ finished' = IF o # "redisDown" /\ Last(CompleteReply(RunOf(w), Msg(w).task))
                             THEN finished \cup {RunOf(w)} ELSE finished
           /\ expanded' = IF o # "redisDown" /\ CompleteReply(RunOf(w), Msg(w).task).counted
                             THEN [expanded EXCEPT ![RunOf(w)][Msg(w).task] = worker[w].found]
                             ELSE expanded
  <1>1. worker \in [Workers -> Locals]
    BY DEF Typed
  <1> DEFINE reply == CompleteReply(RunOf(w), Msg(w).task)
             last == Last(reply)
  <1>2. /\ worker[w].pc = "complete" /\ AfterComplete(w, o, last)
        /\ o # "redisDown" => CompleteTask(RunOf(w), Msg(w).task)
        /\ o = "redisDown" => UNCHANGED store
        /\ finished' = IF o # "redisDown" /\ last THEN finished \cup {RunOf(w)} ELSE finished
        /\ expanded' = IF o # "redisDown" /\ reply.counted
                          THEN [expanded EXCEPT ![RunOf(w)][Msg(w).task] = worker[w].found] ELSE expanded
    BY Zenon DEF Complete
  <1>3. last \in BOOLEAN
    BY Zenon DEF Last
  <1>4. CASE o = "ok"
    <2> DEFINE x == [worker[w] EXCEPT !.pc = "ack", !.last = last]
    <2>1. worker' = [worker EXCEPT ![w].pc = "ack", ![w].last = last]
      BY <1>2, <1>4 DEF AfterComplete
    <2>2. last => RunOf(w) \in finished'
      BY <1>2, <1>4
    <2>3. CompleteTask(RunOf(w), Msg(w).task)
      BY <1>2, <1>4
    <2> HIDE DEF last
    <2>4. worker' = [worker EXCEPT ![w] = x]
      BY <1>1, <2>1
    <2>5. /\ x \in Locals /\ x.pc = "ack" /\ x.last = last /\ x.todo = worker[w].todo
          /\ x.rec = worker[w].rec /\ x.found = worker[w].found
      BY <1>1, <1>3 DEF Locals, PC
    <2> HIDE DEF x
    <2>6. worker'[w] = x /\ OnlyMoves(w)
      BY <1>1, <2>4, <2>5 DEF OnlyMoves
    <2>7. last => Last(reply)
      BY DEF last
    <2>8. Completes(w)
      BY <1>2, <2>2, <2>3, <2>5, <2>6, <2>7 DEF Completes, GoesOn
    <2> QED BY <1>2, <2>6, <2>8 DEF last
  <1>5. CASE o # "ok"
    <2>1. worker' = [worker EXCEPT ![w] = IdleWorker]
      BY <1>2, <1>5 DEF AfterComplete
    <2>2. worker'[w] = IdleWorker /\ OnlyMoves(w)
      BY <1>1, <2>1, IdleWorkerIsLocal DEF OnlyMoves
    <2> QED BY <1>2, <2>2
  <1> QED BY <1>4, <1>5

LEMMA EndMoves ==
    ASSUME Typed, NEW w \in Workers, NEW o \in Outcomes, Ack(w) \/ Release(w, o) \/ Cleanup(w, o)
    PROVE  OnlyMoves(w) /\ (worker'[w] = IdleWorker \/ Finishes(w))
  <1>1. worker \in [Workers -> Locals]
    BY DEF Typed
  <1>2. CASE worker' = [worker EXCEPT ![w] = IdleWorker]
    BY <1>1, <1>2, IdleWorkerIsLocal DEF OnlyMoves
  <1>3. ASSUME NEW pc \in {"release", "cleanup"}, worker' = [worker EXCEPT ![w].pc = pc]
        PROVE  /\ OnlyMoves(w) /\ worker'[w].pc = pc /\ worker'[w].rec = worker[w].rec
               /\ worker'[w].todo = worker[w].todo /\ worker'[w].found = worker[w].found
               /\ worker'[w].last = worker[w].last
    <2> DEFINE x == [worker[w] EXCEPT !.pc = pc]
    <2>1. worker' = [worker EXCEPT ![w] = x]
      BY <1>1, <1>3
    <2>2. /\ x \in Locals /\ x.pc = pc /\ x.last = worker[w].last /\ x.todo = worker[w].todo
          /\ x.rec = worker[w].rec /\ x.found = worker[w].found
      BY <1>1 DEF Locals, PC
    <2> HIDE DEF x
    <2> QED BY <1>1, <2>1, <2>2 DEF OnlyMoves
  <1>4. CASE Ack(w)
    <2>1. /\ worker[w].pc = "ack"
          /\ \/ worker[w].last /\ worker' = [worker EXCEPT ![w].pc = "release"]
             \/ worker' = [worker EXCEPT ![w] = IdleWorker]
      BY <1>4 DEF Ack
    <2> QED BY <1>2, <1>3, <2>1 DEF Finishes, GoesOn
  <1>5. CASE Release(w, o)
    <2>1. /\ worker[w].pc = "release" /\ worker' = [worker EXCEPT ![w].pc = "cleanup"]
          /\ o # "redisDown" => lease' = [lease EXCEPT ![RunOf(w)] = NoSlot]
          /\ o # "ok" => Fault(o)
      BY <1>5 DEF Release, ReleaseRunSlot, Answers
    <2>2. "redisDown" \in plan.kinds \/ lease' = [lease EXCEPT ![RunOf(w)] = NoSlot]
      BY <2>1, FaultIs
    <2> QED BY <1>3, <2>1, <2>2 DEF Finishes, GoesOn
  <1>6. CASE Cleanup(w, o)
    BY <1>2, <1>6 DEF Cleanup
  <1> QED BY <1>4, <1>5, <1>6

LEMMA DeliverMoves ==
    ASSUME Typed, NEW w \in Workers, NEW i \in DOMAIN topic, Deliver(w, i)
    PROVE  OnlyMoves(w) /\ Starts(w)
  <1>1. worker \in [Workers -> Locals] /\ i \in Nat
    BY RecordSeq DEF Typed
  <1> DEFINE x == [worker[w] EXCEPT !.pc = "start", !.rec = i]
  <1>2. worker' = [worker EXCEPT ![w] = x] /\ worker[w].pc = "idle"
    BY <1>1 DEF Deliver
  <1>3. /\ x \in Locals /\ x.pc = "start" /\ x.last = worker[w].last /\ x.todo = worker[w].todo
        /\ x.rec = i /\ x.found = worker[w].found
    BY <1>1 DEF Locals, PC
  <1> HIDE DEF x
  <1> QED BY <1>1, <1>2, <1>3 DEF OnlyMoves, Starts

LEMMA WorkersStay ==
    ASSUME [Next]_vars, \A w \in Workers : ~ Step(w) /\ \A i \in DOMAIN topic : ~ Deliver(w, i),
           \A n \in Nodes : ~ Crash(n)
    PROVE  worker' = worker
  <1>1. ASSUME NEW n \in Nodes, NEW m \in buffer[n], Flush(n, m)
        PROVE  worker' = worker
    BY <1>1, Zenon DEF Flush
  <1>2. ASSUME NEW n \in Nodes, Commit(n) \/ Rebalance(n)
        PROVE  worker' = worker
    BY <1>2, Zenon DEF Commit, Rebalance
  <1>3. (\E r \in Runs : Expire(r)) \/ Tick \/ UNCHANGED vars => worker' = worker
    BY ZenonT(60) DEF Expire, Tick, vars
  <1> QED BY <1>1, <1>2, <1>3, ZenonT(60) DEF Next

\* Only a crash changes several workers, and it makes them idle.
OneMoves ==
    \A v, w \in Workers :
        worker'[v] \notin {worker[v], IdleWorker} /\ worker'[w] \notin {worker[w], IdleWorker} => v = w

LEMMA StepMoves ==
    ASSUME Typed, NEW w \in Workers, Step(w),
           worker[w].pc # "idle" => worker[w].rec \in DOMAIN topic
    PROVE  OnlyMoves(w) /\ Moves(w)
  <1>1. ASSUME NEW o \in Outcomes, CheckState(w, o)
        PROVE  OnlyMoves(w) /\ Moves(w)
    BY <1>1, CheckStateMoves, Zenon DEF Moves
  <1>2. ASSUME NEW o \in Outcomes, Undo(w, o)
        PROVE  OnlyMoves(w) /\ Moves(w)
    BY <1>2, UndoMoves, Zenon DEF Moves
  <1>3. ASSUME NEW o \in Outcomes, Complete(w, o)
        PROVE  OnlyMoves(w) /\ Moves(w)
    BY <1>3, CompleteMoves, Zenon DEF Moves
  <1>4. ASSUME NEW o \in Outcomes, Release(w, o) \/ Cleanup(w, o)
        PROVE  OnlyMoves(w) /\ Moves(w)
    BY <1>4, EndMoves, Zenon DEF Moves
  <1>5. ASSUME Ack(w)
        PROVE  OnlyMoves(w) /\ Moves(w)
    <2>1. "ok" \in Outcomes
      BY DEF Outcomes
    <2> QED BY <1>5, <2>1, EndMoves, Zenon DEF Moves
  <1>6. ASSUME NEW o \in Outcomes, NEW c \in Tasks, Admit(w, c, o)
        PROVE  OnlyMoves(w) /\ Moves(w)
    BY <1>6, AdmitMoves, Zenon DEF Moves
  <1>7. ASSUME Fetch(w)
        PROVE  OnlyMoves(w) /\ Moves(w)
    <2>1. worker[w].rec \in DOMAIN topic
      BY <1>7 DEF Fetch
    <2> QED BY <1>7, <2>1, FetchMoves, Zenon DEF Moves
  <1>8. ASSUME Produce(w)
        PROVE  OnlyMoves(w) /\ Moves(w)
    BY <1>8, ProduceMoves, Zenon DEF Moves
  <1> QED BY <1>1, <1>2, <1>3, <1>4, <1>5, <1>6, <1>7, <1>8, Zenon DEF Step

LEMMA WorkersStep ==
    ASSUME Typed, [Next]_vars,
           \A w \in Workers : worker[w].pc # "idle" => worker[w].rec \in DOMAIN topic
    PROVE  /\ worker' \in [Workers -> Locals]
           /\ \A w \in Workers : Moves(w)
           /\ OneMoves
  <1>1. worker \in [Workers -> Locals]
    BY DEF Typed
  <1>2. ASSUME NEW w \in Workers, OnlyMoves(w), Moves(w)
        PROVE  /\ worker' \in [Workers -> Locals]
               /\ \A v \in Workers : Moves(v)
               /\ OneMoves
    <2>1. \A v \in Workers \ {w} : Moves(v)
      BY <1>2 DEF OnlyMoves, Moves
    <2> QED BY <1>2, <2>1 DEF OnlyMoves, OneMoves
  <1>3. ASSUME NEW w \in Workers, Step(w)
        PROVE  OnlyMoves(w) /\ Moves(w)
    BY <1>3, StepMoves
  <1>4. ASSUME NEW w \in Workers, NEW i \in DOMAIN topic, Deliver(w, i)
        PROVE  OnlyMoves(w) /\ Moves(w)
    BY <1>4, DeliverMoves, Zenon DEF Moves
  <1>5. ASSUME NEW n \in Nodes, Crash(n)
        PROVE  /\ worker' \in [Workers -> Locals]
               /\ \A v \in Workers : Moves(v)
               /\ OneMoves
    <2>1. worker' = [w \in Workers |-> IF NodeOf[w] = n THEN IdleWorker ELSE worker[w]]
      BY <1>5 DEF Crash
    <2>2. \A v \in Workers : worker'[v] = worker[v] \/ worker'[v] = IdleWorker
      BY <2>1
    <2>3. worker' \in [Workers -> Locals]
      BY <1>1, <2>1, IdleWorkerIsLocal
    <2> QED BY <2>2, <2>3 DEF Moves, OneMoves
  <1>6. worker' = worker => /\ worker' \in [Workers -> Locals]
                            /\ \A v \in Workers : Moves(v)
                            /\ OneMoves
               /\ OneMoves
    BY <1>1 DEF Moves, OneMoves
  <1> HIDE DEF Moves
  <1> QED BY <1>2, <1>3, <1>4, <1>5, <1>6, WorkersStay

-----------------------------------------------------------------------------
(* The invariant, which holds under every plan.  Only a plan that is Calm    *)
(* keeps the state of a finished run as it was until its slot is released;  *)
(* Intact says for which runs the state in Redis can still be relied on.    *)

\* Plans under which a finished run is released before its state is cleaned up
\* and nothing else takes its state away.
Calm == plan.kinds \cap {"redisDown", "produceFails", "stateExpires"} = {}

\* The run's state is what admissions and completions made it: it has not run
\* out, and no completion that finished the run could have cleaned it up.
Intact(r) == r \notin expired /\ (r \in finished => Calm /\ Live(r))

\* Where the work on a task may be: in a record, in a producer channel, or with a
\* worker between its admission and its produce.
InTopic(r, t)  == {i \in DOMAIN topic : topic[i].msg.run = r /\ topic[i].msg.task = t}
InBuffer(r, t) == {x \in Nodes \X Message : x[2] \in buffer[x[1]] /\ x[2].run = r /\ x[2].task = t}
InHand(r, t)   == {w \in Workers : /\ worker[w].pc \in {"produce", "undo"}
                                   /\ RunOf(w) = r /\ worker[w].child = t}

Single(S) == \A x, y \in S : x = y

OneCarrier(r, t) ==
    /\ Single(InTopic(r, t)) /\ Single(InBuffer(r, t)) /\ Single(InHand(r, t))
    /\ InTopic(r, t) # {} => InBuffer(r, t) = {} /\ InHand(r, t) = {}
    /\ InBuffer(r, t) # {} => InHand(r, t) = {}

CarriedOnce ==
    \A r \in Runs, t \in Tasks : Intact(r) =>
        /\ OneCarrier(r, t)
        /\ InTopic(r, t) # {} => status[r][t] # "absent"
        /\ InBuffer(r, t) # {} \/ InHand(r, t) # {} => status[r][t] = "queued"

\* Workers that are busy have a record; what they are about to send is a task
\* of its page.
WorkersFit ==
    /\ \A w \in Workers :
        /\ worker[w].pc # "idle" => worker[w].rec \in DOMAIN topic
        /\ worker[w].pc \in {"produce", "undo"} => worker[w].child \in worker[w].found
        /\ worker[w].todo \subseteq worker[w].found
        /\ worker[w].pc = "complete" => worker[w].todo = {}
        /\ worker[w].pc \in {"idle", "start", "fetch"} => worker[w].found = {}
        /\ worker[w].pc = "undo" => "produceFails" \in plan.kinds
    /\ expired # {} => "stateExpires" \in plan.kinds

\* Whoever finishes a run found it at zero, and cleans it up after its release.
FinishersFit ==
    \A w \in Workers :
        /\ worker[w].pc \in {"release", "cleanup"} \/ worker[w].last => RunOf(w) \in finished
        /\ worker[w].pc = "cleanup" /\ Calm => ~ Live(RunOf(w))
        /\ worker[w].last => worker[w].pc \in {"ack", "release", "cleanup"}

Acked(i) == topic[i].state \in {"acked", "committed"}
AckedDone ==
    /\ \A i \in DOMAIN topic :
        LET m == topic[i].msg
        IN  Acked(i) /\ Live(m.run) /\ Intact(m.run) => status[m.run][m.task] = "done"
    /\ \A w \in Workers :
        worker[w].pc = "ack" /\ Live(RunOf(w)) /\ Intact(RunOf(w)) => status[RunOf(w)][Msg(w).task] = "done"

\* A link is settled once it is admitted or the run is full, and was once.
Settled(r, c) == status[r][c] # "absent" \/ (r \in limited /\ links[r] >= MaxLinks[r])

LinksSettled ==
    "produceFails" \notin plan.kinds =>
        /\ \A r \in Runs, t \in Tasks :
            Live(r) /\ Intact(r) /\ status[r][t] = "done" => \A c \in expanded[r][t] : Settled(r, c)
        /\ \A w \in Workers :
            /\ worker[w].pc \in {"send", "produce", "complete"}
            /\ worker[w].pc = "complete" \/ ~ worker[w].failed
            /\ Live(RunOf(w)) /\ Intact(RunOf(w))
            => \A c \in worker[w].found \ worker[w].todo : Settled(RunOf(w), c)

IInv ==
    /\ Typed /\ StoreInv
    /\ WorkersFit /\ FinishersFit /\ CarriedOnce /\ AckedDone /\ LinksSettled

-----------------------------------------------------------------------------
(* Types and the store. *)

LEMMA BusyWorker ==
    ASSUME Typed, WorkersFit, NEW w \in Workers, worker[w].pc # "idle"
    PROVE  /\ worker[w].rec \in DOMAIN topic /\ Msg(w) = topic[worker[w].rec].msg
           /\ RunOf(w) \in Runs /\ Msg(w).task \in Tasks /\ Msg(w).depth \in Nat
           /\ worker[w].found \subseteq Tasks /\ worker[w].todo \subseteq worker[w].found
           /\ worker[w].pc \in {"produce", "undo"} => worker[w].child \in Tasks
  <1>1. worker[w].rec \in DOMAIN topic
    BY DEF WorkersFit
  <1>2. topic[worker[w].rec] \in Records
    BY <1>1, RecordSeq DEF Typed
  <1>3. worker[w] \in Locals
    BY DEF Typed
  <1> QED BY <1>1, <1>2, <1>3 DEF WorkersFit, Msg, RunOf, Records, Message, Locals

\* Every handler goes to the store by its methods.
LEMMA CallsStore ==
    ASSUME Typed, WorkersFit, [Next]_vars
    PROVE  [StoreNext]_store
  <1>1. ASSUME NEW w \in Workers, Step(w)
        PROVE  [StoreNext]_store
    <2>1. worker[w].pc # "idle"
      BY <1>1 DEF Step, CheckState, Undo, Complete, Release, Cleanup, Admit, Fetch, Produce, Ack
    <2>2. RunOf(w) \in Runs /\ Msg(w).task \in Tasks
      BY <2>1, BusyWorker
    <2>3. ASSUME NEW o \in Outcomes, CheckState(w, o)
          PROVE  [StoreNext]_store
      BY <2>2, <2>3, Zenon DEF CheckState, StoreNext
    <2>4. ASSUME NEW o \in Outcomes, Undo(w, o)
          PROVE  [StoreNext]_store
      <3>1. worker[w].child \in Tasks
        BY <2>1, <2>4, BusyWorker DEF Undo
      <3> QED BY <2>2, <2>4, <3>1, Zenon DEF Undo, StoreNext
    <2>5. ASSUME NEW o \in Outcomes, Complete(w, o)
          PROVE  [StoreNext]_store
      BY <2>2, <2>5, Zenon DEF Complete, StoreNext
    <2>6. ASSUME NEW o \in Outcomes, Release(w, o) \/ Cleanup(w, o)
          PROVE  [StoreNext]_store
      BY <2>2, <2>6, Zenon DEF Release, Cleanup, StoreNext
    <2>7. ASSUME NEW o \in Outcomes, NEW c \in Tasks, Admit(w, c, o)
          PROVE  [StoreNext]_store
      BY <2>2, <2>7, Zenon DEF Admit, StoreNext
    <2>8. Fetch(w) \/ Produce(w) \/ Ack(w) => UNCHANGED store
      BY Zenon DEF Fetch, Produce, Ack
    <2> QED BY <1>1, <2>3, <2>4, <2>5, <2>6, <2>7, <2>8, Zenon DEF Step
  <1>2. ASSUME NEW w \in Workers, NEW i \in DOMAIN topic, Deliver(w, i)
        PROVE  UNCHANGED store
    BY <1>2, Zenon DEF Deliver
  <1>3. ASSUME NEW n \in Nodes, NEW m \in buffer[n], Flush(n, m)
        PROVE  UNCHANGED store
    BY <1>3, Zenon DEF Flush
  <1>4. ASSUME NEW n \in Nodes, Commit(n) \/ Rebalance(n) \/ Crash(n)
        PROVE  UNCHANGED store
    BY <1>4, Zenon DEF Commit, Rebalance, Crash
  <1>5. (\E r \in Runs : Expire(r)) \/ Tick => StoreNext
    BY Zenon DEF Expire, Tick, StoreNext
  <1>6. UNCHANGED vars => UNCHANGED store
    BY DEF vars, store
  <1> QED BY <1>1, <1>2, <1>3, <1>4, <1>5, <1>6, Zenon DEF Next

LEMMA PlanStep ==
    ASSUME Typed, [Next]_vars
    PROVE  /\ plan'.kinds = plan.kinds
           /\ \E e \in Plans : plan' \in [kinds : {e.kinds}, max : 0 .. e.max]
  <1>1. PICK e \in Plans : plan \in [kinds : {e.kinds}, max : 0 .. e.max] /\ e.max \in Nat
    BY CrawlAssumption DEF Typed, CrawlAssumption
  <1>2. UNCHANGED plan \/ \E k : Fault(k)
    <2>1. ASSUME NEW w \in Workers, Step(w)
          PROVE  UNCHANGED plan \/ \E k : Fault(k)
      BY <2>1, ZenonT(60) DEF Step, CheckState, Undo, Complete, Release, Cleanup, Admit, Fetch, Produce, Ack, Answers
    <2>2. ASSUME NEW w \in Workers, NEW i \in DOMAIN topic, Deliver(w, i)
          PROVE  UNCHANGED plan
      BY <2>2, Zenon DEF Deliver
    <2>3. ASSUME NEW n \in Nodes, NEW m \in buffer[n], Flush(n, m)
          PROVE  UNCHANGED plan \/ \E k : Fault(k)
      BY <2>3, Zenon DEF Flush
    <2>4. ASSUME NEW n \in Nodes, Commit(n) \/ Rebalance(n) \/ Crash(n)
          PROVE  UNCHANGED plan \/ \E k : Fault(k)
      BY <2>4, Zenon DEF Commit, Rebalance, Crash
    <2>5. (\E r \in Runs : Expire(r)) \/ Tick \/ UNCHANGED vars => UNCHANGED plan \/ \E k : Fault(k)
      BY ZenonT(60) DEF Expire, Tick, vars
    <2> QED BY <2>1, <2>2, <2>3, <2>4, <2>5, Zenon DEF Next
  <1>3. ASSUME NEW k, Fault(k)
        PROVE  plan'.kinds = plan.kinds /\ plan' \in [kinds : {e.kinds}, max : 0 .. e.max]
    BY <1>1, <1>3 DEF Fault
  <1> QED BY <1>1, <1>2, <1>3

\* What a step does to the producer channels.
LEMMA BufferStep ==
    ASSUME Typed, WorkersFit, [Next]_vars
    PROVE  /\ buffer' \in [Nodes -> SUBSET Message]
           /\ \/ \A n \in Nodes : buffer'[n] \subseteq buffer[n]
              \/ \E w \in Workers :
                   /\ worker[w].pc = "produce" /\ worker'[w].pc \notin {"produce", "undo"} /\ OnlyMoves(w)
                   /\ UNCHANGED topic
                   /\ \A n \in Nodes : buffer'[n] =
                        IF n = NodeOf[w]
                           THEN buffer[n] \cup {[run |-> RunOf(w), task |-> worker[w].child, depth |-> Msg(w).depth + 1]}
                           ELSE buffer[n]
  <1>1. buffer \in [Nodes -> SUBSET Message]
    BY DEF Typed
  <1>2. ASSUME NEW w \in Workers, Produce(w), ~ UNCHANGED buffer
        PROVE  /\ buffer' \in [Nodes -> SUBSET Message]
               /\ worker[w].pc = "produce" /\ worker'[w].pc \notin {"produce", "undo"} /\ OnlyMoves(w)
               /\ UNCHANGED topic
               /\ \A n \in Nodes : buffer'[n] =
                    IF n = NodeOf[w]
                       THEN buffer[n] \cup {[run |-> RunOf(w), task |-> worker[w].child, depth |-> Msg(w).depth + 1]}
                       ELSE buffer[n]
    <2> DEFINE m == [run |-> RunOf(w), task |-> worker[w].child, depth |-> Msg(w).depth + 1]
    <2>1. /\ OnlyMoves(w) /\ worker[w].pc = "produce" /\ worker'[w].pc \notin {"produce", "undo"}
          /\ buffer' = [buffer EXCEPT ![NodeOf[w]] = buffer[NodeOf[w]] \cup {m}]
      BY <1>2, ProduceMoves
    <2>2. m \in Message
      BY <2>1, BusyWorker DEF Message
    <2>3. NodeOf[w] \in Nodes
      BY CrawlAssumption DEF CrawlAssumption
    <2>4. UNCHANGED topic
      BY <1>2, Zenon DEF Produce
    <2> HIDE DEF m
    <2>5. /\ buffer' \in [Nodes -> SUBSET Message]
          /\ \A n \in Nodes : buffer'[n] = IF n = NodeOf[w] THEN buffer[n] \cup {m} ELSE buffer[n]
      BY <1>1, <2>1, <2>2, <2>3
    <2> QED BY <2>1, <2>4, <2>5 DEF m
  <1>3. ASSUME NEW n \in Nodes, NEW m \in buffer[n], Flush(n, m)
        PROVE  buffer' \in [Nodes -> SUBSET Message] /\ \A k \in Nodes : buffer'[k] \subseteq buffer[k]
    BY <1>1, <1>3 DEF Flush
  <1>4. ASSUME NEW n \in Nodes, Crash(n)
        PROVE  buffer' \in [Nodes -> SUBSET Message] /\ \A k \in Nodes : buffer'[k] \subseteq buffer[k]
    BY <1>1, <1>4 DEF Crash
  <1>5. ASSUME \A w \in Workers : ~ Produce(w), \A n \in Nodes : ~ Crash(n) /\ \A m \in buffer[n] : ~ Flush(n, m)
        PROVE  UNCHANGED buffer
    <2>1. ASSUME NEW w \in Workers, Step(w)
          PROVE  UNCHANGED buffer
      BY <1>5, <2>1, ZenonT(60) DEF Step, CheckState, Undo, Complete, Release, Cleanup, Admit, Fetch, Ack
    <2>2. ASSUME NEW w \in Workers, NEW i \in DOMAIN topic, Deliver(w, i)
          PROVE  UNCHANGED buffer
      BY <2>2, Zenon DEF Deliver
    <2>3. ASSUME NEW n \in Nodes, Commit(n) \/ Rebalance(n)
          PROVE  UNCHANGED buffer
      BY <2>3, Zenon DEF Commit, Rebalance
    <2>4. (\E r \in Runs : Expire(r)) \/ Tick \/ UNCHANGED vars => UNCHANGED buffer
      BY ZenonT(60) DEF Expire, Tick, vars
    <2> QED BY <1>5, <2>1, <2>2, <2>3, <2>4, Zenon DEF Next
  <1>6. UNCHANGED buffer => buffer' \in [Nodes -> SUBSET Message] /\ \A n \in Nodes : buffer'[n] \subseteq buffer[n]
    BY <1>1
  <1> QED BY <1>2, <1>3, <1>4, <1>5, <1>6

\* The history of the run: what was finished, expanded, limited and expired.
HistorySteps ==
    /\ \A r \in finished' \ finished : \E w \in Workers, o \in Outcomes \ {"redisDown"} :
          Complete(w, o) /\ RunOf(w) = r /\ Last(CompleteReply(r, Msg(w).task))
    /\ \A r \in Runs, t \in Tasks : expanded'[r][t] # expanded[r][t] =>
          \E w \in Workers, o \in Outcomes \ {"redisDown"} :
             /\ Complete(w, o) /\ RunOf(w) = r /\ Msg(w).task = t
             /\ status[r][t] = "queued" /\ expanded'[r][t] = worker[w].found
    /\ \A r \in expired' \ expired : Expire(r) /\ "stateExpires" \in plan.kinds
    /\ finished \subseteq finished' /\ limited \subseteq limited' /\ expired \subseteq expired'

LEMMA HistoryStep ==
    ASSUME Typed, WorkersFit, [Next]_vars
    PROVE  /\ HistorySteps
           /\ finished' \subseteq Runs /\ limited' \subseteq Runs /\ expired' \subseteq Runs
           /\ expanded' \in [Runs -> [Tasks -> SUBSET Tasks]]
  <1> DEFINE Goal == /\ HistorySteps
                     /\ finished' \subseteq Runs /\ limited' \subseteq Runs /\ expired' \subseteq Runs
                     /\ expanded' \in [Runs -> [Tasks -> SUBSET Tasks]]
  <1>1. /\ finished \subseteq Runs /\ limited \subseteq Runs /\ expired \subseteq Runs
        /\ expanded \in [Runs -> [Tasks -> SUBSET Tasks]]
    BY DEF Typed
  <1>2. ASSUME UNCHANGED history
        PROVE  Goal
    BY <1>1, <1>2 DEF history, HistorySteps
  <1>3. ASSUME NEW w \in Workers, NEW o \in Outcomes, Complete(w, o)
        PROVE  Goal
    <2>1. /\ worker[w].pc = "complete"
          /\ finished' = IF o # "redisDown" /\ Last(CompleteReply(RunOf(w), Msg(w).task))
                            THEN finished \cup {RunOf(w)} ELSE finished
          /\ expanded' = IF o # "redisDown" /\ CompleteReply(RunOf(w), Msg(w).task).counted
                            THEN [expanded EXCEPT ![RunOf(w)][Msg(w).task] = worker[w].found]
                            ELSE expanded
          /\ UNCHANGED <<limited, expired>>
      BY <1>3, CompleteMoves DEF Complete
    <2>2. RunOf(w) \in Runs /\ Msg(w).task \in Tasks /\ worker[w].found \subseteq Tasks
      BY <2>1, BusyWorker
    <2>3. CompleteReply(RunOf(w), Msg(w).task).counted => status[RunOf(w)][Msg(w).task] = "queued"
      BY DEF CompleteReply
    <2>4. /\ finished' \subseteq Runs /\ finished \subseteq finished'
          /\ \A r \in finished' \ finished :
               /\ o # "redisDown" /\ RunOf(w) = r /\ Last(CompleteReply(r, Msg(w).task))
      BY <1>1, <2>1, <2>2
    <2>5. /\ expanded' \in [Runs -> [Tasks -> SUBSET Tasks]]
          /\ \A r \in Runs, t \in Tasks : expanded'[r][t] # expanded[r][t] =>
                /\ o # "redisDown" /\ RunOf(w) = r /\ Msg(w).task = t
                /\ status[r][t] = "queued" /\ expanded'[r][t] = worker[w].found
      <3>1. CASE UNCHANGED expanded
        BY <1>1, <3>1
      <3>2. CASE ~ UNCHANGED expanded
        <4> DEFINE run == RunOf(w)
                   task == Msg(w).task
        <4>1. /\ expanded' = [expanded EXCEPT ![run][task] = worker[w].found]
              /\ o # "redisDown" /\ status[run][task] = "queued"
          BY <2>1, <2>3, <3>2
        <4> HIDE DEF run, task
        <4>2. run \in Runs /\ task \in Tasks /\ worker[w].found \subseteq Tasks
          BY <2>2 DEF run, task
        <4>3. /\ expanded' \in [Runs -> [Tasks -> SUBSET Tasks]]
              /\ \A r \in Runs, t \in Tasks :
                   expanded'[r][t] = IF r = run /\ t = task THEN worker[w].found ELSE expanded[r][t]
          BY <1>1, <4>1, <4>2
        <4> QED BY <4>1, <4>3 DEF run, task
      <3> QED BY <3>1, <3>2
    <2> QED BY <1>1, <1>3, <2>1, <2>4, <2>5 DEF HistorySteps
  <1>4. ASSUME NEW w \in Workers, NEW o \in Outcomes, NEW c \in Tasks, Admit(w, c, o)
        PROVE  Goal
    <2>1. worker[w].pc = "send" /\ UNCHANGED <<finished, expanded, expired>>
          /\ (limited' = limited \cup {RunOf(w)} \/ limited' = limited)
      BY <1>4 DEF Admit
    <2>2. RunOf(w) \in Runs
      BY <2>1, BusyWorker
    <2> QED BY <1>1, <2>1, <2>2 DEF HistorySteps
  <1>5. ASSUME NEW r \in Runs, Expire(r)
        PROVE  Goal
    <2>1. expired' = expired \cup {r} /\ UNCHANGED <<finished, expanded, limited>> /\ Fault("stateExpires")
      BY <1>5 DEF Expire
    <2>2. "stateExpires" \in plan.kinds
      BY <2>1, FaultIs
    <2> QED BY <1>1, <1>5, <2>1, <2>2 DEF HistorySteps
  <1>6. ASSUME \A w \in Workers, o \in Outcomes : ~ Complete(w, o) /\ \A c \in Tasks : ~ Admit(w, c, o),
               \A r \in Runs : ~ Expire(r)
        PROVE  UNCHANGED history
    <2>1. ASSUME NEW w \in Workers, Step(w)
          PROVE  UNCHANGED history
      BY <1>6, <2>1, ZenonT(60) DEF Step, CheckState, Undo, Release, Cleanup, Fetch, Produce, Ack
    <2>2. ASSUME NEW w \in Workers, NEW i \in DOMAIN topic, Deliver(w, i)
          PROVE  UNCHANGED history
      BY <2>2, Zenon DEF Deliver
    <2>3. ASSUME NEW n \in Nodes, NEW m \in buffer[n], Flush(n, m)
          PROVE  UNCHANGED history
      BY <2>3, Zenon DEF Flush
    <2>4. ASSUME NEW n \in Nodes, Commit(n) \/ Rebalance(n) \/ Crash(n)
          PROVE  UNCHANGED history
      BY <2>4, Zenon DEF Commit, Rebalance, Crash
    <2>5. Tick => UNCHANGED history
      BY Zenon DEF Tick
    <2>6. UNCHANGED vars => UNCHANGED history
      BY DEF vars, history
    <2> QED BY <1>6, <2>1, <2>2, <2>3, <2>4, <2>5, <2>6, Zenon DEF Next
  <1> HIDE DEF Goal
  <1>7. Goal
    BY <1>2, <1>3, <1>4, <1>5, <1>6
  <1> QED BY <1>7 DEF Goal

LEMMA TypedStep ==
    ASSUME Typed, StoreInv, WorkersFit, [Next]_vars
    PROVE  Typed' /\ StoreInv'
  <1>1. StoreInv'
    BY CallsStore, StoreStep
  <1>2. topic' \in Seq(Records)
    BY TopicStep
  <1>3. buffer' \in [Nodes -> SUBSET Message]
    BY BufferStep
  <1>4. worker' \in [Workers -> Locals]
    BY WorkersStep DEF WorkersFit
  <1>5. /\ finished' \subseteq Runs /\ limited' \subseteq Runs /\ expired' \subseteq Runs
        /\ expanded' \in [Runs -> [Tasks -> SUBSET Tasks]]
    BY HistoryStep
  <1>6. \E e \in Plans : plan' \in [kinds : {e.kinds}, max : 0 .. e.max]
    BY PlanStep
  <1> QED BY <1>1, <1>2, <1>3, <1>4, <1>5, <1>6 DEF Typed

-----------------------------------------------------------------------------
(* What one step does to the state of a run that is intact. *)

\* No lease that ran out or was given up comes back.
LEMMA LiveStep ==
    ASSUME Typed, StoreInv, WorkersFit, [Next]_vars, NEW r \in Runs, Live(r)'
    PROVE  Live(r)
  <1>1. /\ lease \in [Runs -> NoSlot .. LeaseLength] /\ LeaseLength \in Nat \ {0}
    BY StoreAssumption DEF StoreInv, StoreTypeOK, StoreAssumption
  <1>2. ASSUME NEW q \in Runs, lease' = Renewed(q)
        PROVE  Live(r)
    BY <1>1, <1>2 DEF Renewed, Live, NoSlot
  <1>3. ASSUME NEW q \in Runs, lease' = [lease EXCEPT ![q] = NoSlot]
        PROVE  Live(r)
    BY <1>1, <1>3 DEF Live, NoSlot
  <1>4. LeaseTick => Live(r)
    BY <1>1 DEF LeaseTick, Live, NoSlot
  <1>5. UNCHANGED lease => Live(r)
    BY DEF Live
  <1>6. ASSUME NEW w \in Workers, Step(w)
        PROVE  Live(r)
    <2>1. worker[w].pc # "idle"
      BY <1>6 DEF Step, CheckState, Undo, Complete, Release, Cleanup, Admit, Fetch, Produce, Ack
    <2>2. RunOf(w) \in Runs
      BY <2>1, BusyWorker
    <2>3. \/ UNCHANGED lease \/ lease' = Renewed(RunOf(w)) \/ lease' = [lease EXCEPT ![RunOf(w)] = NoSlot]
      <3>1. ASSUME NEW o \in Outcomes, CheckState(w, o) \/ Complete(w, o)
            PROVE  UNCHANGED lease \/ lease' = Renewed(RunOf(w))
        BY <3>1, Zenon DEF CheckState, Complete, TaskState, CompleteTask, store
      <3>2. ASSUME NEW o \in Outcomes, Release(w, o) \/ Cleanup(w, o) \/ Undo(w, o)
            PROVE  UNCHANGED lease \/ lease' = [lease EXCEPT ![RunOf(w)] = NoSlot]
        BY <3>2, Zenon DEF Release, Cleanup, Undo, ReleaseRunSlot, CleanupRun, UnadmitTask, store
      <3>3. ASSUME NEW o \in Outcomes, NEW c \in Tasks, Admit(w, c, o)
            PROVE  UNCHANGED lease
        BY <3>3, Zenon DEF Admit, AdmitTask, store
      <3>4. Fetch(w) \/ Produce(w) \/ Ack(w) => UNCHANGED lease
        BY Zenon DEF Fetch, Produce, Ack, store
      <3> QED BY <1>6, <3>1, <3>2, <3>3, <3>4, Zenon DEF Step
    <2> QED BY <1>2, <1>3, <1>5, <2>2, <2>3
  <1>7. ASSUME NEW w \in Workers, NEW i \in DOMAIN topic, Deliver(w, i)
        PROVE  UNCHANGED lease
    BY <1>7, Zenon DEF Deliver, store
  <1>8. ASSUME NEW n \in Nodes, NEW m \in buffer[n], Flush(n, m)
        PROVE  UNCHANGED lease
    BY <1>8, Zenon DEF Flush, store
  <1>9. ASSUME NEW n \in Nodes, Commit(n) \/ Rebalance(n) \/ Crash(n)
        PROVE  UNCHANGED lease
    BY <1>9, Zenon DEF Commit, Rebalance, Crash, store
  <1>10. ASSUME NEW q \in Runs, Expire(q)
         PROVE  UNCHANGED lease
    BY <1>10, Zenon DEF Expire, StateExpires, CleanupRun
  <1>11. UNCHANGED vars => UNCHANGED lease
    BY DEF vars
  <1> QED BY <1>4, <1>5, <1>6, <1>7, <1>8, <1>9, <1>10, <1>11, Zenon DEF Next, Tick

LEMMA IntactStep ==
    ASSUME Typed, StoreInv, WorkersFit, [Next]_vars, NEW r \in Runs, Intact(r)'
    PROVE  Intact(r)
  <1>1. finished \subseteq finished' /\ expired \subseteq expired'
    BY HistoryStep DEF HistorySteps
  <1>2. Calm' => Calm
    BY PlanStep DEF Calm
  <1>3. Live(r)' => Live(r)
    BY LiveStep
  <1> QED BY <1>1, <1>2, <1>3 DEF Intact

AdmittedBy(w, r, t) ==
    /\ status[r][t] = "absent" /\ status'[r][t] = "queued" /\ AdmitReply(r, t) = "Admitted"
    /\ RunOf(w) = r /\ \E o \in Outcomes : Admit(w, t, o)
UndoneBy(w, r, t) ==
    /\ status[r][t] = "queued" /\ status'[r][t] = "absent"
    /\ RunOf(w) = r /\ worker[w].child = t /\ \E o \in Outcomes : Undo(w, o)
CompletedBy(w, r, t) ==
    /\ status[r][t] = "queued" /\ status'[r][t] = "done" /\ expanded'[r][t] = worker[w].found
    /\ RunOf(w) = r /\ Msg(w).task = t /\ \E o \in Outcomes \ {"redisDown"} : Complete(w, o)

LEMMA StatusStep ==
    ASSUME Typed, StoreInv, WorkersFit, FinishersFit, [Next]_vars, NEW r \in Runs, Intact(r)'
    PROVE  /\ \A t \in Tasks :
                \/ status'[r][t] = status[r][t]
                \/ \E w \in Workers : AdmittedBy(w, r, t) \/ UndoneBy(w, r, t) \/ CompletedBy(w, r, t)
           /\ links'[r] >= links[r] \/ \E w \in Workers, o \in Outcomes : Undo(w, o)
  <1> DEFINE Goal == /\ \A t \in Tasks :
                          \/ status'[r][t] = status[r][t]
                          \/ \E w \in Workers : AdmittedBy(w, r, t) \/ UndoneBy(w, r, t) \/ CompletedBy(w, r, t)
                     /\ links'[r] >= links[r] \/ \E w \in Workers, o \in Outcomes : Undo(w, o)
  <1>1. /\ status \in [Runs -> [Tasks -> Status]] /\ links \in [Runs -> Nat] /\ active \in [Runs -> Nat]
    BY DEF StoreInv, StoreTypeOK
  <1>2. UNCHANGED <<status, links>> => Goal
    BY <1>1
  <1>3. ASSUME NEW w \in Workers, NEW o \in Outcomes, NEW c \in Tasks, Admit(w, c, o)
        PROVE  Goal
    <2> DEFINE run == RunOf(w)
    <2>1. run \in Runs
      BY <1>3, BusyWorker DEF Admit
    <2>2. UNCHANGED store \/ AdmitTask(run, c)
      BY <1>3, Zenon DEF Admit
    <2>3. UNCHANGED store => UNCHANGED <<status, links>>
      BY DEF store
    <2>4. CASE AdmitTask(run, c) /\ ~ UNCHANGED store
      <3> HIDE DEF run
      <3>1. /\ AdmitReply(run, c) = "Admitted" /\ status[run][c] = "absent"
            /\ status' = [status EXCEPT ![run][c] = "queued"] /\ links' = [links EXCEPT ![run] = @ + 1]
        BY <2>4 DEF AdmitTask, AdmitReply
      <3>2. /\ \A t \in Tasks : status'[r][t] = IF r = run /\ t = c THEN "queued" ELSE status[r][t]
            /\ links'[r] >= links[r]
        BY <1>1, <2>1, <3>1
      <3>3. r = run => AdmittedBy(w, r, c)
        BY <1>3, <3>1, <3>2 DEF AdmittedBy, run
      <3> QED BY <3>2, <3>3
    <2> HIDE DEF Goal
    <2> QED BY <1>2, <2>2, <2>3, <2>4
  <1>4. ASSUME NEW w \in Workers, NEW o \in Outcomes, Undo(w, o)
        PROVE  Goal
    <2> DEFINE run == RunOf(w)
               c == worker[w].child
    <2>1. run \in Runs /\ c \in Tasks
      BY <1>4, BusyWorker DEF Undo
    <2>2. UNCHANGED store \/ UnadmitTask(run, c)
      BY <1>4, Zenon DEF Undo
    <2>3. UNCHANGED store => UNCHANGED <<status, links>>
      BY DEF store
    <2>4. CASE UnadmitTask(run, c) /\ ~ UNCHANGED store
      <3> HIDE DEF run, c
      <3>1. status[run][c] = "queued" /\ status' = [status EXCEPT ![run][c] = "absent"]
        BY <2>4 DEF UnadmitTask
      <3>2. \A t \in Tasks : status'[r][t] = IF r = run /\ t = c THEN "absent" ELSE status[r][t]
        BY <1>1, <2>1, <3>1
      <3>3. r = run => UndoneBy(w, r, c)
        BY <1>4, <3>1, <3>2, <2>1 DEF UndoneBy, run, c
      <3> QED BY <1>4, <3>2, <3>3
    <2> HIDE DEF Goal
    <2> QED BY <1>2, <2>2, <2>3, <2>4
  <1>5. ASSUME NEW w \in Workers, NEW o \in Outcomes, Complete(w, o)
        PROVE  Goal
    <2> DEFINE run == RunOf(w)
               c == Msg(w).task
    <2>1. run \in Runs /\ c \in Tasks
      BY <1>5, BusyWorker DEF Complete
    <2>2. /\ o # "redisDown" => CompleteTask(run, c)
          /\ o = "redisDown" => UNCHANGED store
          /\ expanded' = IF o # "redisDown" /\ CompleteReply(run, c).counted
                            THEN [expanded EXCEPT ![run][c] = worker[w].found] ELSE expanded
      BY <1>5, CompleteMoves
    <2>3. UNCHANGED store => UNCHANGED <<status, links>>
      BY DEF store
    <2>4. CASE CompleteTask(run, c) /\ ~ UNCHANGED store
      <3>1. /\ status[run][c] = "queued" /\ CompleteReply(run, c).counted
            /\ status' = [status EXCEPT ![run][c] = "done"] /\ links' = links
        BY <2>4 DEF CompleteTask, CompleteReply
      <3>2. o # "redisDown"
        BY <2>2, <2>4
      <3> HIDE DEF run, c
      <3>3. /\ \A t \in Tasks : status'[r][t] = IF r = run /\ t = c THEN "done" ELSE status[r][t]
            /\ links'[r] >= links[r]
        BY <1>1, <2>1, <3>1
      <3>4. expanded'[run][c] = worker[w].found
        <4>1. expanded \in [Runs -> [Tasks -> SUBSET Tasks]]
          BY DEF Typed
        <4> QED BY <2>1, <2>2, <3>1, <3>2, <4>1
      <3>5. r = run => CompletedBy(w, r, c)
        BY <1>5, <2>1, <3>1, <3>2, <3>3, <3>4 DEF CompletedBy, run, c
      <3> QED BY <3>3, <3>5
    <2> HIDE DEF Goal
    <2> QED BY <1>2, <2>2, <2>3, <2>4
  <1>6. ASSUME NEW w \in Workers, NEW o \in Outcomes, Cleanup(w, o)
        PROVE  Goal
    <2>1. worker[w].pc = "cleanup" /\ RunOf(w) \in finished
      BY <1>6 DEF Cleanup, FinishersFit
    <2>2. CASE RunOf(w) = r
      <3>1. r \in finished'
        BY <2>1, <2>2, HistoryStep DEF HistorySteps
      <3>2. Calm' /\ Live(r)'
        BY <3>1 DEF Intact
      <3>3. Calm /\ Live(r)
        BY <3>2, PlanStep, LiveStep DEF Calm
      <3> QED BY <2>1, <2>2, <3>3 DEF FinishersFit
    <2>3. CASE RunOf(w) # r
      <3>1. RunOf(w) \in Runs
        BY <2>1, BusyWorker
      <3>2. status'[r] = status[r] /\ links'[r] = links[r]
        <4>1. CASE UNCHANGED store
          BY <4>1 DEF store
        <4>2. CASE CleanupRun(RunOf(w))
          BY <1>1, <2>3, <3>1, <4>2 DEF CleanupRun
        <4> QED BY <1>6, <4>1, <4>2 DEF Cleanup
      <3> QED BY <1>1, <3>2
    <2> QED BY <2>2, <2>3
  <1>7. ASSUME NEW q \in Runs, Expire(q)
        PROVE  Goal
    <2>1. q \in expired' /\ CleanupRun(q)
      BY <1>7 DEF Expire, StateExpires
    <2>2. r # q
      BY <2>1 DEF Intact
    <2>3. status'[r] = status[r] /\ links'[r] = links[r]
      BY <1>1, <2>1, <2>2 DEF CleanupRun
    <2> QED BY <1>1, <2>3
  <1>8. ASSUME NEW w \in Workers, Step(w),
               \A o \in Outcomes : ~ Undo(w, o) /\ ~ Complete(w, o) /\ ~ Cleanup(w, o) /\ \A c \in Tasks : ~ Admit(w, c, o)
        PROVE  UNCHANGED <<status, links>>
    <2>1. (\E o \in Outcomes : CheckState(w, o) \/ Release(w, o)) \/ Fetch(w) \/ Produce(w) \/ Ack(w)
      BY <1>8, Zenon DEF Step
    <2> QED BY <2>1, ZenonT(60) DEF CheckState, TaskState, Release, ReleaseRunSlot, Fetch, Produce, Ack, store
  <1>9. ASSUME NEW w \in Workers, NEW i \in DOMAIN topic, Deliver(w, i)
        PROVE  UNCHANGED <<status, links>>
    BY <1>9, Zenon DEF Deliver, store
  <1>10. ASSUME NEW n \in Nodes, NEW m \in buffer[n], Flush(n, m)
         PROVE  UNCHANGED <<status, links>>
    BY <1>10, Zenon DEF Flush, store
  <1>11. ASSUME NEW n \in Nodes, Commit(n) \/ Rebalance(n) \/ Crash(n)
         PROVE  UNCHANGED <<status, links>>
    BY <1>11, Zenon DEF Commit, Rebalance, Crash, store
  <1>12. Tick \/ UNCHANGED vars => UNCHANGED <<status, links>>
    BY Zenon DEF Tick, LeaseTick, vars
  <1> HIDE DEF Goal
  <1>13. ASSUME NEW w \in Workers, Step(w)
         PROVE  Goal
    BY <1>2, <1>3, <1>4, <1>5, <1>6, <1>8, <1>13, Zenon
  <1>14. Goal
    BY <1>2, <1>7, <1>9, <1>10, <1>11, <1>12, <1>13, Zenon DEF Next
  <1> QED BY <1>14 DEF Goal

-----------------------------------------------------------------------------
(* A task is carried once. *)

\* A busy worker's record, and so its run and task, stay the same.
LEMMA SameTask ==
    ASSUME Typed, WorkersFit, [Next]_vars, NEW w \in Workers, worker[w].pc # "idle",
           worker'[w].rec = worker[w].rec
    PROVE  Msg(w)' = Msg(w) /\ RunOf(w)' = RunOf(w)
  <1>1. worker[w].rec \in DOMAIN topic
    BY DEF WorkersFit
  <1>2. topic'[worker[w].rec].msg = topic[worker[w].rec].msg
    BY <1>1, TopicStep DEF TopicSteps
  <1> QED BY <1>2 DEF Msg, RunOf

LEMMA HandStep ==
    ASSUME Typed, WorkersFit, [Next]_vars, NEW r, NEW t, NEW w \in InHand(r, t)'
    PROVE  \/ w \in InHand(r, t)
           \/ Admits(w) /\ RunOf(w) = r /\ worker'[w].child = t
  <1>1. w \in Workers /\ worker'[w].pc \in {"produce", "undo"} /\ RunOf(w)' = r /\ worker'[w].child = t
    BY DEF InHand
  <1>2. Moves(w)
    BY <1>1, WorkersStep DEF WorkersFit
  <1>3. CASE worker'[w] = worker[w]
    <2>1. RunOf(w)' = RunOf(w)
      BY <1>1, <1>3, SameTask
    <2> QED BY <1>1, <1>3, <2>1 DEF InHand
  <1>4. CASE Admits(w) \/ CannotSend(w)
    <2>1. worker[w].pc # "idle" /\ worker'[w].rec = worker[w].rec
      BY <1>4 DEF Admits, CannotSend, GoesOn
    <2>2. RunOf(w)' = RunOf(w)
      BY <1>1, <2>1, SameTask
    <2> QED BY <1>1, <1>4, <2>2 DEF InHand, CannotSend, GoesOn
  <1> QED BY <1>1, <1>2, <1>3, <1>4 DEF Moves, IdleWorker, Starts, Checks, Finds, NextLink, Completes, Finishes,
             GoesOn

LEMMA InTopicStep ==
    ASSUME Typed, WorkersFit, [Next]_vars, NEW r, NEW t
    PROVE  \/ InTopic(r, t)' = InTopic(r, t)
           \/ \E n \in Nodes : \E m \in buffer[n] :
                 /\ Flush(n, m) /\ m.run = r /\ m.task = t
                 /\ InTopic(r, t)' \subseteq InTopic(r, t) \cup {Len(topic) + 1}
  <1>1. TopicSteps
    BY TopicStep
  <1>2. \A i \in DOMAIN topic : i \in InTopic(r, t)' <=> i \in InTopic(r, t)
    BY <1>1 DEF TopicSteps, InTopic
  <1>3. CASE \E i \in DOMAIN topic' \ DOMAIN topic : i \in InTopic(r, t)'
    <2>1. PICK i \in DOMAIN topic' \ DOMAIN topic : i \in InTopic(r, t)'
      BY <1>3
    <2>2. PICK n \in Nodes : \E m \in buffer[n] : Flush(n, m) /\ topic'[i].msg = m
      BY <1>1, <2>1 DEF TopicSteps
    <2>3. PICK m \in buffer[n] : Flush(n, m) /\ topic'[i].msg = m
      BY <2>2
    <2>4. m.run = r /\ m.task = t
      BY <2>1, <2>3 DEF InTopic
    <2>5. InTopic(r, t)' \subseteq InTopic(r, t) \cup {Len(topic) + 1}
      BY <1>1, <1>2 DEF TopicSteps, InTopic
    <2> QED BY <2>3, <2>4, <2>5
  <1>4. CASE \A i \in DOMAIN topic' \ DOMAIN topic : i \notin InTopic(r, t)'
    <2>1. InTopic(r, t)' \subseteq DOMAIN topic' /\ InTopic(r, t) \subseteq DOMAIN topic
      BY DEF InTopic
    <2>2. InTopic(r, t)' = InTopic(r, t)
      BY <1>2, <1>4, <2>1
    <2> QED BY <2>2
  <1> QED BY <1>3, <1>4

LEMMA InBufferStep ==
    ASSUME Typed, WorkersFit, [Next]_vars, NEW r, NEW t
    PROVE  \/ InBuffer(r, t)' \subseteq InBuffer(r, t)
           \/ \E w \in InHand(r, t) : \E x :
                 /\ w \notin InHand(r, t)' /\ worker[w].pc = "produce"
                 /\ InBuffer(r, t)' \subseteq InBuffer(r, t) \cup {x}
                 /\ UNCHANGED topic
  <1>1. CASE \A n \in Nodes : buffer'[n] \subseteq buffer[n]
    BY <1>1 DEF InBuffer
  <1>2. ASSUME NEW w \in Workers,
               worker[w].pc = "produce", worker'[w].pc \notin {"produce", "undo"}, OnlyMoves(w), UNCHANGED topic,
               \A n \in Nodes : buffer'[n] =
                  IF n = NodeOf[w]
                     THEN buffer[n] \cup {[run |-> RunOf(w), task |-> worker[w].child, depth |-> Msg(w).depth + 1]}
                     ELSE buffer[n]
        PROVE  \/ InBuffer(r, t)' \subseteq InBuffer(r, t)
               \/ \E v \in InHand(r, t) : \E x :
                     /\ v \notin InHand(r, t)' /\ worker[v].pc = "produce"
                     /\ InBuffer(r, t)' \subseteq InBuffer(r, t) \cup {x}
                     /\ UNCHANGED topic
    <2> DEFINE m == [run |-> RunOf(w), task |-> worker[w].child, depth |-> Msg(w).depth + 1]
               x == <<NodeOf[w], m>>
    <2>1. m.run = RunOf(w) /\ m.task = worker[w].child
      OBVIOUS
    <2>2. \A n \in Nodes : buffer'[n] = IF n = NodeOf[w] THEN buffer[n] \cup {m} ELSE buffer[n]
      BY <1>2
    <2> HIDE DEF m
    <2>3. ASSUME NEW y \in InBuffer(r, t)', y \notin InBuffer(r, t)
          PROVE  y = x /\ m.run = r /\ m.task = t
      <3>1. /\ y \in Nodes \X Message /\ y[2] \in buffer'[y[1]] /\ y[2].run = r /\ y[2].task = t
            /\ y[2] \notin buffer[y[1]]
        BY <2>3 DEF InBuffer
      <3>2. y[1] = NodeOf[w] /\ y[2] = m
        BY <2>2, <3>1
      <3>3. y = <<y[1], y[2]>>
        BY <3>1
      <3> QED BY <3>1, <3>2, <3>3
    <2>4. CASE m.run = r /\ m.task = t
      <3>1. w \in InHand(r, t) /\ w \notin InHand(r, t)'
        BY <1>2, <2>1, <2>4 DEF InHand
      <3>2. InBuffer(r, t)' \subseteq InBuffer(r, t) \cup {x}
        BY <2>3
      <3> QED BY <1>2, <3>1, <3>2
    <2>5. CASE ~ (m.run = r /\ m.task = t)
      BY <2>3, <2>5
    <2> QED BY <2>4, <2>5
  <1> QED BY <1>1, <1>2, BufferStep

LEMMA CarriedStep ==
    ASSUME Typed, StoreInv, WorkersFit, FinishersFit, CarriedOnce, [Next]_vars
    PROVE  CarriedOnce'
  <1> SUFFICES ASSUME NEW r \in Runs, NEW t \in Tasks, Intact(r)'
               PROVE  /\ OneCarrier(r, t)'
                      /\ InTopic(r, t)' # {} => status'[r][t] # "absent"
                      /\ InBuffer(r, t)' # {} \/ InHand(r, t)' # {} => status'[r][t] = "queued"
    BY DEF CarriedOnce
  <1>1. /\ OneCarrier(r, t)
        /\ InTopic(r, t) # {} => status[r][t] # "absent"
        /\ InBuffer(r, t) # {} \/ InHand(r, t) # {} => status[r][t] = "queued"
    BY IntactStep DEF CarriedOnce
  <1>2. status \in [Runs -> [Tasks -> Status]]
    BY DEF StoreInv, StoreTypeOK
  <1>3. CASE \E w \in Workers : Admits(w) /\ RunOf(w) = r /\ worker'[w].child = t
    <2>1. PICK w \in Workers : Admits(w) /\ RunOf(w) = r /\ worker'[w].child = t
      BY <1>3
    <2>2. AdmitReply(r, t) = "Admitted" /\ AdmitTask(r, t)
      BY <2>1 DEF Admits
    <2>3. status[r][t] = "absent" /\ status' = [status EXCEPT ![r][t] = "queued"]
      BY <2>2 DEF AdmitReply, AdmitTask
    <2>4. status'[r][t] = "queued"
      BY <1>2, <2>3
    <2>5. InTopic(r, t) = {} /\ InBuffer(r, t) = {} /\ InHand(r, t) = {}
      BY <1>1, <2>3
    <2>6. InTopic(r, t)' = {}
      <3>1. ASSUME NEW n \in Nodes, NEW m \in buffer[n], m.run = r, m.task = t
            PROVE  FALSE
        <4>1. m \in Message
          BY DEF Typed
        <4>2. <<n, m>> \in InBuffer(r, t)
          BY <3>1, <4>1 DEF InBuffer
        <4> QED BY <2>5, <4>2
      <3> QED BY <2>5, <3>1, InTopicStep
    <2>7. InBuffer(r, t)' = {}
      BY <2>5, InBufferStep
    <2>8. \A v \in InHand(r, t)' : v = w
      <3>1. \A v \in InHand(r, t)' : Admits(v) /\ v \in Workers
        BY <2>5, HandStep DEF InHand
      <3>2. \A v \in Workers : Admits(v) => worker'[v] \notin {worker[v], IdleWorker}
        BY DEF Admits, GoesOn, IdleWorker
      <3>3. OneMoves
        BY WorkersStep DEF WorkersFit
      <3> QED BY <2>1, <3>1, <3>2, <3>3 DEF OneMoves
    <2> QED BY <2>4, <2>6, <2>7, <2>8 DEF OneCarrier, Single
  <1>4. CASE ~ \E w \in Workers : Admits(w) /\ RunOf(w) = r /\ worker'[w].child = t
    <2>1. InHand(r, t)' \subseteq InHand(r, t)
      <3>1. InHand(r, t)' \subseteq Workers
        BY DEF InHand
      <3> QED BY <1>4, <3>1, HandStep
    <2>2. ASSUME NEW n \in Nodes, NEW m \in buffer[n], Flush(n, m), m.run = r, m.task = t,
                 InTopic(r, t)' \subseteq InTopic(r, t) \cup {Len(topic) + 1}
          PROVE  /\ OneCarrier(r, t)'
                 /\ InTopic(r, t)' # {} => status'[r][t] # "absent"
                 /\ InBuffer(r, t)' # {} \/ InHand(r, t)' # {} => status'[r][t] = "queued"
      <3>1. m \in Message
        BY DEF Typed
      <3>2. <<n, m>> \in InBuffer(r, t)
        BY <2>2, <3>1 DEF InBuffer
      <3>3. InTopic(r, t) = {} /\ InHand(r, t) = {} /\ InBuffer(r, t) = {<<n, m>>} /\ status[r][t] = "queued"
        BY <1>1, <3>2 DEF OneCarrier, Single
      <3>4. buffer' = [buffer EXCEPT ![n] = @ \ {m}] /\ UNCHANGED store
        BY <2>2 DEF Flush
      <3>5. \A x \in InBuffer(r, t)' : x \in InBuffer(r, t) /\ x # <<n, m>>
        <4>1. \A k \in Nodes : buffer'[k] \subseteq buffer[k] /\ (k = n => m \notin buffer'[k])
          BY <3>4 DEF Typed
        <4> QED BY <4>1 DEF InBuffer
      <3>6. InBuffer(r, t)' = {} /\ InHand(r, t)' = {} /\ status'[r][t] = "queued"
        BY <2>1, <3>3, <3>4, <3>5 DEF store
      <3> QED BY <2>2, <3>3, <3>6 DEF OneCarrier, Single
    <2>3. CASE InTopic(r, t)' = InTopic(r, t)
      <3>1. OneCarrier(r, t)'
        <4>1. CASE InBuffer(r, t)' \subseteq InBuffer(r, t)
          BY <1>1, <2>1, <2>3, <4>1 DEF OneCarrier, Single
        <4>2. ASSUME NEW w \in InHand(r, t), NEW x,
                     w \notin InHand(r, t)', InBuffer(r, t)' \subseteq InBuffer(r, t) \cup {x}
              PROVE  OneCarrier(r, t)'
          <5>1. InTopic(r, t) = {} /\ InBuffer(r, t) = {} /\ InHand(r, t) = {w}
            BY <1>1 DEF OneCarrier, Single
          <5> QED BY <2>1, <2>3, <4>2, <5>1 DEF OneCarrier, Single
        <4> QED BY <4>1, <4>2, InBufferStep
      <3>2. InBuffer(r, t)' # {} => InBuffer(r, t) # {} \/ InHand(r, t) # {}
        BY InBufferStep
      <3>3. \/ status'[r][t] = status[r][t]
            \/ \E w \in Workers : AdmittedBy(w, r, t) \/ UndoneBy(w, r, t) \/ CompletedBy(w, r, t)
        BY StatusStep
      <3>4. CASE status'[r][t] = status[r][t]
        BY <1>1, <2>1, <2>3, <3>1, <3>2, <3>4
      <3>5. ASSUME NEW w \in Workers, AdmittedBy(w, r, t)
            PROVE  InTopic(r, t)' = {} /\ InBuffer(r, t)' = {} /\ InHand(r, t)' = {}
        BY <1>1, <2>1, <2>3, <3>2, <3>5 DEF AdmittedBy
      <3>6. ASSUME NEW w \in Workers, UndoneBy(w, r, t)
            PROVE  InTopic(r, t)' = {} /\ InBuffer(r, t)' = {} /\ InHand(r, t)' = {}
        <4>1. PICK o \in Outcomes : Undo(w, o)
          BY <3>6 DEF UndoneBy
        <4>2. worker[w].pc = "undo" /\ worker'[w].pc \notin {"produce", "undo"}
          BY <4>1, UndoMoves
        <4>3. w \in InHand(r, t) /\ w \notin InHand(r, t)'
          BY <3>6, <4>2 DEF UndoneBy, InHand
        <4>4. InTopic(r, t) = {} /\ InBuffer(r, t) = {} /\ InHand(r, t) = {w}
          BY <1>1, <4>3 DEF OneCarrier, Single
        <4>5. InBuffer(r, t)' = {}
          BY <4>2, <4>4, InBufferStep
        <4> QED BY <2>1, <2>3, <4>3, <4>4, <4>5
      <3>7. ASSUME NEW w \in Workers, CompletedBy(w, r, t)
            PROVE  InBuffer(r, t)' = {} /\ InHand(r, t)' = {} /\ status'[r][t] # "absent"
        <4>1. worker[w].pc = "complete" /\ RunOf(w) = r /\ Msg(w).task = t
          BY <3>7, CompleteMoves DEF CompletedBy
        <4>2. worker[w].rec \in InTopic(r, t)
          BY <4>1, BusyWorker DEF InTopic, RunOf
        <4> QED BY <1>1, <2>1, <3>2, <3>7, <4>2 DEF OneCarrier, CompletedBy
      <3> QED BY <3>1, <3>3, <3>4, <3>5, <3>6, <3>7
    <2> QED BY <2>2, <2>3, InTopicStep
  <1> QED BY <1>3, <1>4

-----------------------------------------------------------------------------
(* The other parts of the invariant. *)

LEMMA WorkersFitStep ==
    ASSUME Typed, WorkersFit, [Next]_vars
    PROVE  WorkersFit'
  <1>1. ASSUME NEW w \in Workers
        PROVE  /\ worker'[w].pc # "idle" => worker'[w].rec \in DOMAIN topic'
               /\ worker'[w].pc \in {"produce", "undo"} => worker'[w].child \in worker'[w].found
               /\ worker'[w].todo \subseteq worker'[w].found
               /\ worker'[w].pc = "complete" => worker'[w].todo = {}
               /\ worker'[w].pc \in {"idle", "start", "fetch"} => worker'[w].found = {}
               /\ worker'[w].pc = "undo" => "produceFails" \in plan'.kinds
    <2>1. \A i \in DOMAIN topic : i \in DOMAIN topic'
      BY TopicStep DEF TopicSteps
    <2>2. plan'.kinds = plan.kinds
      BY PlanStep
    <2>3. Moves(w)
      BY WorkersStep DEF WorkersFit
    <2>4. CASE worker'[w] = worker[w]
      BY <2>1, <2>2, <2>4 DEF WorkersFit
    <2>5. CASE worker'[w] = IdleWorker
      BY <2>5 DEF IdleWorker
    <2>6. CASE Starts(w) \/ Checks(w) \/ Completes(w) \/ Finishes(w)
      BY <2>1, <2>6 DEF WorkersFit, Starts, Checks, Completes, Finishes, GoesOn
    <2>7. CASE Finds(w) \/ Admits(w)
      BY <2>1, <2>7 DEF WorkersFit, Finds, Admits, GoesOn
    <2>8. CASE NextLink(w) \/ CannotSend(w)
      BY <2>1, <2>2, <2>8 DEF WorkersFit, NextLink, CannotSend, GoesOn
    <2> QED BY <2>3, <2>4, <2>5, <2>6, <2>7, <2>8 DEF Moves
  <1>2. expired' # {} => "stateExpires" \in plan'.kinds
    BY HistoryStep, PlanStep DEF HistorySteps, WorkersFit
  <1> QED BY <1>1, <1>2 DEF WorkersFit

LEMMA FinishersFitStep ==
    ASSUME Typed, StoreInv, WorkersFit, FinishersFit, [Next]_vars
    PROVE  FinishersFit'
  <1> SUFFICES ASSUME NEW w \in Workers
               PROVE  /\ worker'[w].pc \in {"release", "cleanup"} \/ worker'[w].last => RunOf(w)' \in finished'
                      /\ worker'[w].pc = "cleanup" /\ Calm' => ~ Live(RunOf(w))'
                      /\ worker'[w].last => worker'[w].pc \in {"ack", "release", "cleanup"}
    BY DEF FinishersFit
  <1>1. finished \subseteq finished' /\ plan'.kinds = plan.kinds
    BY HistoryStep, PlanStep DEF HistorySteps
  <1>2. Moves(w)
    BY WorkersStep DEF WorkersFit
  <1>3. /\ worker[w].pc \in {"release", "cleanup"} \/ worker[w].last => RunOf(w) \in finished
        /\ worker[w].pc = "cleanup" /\ Calm => ~ Live(RunOf(w))
        /\ worker[w].last => worker[w].pc \in {"ack", "release", "cleanup"}
    BY DEF FinishersFit
  <1>4. CASE worker'[w] = IdleWorker
    BY <1>4 DEF IdleWorker
  <1>5. CASE Starts(w)
    BY <1>3, <1>5 DEF Starts
  <1>6. CASE worker'[w] # IdleWorker /\ ~ Starts(w) /\ worker[w].pc # "idle"
    <2>1. worker'[w].rec = worker[w].rec
      BY <1>2, <1>6 DEF Moves, Checks, Finds, Admits, NextLink, CannotSend, Completes, Finishes, GoesOn
    <2>2. RunOf(w)' = RunOf(w)
      BY <1>6, <2>1, SameTask
    <2>3. RunOf(w) \in Runs
      BY <1>6, BusyWorker
    <2>4. ~ Live(RunOf(w)) => ~ Live(RunOf(w))'
      <3>1. \A r \in Runs : Live(r)' => Live(r)
        BY LiveStep
      <3>2. Live(RunOf(w))' <=> lease'[RunOf(w)] > 0
        BY <2>2 DEF Live
      <3> QED BY <2>3, <3>1, <3>2 DEF Live
    <2>5. CASE worker'[w] = worker[w]
      BY <1>1, <1>3, <2>2, <2>4, <2>5 DEF Calm
    <2>6. CASE Checks(w) \/ Finds(w) \/ Admits(w) \/ NextLink(w) \/ CannotSend(w)
      BY <1>3, <2>6 DEF Checks, Finds, Admits, NextLink, CannotSend, GoesOn
    <2>7. CASE Completes(w)
      BY <1>3, <2>2, <2>7 DEF Completes, GoesOn
    <2>8. CASE Finishes(w)
      <3>1. /\ worker'[w].pc \in {"release", "cleanup"} /\ RunOf(w) \in finished
            /\ worker'[w].pc = "cleanup" => "redisDown" \in plan.kinds \/ lease' = [lease EXCEPT ![RunOf(w)] = NoSlot]
        BY <1>3, <2>8 DEF Finishes, GoesOn
      <3>2. lease' = [lease EXCEPT ![RunOf(w)] = NoSlot] => ~ Live(RunOf(w))'
        <4>1. lease \in [Runs -> NoSlot .. LeaseLength]
          BY DEF StoreInv, StoreTypeOK
        <4>2. Live(RunOf(w))' <=> lease'[RunOf(w)] > 0
          BY <2>2 DEF Live
        <4> QED BY <2>3, <4>1, <4>2 DEF NoSlot
      <3> QED BY <1>1, <2>2, <3>1, <3>2 DEF Calm
    <2> QED BY <1>2, <1>6, <2>5, <2>6, <2>7, <2>8 DEF Moves
  <1>7. CASE worker[w].pc = "idle" /\ worker'[w] = worker[w]
    BY <1>3, <1>7
  <1>8. worker[w].pc = "idle" => worker'[w] = worker[w] \/ worker'[w] = IdleWorker \/ Starts(w)
    BY <1>2 DEF Moves, Checks, Finds, Admits, NextLink, CannotSend, Completes, Finishes, GoesOn
  <1> QED BY <1>4, <1>5, <1>6, <1>7, <1>8

\* A task once done is done as long as the run is intact.
LEMMA DoneStays ==
    ASSUME Typed, StoreInv, WorkersFit, FinishersFit, [Next]_vars,
           NEW r \in Runs, NEW t \in Tasks, Intact(r)', status[r][t] = "done"
    PROVE  status'[r][t] = "done"
  BY StatusStep DEF AdmittedBy, UndoneBy, CompletedBy

LEMMA AckedDoneStep ==
    ASSUME Typed, StoreInv, WorkersFit, FinishersFit, CarriedOnce, AckedDone, [Next]_vars
    PROVE  AckedDone'
  <1>1. ASSUME NEW i \in DOMAIN topic', Acked(i)', Live(topic[i].msg.run)', Intact(topic[i].msg.run)'
        PROVE  (status[topic[i].msg.run][topic[i].msg.task])' = "done"
    <2> DEFINE r == topic[i].msg.run
               t == topic[i].msg.task
    <2>1. TopicSteps
      BY TopicStep
    <2>2. i \in DOMAIN topic /\ topic'[i].msg = topic[i].msg
      BY <1>1, <2>1 DEF TopicSteps, Acked
    <2>3. r' = r /\ t' = t /\ r \in Runs /\ t \in Tasks
      BY <2>2, RecordSeq DEF Typed, Records, Message
    <2>4. lease'[r] > 0 /\ r \notin expired' /\ (r \in finished' => Calm' /\ lease'[r] > 0)
      BY <1>1, <2>3 DEF Live, Intact
    <2>5. CASE Acked(i)
      <3>1. Live(r) /\ Intact(r) => status[r][t] = "done"
        BY <2>2, <2>5 DEF AckedDone
      <3> HIDE DEF r, t
      <3>2. Live(r)' /\ Intact(r)'
        BY <2>3, <2>4 DEF Live, Intact
      <3>3. status'[r][t] = "done"
        BY <2>3, <3>1, <3>2, LiveStep, IntactStep, DoneStays
      <3> QED BY <2>3, <3>3 DEF r, t
    <2>6. CASE ~ Acked(i)
      <3>1. PICK w \in Workers : Ack(w) /\ worker[w].rec = i
        BY <1>1, <2>1, <2>2, <2>6 DEF TopicSteps, Acked
      <3>2. worker[w].pc = "ack" /\ RunOf(w) = r /\ Msg(w).task = t
        BY <3>1 DEF Ack, RunOf, Msg
      <3>3. Live(r) /\ Intact(r) => status[r][t] = "done"
        BY <3>2 DEF AckedDone
      <3> HIDE DEF r, t
      <3>4. Live(r)' /\ Intact(r)'
        BY <2>3, <2>4 DEF Live, Intact
      <3>5. status'[r][t] = "done"
        BY <2>3, <3>3, <3>4, LiveStep, IntactStep, DoneStays
      <3> QED BY <2>3, <3>5 DEF r, t
    <2> QED BY <2>5, <2>6
  <1>2. ASSUME NEW w \in Workers, worker'[w].pc = "ack", Live(RunOf(w))', Intact(RunOf(w))'
        PROVE  (status[RunOf(w)][Msg(w).task])' = "done"
    <2> DEFINE r == RunOf(w)
               t == Msg(w).task
    <2>1. Moves(w)
      BY WorkersStep DEF WorkersFit
    <2>2. \/ worker'[w] = worker[w] \/ Completes(w)
          \/ Checks(w) /\ (~ Live(r) \/ status[r][t] = "done")
      BY <1>2, <2>1 DEF Moves, IdleWorker, Starts, Checks, Finds, Admits, NextLink, CannotSend, Finishes, GoesOn
    <2>3. worker[w].pc # "idle" /\ worker'[w].rec = worker[w].rec
      BY <1>2, <2>2 DEF Checks, Completes, GoesOn
    <2>4. r' = r /\ t' = t /\ r \in Runs /\ t \in Tasks
      BY <2>3, SameTask, BusyWorker
    <2>5. lease'[r] > 0 /\ r \notin expired' /\ (r \in finished' => Calm' /\ lease'[r] > 0)
      BY <1>2, <2>4 DEF Live, Intact
    <2>6. worker[w].rec \in InTopic(r, t)
      BY <2>3, BusyWorker DEF InTopic, RunOf
    <2> HIDE DEF r, t
    <2>7. Live(r)' /\ Intact(r)'
      BY <2>4, <2>5 DEF Live, Intact
    <2>8. Live(r) /\ Intact(r)
      BY <2>4, <2>7, LiveStep, IntactStep
    <2>9. status'[r][t] = "done"
      <3>1. CASE worker'[w] = worker[w]
        <4>1. status[r][t] = "done"
          BY <1>2, <2>8, <3>1 DEF AckedDone, r, t
        <4> QED BY <2>4, <2>7, <4>1, DoneStays
      <3>2. CASE Checks(w) /\ (~ Live(r) \/ status[r][t] = "done")
        BY <2>4, <2>7, <2>8, <3>2, DoneStays
      <3>3. CASE Completes(w)
        <4>1. CompleteTask(r, t)
          BY <3>3 DEF Completes, r, t
        <4>2. status \in [Runs -> [Tasks -> Status]]
          BY DEF StoreInv, StoreTypeOK
        <4>3. CASE status[r][t] = "queued"
          <5>1. status' = [status EXCEPT ![r][t] = "done"]
            BY <4>1, <4>3 DEF CompleteTask, CompleteReply
          <5> QED BY <2>4, <4>2, <5>1
        <4>4. CASE status[r][t] # "queued"
          <5>1. status[r][t] # "absent"
            BY <2>4, <2>6, <2>8 DEF CarriedOnce
          <5>2. status[r][t] = "done"
            BY <2>4, <4>2, <4>4, <5>1 DEF Status
          <5> QED BY <2>4, <2>7, <5>2, DoneStays
        <4> QED BY <4>3, <4>4
      <3> QED BY <2>2, <3>1, <3>2, <3>3
    <2> QED BY <2>4, <2>9 DEF r, t
  <1> QED BY <1>1, <1>2 DEF AckedDone

\* Where no admission is taken back, a settled link stays settled.
LEMMA SettledStays ==
    ASSUME Typed, StoreInv, WorkersFit, FinishersFit, [Next]_vars, "produceFails" \notin plan.kinds,
           NEW r \in Runs, NEW c \in Tasks, Intact(r)',
           status[r][c] # "absent" \/ (r \in limited' /\ links[r] >= MaxLinks[r])
    PROVE  status'[r][c] # "absent" \/ (r \in limited' /\ links'[r] >= MaxLinks[r])
  <1>1. \A w \in Workers, o \in Outcomes : ~ Undo(w, o)
    BY DEF WorkersFit, Undo
  <1>2. links[r] \in Nat /\ links'[r] \in Nat /\ MaxLinks[r] \in Nat
    BY TypedStep, StoreAssumption DEF StoreInv, StoreTypeOK, StoreAssumption
  <1>3. links'[r] >= links[r]
    BY <1>1, StatusStep
  <1>4. status[r][c] # "absent" => status'[r][c] # "absent"
    <2>1. \/ status'[r][c] = status[r][c]
          \/ \E w \in Workers : AdmittedBy(w, r, c) \/ UndoneBy(w, r, c) \/ CompletedBy(w, r, c)
      BY StatusStep
    <2> QED BY <1>1, <2>1 DEF AdmittedBy, UndoneBy, CompletedBy
  <1>5. CASE status[r][c] # "absent"
    BY <1>4, <1>5
  <1>6. CASE r \in limited' /\ links[r] >= MaxLinks[r]
    BY <1>2, <1>3, <1>6
  <1> QED BY <1>5, <1>6

LEMMA LinksSettledStep ==
    ASSUME Typed, StoreInv, WorkersFit, FinishersFit, LinksSettled, [Next]_vars
    PROVE  LinksSettled'
  <1>1. plan'.kinds = plan.kinds /\ limited \subseteq limited'
    BY PlanStep, HistoryStep DEF HistorySteps
  <1> SUFFICES ASSUME "produceFails" \notin plan.kinds
               PROVE  /\ \A r \in Runs, t \in Tasks :
                           Live(r)' /\ Intact(r)' /\ status'[r][t] = "done" =>
                              \A c \in expanded'[r][t] : Settled(r, c)'
                      /\ \A w \in Workers :
                           /\ worker'[w].pc \in {"send", "produce", "complete"}
                           /\ worker'[w].pc = "complete" \/ ~ worker'[w].failed
                           /\ Live(RunOf(w))' /\ Intact(RunOf(w))'
                           => \A c \in worker'[w].found \ worker'[w].todo : Settled(RunOf(w), c)'
    BY <1>1 DEF LinksSettled
  <1>2. ASSUME NEW r \in Runs, NEW t \in Tasks, Live(r)', Intact(r)', status'[r][t] = "done",
               NEW c \in expanded'[r][t]
        PROVE  Settled(r, c)'
    <2>1. Live(r) /\ Intact(r)
      BY <1>2, LiveStep, IntactStep
    <2>2. c \in Tasks
      BY <1>2, HistoryStep
    <2>3. Settled(r, c)
      <3>1. CASE status[r][t] = "done"
        <4>1. expanded'[r][t] = expanded[r][t]
          BY <3>1, HistoryStep DEF HistorySteps
        <4> QED BY <1>2, <2>1, <3>1, <4>1 DEF LinksSettled
      <3>2. CASE status[r][t] # "done"
        <4>1. PICK w \in Workers : CompletedBy(w, r, t)
          BY <1>2, <3>2, StatusStep DEF AdmittedBy, UndoneBy
        <4>2. worker[w].pc = "complete" /\ worker[w].found = expanded'[r][t] /\ RunOf(w) = r
          BY <4>1 DEF CompletedBy, Complete
        <4>3. worker[w].todo = {}
          BY <4>2 DEF WorkersFit
        <4> QED BY <1>2, <2>1, <4>2, <4>3 DEF LinksSettled
      <3> QED BY <3>1, <3>2
    <2>4. status[r][c] # "absent" \/ (r \in limited' /\ links[r] >= MaxLinks[r])
      BY <1>1, <2>3 DEF Settled
    <2>5. status'[r][c] # "absent" \/ (r \in limited' /\ links'[r] >= MaxLinks[r])
      BY <1>2, <2>2, <2>4, SettledStays
    <2> QED BY <2>5 DEF Settled
  <1>3. ASSUME NEW w \in Workers, worker'[w].pc \in {"send", "produce", "complete"},
               worker'[w].pc = "complete" \/ ~ worker'[w].failed,
               Live(RunOf(w))', Intact(RunOf(w))', NEW c \in worker'[w].found \ worker'[w].todo
        PROVE  Settled(RunOf(w), c)'
    <2> DEFINE r == RunOf(w)
    <2>1. Moves(w)
      BY WorkersStep DEF WorkersFit
    <2>2. worker'[w] = worker[w] \/ Finds(w) \/ Admits(w) \/ NextLink(w)
      BY <1>3, <2>1 DEF Moves, IdleWorker, Starts, Checks, CannotSend, Completes, Finishes, GoesOn
    <2>3. worker[w].pc # "idle" /\ worker'[w].rec = worker[w].rec
      BY <1>3, <2>2 DEF Finds, Admits, NextLink, GoesOn
    <2>4. r' = r /\ r \in Runs
      BY <2>3, SameTask, BusyWorker
    <2>5. lease'[r] > 0 /\ r \notin expired' /\ (r \in finished' => Calm' /\ lease'[r] > 0)
      BY <1>3, <2>4 DEF Live, Intact
    <2>6. c \in Tasks
      BY <1>3, WorkersStep DEF WorkersFit, Locals
    <2>7. /\ worker[w].pc \in {"send", "produce", "complete"}
          /\ worker[w].pc = "complete" \/ ~ worker[w].failed
          /\ Live(r) /\ Intact(r)
          => \A d \in worker[w].found \ worker[w].todo : Settled(r, d)
      BY DEF LinksSettled
    <2>8. Admits(w) => AdmitTask(r, worker'[w].child) /\ AdmitReply(r, worker'[w].child) = "Admitted"
      BY DEF Admits
    <2>9. NextLink(w) =>
            /\ worker[w].pc \in {"send", "produce", "undo"} /\ worker'[w].found = worker[w].found
            /\ worker'[w].pc = "complete" \/ ~ worker'[w].failed =>
                 \/ ~ Live(r)
                 \/ /\ ~ worker[w].failed /\ worker[w].pc # "undo"
                    /\ worker[w].pc = "produce" => worker'[w].todo = worker[w].todo
                    /\ \A d \in worker[w].todo \ worker'[w].todo :
                         status[r][d] # "absent" \/ (links[r] >= MaxLinks[r] /\ r \in limited')
      <3>1. NextLink(w) => worker[w].pc \in {"send", "produce", "undo"} /\ worker'[w].found = worker[w].found
        BY DEF NextLink, GoesOn
      <3>2. NextLink(w) /\ (worker'[w].pc = "complete" \/ ~ worker'[w].failed) =>
              \/ ~ Live(r)
              \/ /\ ~ worker[w].failed /\ worker[w].pc # "undo"
                 /\ worker[w].pc = "produce" => worker'[w].todo = worker[w].todo
                 /\ \A d \in worker[w].todo \ worker'[w].todo :
                      status[r][d] # "absent" \/ (links[r] >= MaxLinks[r] /\ r \in limited')
        BY Zenon DEF NextLink
      <3> QED BY <3>1, <3>2
    <2> HIDE DEF r
    <2>10. Live(r)' /\ Intact(r)'
      BY <2>4, <2>5 DEF Live, Intact
    <2>11. Live(r) /\ Intact(r)
      BY <2>4, <2>10, LiveStep, IntactStep
    <2>12. status'[r][c] # "absent" \/ (r \in limited' /\ links'[r] >= MaxLinks[r])
      <3>1. ASSUME Settled(r, c) PROVE status[r][c] # "absent" \/ (r \in limited' /\ links[r] >= MaxLinks[r])
        BY <1>1, <3>1 DEF Settled
      <3>2. CASE worker'[w] = worker[w]
        BY <1>3, <2>4, <2>6, <2>7, <2>10, <2>11, <3>1, <3>2, SettledStays
      <3>3. CASE Finds(w)
        BY <1>3, <3>3 DEF Finds
      <3>4. CASE Admits(w)
        <4>1. /\ worker[w].pc = "send" /\ worker'[w].pc = "produce"
              /\ worker'[w].todo = worker[w].todo \ {worker'[w].child}
              /\ worker'[w].found = worker[w].found /\ worker'[w].failed = worker[w].failed
          BY <3>4 DEF Admits, GoesOn
        <4>2. CASE c = worker'[w].child
          <5>1. status' = [status EXCEPT ![r][c] = "queued"]
            BY <2>8, <3>4, <4>2 DEF AdmitTask
          <5>2. status \in [Runs -> [Tasks -> Status]]
            BY DEF StoreInv, StoreTypeOK
          <5> QED BY <2>4, <2>6, <5>1, <5>2
        <4>3. CASE c # worker'[w].child
          BY <1>3, <2>4, <2>6, <2>7, <2>10, <2>11, <3>1, <4>1, <4>3, SettledStays
        <4> QED BY <4>2, <4>3
      <3>5. CASE NextLink(w)
        <4>1. status[r][c] # "absent" \/ (r \in limited' /\ links[r] >= MaxLinks[r])
          BY <1>3, <2>7, <2>9, <2>11, <3>1, <3>5
        <4> QED BY <2>4, <2>6, <2>10, <4>1, SettledStays
      <3> QED BY <2>2, <3>2, <3>3, <3>4, <3>5
    <2> QED BY <2>4, <2>12 DEF Settled, r
  <1> QED BY <1>2, <1>3

-----------------------------------------------------------------------------
(* The invariant, from the start and through every step. *)

\* The topic starts with one record a run.
LEMMA InitTopic ==
    ASSUME Init
    PROVE  /\ topic \in Seq(Records)
           /\ \A i \in DOMAIN topic : /\ topic[i].msg.task = Start[topic[i].msg.run]
                                      /\ topic[i].state = "ready" /\ topic[i].msg.run \in Runs
           /\ \A i, j \in DOMAIN topic : topic[i].msg.run = topic[j].msg.run => i = j
           /\ \A r \in Runs : \E i \in DOMAIN topic : topic[i].msg.run = r
  <1> DEFINE N == Cardinality(Runs)
  <1>1. N \in Nat
    BY StoreAssumption, FS_CardinalityType DEF StoreAssumption
  <1>2. PICK order \in [1 .. N -> Runs] :
          /\ \A r \in Runs : \E i \in DOMAIN order : order[i] = r
          /\ topic = [i \in DOMAIN order |->
                         Record([run |-> order[i], task |-> Start[order[i]], depth |-> 0])]
    BY Zenon DEF Init
  <1>3. IsFiniteSet(1 .. N) /\ Cardinality(1 .. N) = N
    BY <1>1, FS_Interval
  <1>4. order \in Surjection(1 .. N, Runs)
    BY <1>2 DEF Surjection
  <1>5. order \in Injection(1 .. N, Runs)
    BY <1>3, <1>4, FS_SurjSameCardinalityImpliesInj
  <1>6. \A i, j \in 1 .. N : order[i] = order[j] => i = j
    BY <1>5 DEF Injection, IsInjective
  <1>7. \A i \in 1 .. N : [run |-> order[i], task |-> Start[order[i]], depth |-> 0] \in Message
    BY CrawlAssumption DEF CrawlAssumption, Message
  <1>8. DOMAIN topic = 1 .. N
        /\ \A i \in 1 .. N : /\ topic[i] \in Records /\ topic[i].state = "ready"
                             /\ topic[i].msg.run = order[i] /\ topic[i].msg.task = Start[order[i]]
    BY <1>2, <1>7 DEF Record, Records, States
  <1>9. topic \in [1 .. N -> Records]
    BY <1>2, <1>8
  <1>10. topic \in Seq(Records)
    BY <1>1, <1>9
  <1> QED BY <1>2, <1>6, <1>8, <1>10

LEMMA InitStore ==
    ASSUME Init
    PROVE  StoreInv
  <1> USE StoreAssumption, CrawlAssumption DEF StoreAssumption, CrawlAssumption
  <1>1. \A r \in Runs : /\ Start[r] \in Tasks
                        /\ status[r] = [t \in Tasks |-> IF t = Start[r] THEN "queued" ELSE "absent"]
    BY DEF Init, NoTasks
  <1>2. StoreTypeOK
    BY <1>1 DEF Init, StoreTypeOK, Status, NoSlot, NoTasks
  <1>3. ASSUME NEW r \in Runs PROVE Queued(r) = {Start[r]} /\ Admitted(r) = {Start[r]}
    <2>1. \A t \in Tasks : status[r][t] = IF t = Start[r] THEN "queued" ELSE "absent"
      <3>1. status[r] = [t \in Tasks |-> IF t = Start[r] THEN "queued" ELSE "absent"]
        BY <1>1
      <3> QED BY ONLY <3>1
    <2>2. Start[r] \in Tasks
      BY <1>1
    <2> QED BY <2>1, <2>2 DEF Queued, Admitted
  <1>4. \A r \in Runs : Cardinality({Start[r]}) = 1
    BY FS_Singleton
  <1>5. CountersExact
    BY <1>3, <1>4 DEF Init, CountersExact
  <1>6. LinkBound
    <2>1. \A r \in Runs : MaxLinks[r] \in Nat /\ MaxLinks[r] > 0
      OBVIOUS
    <2> QED BY <1>3, <1>4, <2>1 DEF LinkBound
  <1>7. SlotBound
    <2>1. SlotHolders = Runs
      BY DEF Init, SlotHolders, NoSlot
    <2> QED BY <2>1 DEF SlotBound
  <1> QED BY <1>2, <1>5, <1>6, <1>7 DEF StoreInv

LEMMA IInvInit == Init => IInv
  <1> SUFFICES ASSUME Init PROVE IInv
    OBVIOUS
  <1>1. /\ \A r \in Runs : status[r] = [t \in Tasks |-> IF t = Start[r] THEN "queued" ELSE "absent"]
        /\ \A w \in Workers : worker[w] = IdleWorker
        /\ \A n \in Nodes : buffer[n] = {}
        /\ finished = {} /\ limited = {} /\ expired = {}
    BY CrawlAssumption DEF Init, CrawlAssumption, NoTasks
  <1>2. Typed
    <2>1. topic \in Seq(Records) /\ finished = {} /\ limited = {} /\ expired = {}
      BY InitTopic, <1>1
    <2>2. buffer \in [Nodes -> SUBSET Message]
      BY DEF Init
    <2>3. worker \in [Workers -> Locals]
      BY IdleWorkerIsLocal DEF Init
    <2>4. expanded \in [Runs -> [Tasks -> SUBSET Tasks]]
      BY DEF Init
    <2>5. plan \in Plans /\ \A e \in Plans : e \in [kinds : {e.kinds}, max : 0 .. e.max]
      BY CrawlAssumption DEF Init, CrawlAssumption
    <2> QED BY <2>1, <2>2, <2>3, <2>4, <2>5 DEF Typed
  <1>3. WorkersFit
    BY <1>1 DEF WorkersFit, IdleWorker
  <1>4. FinishersFit
    BY <1>1 DEF FinishersFit, IdleWorker
  <1>5. CarriedOnce
    <2>1. \A r, t : InHand(r, t) = {} /\ InBuffer(r, t) = {}
      BY <1>1 DEF InHand, InBuffer, IdleWorker
    <2>2. \A r, t : Single(InTopic(r, t))
      BY InitTopic DEF Single, InTopic
    <2>3. \A r \in Runs, t \in Tasks : InTopic(r, t) # {} => status[r][t] # "absent"
      <3>1. ASSUME NEW r \in Runs, NEW t \in Tasks, NEW i \in InTopic(r, t) PROVE t = Start[r]
        BY <3>1, InitTopic DEF InTopic
      <3>2. ASSUME NEW r \in Runs, NEW t \in Tasks, t = Start[r] PROVE status[r][t] = "queued"
        <4>1. status[r] = [c \in Tasks |-> IF c = Start[r] THEN "queued" ELSE "absent"]
          BY <1>1
        <4> QED BY ONLY <3>2, <4>1
      <3> QED BY <3>1, <3>2
    <2>4. Single({})
      BY DEF Single
    <2> QED BY <2>1, <2>2, <2>3, <2>4 DEF CarriedOnce, OneCarrier
  <1>6. AckedDone
    BY <1>1, InitTopic DEF AckedDone, Acked, IdleWorker
  <1>7. LinksSettled
    <2>1. \A r \in Runs, t \in Tasks : status[r][t] # "done"
      BY <1>1
    <2>2. \A w \in Workers : worker[w].pc = "idle"
      BY <1>1 DEF IdleWorker
    <2> QED BY <2>1, <2>2 DEF LinksSettled
  <1> QED BY <1>2, <1>3, <1>4, <1>5, <1>6, <1>7, InitStore DEF IInv

LEMMA IInvStep == IInv /\ [Next]_vars => IInv'
  BY TypedStep, WorkersFitStep, FinishersFitStep, CarriedStep, AckedDoneStep, LinksSettledStep DEF IInv

\* IInv holds of every behaviour, whatever faults its plan allows.
THEOREM InvariantHolds == Spec => []IInv
  <1>1. Init => IInv
    BY IInvInit
  <1>2. IInv /\ [Next]_vars => IInv'
    BY IInvStep
  <1> QED BY <1>1, <1>2, PTL DEF Spec

\* Type correctness, of the store included.
THEOREM TypeCorrect == Spec => []TypeOK
  <1>1. IInv => TypeOK
    BY TypeOKIsTyped DEF IInv, StoreInv
  <1> QED BY <1>1, InvariantHolds, PTL

\* A message of a run that still holds its slot, has not been finished and whose
\* state has not run out is acked only once its task is done: nothing that a
\* crawler would still have to do is given up (crawler_repo.go:88-110, 192-206).
THEOREM AckedTaskIsDone == Spec => []AckedIsDone
  <1>1. IInv => AckedIsDone
    BY DEF IInv, AckedDone, Acked, AckedIsDone, Intact
  <1> QED BY <1>1, InvariantHolds, PTL

\* A task that counted as completed leaves no link of its page behind, as long as
\* the producer refuses nothing and the run is below its link limit
\* (crawler_repo.go:88-90, 161-190).
THEOREM LinksAreAdmitted == Spec => []NoLinkLeftBehind
  <1>1. IInv => NoLinkLeftBehind
    BY DEF IInv, LinksSettled, Settled, NoLinkLeftBehind, Intact
  <1> QED BY <1>1, InvariantHolds, PTL

-----------------------------------------------------------------------------
(* A run ends once, where a finished run's state is not taken apart and a    *)
(* page has the same links at every fetch.                                  *)

CalmPlans == \A e \in Plans : e.kinds \cap {"redisDown", "produceFails", "stateExpires"} = {}
StablePages == \A t \in Tasks : \E L \in SUBSET Tasks : PageLinks[t] = {L}

\* What every delivery of a record finds.
LinksAt(i) ==
    IF topic[i].msg.depth + 1 >= MaxDepth[topic[i].msg.run] THEN {} ELSE UNION PageLinks[topic[i].msg.task]

\* A delivery sends all the links of its page, and a task that is done was
\* completed by such a delivery.
FoundIsWhole ==
    /\ \A w \in Workers : worker[w].pc \in {"send", "produce", "undo", "complete"} =>
                             worker[w].found = LinksAt(worker[w].rec)
    /\ \A i \in DOMAIN topic :
        LET m == topic[i].msg
        IN  Live(m.run) /\ Intact(m.run) /\ status[m.run][m.task] = "done" =>
               expanded[m.run][m.task] = LinksAt(i)

\* Where no run can leave half of its links unsent and still be finished, its
\* count stays at zero: whoever is still sending finds every link admitted.
EndInv == FoundIsWhole /\ FinishedStaysEmpty /\ OneFinisher

LEMMA CalmIs ==
    ASSUME Typed, CalmPlans
    PROVE  Calm
  BY DEF Typed, CalmPlans, Calm

LEMMA LinksAtStays ==
    ASSUME Typed, [Next]_vars, NEW i \in DOMAIN topic
    PROVE  LinksAt(i)' = LinksAt(i)
  BY TopicStep DEF TopicSteps, LinksAt

\* A task enters the count of a run only while the run is live.
LEMMA QueuedWhileLive ==
    ASSUME Typed, StoreInv, WorkersFit, [Next]_vars, NEW r \in Runs, NEW t \in Tasks,
           status'[r][t] = "queued", status[r][t] # "queued"
    PROVE  Live(r) /\ Live(r)'
  <1>1. [StoreNext]_store
    BY CallsStore
  <1>2. status \in [Runs -> [Tasks -> Status]]
    BY DEF StoreInv, StoreTypeOK
  <1>3. status' # status
    OBVIOUS
  <1>4. ASSUME NEW q \in Runs, CleanupRun(q) \/ StateExpires(q) PROVE FALSE
    <2>1. status' = [status EXCEPT ![q] = NoTasks]
      BY <1>4 DEF CleanupRun, StateExpires
    <2> QED BY <1>2, <2>1 DEF NoTasks
  <1>5. ASSUME NEW q \in Runs, NEW c \in Tasks, AdmitTask(q, c) PROVE Live(r) /\ Live(r)'
    <2>1. /\ AdmitReply(q, c) = "Admitted"
          /\ status' = [status EXCEPT ![q][c] = "queued"] /\ UNCHANGED lease
      BY <1>3, <1>5, Zenon DEF AdmitTask, store
    <2>2. q = r
      BY <1>2, <2>1
    <2> QED BY <2>1, <2>2 DEF AdmitReply, Live
  <1>6. ASSUME NEW q \in Runs, NEW c \in Tasks, UnadmitTask(q, c) PROVE FALSE
    <2>1. status' = [status EXCEPT ![q][c] = "absent"]
      BY <1>3, <1>6, Zenon DEF UnadmitTask, store
    <2> QED BY <1>2, <2>1
  <1>7. ASSUME NEW q \in Runs, NEW c \in Tasks, CompleteTask(q, c) PROVE FALSE
    <2>1. status' = [status EXCEPT ![q][c] = "done"]
      BY <1>3, <1>7, Zenon DEF CompleteTask, store
    <2> QED BY <1>2, <2>1
  <1>8. /\ \A q \in Runs : ~ AcquireRunSlot(q) /\ ~ ReleaseRunSlot(q) /\ \A c \in Tasks : ~ TaskState(q, c)
        /\ ~ LeaseTick
    BY <1>3, Zenon DEF AcquireRunSlot, ReleaseRunSlot, TaskState, LeaseTick
  <1>9. ~ UNCHANGED store
    BY <1>3, Zenon DEF store
  <1> QED BY <1>1, <1>4, <1>5, <1>6, <1>7, <1>8, <1>9, ZenonT(60) DEF StoreNext

LEMMA FoundIsWholeStep ==
    ASSUME IInv, FoundIsWhole, StablePages, [Next]_vars
    PROVE  FoundIsWhole'
  <1> USE DEF IInv
  <1>1. ASSUME NEW w \in Workers, worker'[w].pc \in {"send", "produce", "undo", "complete"}
        PROVE  worker'[w].found = LinksAt(worker[w].rec)'
    <2>1. Moves(w)
      BY WorkersStep DEF WorkersFit
    <2>2. worker'[w] = worker[w] \/ Finds(w) \/ Admits(w) \/ NextLink(w) \/ CannotSend(w)
      BY <1>1, <2>1 DEF Moves, IdleWorker, Starts, Checks, Completes, Finishes, GoesOn
    <2>3. worker[w].pc # "idle" /\ worker'[w].rec = worker[w].rec
      BY <1>1, <2>2 DEF Finds, Admits, NextLink, CannotSend, GoesOn
    <2>4. PICK i \in DOMAIN topic : i = worker[w].rec
      BY <2>3, BusyWorker
    <2>5. Msg(w) = topic[i].msg /\ RunOf(w) = topic[i].msg.run /\ Msg(w).task \in Tasks
      BY <2>3, <2>4, BusyWorker DEF RunOf
    <2>6. worker'[w].found = LinksAt(i)
      <3>1. CASE Finds(w)
        <4>1. PICK found \in PageLinks[Msg(w).task] :
                worker'[w].found = IF Msg(w).depth + 1 >= MaxDepth[RunOf(w)] THEN {} ELSE found
          BY <3>1, Zenon DEF Finds
        <4>2. PICK L \in SUBSET Tasks : PageLinks[Msg(w).task] = {L}
          BY <2>5 DEF StablePages
        <4>3. found = UNION PageLinks[Msg(w).task]
          BY <4>1, <4>2
        <4> QED BY <2>5, <4>1, <4>3 DEF LinksAt
      <3>2. CASE worker'[w] = worker[w]
        BY <1>1, <2>4, <3>2 DEF FoundIsWhole
      <3>3. CASE Admits(w) \/ NextLink(w) \/ CannotSend(w)
        BY <2>4, <3>3 DEF FoundIsWhole, Admits, NextLink, CannotSend, GoesOn
      <3> QED BY <2>2, <3>1, <3>2, <3>3
    <2>7. LinksAt(i)' = LinksAt(i)
      BY LinksAtStays
    <2> QED BY <2>3, <2>4, <2>6, <2>7 DEF LinksAt
  <1>2. ASSUME NEW i \in DOMAIN topic', Live(topic[i].msg.run)', Intact(topic[i].msg.run)',
               (status[topic[i].msg.run][topic[i].msg.task])' = "done"
        PROVE  (expanded[topic[i].msg.run][topic[i].msg.task])' = LinksAt(i)'
    <2>1. TopicSteps /\ topic' \in Seq(Records)
      BY TopicStep
    <2>2. PICK r \in Runs, t \in Tasks : r = topic'[i].msg.run /\ t = topic'[i].msg.task
      <3>1. topic'[i].msg.run \in Runs /\ topic'[i].msg.task \in Tasks
        BY <1>2, <2>1, RecordSeq DEF Records, Message
      <3> QED BY <3>1
    <2>3. lease'[r] > 0 /\ r \notin expired' /\ (r \in finished' => Calm' /\ lease'[r] > 0)
      BY <1>2, <2>2 DEF Live, Intact
    <2>4. status'[r][t] = "done" /\ i \in DOMAIN topic'
      BY <1>2, <2>2
    <2>5. i \in DOMAIN topic => r = topic[i].msg.run /\ t = topic[i].msg.task
      BY <2>1, <2>2 DEF TopicSteps
    <2>6. i \notin DOMAIN topic => \E n \in Nodes : \E m \in buffer[n] : Flush(n, m) /\ m.run = r /\ m.task = t
      BY <2>1, <2>2, <2>4 DEF TopicSteps
    <2>7. Live(r)' /\ Intact(r)'
      BY <2>3 DEF Live, Intact
    <2>8. Live(r) /\ Intact(r)
      BY <2>2, <2>7, LiveStep, IntactStep
    <2>9. i \in DOMAIN topic
      <3> SUFFICES ASSUME i \notin DOMAIN topic PROVE FALSE
        OBVIOUS
      <3>1. PICK n \in Nodes : \E m \in buffer[n] : Flush(n, m) /\ m.run = r /\ m.task = t
        BY <2>6
      <3>2. PICK m \in buffer[n] : Flush(n, m) /\ m.run = r /\ m.task = t
        BY <3>1
      <3>3. status' = status
        BY <3>2, Zenon DEF Flush, store
      <3>4. <<n, m>> \in InBuffer(r, t)
        BY <3>2 DEF InBuffer, Typed
      <3> QED BY <2>2, <2>4, <2>8, <3>3, <3>4 DEF CarriedOnce
    <2>10. expanded'[r][t] = LinksAt(i)
      <3>1. CASE status[r][t] = "done"
        <4>1. expanded'[r][t] = expanded[r][t]
          BY <2>2, <3>1, HistoryStep DEF HistorySteps
        <4>2. topic[i].msg.run = r /\ topic[i].msg.task = t
          BY <2>5, <2>9
        <4> QED BY <2>8, <2>9, <3>1, <4>1, <4>2 DEF FoundIsWhole
      <3>2. CASE status[r][t] # "done"
        <4>1. PICK w \in Workers : CompletedBy(w, r, t)
          BY <2>2, <2>4, <2>7, <3>2, StatusStep DEF AdmittedBy, UndoneBy
        <4>2. /\ worker[w].pc = "complete" /\ RunOf(w) = r /\ Msg(w).task = t
              /\ expanded'[r][t] = worker[w].found
          BY <4>1 DEF CompletedBy, Complete
        <4>3. worker[w].rec \in InTopic(r, t)
          BY <4>2, BusyWorker DEF InTopic, RunOf
        <4>4. i \in InTopic(r, t)
          BY <2>5, <2>9 DEF InTopic
        <4>5. Single(InTopic(r, t))
          BY <2>2, <2>8 DEF CarriedOnce, OneCarrier
        <4>6. worker[w].rec = i
          BY <4>3, <4>4, <4>5 DEF Single
        <4> QED BY <4>2, <4>6 DEF FoundIsWhole
      <3> QED BY <3>1, <3>2
    <2>11. LinksAt(i)' = LinksAt(i)
      BY <2>9, LinksAtStays
    <2> QED BY <2>2, <2>10, <2>11
  <1> QED BY <1>1, <1>2 DEF FoundIsWhole

\* No worker of a finished run that holds its slot still finds a link to admit.
LEMMA NothingToAdmit ==
    ASSUME IInv, EndInv, Calm, NEW w \in Workers, NEW c \in Tasks, NEW o \in Outcomes, Admit(w, c, o),
           RunOf(w) \in finished, AdmitReply(RunOf(w), c) = "Admitted"
    PROVE  FALSE
  <1> USE DEF IInv
  <1>1. worker[w].pc = "send" /\ c \in worker[w].todo
    BY DEF Admit
  <1>2. PICK r \in Runs, t \in Tasks, i \in DOMAIN topic :
          /\ i = worker[w].rec /\ Msg(w) = topic[i].msg
          /\ r = RunOf(w) /\ t = Msg(w).task /\ topic[i].msg.run = r /\ topic[i].msg.task = t
    BY <1>1, BusyWorker DEF RunOf
  <1>3. Live(r) /\ status[r][c] = "absent" /\ ~ (links[r] >= MaxLinks[r])
    BY <1>2 DEF AdmitReply
  <1>4. Intact(r)
    BY <1>2, <1>3 DEF WorkersFit, Intact, Calm
  <1>5. status[r][t] # "absent" /\ status[r][t] \in Status
    <2>1. i \in InTopic(r, t)
      BY <1>2 DEF InTopic
    <2> QED BY <1>2, <1>4, <2>1 DEF CarriedOnce, StoreInv, StoreTypeOK
  <1>6. status[r][t] # "queued"
    BY <1>2 DEF EndInv, FinishedStaysEmpty, Queued
  <1>7. status[r][t] = "done"
    BY <1>5, <1>6 DEF Status
  <1>8. c \in expanded[r][t]
    <2>1. worker[w].found = LinksAt(i) /\ expanded[r][t] = LinksAt(i)
      BY <1>1, <1>2, <1>3, <1>4, <1>7 DEF EndInv, FoundIsWhole
    <2> QED BY <1>1, <2>1 DEF WorkersFit
  <1>9. "produceFails" \notin plan.kinds
    BY DEF Calm
  <1>10. Settled(r, c)
    BY <1>2, <1>3, <1>4, <1>7, <1>8, <1>9 DEF LinksSettled
  <1> QED BY <1>3, <1>10 DEF Settled

LEMMA FinishedStaysEmptyStep ==
    ASSUME IInv, EndInv, CalmPlans, [Next]_vars
    PROVE  FinishedStaysEmpty'
  <1> USE DEF IInv
  <1>1. Calm /\ Calm' /\ Typed' /\ StoreInv' /\ WorkersFit'
    BY CalmIs, TypedStep, WorkersFitStep, PlanStep DEF Calm
  <1> SUFFICES ASSUME NEW r \in Runs, r \in finished' PROVE Queued(r)' = {}
    BY <1>1 DEF FinishedStaysEmpty, Typed
  <1>2. CASE r \notin finished
    <2>1. PICK w \in Workers, o \in Outcomes \ {"redisDown"} :
            Complete(w, o) /\ RunOf(w) = r /\ Last(CompleteReply(r, Msg(w).task))
      BY <1>2, HistoryStep DEF HistorySteps
    <2>2. CompleteTask(r, Msg(w).task)
      BY <2>1, CompleteMoves
    <2>3. active'[r] = 0
      <3>1. CompleteReply(r, Msg(w).task).counted /\ active[r] - 1 = 0
        BY <2>1 DEF Last, CompleteReply
      <3>2. active' = [active EXCEPT ![r] = active[r] - 1]
        BY <2>2, <3>1 DEF CompleteTask
      <3> QED BY <3>1, <3>2 DEF StoreInv, StoreTypeOK
    <2>4. Cardinality(Queued(r)') = 0
      BY <1>1, <2>3 DEF StoreInv, CountersExact
    <2>5. IsFiniteSet(Queued(r)')
      <3>1. Queued(r)' \subseteq Tasks
        BY DEF Queued
      <3> QED BY <3>1, StoreAssumption, FS_Subset DEF StoreAssumption
    <2> QED BY <2>4, <2>5, FS_EmptySet
  <1>3. CASE r \in finished
    <2> SUFFICES ASSUME NEW t \in Tasks, status'[r][t] = "queued" PROVE FALSE
      BY DEF Queued
    <2>1. status[r][t] # "queued"
      BY <1>3 DEF EndInv, FinishedStaysEmpty, Queued
    <2>2. Live(r) /\ Live(r)'
      BY <2>1, QueuedWhileLive
    <2>3. Intact(r)'
      BY <1>1, <2>2 DEF Intact, WorkersFit, Calm
    <2>4. PICK w \in Workers : AdmittedBy(w, r, t)
      BY <2>1, <2>3, StatusStep DEF UndoneBy, CompletedBy
    <2> QED BY <1>1, <1>3, <2>4, NothingToAdmit DEF AdmittedBy
  <1> QED BY <1>2, <1>3

\* A worker between the completion that finished its run and the cleanup.
AtTheEnd(w) ==
    \/ worker[w].pc \in {"release", "cleanup"}
    \/ worker[w].pc = "ack" /\ worker[w].last

LEMMA OneFinisherStep ==
    ASSUME IInv, EndInv, [Next]_vars
    PROVE  OneFinisher'
  <1> USE DEF IInv
  <1>1. ASSUME NEW w \in Workers, AtTheEnd(w)'
        PROVE  /\ worker'[w] # IdleWorker /\ RunOf(w)' = RunOf(w)
               /\ \/ AtTheEnd(w)
                  \/ worker'[w] # worker[w] /\ status[RunOf(w)][Msg(w).task] = "queued" /\ RunOf(w) \in Runs
                     /\ Msg(w).task \in Tasks
    <2>1. Moves(w)
      BY WorkersStep DEF WorkersFit
    <2>2. worker'[w] = worker[w] \/ Checks(w) \/ Completes(w) \/ Finishes(w)
      BY <1>1, <2>1 DEF AtTheEnd, Moves, IdleWorker, Starts, Finds, Admits, NextLink, CannotSend, GoesOn
    <2>3. worker[w].pc # "idle" /\ worker'[w].rec = worker[w].rec
      BY <1>1, <2>2 DEF AtTheEnd, Checks, Completes, Finishes, GoesOn
    <2>4. RunOf(w)' = RunOf(w)
      BY <2>3, SameTask
    <2>5. worker'[w] # IdleWorker
      BY <1>1 DEF AtTheEnd, IdleWorker
    <2>6. CASE worker'[w] = worker[w] \/ Finishes(w)
      BY <1>1, <2>4, <2>5, <2>6 DEF AtTheEnd, Finishes, GoesOn
    <2>7. CASE Checks(w)
      BY <1>1, <2>7 DEF AtTheEnd, Checks, GoesOn, FinishersFit
    <2>8. CASE Completes(w)
      <3>1. worker'[w].last /\ worker'[w] # worker[w]
        BY <1>1, <2>8 DEF AtTheEnd, Completes, GoesOn
      <3>2. Last(CompleteReply(RunOf(w), Msg(w).task))
        BY <2>8, <3>1, Zenon DEF Completes
      <3>3. status[RunOf(w)][Msg(w).task] = "queued"
        BY <3>2 DEF Last, CompleteReply
      <3> QED BY <2>3, <2>4, <2>5, <3>1, <3>3, BusyWorker
    <2> QED BY <2>2, <2>6, <2>7, <2>8
  <1>2. ASSUME NEW v \in Workers, NEW w \in Workers, AtTheEnd(v)', AtTheEnd(w)', RunOf(v)' = RunOf(w)'
        PROVE  v = w
    <2>1. RunOf(v) = RunOf(w)
      BY <1>1, <1>2
    <2>2. ASSUME NEW x \in Workers, AtTheEnd(x) PROVE RunOf(x) \in finished
      BY <2>2 DEF AtTheEnd, FinishersFit
    <2>3. \A r \in finished, t \in Tasks : status[r][t] # "queued"
      BY DEF EndInv, FinishedStaysEmpty, Queued
    <2>4. CASE AtTheEnd(v) /\ AtTheEnd(w)
      BY <2>1, <2>4 DEF EndInv, OneFinisher, AtTheEnd
    <2>5. CASE ~ AtTheEnd(v) /\ ~ AtTheEnd(w)
      <3>1. worker'[v] \notin {worker[v], IdleWorker} /\ worker'[w] \notin {worker[w], IdleWorker}
        BY <1>1, <1>2, <2>5
      <3> QED BY <3>1, WorkersStep DEF OneMoves, WorkersFit
    <2>6. CASE AtTheEnd(v) /\ ~ AtTheEnd(w)
      BY <1>1, <1>2, <2>1, <2>2, <2>3, <2>6
    <2>7. CASE ~ AtTheEnd(v) /\ AtTheEnd(w)
      BY <1>1, <1>2, <2>1, <2>2, <2>3, <2>7
    <2> QED BY <2>4, <2>5, <2>6, <2>7
  <1> QED BY <1>2 DEF OneFinisher, AtTheEnd

LEMMA EndInvInit == Init => EndInv
  <1> SUFFICES ASSUME Init PROVE EndInv
    OBVIOUS
  <1>1. \A w \in Workers : worker[w].pc = "idle"
    BY DEF Init, IdleWorker
  <1>2. \A r \in Runs, t \in Tasks : status[r][t] # "done"
    BY DEF Init, NoTasks
  <1>3. FoundIsWhole
    BY <1>1, <1>2, InitTopic, CrawlAssumption DEF FoundIsWhole, CrawlAssumption
  <1>4. FinishedStaysEmpty /\ OneFinisher
    BY <1>1 DEF Init, FinishedStaysEmpty, OneFinisher
  <1> QED BY <1>3, <1>4 DEF EndInv

\* Only a look at the task's state takes a worker from the start to the fetch.
LEMMA ChecksOnce ==
    ASSUME Typed, WorkersFit, [Next]_vars, NEW w \in Workers,
           worker[w].pc = "start", worker'[w].pc = "fetch"
    PROVE  \E o \in Outcomes : CheckState(w, o)
  <1>1. CASE Step(w)
    <2>1. /\ \A o \in Outcomes : /\ ~ Undo(w, o) /\ ~ Complete(w, o) /\ ~ Release(w, o) /\ ~ Cleanup(w, o)
                                 /\ \A c \in Tasks : ~ Admit(w, c, o)
          /\ ~ Fetch(w) /\ ~ Produce(w) /\ ~ Ack(w)
      BY DEF Undo, Complete, Release, Cleanup, Admit, Fetch, Produce, Ack
    <2> QED BY <1>1, <2>1, Zenon DEF Step
  <1>2. ASSUME NEW v \in Workers, v # w, Step(v)
        PROVE  FALSE
    <2>1. OnlyMoves(v)
      BY <1>2, StepMoves DEF WorkersFit
    <2> QED BY <1>2, <2>1 DEF OnlyMoves
  <1>3. ASSUME NEW v \in Workers, NEW i \in DOMAIN topic, Deliver(v, i)
        PROVE  FALSE
    <2>1. OnlyMoves(v) /\ Starts(v)
      BY <1>3, DeliverMoves
    <2> QED BY <2>1 DEF OnlyMoves, Starts
  <1>4. ASSUME NEW n \in Nodes, Crash(n)
        PROVE  FALSE
    BY <1>4 DEF Crash, IdleWorker
  <1>5. worker' # worker
    OBVIOUS
  <1> QED BY <1>1, <1>2, <1>3, <1>4, <1>5, WorkersStay

\* EndInv holds from the start to the end of every such behaviour.  It needs both
\* hypotheses: where a delivery has found fewer links, the count can reach
\* zero while another one still has some to send.
THEOREM EndInvariant ==
    ASSUME CalmPlans, StablePages
    PROVE  Spec => [](IInv /\ EndInv)
  <1>1. Init => IInv /\ EndInv
    BY IInvInit, EndInvInit
  <1>2. IInv /\ EndInv /\ [Next]_vars => (IInv /\ EndInv)'
    <2> SUFFICES ASSUME IInv, EndInv, [Next]_vars PROVE IInv' /\ EndInv'
      OBVIOUS
    <2>1. IInv'
      BY IInvStep
    <2>2. FoundIsWhole'
      BY FoundIsWholeStep DEF EndInv
    <2>3. FinishedStaysEmpty' /\ OneFinisher'
      BY FinishedStaysEmptyStep, OneFinisherStep
    <2> QED BY <2>1, <2>2, <2>3 DEF EndInv
  <1> QED BY <1>1, <1>2, PTL DEF Spec

\* With stable pages, and nothing that takes a finished run's state apart, a run
\* ends once and for good, whatever is redelivered, lost or cut short by a crash
\* and whatever answer of Redis is lost (crawler_repo.go:161-163, 192-221).
THEOREM EndsOnce ==
    ASSUME CalmPlans, StablePages
    PROVE  Spec => []RunEndsOnce
  <1>1. IInv /\ EndInv => RunEndsOnce
    BY TypeOKIsTyped DEF IInv, StoreInv, EndInv, RunEndsOnce
  <1> QED BY <1>1, EndInvariant, PTL

\* Nor does any worker that could read the state of its task fetch a page of a
\* finished run again (crawler_repo.go:112-126).
THEOREM NoRecrawl ==
    ASSUME CalmPlans, StablePages
    PROVE  Spec => FinishedNotRecrawled
  <1>1. ASSUME IInv, EndInv, Calm, [Next]_vars, NEW w \in Workers,
               worker[w].pc = "start", worker'[w].pc = "fetch", UNCHANGED plan, RunOf(w) \in finished
        PROVE  FALSE
    <2> USE DEF IInv
    <2>1. CheckState(w, "ok")
      <3>1. PICK o \in Outcomes : CheckState(w, o)
        BY <1>1, ChecksOnce
      <3>2. o # "ok" => plan' # plan
        BY <1>1, <3>1, FaultIs DEF CheckState, Answers
      <3> QED BY <1>1, <3>1, <3>2
    <2>2. PICK r \in Runs, t \in Tasks : r = RunOf(w) /\ t = Msg(w).task
      BY <1>1, BusyWorker
    <2>3. Live(r) /\ status[r][t] # "done"
      <3>1. ~ AlreadyHandled(TaskStateReply(r, t))
        <4>1. worker' = [worker EXCEPT ![w].pc = IF AlreadyHandled(TaskStateReply(r, t)) THEN "ack" ELSE "fetch"]
          BY <2>1, <2>2 DEF CheckState
        <4> QED BY <1>1, <4>1 DEF Typed
      <3> QED BY <3>1 DEF AlreadyHandled, TaskStateReply
    <2>4. Intact(r)
      BY <1>1, <2>2, <2>3 DEF Intact, WorkersFit, Calm
    <2>5. status[r][t] # "absent"
      <3>1. worker[w].rec \in InTopic(r, t)
        BY <1>1, <2>2, BusyWorker DEF InTopic, RunOf
      <3> QED BY <2>4, <3>1, <1>1 DEF CarriedOnce
    <2>6. status[r][t] # "queued"
      BY <1>1, <2>2 DEF EndInv, FinishedStaysEmpty, Queued
    <2>7. status[r][t] \in Status
      BY <1>1 DEF StoreInv, StoreTypeOK
    <2> QED BY <2>3, <2>5, <2>6, <2>7 DEF Status
  <1>2. IInv => Calm
    BY CalmIs DEF IInv
  <1>3. IInv /\ EndInv /\ [Next]_vars =>
          [\A w \in Workers :
              /\ worker[w].pc = "start" /\ worker'[w].pc = "fetch"
              /\ UNCHANGED plan
              => RunOf(w) \notin finished]_vars
    BY <1>1, <1>2
  <1>4. Spec => [](IInv /\ EndInv)
    BY EndInvariant
  <1> QED BY <1>3, <1>4, PTL DEF Spec, FinishedNotRecrawled

-----------------------------------------------------------------------------
(* Where nothing is lost and no call fails, what is queued has its message.  *)

LosslessPlans == \A e \in Plans : e.kinds \subseteq {"rebalance", "clock"}
Lossless == plan.kinds \subseteq {"rebalance", "clock"}

QueuedIsCarried ==
    \A r \in Runs, t \in Tasks :
        Live(r) /\ Intact(r) /\ status[r][t] = "queued" =>
           InTopic(r, t) # {} \/ InBuffer(r, t) # {} \/ InHand(r, t) # {}

LEMMA LosslessIs ==
    ASSUME Typed, LosslessPlans
    PROVE  Lossless
  BY DEF Typed, LosslessPlans, Lossless

\* A payload leaves the channel for the topic.
LEMMA BufferedStays ==
    ASSUME Typed, WorkersFit, Lossless, [Next]_vars, NEW n \in Nodes, NEW m \in buffer[n]
    PROVE  m \in buffer'[n] \/ \E i \in DOMAIN topic' : topic'[i].msg = m
  <1>1. CASE \E w \in Workers : Produce(w)
    <2>1. PICK w \in Workers : Produce(w)
      BY <1>1
    <2>2. \/ UNCHANGED buffer
          \/ buffer' = [buffer EXCEPT ![NodeOf[w]] =
                @ \cup {[run |-> RunOf(w), task |-> worker[w].child, depth |-> Msg(w).depth + 1]}]
      BY <2>1, ProduceMoves
    <2> QED BY <2>2 DEF Typed
  <1>2. ASSUME NEW k \in Nodes, NEW x \in buffer[k], Flush(k, x)
        PROVE  m \in buffer'[n] \/ \E i \in DOMAIN topic' : topic'[i].msg = m
    <2>1. topic' = Append(topic, Record(x)) /\ buffer' = [buffer EXCEPT ![k] = buffer[k] \ {x}]
      BY <1>2, FaultIs DEF Flush, Lossless
    <2>2. CASE k = n /\ x = m
      <3>1. x \in Message
        BY DEF Typed
      <3>2. Record(x) \in Records /\ Record(x).msg = x
        BY <3>1 DEF Record, Records, States
      <3>3. topic \in Seq(Records)
        BY DEF Typed
      <3> QED BY <2>1, <2>2, <3>2, <3>3, AppendRecord, RecordSeq
    <2>3. CASE ~ (k = n /\ x = m)
      BY <2>1, <2>3 DEF Typed
    <2> QED BY <2>2, <2>3
  <1>3. ASSUME NEW k \in Nodes, Crash(k)
        PROVE  FALSE
    BY <1>3, FaultIs DEF Crash, Lossless
  <1>4. ASSUME \A w \in Workers : ~ Produce(w), \A k \in Nodes : ~ Crash(k) /\ \A x \in buffer[k] : ~ Flush(k, x)
        PROVE  UNCHANGED buffer
    <2>1. ASSUME NEW w \in Workers, Step(w) PROVE UNCHANGED buffer
      BY <1>4, <2>1, ZenonT(60) DEF Step, CheckState, Undo, Complete, Release, Cleanup, Admit, Fetch, Ack
    <2>2. ASSUME NEW w \in Workers, NEW i \in DOMAIN topic, Deliver(w, i) PROVE UNCHANGED buffer
      BY <2>2, Zenon DEF Deliver
    <2>3. ASSUME NEW k \in Nodes, Commit(k) \/ Rebalance(k) PROVE UNCHANGED buffer
      BY <2>3, Zenon DEF Commit, Rebalance
    <2>4. (\E r \in Runs : Expire(r)) \/ Tick \/ UNCHANGED vars => UNCHANGED buffer
      BY ZenonT(60) DEF Expire, Tick, vars
    <2> QED BY <1>4, <2>1, <2>2, <2>3, <2>4, ZenonT(60) DEF Next
  <1> QED BY <1>1, <1>2, <1>3, <1>4

\* A worker about to produce does produce.
LEMMA InHandStays ==
    ASSUME Typed, WorkersFit, Lossless, [Next]_vars, NEW w \in Workers, worker[w].pc = "produce"
    PROVE  \/ worker'[w] = worker[w] /\ RunOf(w)' = RunOf(w)
           \/ \E m \in buffer'[NodeOf[w]] : m.run = RunOf(w) /\ m.task = worker[w].child
  <1>1. CASE Produce(w)
    <2>1. buffer' = [buffer EXCEPT ![NodeOf[w]] =
                buffer[NodeOf[w]] \cup {[run |-> RunOf(w), task |-> worker[w].child, depth |-> Msg(w).depth + 1]}]
      BY <1>1, ProduceMoves DEF Lossless
    <2> DEFINE m == [run |-> RunOf(w), task |-> worker[w].child, depth |-> Msg(w).depth + 1]
    <2>2. NodeOf[w] \in Nodes
      BY CrawlAssumption DEF CrawlAssumption
    <2>3. m.run = RunOf(w) /\ m.task = worker[w].child
      OBVIOUS
    <2> HIDE DEF m
    <2>4. m \in buffer'[NodeOf[w]]
      BY <2>1, <2>2 DEF Typed, m
    <2> QED BY <2>3, <2>4
  <1>2. CASE worker'[w] = worker[w]
    BY <1>2, SameTask
  <1>3. ASSUME ~ Produce(w), worker'[w] # worker[w]
        PROVE  FALSE
    <2>1. ~ Step(w)
      <3>1. /\ \A o \in Outcomes : /\ ~ Undo(w, o) /\ ~ Complete(w, o) /\ ~ Release(w, o) /\ ~ Cleanup(w, o)
                                   /\ ~ CheckState(w, o) /\ \A c \in Tasks : ~ Admit(w, c, o)
            /\ ~ Fetch(w) /\ ~ Ack(w)
        BY DEF Undo, Complete, Release, Cleanup, CheckState, Admit, Fetch, Ack
      <3> QED BY <1>3, <3>1, Zenon DEF Step
    <2>2. ASSUME NEW v \in Workers, v # w, Step(v)
          PROVE  FALSE
      <3>1. OnlyMoves(v)
        BY <2>2, StepMoves DEF WorkersFit
      <3> QED BY <1>3, <2>2, <3>1 DEF OnlyMoves
    <2>3. ASSUME NEW v \in Workers, NEW i \in DOMAIN topic, Deliver(v, i)
          PROVE  FALSE
      <3>1. OnlyMoves(v) /\ Starts(v)
        BY <2>3, DeliverMoves
      <3> QED BY <1>3, <3>1 DEF OnlyMoves, Starts
    <2>4. ASSUME NEW n \in Nodes, Crash(n)
          PROVE  FALSE
      BY <2>4, FaultIs DEF Crash, Lossless
    <2>5. worker' # worker
      BY <1>3
    <2> QED BY <2>1, <2>2, <2>3, <2>4, <2>5, WorkersStay
  <1> QED BY <1>1, <1>2, <1>3

LEMMA QueuedIsCarriedStep ==
    ASSUME IInv, QueuedIsCarried, Lossless, [Next]_vars
    PROVE  QueuedIsCarried'
  <1> USE DEF IInv
  <1> SUFFICES ASSUME NEW r \in Runs, NEW t \in Tasks, Live(r)', Intact(r)', status'[r][t] = "queued"
               PROVE  InTopic(r, t)' # {} \/ InBuffer(r, t)' # {} \/ InHand(r, t)' # {}
    BY DEF QueuedIsCarried
  <1>1. Live(r) /\ Intact(r)
    BY LiveStep, IntactStep
  <1>2. buffer' \in [Nodes -> SUBSET Message]
    BY BufferStep
  <1>3. CASE status[r][t] = "queued"
    <2>1. InTopic(r, t) # {} \/ InBuffer(r, t) # {} \/ InHand(r, t) # {}
      BY <1>1, <1>3 DEF QueuedIsCarried
    <2>2. CASE InTopic(r, t) # {}
      <3>1. PICK i \in DOMAIN topic : topic[i].msg.run = r /\ topic[i].msg.task = t
        BY <2>2 DEF InTopic
      <3>2. i \in DOMAIN topic' /\ topic'[i].msg = topic[i].msg
        BY TopicStep DEF TopicSteps
      <3>3. i \in InTopic(r, t)'
        BY <3>1, <3>2 DEF InTopic
      <3> QED BY <3>3
    <2>3. CASE InBuffer(r, t) # {}
      <3>1. PICK n \in Nodes, m \in Message : m \in buffer[n] /\ m.run = r /\ m.task = t
        BY <2>3 DEF InBuffer
      <3>2. CASE m \in buffer'[n]
        <4>1. <<n, m>> \in InBuffer(r, t)'
          BY <1>2, <3>1, <3>2 DEF InBuffer
        <4> QED BY <4>1
      <3>3. CASE \E i \in DOMAIN topic' : topic'[i].msg = m
        <4>1. PICK i \in DOMAIN topic' : topic'[i].msg = m
          BY <3>3
        <4>2. i \in InTopic(r, t)'
          BY <3>1, <4>1 DEF InTopic
        <4> QED BY <4>2
      <3> QED BY <3>1, <3>2, <3>3, BufferedStays
    <2>4. CASE InHand(r, t) # {}
      <3>1. PICK w \in Workers : worker[w].pc \in {"produce", "undo"} /\ RunOf(w) = r /\ worker[w].child = t
        BY <2>4 DEF InHand
      <3>2. worker[w].pc = "produce"
        BY <3>1 DEF WorkersFit, Lossless
      <3>3. CASE worker'[w] = worker[w] /\ RunOf(w)' = RunOf(w)
        <4>1. w \in InHand(r, t)'
          BY <3>1, <3>3 DEF InHand
        <4> QED BY <4>1
      <3>4. CASE \E m \in buffer'[NodeOf[w]] : m.run = RunOf(w) /\ m.task = worker[w].child
        <4>1. PICK m \in buffer'[NodeOf[w]] : m.run = r /\ m.task = t
          BY <3>1, <3>4
        <4>2. NodeOf[w] \in Nodes
          BY CrawlAssumption DEF CrawlAssumption
        <4>3. <<NodeOf[w], m>> \in InBuffer(r, t)'
          BY <1>2, <4>1, <4>2 DEF InBuffer
        <4> QED BY <4>3
      <3> QED BY <3>2, <3>3, <3>4, InHandStays
    <2> QED BY <2>1, <2>2, <2>3, <2>4
  <1>4. CASE status[r][t] # "queued"
    <2>1. PICK w \in Workers : AdmittedBy(w, r, t)
      BY <1>4, StatusStep DEF UndoneBy, CompletedBy
    <2>2. PICK o \in Outcomes : Admit(w, t, o)
      BY <2>1 DEF AdmittedBy
    <2>3. o = "ok"
      BY <2>2, FaultIs DEF Admit, Answers, Outcomes, Lossless
    <2>4. Admits(w) /\ worker'[w].child = t
      BY <2>1, <2>2, <2>3, AdmitMoves DEF AdmittedBy
    <2>5. worker[w].pc # "idle" /\ worker'[w].pc = "produce" /\ worker'[w].rec = worker[w].rec
      BY <2>4 DEF Admits, GoesOn
    <2>6. RunOf(w)' = r
      BY <2>1, <2>5, SameTask DEF AdmittedBy
    <2>7. w \in InHand(r, t)'
      BY <2>4, <2>5, <2>6 DEF InHand
    <2> QED BY <2>7
  <1> QED BY <1>3, <1>4

LEMMA QueuedIsCarriedInit == Init => QueuedIsCarried
  <1> SUFFICES ASSUME Init, NEW r \in Runs, NEW t \in Tasks, status[r][t] = "queued"
               PROVE  InTopic(r, t) # {}
    BY DEF QueuedIsCarried
  <1>1. t = Start[r]
    BY DEF Init, NoTasks
  <1>2. PICK i \in DOMAIN topic : topic[i].msg.run = r
    BY InitTopic
  <1>3. i \in InTopic(r, t)
    BY <1>1, <1>2, InitTopic DEF InTopic
  <1> QED BY <1>3

\* With any number of rebalances, and leases that run out, a task that is counted
\* as active is on its way to a worker: the run can still count down to zero
\* (processor_queue.go:39-41, 77-85; kafka_queue.go:198-200).
THEOREM QueuedIsOnItsWay ==
    ASSUME LosslessPlans
    PROVE  Spec => []QueuedHasMessage
  <1>1. Init => IInv /\ QueuedIsCarried
    BY IInvInit, QueuedIsCarriedInit
  <1>2. IInv /\ QueuedIsCarried /\ [Next]_vars => (IInv /\ QueuedIsCarried)'
    BY IInvStep, QueuedIsCarriedStep, LosslessIs DEF IInv
  <1>3. ASSUME IInv, QueuedIsCarried PROVE QueuedHasMessage
    <2> USE <1>3 DEF IInv
    <2> SUFFICES ASSUME NEW r \in Runs, NEW t \in Tasks, Live(r), status[r][t] = "queued"
                 PROVE  HasMessage(r, t)
      BY DEF QueuedHasMessage
    <2>1. Lossless
      BY LosslessIs
    <2>2. Intact(r)
      BY <2>1 DEF Lossless, Intact, Calm, WorkersFit
    <2>3. InTopic(r, t) # {} \/ InBuffer(r, t) # {} \/ InHand(r, t) # {}
      BY <2>2 DEF QueuedIsCarried
    <2>4. CASE InTopic(r, t) # {}
      <3>1. PICK i \in DOMAIN topic : topic[i].msg.run = r /\ topic[i].msg.task = t
        BY <2>4 DEF InTopic
      <3>2. ~ Acked(i)
        BY <2>2, <3>1 DEF AckedDone
      <3>3. topic[i].state \in States
        BY RecordSeq DEF Typed, Records
      <3> QED BY <3>1, <3>2, <3>3 DEF Acked, States, HasMessage
    <2>5. CASE InBuffer(r, t) # {}
      BY <2>5 DEF InBuffer, HasMessage
    <2>6. CASE InHand(r, t) # {}
      BY <2>6 DEF InHand, HasMessage
    <2> QED BY <2>3, <2>4, <2>5, <2>6
  <1> QED BY <1>1, <1>2, <1>3, PTL DEF Spec
=============================================================================
