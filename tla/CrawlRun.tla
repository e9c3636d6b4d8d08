------------------------------ MODULE CrawlRun ------------------------------
(***************************************************************************)
(* One crawl run from its dispatch to its end: the task topic, the crawl   *)
(* workers of every node (webcrawler/crawler_repo.go), SendTask            *)
(* (processor/processor_queue.go) and the run state in Redis.              *)
(*                                                                         *)
(* A worker's step is one call that another process can see: a Redis       *)
(* method, a produce, an ack.  Between two steps anything else may happen, *)
(* a crash of the node included.  The topic is seen through what the queue *)
(* promises its consumers: a message is delivered, acked, and at some      *)
(* later time committed; until it is committed it may come back, and once  *)
(* it has come back the old delivery's ack counts for nothing              *)
(* (OffsetTracker models how the queue does that).  Its order is kept only *)
(* as the order in which records were produced; several partitions let any *)
(* ready message be delivered next.                                        *)
(***************************************************************************)
EXTENDS RunStore, Sequences

CONSTANTS
    Nodes,       \* crawler processes
    Workers,     \* crawl workers
    NodeOf,      \* NodeOf[w]: the node worker w runs on
    PageLinks,   \* PageLinks[t]: the sets of links a fetch of t may return;
                 \* {} is also a failed fetch or one robots.txt forbids
    MaxDepth,    \* MaxDepth[r]: the depth limit run r carries
    Start,       \* Start[r]: the task the run listener dispatches first
    Plans,       \* the environments: the kinds of fault that may happen, and how
                 \* many in one behaviour (bound)
    None         \* no task

FaultKinds == {"redisDown", "replyLost", "produceFails", "recordLost",
               "crash", "rebalance", "stateExpires", "clock"}

ASSUME CrawlAssumption ==
    /\ NodeOf \in [Workers -> Nodes]
    /\ PageLinks \in [Tasks -> SUBSET SUBSET Tasks]
    /\ \A t \in Tasks : PageLinks[t] # {}
    /\ MaxDepth \in [Runs -> Nat \ {0}]
    /\ Start \in [Runs -> Tasks]
    /\ Plans \subseteq [kinds : SUBSET FaultKinds, max : Nat]
    /\ None \notin Tasks
    \* every run was given a slot and its first task was admitted
    /\ Cardinality(Runs) <= MaxConcurrent
    /\ \A r \in Runs : MaxLinks[r] > 0

VARIABLES
    topic,     \* the records of the task topic, each with its delivery state
    buffer,    \* buffer[n]: messages in the producer channel of node n
    worker,    \* worker[w]: where worker w is in handleTask, and its locals
    finished,  \* history: runs a completion has taken to zero
    expanded,  \* history: expanded[r][t]: the links found by the delivery of t that
               \* was counted as its completion
    limited,   \* history: runs that were refused a link for the link limit
    expired,   \* history: runs whose keys in Redis ran out
    plan       \* the environment of this behaviour; its max counts down

vars == <<lease, status, active, links, topic, buffer, worker, finished, expanded,
          limited, expired, plan>>

history == <<finished, expanded, limited, expired>>

Message == [run : Runs, task : Tasks, depth : Nat]

IdleWorker == [pc |-> "idle", rec |-> 0, todo |-> {}, child |-> None,
               failed |-> FALSE, found |-> {}, last |-> FALSE]

PC == {"idle", "start", "fetch", "send", "produce", "undo", "complete", "ack",
       "release", "cleanup"}

TypeOK ==
    /\ StoreTypeOK
    /\ topic \in Seq([msg : Message, state : {"ready", "held", "acked", "committed"},
                      owner : Workers \cup {None}])
    /\ buffer \in [Nodes -> SUBSET Message]
    /\ worker \in [Workers -> [pc : PC, rec : Nat, todo : SUBSET Tasks,
                               child : Tasks \cup {None}, failed : BOOLEAN,
                               found : SUBSET Tasks, last : BOOLEAN]]
    /\ finished \subseteq Runs
    /\ limited \subseteq Runs /\ expired \subseteq Runs
    /\ expanded \in [Runs -> [Tasks -> SUBSET Tasks]]
    /\ \E e \in Plans : plan \in [kinds : {e.kinds}, max : 0 .. e.max]

Record(m) == [msg |-> m, state |-> "ready", owner |-> None]

\* The listener has acquired the slots and its first tasks have been produced.
Init ==
    /\ lease  = [r \in Runs |-> LeaseLength]
    /\ status = [r \in Runs |-> [NoTasks EXCEPT ![Start[r]] = "queued"]]
    /\ active = [r \in Runs |-> 1]
    /\ links  = [r \in Runs |-> 1]
    /\ \E order \in [1 .. Cardinality(Runs) -> Runs] :
          /\ \A r \in Runs : \E i \in DOMAIN order : order[i] = r
          /\ topic = [i \in DOMAIN order |->
                         Record([run |-> order[i], task |-> Start[order[i]], depth |-> 0])]
    /\ buffer = [n \in Nodes |-> {}]
    /\ worker = [w \in Workers |-> IdleWorker]
    /\ finished = {}
    /\ expanded = [r \in Runs |-> [t \in Tasks |-> {}]]
    /\ limited = {} /\ expired = {}
    /\ plan \in Plans

-----------------------------------------------------------------------------

Msg(w)   == topic[worker[w].rec].msg
RunOf(w) == Msg(w).run

\* A fault of kind k happens now.
Fault(k) ==
    /\ k \in plan.kinds
    /\ plan.max > 0
    /\ plan' = [plan EXCEPT !.max = @ - 1]

\* What a call to Redis comes to: it works, it never arrives, or it takes effect
\* and the answer is lost.
Outcomes == {"ok", "redisDown", "replyLost"}
Answers(o) == IF o = "ok" THEN UNCHANGED plan ELSE Fault(o)

\* The messages of node n that were delivered to it and not yet committed.
Uncommitted(n) ==
    {i \in DOMAIN topic : /\ topic[i].state \in {"held", "acked"}
                          /\ NodeOf[topic[i].owner] = n}

Returned(n) ==
    [i \in DOMAIN topic |->
        IF i \in Uncommitted(n) THEN [topic[i] EXCEPT !.state = "ready", !.owner = None]
                                ELSE topic[i]]

-----------------------------------------------------------------------------
(* handleTask.                                                              *)

\* Mutant: a message counts as acked once it is delivered.
DeliverAcked(w, i) ==
    /\ worker[w].pc = "idle"
    /\ topic[i].state = "ready"
    /\ topic' = [topic EXCEPT ![i].state = "acked", ![i].owner = w]
    /\ worker' = [worker EXCEPT ![w].pc = "start", ![w].rec = i]
    /\ UNCHANGED <<store, buffer, history, plan>>

Deliver(w, i) ==
    /\ worker[w].pc = "idle"
    /\ topic[i].state = "ready"
    /\ topic' = [topic EXCEPT ![i].state = "held", ![i].owner = w]
    /\ worker' = [worker EXCEPT ![w].pc = "start", ![w].rec = i]
    /\ UNCHANGED <<store, buffer, history, plan>>

\* Mutant: whether the run still holds its slot is not looked at.
HandledIfDone(s) == s.done

AlreadyHandled(s) == s.done \/ ~s.runActive

\* The step of alreadyHandled: an error means process anyway.
CheckState(w, o) ==
    /\ worker[w].pc = "start"
    /\ Answers(o)
    /\ IF o = "redisDown" THEN UNCHANGED store ELSE TaskState(RunOf(w), Msg(w).task)
    /\ LET s == TaskStateReply(RunOf(w), Msg(w).task) IN
       worker' = [worker EXCEPT ![w].pc =
                     IF o = "ok" /\ AlreadyHandled(s) THEN "ack" ELSE "fetch"]
    /\ UNCHANGED <<topic, buffer, history>>

\* processTask up to sendChildren: the page, fetched or cached, gives its links;
\* at the last depth, and when there is no page, none are sent.
Fetch(w) ==
    /\ worker[w].pc = "fetch"
    /\ \E found \in PageLinks[Msg(w).task] :
       LET sent == IF Msg(w).depth + 1 >= MaxDepth[RunOf(w)] THEN {} ELSE found IN
       worker' = [worker EXCEPT ![w].pc = IF sent = {} THEN "complete" ELSE "send",
                                ![w].todo = sent, ![w].found = sent]
    /\ UNCHANGED <<store, topic, buffer, history, plan>>

\* Mutant: links that could not be sent are forgotten.
AfterLinkForgetful(w, rest, fail) ==
    IF rest # {}
    THEN worker' = [worker EXCEPT ![w].pc = "send", ![w].todo = rest,
                                  ![w].child = None]
    ELSE worker' = [worker EXCEPT ![w].pc = "complete", ![w].todo = {},
                                  ![w].child = None]

\* The loop of sendChildren after one more link: on to the next, or out, with an
\* error (the task stays unacked) if any link failed.
AfterLink(w, rest, fail) ==
    IF rest # {}
    THEN worker' = [worker EXCEPT ![w].pc = "send", ![w].todo = rest,
                                  ![w].child = None, ![w].failed = fail]
    ELSE IF fail THEN worker' = [worker EXCEPT ![w] = IdleWorker]
    ELSE worker' = [worker EXCEPT ![w].pc = "complete", ![w].todo = {},
                                  ![w].child = None]

\* SendTask's admission of one link.  A run that is no longer active ends the
\* loop without an error, whatever failed before.
Admit(w, c, o) ==
    /\ worker[w].pc = "send"
    /\ c \in worker[w].todo
    /\ Answers(o)
    /\ IF o = "redisDown" THEN UNCHANGED store ELSE AdmitTask(RunOf(w), c)
    /\ LET reply == AdmitReply(RunOf(w), c)
           rest  == worker[w].todo \ {c}
       IN /\ limited' = IF o = "ok" /\ reply = "LimitReached"
                        THEN limited \cup {RunOf(w)} ELSE limited
          /\ CASE o # "ok" -> AfterLink(w, rest, TRUE)
               [] o = "ok" /\ reply = "Admitted" ->
                     worker' = [worker EXCEPT ![w].pc = "produce", ![w].child = c,
                                              ![w].todo = rest]
               [] o = "ok" /\ reply \in {"Duplicate", "LimitReached"} ->
                     AfterLink(w, rest, worker[w].failed)
               [] o = "ok" /\ reply = "RunInactive" -> AfterLink(w, {}, FALSE)
    /\ UNCHANGED <<topic, buffer, finished, expanded, expired>>

\* Produce returns once the payload is in the channel; it fails when the channel
\* stays full for the five seconds or the queue is closing.
Produce(w) ==
    /\ worker[w].pc = "produce"
    /\ \/ /\ buffer' = [buffer EXCEPT ![NodeOf[w]] =
                @ \cup {[run |-> RunOf(w), task |-> worker[w].child,
                         depth |-> Msg(w).depth + 1]}]
          /\ AfterLink(w, worker[w].todo, worker[w].failed)
          /\ UNCHANGED plan
       \/ /\ Fault("produceFails")
          /\ worker' = [worker EXCEPT ![w].pc = "undo"]
          /\ UNCHANGED buffer
    /\ UNCHANGED <<store, topic, history>>

\* The admission of an unsent task is undone; that failing is only logged.
Undo(w, o) ==
    /\ worker[w].pc = "undo"
    /\ Answers(o)
    /\ IF o = "redisDown" THEN UNCHANGED store
                          ELSE UnadmitTask(RunOf(w), worker[w].child)
    /\ AfterLink(w, worker[w].todo, TRUE)
    /\ UNCHANGED <<topic, buffer, history>>

\* Mutant: a completion that counted nothing may finish the run.
LastUncounted(reply) == reply.left = 0

\* The completion that took the run to zero.
Last(reply) == reply.counted /\ reply.left = 0

\* Mutant: the message is acked although the count failed.
AckedAnyway(w, o, last) ==
    worker' = [worker EXCEPT ![w].pc = "ack", ![w].last = (o = "ok" /\ last)]

\* An error leaves the message unacked.
AfterComplete(w, o, last) ==
    worker' = IF o = "ok" THEN [worker EXCEPT ![w].pc = "ack", ![w].last = last]
                          ELSE [worker EXCEPT ![w] = IdleWorker]

\* completeTask up to the ack.
Complete(w, o) ==
    /\ worker[w].pc = "complete"
    /\ Answers(o)
    /\ IF o = "redisDown" THEN UNCHANGED store ELSE CompleteTask(RunOf(w), Msg(w).task)
    /\ LET reply == CompleteReply(RunOf(w), Msg(w).task)
           last  == Last(reply)
       IN /\ finished' = IF o # "redisDown" /\ last THEN finished \cup {RunOf(w)}
                                                    ELSE finished
          /\ expanded' = IF o # "redisDown" /\ reply.counted
                         THEN [expanded EXCEPT ![RunOf(w)][Msg(w).task] = worker[w].found]
                         ELSE expanded
          /\ AfterComplete(w, o, last)
    /\ UNCHANGED <<topic, buffer, limited, expired>>

\* The ack counts only if this delivery is still the current one.
Ack(w) ==
    /\ worker[w].pc = "ack"
    /\ LET i == worker[w].rec IN
       topic' = IF topic[i].state = "held" /\ topic[i].owner = w
                THEN [topic EXCEPT ![i].state = "acked"] ELSE topic
    /\ worker' = IF worker[w].last THEN [worker EXCEPT ![w].pc = "release"]
                                   ELSE [worker EXCEPT ![w] = IdleWorker]
    /\ UNCHANGED <<store, buffer, history, plan>>

Release(w, o) ==
    /\ worker[w].pc = "release"
    /\ Answers(o)
    /\ IF o = "redisDown" THEN UNCHANGED store ELSE ReleaseRunSlot(RunOf(w))
    /\ worker' = [worker EXCEPT ![w].pc = "cleanup"]
    /\ UNCHANGED <<topic, buffer, history>>

Cleanup(w, o) ==
    /\ worker[w].pc = "cleanup"
    /\ Answers(o)
    /\ IF o = "redisDown" THEN UNCHANGED store ELSE CleanupRun(RunOf(w))
    /\ worker' = [worker EXCEPT ![w] = IdleWorker]
    /\ UNCHANGED <<topic, buffer, history>>

-----------------------------------------------------------------------------
(* The node and its queue.                                                  *)

\* The producer loop hands a buffered record to Kafka.  That failing is only
\* logged.
Flush(n, m) ==
    /\ m \in buffer[n]
    /\ buffer' = [buffer EXCEPT ![n] = @ \ {m}]
    /\ \/ topic' = Append(topic, Record(m)) /\ UNCHANGED plan
       \/ Fault("recordLost") /\ UNCHANGED topic
    /\ UNCHANGED <<store, worker, history>>

Commit(n) ==
    /\ \E i \in Uncommitted(n) : topic[i].state = "acked"
    /\ topic' = [i \in DOMAIN topic |->
                   IF i \in Uncommitted(n) /\ topic[i].state = "acked"
                   THEN [topic[i] EXCEPT !.state = "committed"] ELSE topic[i]]
    /\ UNCHANGED <<store, buffer, worker, history, plan>>

\* The node's partitions move: what it has not committed is delivered again,
\* while its workers go on with the records they hold.
Rebalance(n) ==
    /\ Fault("rebalance")
    /\ Uncommitted(n) # {}
    /\ topic' = Returned(n)
    /\ UNCHANGED <<store, buffer, worker, history>>

\* The process dies and comes back: its workers and what it had not flushed are
\* gone.
Crash(n) ==
    /\ Fault("crash")
    /\ topic' = Returned(n)
    /\ buffer' = [buffer EXCEPT ![n] = {}]
    /\ worker' = [w \in Workers |-> IF NodeOf[w] = n THEN IdleWorker ELSE worker[w]]
    /\ UNCHANGED <<store, history>>

Tick ==
    /\ "clock" \in plan.kinds
    /\ \E r \in Runs : Live(r)
    /\ LeaseTick
    /\ UNCHANGED <<topic, buffer, worker, history, plan>>

Expire(r) ==
    /\ Fault("stateExpires")
    /\ StateExpires(r)
    /\ expired' = expired \cup {r}
    /\ UNCHANGED <<topic, buffer, worker, finished, expanded, limited>>

-----------------------------------------------------------------------------

Step(w) ==
    \/ \E o \in Outcomes :
          \/ CheckState(w, o) \/ Undo(w, o) \/ Complete(w, o)
          \/ Release(w, o) \/ Cleanup(w, o)
          \/ \E c \in Tasks : Admit(w, c, o)
    \/ Fetch(w)
    \/ Produce(w)
    \/ Ack(w)

Next ==
    \/ \E w \in Workers : Step(w) \/ \E i \in DOMAIN topic : Deliver(w, i)
    \/ \E n \in Nodes :
          \/ \E m \in buffer[n] : Flush(n, m)
          \/ Commit(n) \/ Rebalance(n) \/ Crash(n)
    \/ \E r \in Runs : Expire(r)
    \/ Tick

Spec == Init /\ [][Next]_vars

\* The scheduler runs every worker and every producer loop, the consumer goes on
\* delivering.  Nothing makes a fault happen.
Fairness ==
    /\ \A w \in Workers : WF_vars(Step(w))
    /\ WF_vars(\E w \in Workers, i \in DOMAIN topic : Deliver(w, i))
    /\ \A n \in Nodes : WF_vars(\E m \in buffer[n] : Flush(n, m))

FairSpec == Spec /\ Fairness

-----------------------------------------------------------------------------

\* The work on a run's task still exists somewhere: a message that is not acked,
\* a payload in a producer channel, or a worker about to produce it or to undo
\* its admission.
HasMessage(r, t) ==
    \/ \E i \in DOMAIN topic : /\ topic[i].msg.run = r /\ topic[i].msg.task = t
                               /\ topic[i].state \in {"ready", "held"}
    \/ \E n \in Nodes : \E m \in buffer[n] : m.run = r /\ m.task = t
    \/ \E w \in Workers : /\ worker[w].pc \in {"produce", "undo"}
                          /\ RunOf(w) = r /\ worker[w].child = t

\* A task that is counted as active is on its way to a worker, so the run can
\* still count down to zero: "A duplicate is not an error: the task is already
\* queued" (processor_queue.go:39-41, 77-85; kafka_queue.go:198-200).
QueuedHasMessage ==
    \A r \in Runs, t \in Tasks :
        Live(r) /\ status[r][t] = "queued" => HasMessage(r, t)

\* No message of a running run is given up before its task is done, whatever was
\* redelivered, lost or cut short: "an acked task is never redelivered"
\* (crawler_repo.go:88-110, 192-206).
AckedIsDone ==
    \A i \in DOMAIN topic :
        LET m == topic[i].msg IN
        topic[i].state \in {"acked", "committed"}
           /\ Live(m.run) /\ m.run \notin finished \cup expired
           => status[m.run][m.task] = "done"

\* A task counted as done has all the links its page had admitted, unless the
\* run has reached its link limit: it is completed "only once its work is fully
\* done, including queueing every link it found" (crawler_repo.go:88-90,
\* 161-190).  Where records are refused by the producer it does not hold: a link
\* another delivery admitted, and is about to take back, is a duplicate until then.
NoLinkLeftBehind ==
    "produceFails" \notin plan.kinds =>
    \A r \in Runs \ (finished \cup limited \cup expired), t \in Tasks :
        Live(r) /\ status[r][t] = "done"
           => \A c \in expanded[r][t] : status[r][c] # "absent"

\* A run is finished once: when its count has reached zero nothing of it is left
\* and nothing is admitted to it again, before or after its slot is released and
\* its state cleaned up (crawler_repo.go:161-163, 192-221).
FinishedStaysEmpty == \A r \in finished : Queued(r) = {}

\* "Only the completion that takes the run to zero gets past the counted check -
\* across all nodes" (crawler_repo.go:192-195): no two workers ever finish the
\* same run, so a release cannot hit a slot that was acquired again.
OneFinisher ==
    \A v, w \in Workers :
        LET Finishing(x) == \/ worker[x].pc \in {"release", "cleanup"}
                            \/ worker[x].pc = "ack" /\ worker[x].last
        IN Finishing(v) /\ Finishing(w) /\ RunOf(v) = RunOf(w) => v = w

\* Tasks of a finished run are skipped: once a run has been counted down to zero
\* no worker that could read the task's state goes on to fetch its page
\* (crawler_repo.go:112-126).
FinishedNotRecrawled ==
    [][\A w \in Workers :
          /\ worker[w].pc = "start" /\ worker'[w].pc = "fetch"
          /\ UNCHANGED plan
          => RunOf(w) \notin finished]_vars

\* With nothing but redeliveries going wrong, every run is crawled to its end.
EveryRunFinishes == <>(finished = Runs)

\* A run ends once and for good: one worker at most is finishing it, whichever
\* deliveries are still at work, and nothing of it is left or comes back.
RunEndsOnce == TypeOK /\ OneFinisher /\ FinishedStaysEmpty
=============================================================================
