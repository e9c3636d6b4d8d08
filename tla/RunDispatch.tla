---------------------------- MODULE RunDispatch ----------------------------
(***************************************************************************)
(* From a run message to a run that is being crawled: the run topic, the   *)
(* run listener of every node (app/app_crawler.go), SendTask of the first  *)
(* task and QueueRun (processor/processor_queue.go), the slots and tasks   *)
(* in Redis, and the node's way down: the context is cancelled, then the   *)
(* queues are closed, then the process ends.                               *)
(*                                                                         *)
(* The topic is seen as in CrawlRun.  A run's crawl is reduced to its      *)
(* first task: the worker that completes it finishes the run, which is all *)
(* the listeners of the other nodes can see of it.  The hop of the first   *)
(* task through the producer channel is left to CrawlRun.                  *)
(***************************************************************************)
EXTENDS RunStore

CONSTANTS
    Nodes,       \* crawler processes
    First,       \* the task of a run's start URL
    Plans,       \* the environments: the runs submitted that can never crawl
                 \* anything, the room of the run topic for messages at a time
                 \* (bound), the kinds of fault that may happen, and how many in one
                 \* behaviour (bound)
    None         \* no run, no node

FaultKinds == {"redisDown", "replyLost", "produceFails", "crash", "rebalance",
               "shutdown", "clock"}

ASSUME DispatchAssumption ==
    /\ First \in Tasks
    /\ Plans \subseteq [unusable : SUBSET Runs, room : Nat, kinds : SUBSET FaultKinds, max : Nat]
    /\ \A e \in Plans : Cardinality(Runs) <= e.room
    /\ None \notin Runs \cup Nodes

VARIABLES
    topic,     \* the records of the run topic; a committed one is free again
    buffer,    \* buffer[n]: runs in the producer channel of n
    listener,  \* listener[n]: where the run listener of n is, and its record
    phase,     \* phase[n]: "up", "cancelled", "closing" its queues, "closed"
    work,      \* runs whose first task is in the task topic
    ending,    \* ending[r]: the call left to the worker that finished r
    finished,  \* history: runs that were crawled
    expired,   \* history: runs whose lease ran out
    plan       \* the environment of this behaviour; its max counts down

vars == <<lease, status, active, links, topic, buffer, listener, phase, work,
          ending, finished, expired, plan>>

crawlVars == <<work, ending, finished, expired>>

Free == [run |-> None, state |-> "free", owner |-> None]
Record(r) == [run |-> r, state |-> "ready", owner |-> None]

Idle    == [pc |-> "idle", rec |-> 0, run |-> None]
Stopped == [Idle EXCEPT !.pc = "stopped"]
PC == {"idle", "poll", "wait", "noSlot", "requeue", "admit", "produce", "undo",
       "refused", "failed", "ack", "stopped"}

TypeOK ==
    /\ StoreTypeOK
    /\ topic \in [1 .. plan.room -> [run : Runs \cup {None},
                                      state : {"free", "ready", "held", "acked"},
                                      owner : Nodes \cup {None}]]
    /\ buffer \in [Nodes -> SUBSET Runs]
    /\ listener \in [Nodes -> [pc : PC, rec : 0 .. plan.room, run : Runs \cup {None}]]
    /\ phase \in [Nodes -> {"up", "cancelled", "closing", "closed"}]
    /\ work \subseteq Runs
    /\ ending \in [Runs -> {"no", "release", "cleanup"}]
    /\ finished \subseteq Runs /\ expired \subseteq Runs
    /\ \E e \in Plans : plan \in [unusable : {e.unusable}, room : {e.room},
                               kinds : {e.kinds}, max : 0 .. e.max]

\* Every run has been submitted once.
Init ==
    /\ StoreInit
    /\ plan \in Plans
    /\ \E order \in [1 .. Cardinality(Runs) -> Runs] :
          /\ \A r \in Runs : \E i \in DOMAIN order : order[i] = r
          /\ topic = [i \in 1 .. plan.room |->
                         IF i \in DOMAIN order THEN Record(order[i]) ELSE Free]
    /\ buffer = [n \in Nodes |-> {}]
    /\ listener = [n \in Nodes |-> Idle]
    /\ phase = [n \in Nodes |-> "up"]
    /\ work = {}
    /\ ending = [r \in Runs |-> "no"]
    /\ finished = {} /\ expired = {}

-----------------------------------------------------------------------------

RunOf(n) == listener[n].run

Goto(n, pc) == listener' = [listener EXCEPT ![n].pc = pc]

Fault(k) ==
    /\ k \in plan.kinds
    /\ plan.max > 0
    /\ plan' = [plan EXCEPT !.max = @ - 1]

\* What a call to Redis comes to, as in CrawlRun.
Outcomes == {"ok", "redisDown", "replyLost"}
Answers(o) == IF o = "ok" THEN UNCHANGED plan ELSE Fault(o)

\* A cancelled context: what the listener calls with it fails, what is not yet
\* begun is not begun.
Cancelled(n) == phase[n] # "up"

\* Once the queues begin to close Produce may refuse; once they are closed it does.
Accepts(n) == phase[n] # "closed"
Refuses(n) == phase[n] \in {"closing", "closed"}

Uncommitted(n) == {i \in DOMAIN topic : topic[i].owner = n}

Returned(n) ==
    [i \in DOMAIN topic |-> IF topic[i].owner = n THEN Record(topic[i].run) ELSE topic[i]]

Committed(n) ==
    [i \in DOMAIN topic |-> IF topic[i].owner = n /\ topic[i].state = "acked"
                            THEN Free ELSE topic[i]]

-----------------------------------------------------------------------------
(* startRunListener and processRun.                                         *)

\* The listener ends at the first run it gets after the context was cancelled.
\* A run that can never crawl anything is dropped: acked at once.
Receive(n, i) ==
    /\ listener[n].pc = "idle" /\ ~Cancelled(n)
    /\ topic[i].state = "ready"
    /\ topic' = [topic EXCEPT ![i].state = "held", ![i].owner = n]
    /\ listener' = [listener EXCEPT ![n] =
          [pc |-> IF topic[i].run \in plan.unusable THEN "ack" ELSE "poll",
           rec |-> i, run |-> topic[i].run]]
    /\ UNCHANGED <<store, buffer, phase, crawlVars, plan>>

\* One turn of waitForRunSlot.  The context is looked at first, and a call with a
\* cancelled one fails.
Poll(n, o) ==
    /\ listener[n].pc = "poll"
    /\ IF Cancelled(n)
       THEN /\ Goto(n, "noSlot")
            /\ UNCHANGED <<store, plan>>
       ELSE /\ Answers(o)
            /\ IF o = "redisDown" THEN UNCHANGED store ELSE AcquireRunSlot(RunOf(n))
            /\ Goto(n, CASE o # "ok" -> "noSlot"
                         [] o = "ok" /\ AcquireGranted(RunOf(n)) -> "admit"
                         [] o = "ok" /\ ~AcquireGranted(RunOf(n)) -> "wait")
    /\ UNCHANGED <<topic, buffer, phase, crawlVars>>

\* The ticker ticks, or the thirty seconds or the context are over.
Wait(n) ==
    /\ listener[n].pc = "wait"
    /\ \/ Goto(n, "poll")
       \/ Goto(n, "noSlot")
    /\ UNCHANGED <<store, topic, buffer, phase, crawlVars, plan>>

\* Mutant: a run that got no slot is finished with.
NoSlotDropped(n) ==
    /\ listener[n].pc = "noSlot"
    /\ IF Cancelled(n) THEN listener' = [listener EXCEPT ![n] = Stopped]
                       ELSE Goto(n, "ack")
    /\ UNCHANGED <<store, topic, buffer, phase, crawlVars, plan>>

\* Interrupted by shutdown, the run message stays unacked and the listener ends;
\* otherwise the run goes to the end of the queue.
NoSlotInTime(n) ==
    /\ listener[n].pc = "noSlot"
    /\ IF Cancelled(n) THEN listener' = [listener EXCEPT ![n] = Stopped]
                       ELSE Goto(n, "requeue")
    /\ UNCHANGED <<store, topic, buffer, phase, crawlVars, plan>>

\* QueueRun.  A produce that fails is only logged, and the message is acked.
Requeue(n) ==
    /\ listener[n].pc = "requeue"
    /\ \/ /\ Accepts(n)
          /\ buffer' = [buffer EXCEPT ![n] = @ \cup {RunOf(n)}]
          /\ UNCHANGED plan
       \/ Refuses(n) /\ UNCHANGED <<buffer, plan>>
       \/ Fault("produceFails") /\ UNCHANGED buffer
    /\ Goto(n, "ack")
    /\ UNCHANGED <<store, topic, phase, crawlVars>>

\* SendTask of the first task: admit it.  A duplicate counts as sent.
Admit(n, o) ==
    /\ listener[n].pc = "admit"
    /\ Answers(o)
    /\ IF o = "redisDown" THEN UNCHANGED store ELSE AdmitTask(RunOf(n), First)
    /\ LET reply == AdmitReply(RunOf(n), First) IN
       Goto(n, CASE o # "ok" -> "failed"
                 [] o = "ok" /\ reply = "Admitted" -> "produce"
                 [] o = "ok" /\ reply = "Duplicate" -> "ack"
                 [] o = "ok" /\ reply \in {"LimitReached", "RunInactive"} -> "failed")
    /\ UNCHANGED <<topic, buffer, phase, crawlVars>>

Produce(n) ==
    /\ listener[n].pc = "produce"
    /\ \/ /\ Accepts(n)
          /\ work' = work \cup {RunOf(n)}
          /\ Goto(n, "ack")
          /\ UNCHANGED plan
       \/ Refuses(n) /\ Goto(n, "undo") /\ UNCHANGED <<work, plan>>
       \/ Fault("produceFails") /\ Goto(n, "undo") /\ UNCHANGED work
    /\ UNCHANGED <<store, topic, buffer, phase, ending, finished, expired>>

\* ErrQueueClosed and any other failure of the produce are told apart afterwards;
\* the queue refuses only when the context is cancelled, which is looked at too.
Undo(n, o) ==
    /\ listener[n].pc = "undo"
    /\ Answers(o)
    /\ IF o = "redisDown" THEN UNCHANGED store ELSE UnadmitTask(RunOf(n), First)
    /\ Goto(n, "failed")
    /\ UNCHANGED <<topic, buffer, phase, crawlVars>>

\* handleDispatchError: the slot is given back.
DispatchError(n, o) ==
    /\ listener[n].pc = "failed"
    /\ Answers(o)
    /\ IF o = "redisDown" THEN UNCHANGED store ELSE ReleaseRunSlot(RunOf(n))
    /\ Goto(n, "refused")
    /\ UNCHANGED <<topic, buffer, phase, crawlVars>>

\* Mutant: a run whose first task could not be sent is finished with.
DispatchDropped(n) ==
    /\ listener[n].pc = "refused"
    /\ IF Cancelled(n) THEN listener' = [listener EXCEPT ![n] = Stopped]
                       ELSE Goto(n, "ack")
    /\ UNCHANGED <<store, topic, buffer, phase, crawlVars, plan>>

\* Interrupted by shutdown, the message stays unacked; otherwise it is re-queued.
AfterDispatchError(n) ==
    /\ listener[n].pc = "refused"
    /\ IF Cancelled(n) THEN listener' = [listener EXCEPT ![n] = Stopped]
                       ELSE Goto(n, "requeue")
    /\ UNCHANGED <<store, topic, buffer, phase, crawlVars, plan>>

Ack(n) ==
    /\ listener[n].pc = "ack"
    /\ LET i == listener[n].rec IN
       topic' = IF topic[i].state = "held" /\ topic[i].owner = n
                THEN [topic EXCEPT ![i].state = "acked"] ELSE topic
    /\ listener' = [listener EXCEPT ![n] = Idle]
    /\ UNCHANGED <<store, buffer, phase, crawlVars, plan>>

-----------------------------------------------------------------------------
(* The run queue of a node, and the node.                                   *)

Flush(n, r) ==
    /\ r \in buffer[n]
    /\ \E i \in DOMAIN topic :
          /\ topic[i] = Free
          /\ \A j \in 1 .. i - 1 : topic[j] # Free
          /\ topic' = [topic EXCEPT ![i] = Record(r)]
    /\ buffer' = [buffer EXCEPT ![n] = @ \ {r}]
    /\ UNCHANGED <<store, listener, phase, crawlVars, plan>>

Commit(n) ==
    /\ phase[n] \in {"up", "cancelled"}
    /\ \E i \in Uncommitted(n) : topic[i].state = "acked"
    /\ topic' = Committed(n)
    /\ UNCHANGED <<store, buffer, listener, phase, crawlVars, plan>>

Rebalance(n) ==
    /\ Fault("rebalance")
    /\ Uncommitted(n) # {}
    /\ topic' = Returned(n)
    /\ UNCHANGED <<store, buffer, listener, phase, crawlVars>>

\* The signal cancels the context the listener runs under.
Cancel(n) ==
    /\ Fault("shutdown")
    /\ phase[n] = "up"
    /\ phase' = [phase EXCEPT ![n] = "cancelled"]
    /\ UNCHANGED <<store, topic, buffer, listener, crawlVars>>

\* StopProcessor closes the queues of runs and of tasks.
StopProcessor(n) ==
    /\ phase[n] = "cancelled"
    /\ phase' = [phase EXCEPT ![n] = "closing"]
    /\ UNCHANGED <<store, topic, buffer, listener, crawlVars, plan>>

\* The producer has drained its channel and the committer has committed once more;
\* what is not committed goes back to the group.
QueuesClosed(n) ==
    /\ phase[n] = "closing"
    /\ buffer[n] = {}
    /\ phase' = [phase EXCEPT ![n] = "closed"]
    /\ topic' = [i \in DOMAIN topic |->
                   IF topic[i].owner # n THEN topic[i]
                   ELSE IF topic[i].state = "acked" THEN Free ELSE Record(topic[i].run)]
    /\ UNCHANGED <<store, buffer, listener, crawlVars, plan>>

Down(n) ==
    /\ listener' = [listener EXCEPT ![n] = Idle]
    /\ phase' = [phase EXCEPT ![n] = "up"]
    /\ buffer' = [buffer EXCEPT ![n] = {}]

Restart(n) ==
    /\ phase[n] = "closed"
    /\ Down(n)
    /\ UNCHANGED <<store, topic, crawlVars, plan>>

Crash(n) ==
    /\ Fault("crash")
    /\ topic' = Returned(n)
    /\ Down(n)
    /\ UNCHANGED <<store, crawlVars>>

-----------------------------------------------------------------------------
(* The crawl, as far as the listeners see it.                               *)

\* handleTask on the first task: skipped, or completed.
Crawl(r) ==
    /\ r \in work /\ ending[r] = "no"
    /\ work' = work \ {r}
    /\ LET s == TaskStateReply(r, First) IN
       IF s.done \/ ~s.runActive
       THEN UNCHANGED <<store, ending, finished>>
       ELSE /\ CompleteTask(r, First)
            /\ IF CompleteReply(r, First).counted /\ CompleteReply(r, First).left = 0
               THEN /\ ending' = [ending EXCEPT ![r] = "release"]
                    /\ finished' = finished \cup {r}
               ELSE UNCHANGED <<ending, finished>>
    /\ UNCHANGED <<topic, buffer, listener, phase, expired, plan>>

\* completeTask, after the last completion.
EndRelease(r) ==
    /\ ending[r] = "release"
    /\ ReleaseRunSlot(r)
    /\ ending' = [ending EXCEPT ![r] = "cleanup"]
    /\ UNCHANGED <<topic, buffer, listener, phase, work, finished, expired, plan>>

EndCleanup(r) ==
    /\ ending[r] = "cleanup"
    /\ CleanupRun(r)
    /\ ending' = [ending EXCEPT ![r] = "no"]
    /\ UNCHANGED <<topic, buffer, listener, phase, work, finished, expired, plan>>

Tick ==
    /\ "clock" \in plan.kinds
    /\ \E r \in Runs : Live(r)
    /\ LeaseTick
    /\ expired' = expired \cup {r \in Runs : lease[r] = 1}
    /\ UNCHANGED <<topic, buffer, listener, phase, work, ending, finished, plan>>

-----------------------------------------------------------------------------

Listen(n) ==
    \/ \E o \in Outcomes : Poll(n, o) \/ Admit(n, o) \/ Undo(n, o) \/ DispatchError(n, o)
    \/ Wait(n) \/ NoSlotInTime(n) \/ Requeue(n) \/ Produce(n)
    \/ AfterDispatchError(n) \/ Ack(n)

EndRun(r) == Crawl(r) \/ EndRelease(r) \/ EndCleanup(r)

GoDown(n) == StopProcessor(n) \/ QueuesClosed(n) \/ Restart(n)

Next ==
    \/ \E n \in Nodes :
          \/ Listen(n) \/ \E i \in DOMAIN topic : Receive(n, i)
          \/ \E r \in buffer[n] : Flush(n, r)
          \/ Commit(n) \/ Rebalance(n)
          \/ Cancel(n) \/ GoDown(n) \/ Crash(n)
    \/ \E r \in Runs : EndRun(r)
    \/ Tick

Spec == Init /\ [][Next]_vars

\* Listeners, queues, workers and the clock go on, and a node that goes down comes
\* back.  A topic is read in order, so a message that waits is received in the end,
\* whichever others come before it; and it has room for every record, of which
\* the room only says how many are kept apart.
Fairness ==
    /\ \A n \in Nodes :
          /\ WF_vars(Listen(n)) /\ WF_vars(GoDown(n)) /\ WF_vars(Commit(n))
          /\ \A r \in Runs : SF_vars(Flush(n, r))
    /\ \A r \in Runs :
          SF_vars(\E n \in Nodes, i \in DOMAIN topic : topic[i].run = r /\ Receive(n, i))
    /\ \A r \in Runs : WF_vars(EndRun(r))
    /\ WF_vars(Tick)

FairSpec == Spec /\ Fairness

-----------------------------------------------------------------------------

\* The run's message will still be delivered or be produced again, or a listener
\* is about to produce its first task or to give that up.
OnItsWay(r) ==
    \/ \E i \in DOMAIN topic : topic[i].run = r /\ topic[i].state \in {"ready", "held"}
    \/ \E n \in Nodes : r \in buffer[n]
    \/ \E n \in Nodes : /\ listener[n].run = r
                        /\ listener[n].pc \in {"produce", "undo", "failed", "refused", "requeue"}

\* An environment whose faults are failing calls only, at any number of them.
Calm == plan.kinds \subseteq {"redisDown"}

\* No run is lost between its message and its crawl: as long as it has not been
\* crawled, and has not run out its lease, its message is still to come or its
\* first task is with the workers of a run that holds its slot ("left unacked, the
\* run is redelivered after the restart", app_crawler.go:98-99).
RunIsNotLost ==
    Calm => \A r \in Runs \ (plan.unusable \cup finished \cup expired) :
        OnItsWay(r) \/ (r \in work /\ Live(r))

\* Every run that can crawl anything is crawled, however few slots there are and
\* however often it waited for one in vain.
EveryRunIsCrawled ==
    Calm => <>(Runs \ plan.unusable \subseteq finished)

\* Whatever goes wrong on the way, no run keeps its slot for ever: it finishes, a
\* failed dispatch gives it back, or the lease runs out (app_crawler.go:132-139,
\* 189-205).  As the runs are finitely many, all slots are free again and again.
SlotIsFreed == []<>(\A r \in Runs : ~Live(r))

\* No interleaving of listeners, workers and failing calls leaves a run in a state
\* nobody gets it out of.
DispatchIsSound == TypeOK /\ RunIsNotLost
=============================================================================
