--------------------------- MODULE ProducerQueue ---------------------------
(***************************************************************************)
(* The producing half of KafkaQueue (processor/queue/kafka_queue.go):      *)
(* Produce, called by any number of goroutines, the loop runProducer that  *)
(* batches and flushes, and the shutdown that seals the channel between    *)
(* them.  sync.RWMutex is modelled as it is documented: a goroutine that   *)
(* waits for the write lock keeps new readers out.                         *)
(***************************************************************************)
EXTENDS Integers, Sequences, FiniteSets

CONSTANTS
    Callers,   \* goroutines that call Produce
    MaxCalls,  \* bound: calls each of them makes
    Buffer     \* kafka.channel_buffer: capacity of the channel and of a batch

ASSUME ProducerAssumption ==
    /\ IsFiniteSet(Callers)
    /\ MaxCalls \in Nat
    /\ Buffer \in Nat \ {0}

VARIABLES
    stop,      \* the stop context is cancelled
    sealed,
    writer,    \* the write half of sendMu: "no", "waiting" for it, or "done"
    caller,    \* caller[c]: where c is in Produce
    calls,     \* calls[c]: calls c has begun
    channel,   \* producerChan
    loop,      \* where runProducer is
    items,     \* its current batch
    client,    \* the Kafka client is open
    accepted,  \* history: payloads whose Produce returned, or will return, nil
    flushed    \* history: payloads handed to flush, in that order

vars == <<stop, sealed, writer, caller, calls, channel, loop, items, client, accepted, flushed>>

callerVars == <<caller, calls>>
loopVars   == <<loop, items, flushed>>

Payloads == Callers \X (1 .. MaxCalls)

\* A caller holds sendMu for reading from the check of sealed to its return.
InSelect == {"select", "unlock"}
Readers == {c \in Callers : caller[c] \in InSelect}

LoopPC == {"run", "flush", "sealing", "drain", "drainFlush", "lastFlush", "exit", "done"}

TypeOK ==
    /\ stop \in BOOLEAN /\ sealed \in BOOLEAN /\ client \in BOOLEAN
    /\ writer \in {"no", "waiting", "done"}
    /\ caller \in [Callers -> {"out"} \cup InSelect]
    /\ calls \in [Callers -> 0 .. MaxCalls]
    /\ channel \in Seq(Payloads) /\ Len(channel) <= Buffer
    /\ loop \in LoopPC
    /\ items \in Seq(Payloads) /\ Len(items) <= Buffer
    /\ accepted \subseteq Payloads
    /\ flushed \in Seq(Payloads)

Init ==
    /\ stop = FALSE /\ sealed = FALSE /\ client = TRUE
    /\ writer = "no"
    /\ caller = [c \in Callers |-> "out"]
    /\ calls = [c \in Callers |-> 0]
    /\ channel = <<>>
    /\ loop = "run"
    /\ items = <<>>
    /\ accepted = {}
    /\ flushed = <<>>

-----------------------------------------------------------------------------
(* Produce.                                                                 *)

\* RLock, and the check of sealed: a sealed queue refuses at once.
Enter(c) ==
    /\ caller[c] = "out"
    /\ calls[c] < MaxCalls
    /\ writer # "waiting"
    /\ calls' = [calls EXCEPT ![c] = @ + 1]
    /\ caller' = [caller EXCEPT ![c] = IF sealed THEN "out" ELSE "select"]
    /\ UNCHANGED <<stop, sealed, writer, channel, loopVars, client, accepted>>

\* The select: room in the channel.
Send(c) ==
    /\ caller[c] = "select"
    /\ Len(channel) < Buffer
    /\ channel' = Append(channel, <<c, calls[c]>>)
    /\ accepted' = accepted \cup {<<c, calls[c]>>}
    /\ caller' = [caller EXCEPT ![c] = "unlock"]
    /\ UNCHANGED <<stop, sealed, writer, calls, loopVars, client>>

\* Mutant: only a queue that is sealed refuses.
RefuseSealed(c) ==
    /\ caller[c] = "select"
    /\ sealed
    /\ caller' = [caller EXCEPT ![c] = "unlock"]
    /\ UNCHANGED <<stop, sealed, writer, calls, channel, loopVars, client, accepted>>

\* The select: the queue stops, ErrQueueClosed.
Refuse(c) ==
    /\ caller[c] = "select"
    /\ stop
    /\ caller' = [caller EXCEPT ![c] = "unlock"]
    /\ UNCHANGED <<stop, sealed, writer, calls, channel, loopVars, client, accepted>>

\* The select: the caller's context is done.
TimeOut(c) ==
    /\ caller[c] = "select"
    /\ caller' = [caller EXCEPT ![c] = "unlock"]
    /\ UNCHANGED <<stop, sealed, writer, calls, channel, loopVars, client, accepted>>

\* RUnlock, on the way out.
Leave(c) ==
    /\ caller[c] = "unlock"
    /\ caller' = [caller EXCEPT ![c] = "out"]
    /\ UNCHANGED <<stop, sealed, writer, calls, channel, loopVars, client, accepted>>

-----------------------------------------------------------------------------
(* runProducer.                                                             *)

\* A payload goes from the channel to the batch; a full batch is sent.
Take(full, otherwise) ==
    /\ channel # <<>>
    /\ items' = Append(items, Head(channel))
    /\ channel' = Tail(channel)
    /\ loop' = IF Len(items) + 1 >= Buffer THEN full ELSE otherwise
    /\ UNCHANGED <<stop, sealed, writer, callerVars, client, accepted, flushed>>

Receive == loop = "run" /\ Take("flush", "run")

\* The ticker sends what there is.
FlushTick ==
    /\ loop = "run"
    /\ items # <<>>
    /\ loop' = "flush"
    /\ UNCHANGED <<stop, sealed, writer, callerVars, channel, items, client, accepted, flushed>>

\* Mutant: the batch is not started over.
FlushKeepsBatch ==
    /\ loop \in {"flush", "drainFlush", "lastFlush"}
    /\ flushed' = flushed \o items
    /\ loop' = CASE loop = "flush" -> "run"
                 [] loop = "drainFlush" -> "drain"
                 [] loop = "lastFlush" -> "exit"
    /\ UNCHANGED <<stop, sealed, writer, callerVars, channel, items, client, accepted>>

\* flush returns, with or without an error for a record, and the batch starts
\* over.
FlushReturns ==
    /\ loop \in {"flush", "drainFlush", "lastFlush"}
    /\ flushed' = flushed \o items
    /\ items' = <<>>
    /\ loop' = CASE loop = "flush" -> "run"
                 [] loop = "drainFlush" -> "drain"
                 [] loop = "lastFlush" -> "exit"
    /\ UNCHANGED <<stop, sealed, writer, callerVars, channel, client, accepted>>

ObserveStop ==
    /\ loop = "run"
    /\ stop
    /\ loop' = "sealing"
    /\ writer' = "waiting"
    /\ UNCHANGED <<stop, sealed, callerVars, channel, items, client, accepted, flushed>>

\* seal: the write lock is granted once no reader is left.
Seal ==
    /\ loop = "sealing"
    /\ Readers = {}
    /\ sealed' = TRUE
    /\ writer' = "done"
    /\ loop' = "drain"
    /\ UNCHANGED <<stop, callerVars, channel, items, client, accepted, flushed>>

Drain == loop = "drain" /\ Take("drainFlush", "drain")

\* Mutant: the last batch is not sent.
DrainedWithoutFlush ==
    /\ loop = "drain"
    /\ channel = <<>>
    /\ loop' = "exit"
    /\ UNCHANGED <<stop, sealed, writer, callerVars, channel, items, client, accepted, flushed>>

\* The channel is empty: the rest is sent, if there is any.
Drained ==
    /\ loop = "drain"
    /\ channel = <<>>
    /\ loop' = IF items = <<>> THEN "exit" ELSE "lastFlush"
    /\ UNCHANGED <<stop, sealed, writer, callerVars, channel, items, client, accepted, flushed>>

\* The loop returns and is counted off the loops CloseQueue waits for.
LoopEnds ==
    /\ loop = "exit"
    /\ loop' = "done"
    /\ UNCHANGED <<stop, sealed, writer, callerVars, channel, items, client, accepted, flushed>>

-----------------------------------------------------------------------------
(* CloseQueue.                                                              *)

CancelStop ==
    /\ ~stop
    /\ stop' = TRUE
    /\ UNCHANGED <<sealed, writer, callerVars, channel, loopVars, client, accepted>>

\* The client is closed when the loops have ended, or the caller's context has;
\* a flush after that returns with errors.
CloseClient ==
    /\ stop /\ client
    /\ client' = FALSE
    /\ UNCHANGED <<stop, sealed, writer, callerVars, channel, loopVars, accepted>>

\* Everything has stopped and nobody is left in a call.
Terminated ==
    /\ ~client /\ loop = "done"
    /\ Readers = {}
    /\ \A c \in Callers : calls[c] = MaxCalls
    /\ UNCHANGED vars

-----------------------------------------------------------------------------

Call(c) == Send(c) \/ Refuse(c) \/ TimeOut(c) \/ Leave(c)

LoopStep ==
    \/ Receive \/ FlushTick \/ FlushReturns \/ ObserveStop
    \/ Seal \/ Drain \/ Drained \/ LoopEnds

Next ==
    \/ \E c \in Callers : Enter(c) \/ Call(c)
    \/ LoopStep
    \/ CancelStop \/ CloseClient
    \/ Terminated

Spec == Init /\ [][Next]_vars

\* Calls are made or not as the callers like, and their contexts need not ever
\* be done; a goroutine inside Produce is scheduled, and so is the loop.  Go's
\* select chooses at random among the ready cases, so a stop that stays ready is
\* chosen in the end, however many payloads there are.
Fairness ==
    /\ \A c \in Callers : WF_vars(Send(c)) /\ WF_vars(Refuse(c)) /\ WF_vars(Leave(c))
    /\ WF_vars(LoopStep)
    /\ SF_vars(ObserveStop)
    /\ WF_vars(CloseClient)

FairSpec == Spec /\ Fairness

-----------------------------------------------------------------------------

Elements(s) == {s[i] : i \in DOMAIN s}

\* Nothing can land in the channel after the final drain, and the drain leaves
\* nothing behind: when the loop has ended, every payload whose Produce returned
\* nil has been flushed (kafka_queue.go:42-45, 198-200).
NothingLeftAtTheEnd ==
    loop = "done" => accepted = Elements(flushed) /\ channel = <<>> /\ items = <<>>

\* A payload is flushed at most once, and those of one caller in the order it
\* sent them: the batch is not reused and nothing overtakes in the channel.
FlushedOnceInOrder ==
    \A i, j \in DOMAIN flushed :
        i < j => \/ flushed[i][1] # flushed[j][1]
                 \/ flushed[i][2] < flushed[j][2]

\* A call of Produce returns, also when the channel is full and the queue stops:
\* otherwise sealing deadlocks (kafka_queue.go:98-105, kafka_queue_test.go:177).
ProduceReturns == \A c \in Callers : caller[c] = "select" ~> caller[c] = "out"

\* Once stopped, the loop seals the channel, flushes what is left and ends,
\* whatever the callers do (kafka_queue.go:223-237, 276-296).
StopEnds == stop ~> loop = "done" /\ ~client

\* The promise of PayloadQueue.
Abstract == INSTANCE PayloadQueue WITH
    pending <- accepted \ Elements(flushed),
    flushed <- Elements(flushed),
    closed  <- loop = "done"

ImplementsPayloadQueue == Abstract!Spec

\* Every accepted payload is flushed, once and in order, before the loop ends.
EachPayloadFlushedOnce == TypeOK /\ NothingLeftAtTheEnd /\ FlushedOnceInOrder

\* Neither a caller waiting for room nor the loop waiting for the callers' lock
\* waits for ever: each of the two depends on the other.
NobodyWaitsForEver == ProduceReturns /\ StopEnds
=============================================================================
