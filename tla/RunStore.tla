------------------------------ MODULE RunStore ------------------------------
(***************************************************************************)
(* The run state kept in Redis (runstates/runstate_redis.go), shared by    *)
(* every crawler node.  Each method of RedisRunStateManager is one Lua     *)
(* script or one command, so each is one atomic action here; what the      *)
(* script answers is the operator <Method>Reply, read in the state before  *)
(* the step.                                                               *)
(*                                                                         *)
(* This module holds the operations only.  RunState closes them under      *)
(* every order of calls; CrawlRun and RunDispatch call them from the       *)
(* program's handlers.                                                     *)
(***************************************************************************)
EXTENDS Integers, FiniteSets

CONSTANTS
    Runs,           \* run identifiers
    Tasks,          \* task identifiers (a hash of the run and the URL)
    MaxConcurrent,  \* run slots, crawler.run_workers
    MaxLinks,       \* MaxLinks[r]: the link limit run r carries
    LeaseLength     \* run_state.slot_lease, in ticks of the Redis clock

ASSUME StoreAssumption ==
    /\ IsFiniteSet(Runs)
    /\ IsFiniteSet(Tasks)
    /\ MaxConcurrent \in Nat
    /\ MaxLinks \in [Runs -> Nat]
    /\ LeaseLength \in Nat \ {0}

VARIABLES
    lease,   \* lease[r]: ticks left of r's slot, 0 once expired, NoSlot if none
    status,  \* status[r][t]: the run's hash of tasks
    active,  \* active[r]: the active-task counter
    links    \* links[r]: the current-links counter

store == <<lease, status, active, links>>

NoSlot == -1
Status == {"absent", "queued", "done"}

\* What CleanupRun leaves, and what a run nobody has seen yet looks like.
NoTasks == [t \in Tasks |-> "absent"]

Queued(r)   == {t \in Tasks : status[r][t] = "queued"}
Admitted(r) == {t \in Tasks : status[r][t] # "absent"}

\* A slot counts as live until its score is no longer after now.
Live(r) == lease[r] > 0

SlotHolders == {r \in Runs : lease[r] # NoSlot}

StoreTypeOK ==
    /\ lease  \in [Runs -> NoSlot .. LeaseLength]
    /\ status \in [Runs -> [Tasks -> Status]]
    /\ active \in [Runs -> Nat]
    /\ links  \in [Runs -> Nat]

StoreInit ==
    /\ lease  = [r \in Runs |-> NoSlot]
    /\ status = [r \in Runs |-> NoTasks]
    /\ active = [r \in Runs |-> 0]
    /\ links  = [r \in Runs |-> 0]

-----------------------------------------------------------------------------
(* Slots: the sorted set crawler:slots, scored by the end of the lease.     *)

\* Mutant: the slot limit is off by one.
AcquireOneTooMany(r) ==
    \/ Live(r)
    \/ Cardinality({q \in Runs : Live(q)}) <= MaxConcurrent

\* Expired slots are reaped first, so only live ones count against the limit.
AcquireGranted(r) ==
    \/ Live(r)
    \/ Cardinality({q \in Runs : Live(q)}) < MaxConcurrent

AcquireRunSlot(r) ==
    /\ lease' = [q \in Runs |->
                   IF q = r /\ AcquireGranted(r) THEN LeaseLength
                   ELSE IF lease[q] = 0 THEN NoSlot ELSE lease[q]]
    /\ UNCHANGED <<status, active, links>>

ReleaseRunSlot(r) ==
    /\ lease' = [lease EXCEPT ![r] = NoSlot]
    /\ UNCHANGED <<status, active, links>>

\* Mutant: no lease is ever renewed.
NotRenewed(r) == lease

\* ZADD XX of TaskState and CompleteTask: a live lease starts over, an expired
\* one stays expired.
Renewed(r) == [lease EXCEPT ![r] = IF Live(r) THEN LeaseLength ELSE @]

-----------------------------------------------------------------------------
(* Tasks: the hash of the run's tasks and its two counters.                 *)

\* Mutant: the link limit is off by one.
AdmitReplyOneTooMany(r, t) ==
    IF ~Live(r) THEN "RunInactive"
    ELSE IF status[r][t] # "absent" THEN "Duplicate"
    ELSE IF links[r] > MaxLinks[r] THEN "LimitReached"
    ELSE "Admitted"

AdmitReply(r, t) ==
    IF ~Live(r) THEN "RunInactive"
    ELSE IF status[r][t] # "absent" THEN "Duplicate"
    ELSE IF links[r] >= MaxLinks[r] THEN "LimitReached"
    ELSE "Admitted"

AdmitTask(r, t) ==
    IF AdmitReply(r, t) = "Admitted"
    THEN /\ status' = [status EXCEPT ![r][t] = "queued"]
         /\ active' = [active EXCEPT ![r] = @ + 1]
         /\ links'  = [links  EXCEPT ![r] = @ + 1]
         /\ UNCHANGED lease
    ELSE UNCHANGED store

\* Mutant: links is not counted down.
UnadmitKeepsLinks(r, t) ==
    IF status[r][t] = "queued"
    THEN /\ status' = [status EXCEPT ![r][t] = "absent"]
         /\ active' = [active EXCEPT ![r] = @ - 1]
         /\ UNCHANGED <<lease, links>>
    ELSE UNCHANGED store

\* Mutant: a task is taken out whatever became of it.
UnadmitAnything(r, t) ==
    IF status[r][t] # "absent"
    THEN /\ status' = [status EXCEPT ![r][t] = "absent"]
         /\ active' = [active EXCEPT ![r] = @ - 1]
         /\ links'  = [links  EXCEPT ![r] = @ - 1]
         /\ UNCHANGED lease
    ELSE UNCHANGED store

UnadmitTask(r, t) ==
    IF status[r][t] = "queued"
    THEN /\ status' = [status EXCEPT ![r][t] = "absent"]
         /\ active' = [active EXCEPT ![r] = @ - 1]
         /\ links'  = [links  EXCEPT ![r] = @ - 1]
         /\ UNCHANGED lease
    ELSE UNCHANGED store

TaskStateReply(r, t) == [runActive |-> Live(r), done |-> status[r][t] = "done"]

TaskState(r, t) ==
    /\ lease' = Renewed(r)
    /\ UNCHANGED <<status, active, links>>

\* Mutant: the count is read before it is taken down.
CompleteReplyBefore(r, t) ==
    IF status[r][t] = "queued" THEN [counted |-> TRUE,  left |-> active[r]]
                               ELSE [counted |-> FALSE, left |-> 0]

CompleteReply(r, t) ==
    IF status[r][t] = "queued" THEN [counted |-> TRUE,  left |-> active[r] - 1]
                               ELSE [counted |-> FALSE, left |-> 0]

\* Mutant: a task done before is counted down again.
CompleteAgain(r, t) ==
    IF status[r][t] # "absent"
    THEN /\ status' = [status EXCEPT ![r][t] = "done"]
         /\ active' = [active EXCEPT ![r] = @ - 1]
         /\ lease'  = Renewed(r)
         /\ UNCHANGED links
    ELSE UNCHANGED store

CompleteTask(r, t) ==
    IF CompleteReply(r, t).counted
    THEN /\ status' = [status EXCEPT ![r][t] = "done"]
         /\ active' = [active EXCEPT ![r] = @ - 1]
         /\ lease'  = Renewed(r)
         /\ UNCHANGED links
    ELSE UNCHANGED store

CleanupRun(r) ==
    /\ status' = [status EXCEPT ![r] = NoTasks]
    /\ active' = [active EXCEPT ![r] = 0]
    /\ links'  = [links  EXCEPT ![r] = 0]
    /\ UNCHANGED lease

-----------------------------------------------------------------------------
(* Time.                                                                    *)

\* Mutant: a lease never reaches its end.
LeaseTickStops ==
    /\ lease' = [r \in Runs |-> IF lease[r] > 1 THEN lease[r] - 1 ELSE lease[r]]
    /\ UNCHANGED <<status, active, links>>

\* One tick of the Redis clock runs every lease down.
LeaseTick ==
    /\ lease' = [r \in Runs |-> IF Live(r) THEN lease[r] - 1 ELSE lease[r]]
    /\ UNCHANGED <<status, active, links>>

\* The ttl of the three keys of a run, set together by every admission, runs
\* out: the hash and both counters go at once.  The slot has no ttl.
StateExpires(r) == CleanupRun(r)

\* Any one method, called by anyone: all that can happen to the store.
StoreNext ==
    \/ LeaseTick
    \/ \E r \in Runs :
          \/ AcquireRunSlot(r) \/ ReleaseRunSlot(r)
          \/ CleanupRun(r) \/ StateExpires(r)
          \/ \E t \in Tasks :
                \/ AdmitTask(r, t) \/ UnadmitTask(r, t)
                \/ TaskState(r, t) \/ CompleteTask(r, t)

-----------------------------------------------------------------------------
(* What the counters and the slots promise, whoever calls.                  *)

\* The two counters say what the hash says: active is the number of tasks still
\* queued, links the number ever admitted.  CompleteTask declares a run finished
\* on active alone, and AdmitTask limits it on links alone
\* (runstate_redis.go:51-57, 95-102).
CountersExact ==
    \A r \in Runs : /\ active[r] = Cardinality(Queued(r))
                    /\ links[r]  = Cardinality(Admitted(r))

\* No more than MaxConcurrent runs hold a slot, expired ones included: the
\* check-and-add of acquireSlotScript admits no run too many, whatever was
\* reaped, renewed or released around it (runstate_redis.go:26-39).
SlotBound == Cardinality(SlotHolders) <= MaxConcurrent

\* No run ever has more tasks than its link limit, through any mix of
\* admissions, undone admissions and completions (runstate_redis.go:51-57).
LinkBound == \A r \in Runs : Cardinality(Admitted(r)) <= MaxLinks[r]

=============================================================================
