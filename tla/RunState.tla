------------------------------ MODULE RunState ------------------------------
(***************************************************************************)
(* The run state under its most general client: any node may call any      *)
(* method of RunStateManager (runstates/runstate.go) at any time with any  *)
(* run and task, as redelivered messages and crashed nodes make them do.   *)
(* What holds here holds in every program that reaches Redis only through  *)
(* this interface.                                                         *)
(***************************************************************************)
EXTENDS RunStore

VARIABLE idle  \* history: ticks since run r last acquired its slot, started a
               \* task or finished one while its slot was live

runStateVars == <<lease, status, active, links, idle>>

RunStateTypeOK ==
    /\ StoreTypeOK
    /\ idle \in [Runs -> 0 .. LeaseLength]

RunStateInit ==
    /\ StoreInit
    /\ idle = [r \in Runs |-> 0]

ShowsProgress(r) == idle' = [idle EXCEPT ![r] = 0]

-----------------------------------------------------------------------------

CallAcquire(r) ==
    /\ AcquireRunSlot(r)
    /\ IF AcquireGranted(r) THEN ShowsProgress(r) ELSE UNCHANGED idle

CallRelease(r) == ReleaseRunSlot(r) /\ UNCHANGED idle

CallAdmit(r, t) == AdmitTask(r, t) /\ UNCHANGED idle

CallUnadmit(r, t) == UnadmitTask(r, t) /\ UNCHANGED idle

CallTaskState(r, t) ==
    /\ TaskState(r, t)
    /\ IF TaskStateReply(r, t).runActive THEN ShowsProgress(r) ELSE UNCHANGED idle

CallComplete(r, t) ==
    /\ CompleteTask(r, t)
    /\ IF CompleteReply(r, t).counted /\ Live(r)
       THEN ShowsProgress(r) ELSE UNCHANGED idle

CallCleanup(r) == CleanupRun(r) /\ UNCHANGED idle

KeysExpire(r) == StateExpires(r) /\ UNCHANGED idle

ClockTicks ==
    /\ LeaseTick
    /\ idle' = [r \in Runs |-> IF idle[r] < LeaseLength THEN idle[r] + 1
                                                         ELSE idle[r]]

RunStateNext ==
    \/ ClockTicks
    \/ \E r \in Runs :
          \/ CallAcquire(r) \/ CallRelease(r) \/ CallCleanup(r) \/ KeysExpire(r)
          \/ \E t \in Tasks :
                CallAdmit(r, t) \/ CallUnadmit(r, t) \/ CallTaskState(r, t) \/ CallComplete(r, t)

RunStateSpec == RunStateInit /\ [][RunStateNext]_runStateVars

-----------------------------------------------------------------------------

\* A run that keeps starting or finishing tasks keeps its slot: the lease still
\* has what is left of a full one since the last sign of progress, so nobody can
\* reap a run that is at work (runstate.go:35, "a task starting is proof of
\* progress"; runstate_redis.go:80-82, 97-100).
ProgressKeepsSlot ==
    \A r \in SlotHolders : lease[r] + idle[r] >= LeaseLength

\* A finished task is counted down once: while the run's state exists, done is
\* final - no late Unadmit, repeated admission or second completion of a
\* redelivered message takes it back (runstate.go:24-26, "idempotent").
KeepsDone ==
    \A r \in Runs, t \in Tasks :
        status[r][t] = "done" /\ status'[r][t] # "done"
           => status'[r] = NoTasks /\ active'[r] = 0 /\ links'[r] = 0

DoneIsFinal == [][KeepsDone]_runStateVars

=============================================================================
