--------------------------- MODULE RunStoreProofs ---------------------------
(***************************************************************************)
(* The counters and the slots of the run state, for every set of runs and  *)
(* tasks and every limit: StoreInv is inductive under StoreNext, that is,  *)
(* under every method of RunStateManager.  Modules that call these methods *)
(* cite StoreStep and need no argument about cardinalities of their own.   *)
(* The last part proves the properties of RunState, in which any node      *)
(* calls any method at any time.                                           *)
(***************************************************************************)
EXTENDS RunState, FiniteSetTheorems, TLAPS

\* The counters are natural numbers only because they are exact, so the type
\* cannot be proved without CountersExact; and LinkBound follows from the guard
\* on links only because links is exact.
StoreInv ==
    /\ StoreTypeOK
    /\ CountersExact
    /\ SlotBound
    /\ LinkBound

-----------------------------------------------------------------------------

\* The sets the counters count, and the set of slots, are finite.
LEMMA StoreSetsFinite ==
    /\ \A r \in Runs : IsFiniteSet(Queued(r)) /\ IsFiniteSet(Admitted(r))
    /\ IsFiniteSet(SlotHolders)
    /\ IsFiniteSet({q \in Runs : Live(q)})
  <1>1. ASSUME NEW r \in Runs
        PROVE  IsFiniteSet(Queued(r)) /\ IsFiniteSet(Admitted(r))
    <2>1. Queued(r) \subseteq Tasks /\ Admitted(r) \subseteq Tasks
      BY DEF Queued, Admitted
    <2> QED BY <2>1, FS_Subset, StoreAssumption DEF StoreAssumption
  <1>2. SlotHolders \subseteq Runs /\ {q \in Runs : Live(q)} \subseteq Runs
    BY DEF SlotHolders
  <1> QED BY <1>1, <1>2, FS_Subset, StoreAssumption DEF StoreAssumption

\* The empty store: nobody holds a slot, nothing is admitted.
LEMMA StoreInitInv == StoreInit => StoreInv
  <1> SUFFICES ASSUME StoreInit PROVE StoreInv
    OBVIOUS
  <1> USE StoreAssumption DEF StoreAssumption
  <1>1. StoreTypeOK
    BY DEF StoreInit, StoreTypeOK, NoTasks, Status, NoSlot
  <1>2. \A r \in Runs : Queued(r) = {} /\ Admitted(r) = {}
    BY DEF StoreInit, NoTasks, Queued, Admitted
  <1>3. SlotHolders = {}
    BY DEF StoreInit, SlotHolders
  <1>4. \A r \in Runs : /\ Cardinality(Queued(r)) = 0
                        /\ Cardinality(Admitted(r)) = 0
    BY <1>2, FS_EmptySet, Zenon
  <1>5. Cardinality(SlotHolders) = 0
    BY <1>3, FS_EmptySet, Zenon
  <1>6. CountersExact /\ SlotBound /\ LinkBound
    BY <1>4, <1>5 DEF StoreInit, CountersExact, SlotBound, LinkBound
  <1> QED BY <1>1, <1>6 DEF StoreInv

\* A step that leaves the hash and the counters alone, and only renews, drops or
\* lets run down slots that were held, disturbs nothing.
LEMMA LeaseStep ==
    ASSUME StoreInv,
           lease' \in [Runs -> NoSlot .. LeaseLength],
           \A r \in Runs : lease'[r] # NoSlot => lease[r] # NoSlot,
           UNCHANGED <<status, active, links>>
    PROVE  StoreInv'
  <1> USE StoreAssumption DEF StoreAssumption
  <1>1. StoreTypeOK'
    BY DEF StoreInv, StoreTypeOK
  <1>2. CountersExact' /\ LinkBound'
    BY DEF StoreInv, CountersExact, LinkBound, Queued, Admitted
  <1>3. SlotHolders' \subseteq SlotHolders
    BY DEF SlotHolders
  <1>4. SlotBound'
    <2>1. Cardinality(SlotHolders') <= Cardinality(SlotHolders)
      BY <1>3, StoreSetsFinite, FS_Subset
    <2>2. Cardinality(SlotHolders) \in Nat
      BY StoreSetsFinite, FS_CardinalityType
    <2>3. Cardinality(SlotHolders') \in Nat
      BY <1>3, StoreSetsFinite, FS_Subset, FS_CardinalityType
    <2> QED BY <2>1, <2>2, <2>3 DEF StoreInv, SlotBound
  <1> QED BY <1>1, <1>2, <1>4 DEF StoreInv

\* What one HSET or HDEL does to the sets the counters count.
LEMMA HashUpdate ==
    ASSUME StoreTypeOK, NEW r \in Runs, NEW t \in Tasks, NEW v \in Status,
           status' = [status EXCEPT ![r][t] = v]
    PROVE  /\ status' \in [Runs -> [Tasks -> Status]]
           /\ Queued(r)' = IF v = "queued" THEN Queued(r) \cup {t}
                                          ELSE Queued(r) \ {t}
           /\ Admitted(r)' = IF v # "absent" THEN Admitted(r) \cup {t}
                                            ELSE Admitted(r) \ {t}
           /\ \A q \in Runs \ {r} : /\ Queued(q)' = Queued(q)
                                   /\ Admitted(q)' = Admitted(q)
  <1>1. status \in [Runs -> [Tasks -> Status]]
    BY DEF StoreTypeOK
  <1>2. status' \in [Runs -> [Tasks -> Status]]
    BY <1>1
  <1>3. \A s \in Tasks : status'[r][s] = IF s = t THEN v ELSE status[r][s]
    BY <1>1
  <1>4. \A q \in Runs \ {r} : status'[q] = status[q]
    BY <1>1
  <1>5. Queued(r)' = IF v = "queued" THEN Queued(r) \cup {t} ELSE Queued(r) \ {t}
    BY <1>3 DEF Queued
  <1>6. Admitted(r)' = IF v # "absent" THEN Admitted(r) \cup {t}
                                      ELSE Admitted(r) \ {t}
    BY <1>3 DEF Admitted
  <1>7. \A q \in Runs \ {r} : Queued(q)' = Queued(q) /\ Admitted(q)' = Admitted(q)
    BY <1>4 DEF Queued, Admitted
  <1> QED BY <1>2, <1>5, <1>6, <1>7

\* Admission: t was in neither set, and joins both; links was below the limit.
LEMMA AdmitStep ==
    ASSUME StoreInv, NEW r \in Runs, NEW t \in Tasks,
           AdmitReply(r, t) = "Admitted", AdmitTask(r, t)
    PROVE  StoreInv'
  <1> USE StoreAssumption DEF StoreAssumption
  <1>1. status[r][t] = "absent" /\ links[r] < MaxLinks[r]
    BY DEF AdmitReply, StoreInv, StoreTypeOK
  <1>2. /\ status' = [status EXCEPT ![r][t] = "queued"]
        /\ active' = [active EXCEPT ![r] = @ + 1]
        /\ links'  = [links  EXCEPT ![r] = @ + 1]
        /\ lease' = lease
    BY DEF AdmitTask
  <1>3. /\ status' \in [Runs -> [Tasks -> Status]]
        /\ Queued(r)' = Queued(r) \cup {t}
        /\ Admitted(r)' = Admitted(r) \cup {t}
        /\ \A q \in Runs \ {r} : Queued(q)' = Queued(q) /\ Admitted(q)' = Admitted(q)
    <2>1. "queued" \in Status
      BY DEF Status
    <2> QED BY <1>2, <2>1, HashUpdate DEF StoreInv
  <1>4. t \notin Queued(r) /\ t \notin Admitted(r)
    BY <1>1 DEF Queued, Admitted
  <1>5. /\ Cardinality(Queued(r)') = Cardinality(Queued(r)) + 1
        /\ Cardinality(Admitted(r)') = Cardinality(Admitted(r)) + 1
    <2>1. IsFiniteSet(Queued(r)) /\ IsFiniteSet(Admitted(r))
      BY StoreSetsFinite
    <2>2. /\ Cardinality(Queued(r) \cup {t}) = Cardinality(Queued(r)) + 1
          /\ Cardinality(Admitted(r) \cup {t}) = Cardinality(Admitted(r)) + 1
      BY <1>4, <2>1, FS_AddElement
    <2> QED BY <1>3, <2>2
  <1>6. StoreTypeOK'
    BY <1>2, <1>3 DEF StoreInv, StoreTypeOK
  <1>7. CountersExact'
    BY <1>2, <1>3, <1>5 DEF StoreInv, StoreTypeOK, CountersExact
  <1>8. LinkBound'
    <2>1. links[r] = Cardinality(Admitted(r)) /\ links[r] \in Nat /\ MaxLinks[r] \in Nat
      BY DEF StoreInv, StoreTypeOK, CountersExact
    <2>2. Cardinality(Admitted(r)') <= MaxLinks[r]
      BY <1>1, <1>5, <2>1
    <2> QED BY <1>3, <2>2 DEF StoreInv, LinkBound
  <1>9. SlotBound'
    BY <1>2 DEF StoreInv, SlotBound, SlotHolders
  <1> QED BY <1>6, <1>7, <1>8, <1>9 DEF StoreInv

\* An admission undone: t leaves both sets, so neither counter was zero.
LEMMA UnadmitStep ==
    ASSUME StoreInv, NEW r \in Runs, NEW t \in Tasks,
           status[r][t] = "queued", UnadmitTask(r, t)
    PROVE  StoreInv'
  <1> USE StoreAssumption DEF StoreAssumption
  <1>1. /\ status' = [status EXCEPT ![r][t] = "absent"]
        /\ active' = [active EXCEPT ![r] = @ - 1]
        /\ links'  = [links  EXCEPT ![r] = @ - 1]
        /\ lease' = lease
    BY DEF UnadmitTask
  <1>2. /\ status' \in [Runs -> [Tasks -> Status]]
        /\ Queued(r)' = Queued(r) \ {t}
        /\ Admitted(r)' = Admitted(r) \ {t}
        /\ \A q \in Runs \ {r} : Queued(q)' = Queued(q) /\ Admitted(q)' = Admitted(q)
    <2>1. "absent" \in Status
      BY DEF Status
    <2> QED BY <1>1, <2>1, HashUpdate DEF StoreInv
  <1>3. t \in Queued(r) /\ t \in Admitted(r)
    BY DEF Queued, Admitted
  <1>4. /\ Cardinality(Queued(r)') = Cardinality(Queued(r)) - 1
        /\ Cardinality(Admitted(r)') = Cardinality(Admitted(r)) - 1
        /\ Cardinality(Queued(r)') \in Nat
        /\ Cardinality(Admitted(r)') \in Nat
    BY <1>2, <1>3, StoreSetsFinite, FS_RemoveElement, FS_CardinalityType
  <1>5. \A q \in Runs : /\ active'[q] = Cardinality(Queued(q)')
                       /\ links'[q] = Cardinality(Admitted(q)')
    BY <1>1, <1>2, <1>4 DEF StoreInv, StoreTypeOK, CountersExact
  <1>6. StoreTypeOK'
    BY <1>1, <1>2, <1>4, <1>5 DEF StoreInv, StoreTypeOK
  <1>7. LinkBound'
    <2>1. Cardinality(Admitted(r)) \in Nat
      BY StoreSetsFinite, FS_CardinalityType
    <2>2. Cardinality(Admitted(r)) <= MaxLinks[r] /\ MaxLinks[r] \in Nat
      BY DEF StoreInv, LinkBound
    <2>3. Cardinality(Admitted(r)') <= MaxLinks[r]
      BY <1>4, <2>1, <2>2
    <2> QED BY <1>2, <2>3 DEF StoreInv, LinkBound
  <1>8. SlotBound'
    BY <1>1 DEF StoreInv, SlotBound, SlotHolders
  <1> QED BY <1>5, <1>6, <1>7, <1>8 DEF StoreInv, CountersExact

\* A counted completion: t leaves the queued ones and stays admitted.
LEMMA CompleteStep ==
    ASSUME StoreInv, NEW r \in Runs, NEW t \in Tasks,
           status[r][t] = "queued", CompleteTask(r, t)
    PROVE  StoreInv'
  <1> USE StoreAssumption DEF StoreAssumption
  <1>1. /\ status' = [status EXCEPT ![r][t] = "done"]
        /\ active' = [active EXCEPT ![r] = @ - 1]
        /\ lease' = Renewed(r)
        /\ links' = links
    BY DEF CompleteTask, CompleteReply
  <1>2. /\ status' \in [Runs -> [Tasks -> Status]]
        /\ Queued(r)' = Queued(r) \ {t}
        /\ Admitted(r)' = Admitted(r) \cup {t}
        /\ \A q \in Runs \ {r} : Queued(q)' = Queued(q) /\ Admitted(q)' = Admitted(q)
    <2>1. "done" \in Status /\ "done" # "queued" /\ "done" # "absent"
      BY DEF Status
    <2>2. StoreTypeOK
      BY DEF StoreInv
    <2> HIDE StoreAssumption
    <2> QED BY <1>1, <2>1, <2>2, HashUpdate, Zenon
  <1>3. t \in Queued(r) /\ Admitted(r)' = Admitted(r)
    BY <1>2 DEF Queued, Admitted
  <1>4. /\ Cardinality(Queued(r)') = Cardinality(Queued(r)) - 1
        /\ Cardinality(Queued(r)') \in Nat
    BY <1>2, <1>3, StoreSetsFinite, FS_RemoveElement, FS_CardinalityType
  <1>5. \A q \in Runs : /\ active'[q] = Cardinality(Queued(q)')
                       /\ links'[q] = Cardinality(Admitted(q)')
    BY <1>1, <1>2, <1>3, <1>4 DEF StoreInv, StoreTypeOK, CountersExact
  <1>6. StoreTypeOK'
    <2>1. active' \in [Runs -> Nat] /\ links' \in [Runs -> Nat]
      BY <1>1, <1>4, <1>5 DEF StoreInv, StoreTypeOK
    <2>2. lease' \in [Runs -> NoSlot .. LeaseLength]
      BY <1>1 DEF StoreInv, StoreTypeOK, Renewed, NoSlot
    <2> QED BY <1>2, <2>1, <2>2 DEF StoreTypeOK
  <1>7. LinkBound'
    BY <1>2, <1>3 DEF StoreInv, LinkBound
  <1>8. SlotBound'
    <2>1. SlotHolders' = SlotHolders
      BY <1>1 DEF StoreInv, StoreTypeOK, SlotHolders, Renewed, Live, NoSlot
    <2> QED BY <2>1 DEF StoreInv, SlotBound
  <1> QED BY <1>5, <1>6, <1>7, <1>8 DEF StoreInv, CountersExact

\* The three keys of a run gone at once.
LEMMA CleanupStep ==
    ASSUME StoreInv, NEW r \in Runs, CleanupRun(r)
    PROVE  StoreInv'
  <1> USE StoreAssumption DEF StoreAssumption
  <1>1. /\ status' = [status EXCEPT ![r] = NoTasks]
        /\ active' = [active EXCEPT ![r] = 0]
        /\ links'  = [links  EXCEPT ![r] = 0]
        /\ lease' = lease
    BY DEF CleanupRun
  <1>2. StoreTypeOK'
    BY <1>1 DEF StoreInv, StoreTypeOK, NoTasks, Status
  <1>3. Queued(r)' = {} /\ Admitted(r)' = {}
    BY <1>1 DEF StoreInv, StoreTypeOK, NoTasks, Queued, Admitted
  <1>4. Cardinality(Queued(r)') = 0 /\ Cardinality(Admitted(r)') = 0
    BY <1>3, FS_EmptySet, Zenon
  <1>5. \A q \in Runs \ {r} : Queued(q)' = Queued(q) /\ Admitted(q)' = Admitted(q)
    BY <1>1 DEF StoreInv, StoreTypeOK, Queued, Admitted
  <1>6. \A q \in Runs : /\ active'[q] = Cardinality(Queued(q)')
                       /\ links'[q] = Cardinality(Admitted(q)')
    BY <1>1, <1>4, <1>5 DEF StoreInv, StoreTypeOK, CountersExact
  <1>7. LinkBound'
    BY <1>4, <1>5 DEF StoreInv, LinkBound
  <1>8. SlotBound'
    BY <1>1 DEF StoreInv, SlotBound, SlotHolders
  <1> QED BY <1>2, <1>6, <1>7, <1>8 DEF StoreInv, CountersExact

\* After a reap only the live runs hold a slot; one more is let in only below
\* the limit.
LEMMA AcquireStep ==
    ASSUME StoreInv, NEW r \in Runs, AcquireRunSlot(r)
    PROVE  StoreInv'
  <1> USE StoreAssumption DEF StoreAssumption
  <1> DEFINE LiveRuns == {q \in Runs : Live(q)}
  <1>1. lease' = [q \in Runs |->
                    IF q = r /\ AcquireGranted(r) THEN LeaseLength
                    ELSE IF lease[q] = 0 THEN NoSlot ELSE lease[q]]
    BY DEF AcquireRunSlot
  <1>2. lease' \in [Runs -> NoSlot .. LeaseLength]
    BY <1>1 DEF StoreInv, StoreTypeOK, NoSlot
  <1>3. StoreTypeOK' /\ CountersExact' /\ LinkBound'
    BY <1>2 DEF StoreInv, StoreTypeOK, CountersExact, LinkBound, AcquireRunSlot,
                Queued, Admitted
  <1>4. IsFiniteSet(LiveRuns) /\ IsFiniteSet(SlotHolders)
    BY StoreSetsFinite
  <1>5. LiveRuns \subseteq SlotHolders
    BY DEF SlotHolders, Live, NoSlot
  <1>6. Cardinality(LiveRuns) \in Nat /\ Cardinality(SlotHolders) \in Nat
    BY <1>4, FS_CardinalityType
  <1>7. Cardinality(LiveRuns) <= MaxConcurrent
    <2>1. Cardinality(LiveRuns) <= Cardinality(SlotHolders)
      BY <1>4, <1>5, FS_Subset
    <2> QED BY <1>6, <2>1 DEF StoreInv, SlotBound
  <1>8. \A q \in Runs : lease'[q] # NoSlot <=> Live(q) \/ (q = r /\ AcquireGranted(r))
    <2>1. \A q \in Runs : lease[q] \in NoSlot .. LeaseLength
      BY DEF StoreInv, StoreTypeOK
    <2> QED BY <1>1, <2>1 DEF Live, NoSlot
  <1>9. CASE r \notin LiveRuns /\ AcquireGranted(r)
    <2>1. SlotHolders' = LiveRuns \cup {r}
      BY <1>8, <1>9 DEF SlotHolders
    <2>2. Cardinality(LiveRuns \cup {r}) = Cardinality(LiveRuns) + 1
      BY <1>4, <1>9, FS_AddElement
    <2>3. Cardinality(LiveRuns) < MaxConcurrent
      BY <1>9 DEF AcquireGranted
    <2> QED BY <1>3, <1>6, <2>1, <2>2, <2>3 DEF StoreInv, SlotBound
  <1>10. CASE r \in LiveRuns \/ ~AcquireGranted(r)
    <2>1. SlotHolders' = LiveRuns
      BY <1>8, <1>10 DEF SlotHolders
    <2> QED BY <1>3, <1>7, <2>1 DEF StoreInv, SlotBound
  <1> QED BY <1>9, <1>10

\* StoreInv survives every method of RunStateManager and every tick: whatever
\* calls the methods, in whatever order, the counters stay exact and the slots
\* and links within their limits (runstate_redis.go:26-103).
THEOREM StoreStep == StoreInv /\ [StoreNext]_store => StoreInv'
  <1> SUFFICES ASSUME StoreInv, [StoreNext]_store PROVE StoreInv'
    OBVIOUS
  <1> USE StoreAssumption DEF StoreAssumption
  <1>1. CASE UNCHANGED store
    BY <1>1 DEF store, StoreInv, StoreTypeOK, CountersExact, SlotBound, LinkBound,
                SlotHolders, Queued, Admitted
  <1>2. CASE LeaseTick
    <2>1. lease' \in [Runs -> NoSlot .. LeaseLength]
      BY <1>2 DEF LeaseTick, StoreInv, StoreTypeOK, Live, NoSlot
    <2>2. \A r \in Runs : lease'[r] # NoSlot => lease[r] # NoSlot
      BY <1>2 DEF LeaseTick, Live, NoSlot
    <2> QED BY <1>2, <2>1, <2>2, LeaseStep DEF LeaseTick
  <1>3. ASSUME NEW r \in Runs, AcquireRunSlot(r) PROVE StoreInv'
    BY <1>3, AcquireStep
  <1>4. ASSUME NEW r \in Runs, ReleaseRunSlot(r) PROVE StoreInv'
    <2>1. lease' \in [Runs -> NoSlot .. LeaseLength]
      BY <1>4 DEF ReleaseRunSlot, StoreInv, StoreTypeOK, NoSlot
    <2>2. \A q \in Runs : lease'[q] # NoSlot => lease[q] # NoSlot
      BY <1>4 DEF ReleaseRunSlot, StoreInv, StoreTypeOK
    <2> QED BY <1>4, <2>1, <2>2, LeaseStep DEF ReleaseRunSlot
  <1>5. ASSUME NEW r \in Runs, CleanupRun(r) \/ StateExpires(r) PROVE StoreInv'
    BY <1>5, CleanupStep DEF StateExpires
  <1>6. ASSUME NEW r \in Runs, NEW t \in Tasks, AdmitTask(r, t) PROVE StoreInv'
    BY <1>1, <1>6, AdmitStep DEF AdmitTask
  <1>7. ASSUME NEW r \in Runs, NEW t \in Tasks, UnadmitTask(r, t) PROVE StoreInv'
    BY <1>1, <1>7, UnadmitStep DEF UnadmitTask
  <1>8. ASSUME NEW r \in Runs, NEW t \in Tasks, TaskState(r, t) PROVE StoreInv'
    <2>1. lease' \in [Runs -> NoSlot .. LeaseLength]
      BY <1>8 DEF TaskState, Renewed, StoreInv, StoreTypeOK, NoSlot
    <2>2. \A q \in Runs : lease'[q] # NoSlot => lease[q] # NoSlot
      BY <1>8 DEF TaskState, Renewed, Live, NoSlot, StoreInv, StoreTypeOK
    <2> QED BY <1>8, <2>1, <2>2, LeaseStep DEF TaskState
  <1>9. ASSUME NEW r \in Runs, NEW t \in Tasks, CompleteTask(r, t) PROVE StoreInv'
    BY <1>1, <1>9, CompleteStep DEF CompleteTask, CompleteReply
  <1> QED BY <1>1, <1>2, <1>3, <1>4, <1>5, <1>6, <1>7, <1>8, <1>9 DEF StoreNext

-----------------------------------------------------------------------------
(* The run state under its most general client, RunState.  The store's part *)
(* of each of its steps is StoreStep; what is left is the history idle.     *)

\* The store's invariant, and the history that says the lease is long enough.
RunStateInv ==
    /\ StoreInv
    /\ RunStateTypeOK
    /\ ProgressKeepsSlot

\* Every step of RunState is one method, or a tick, of the store.
LEMMA CallIsStoreStep == RunStateNext => StoreNext
  BY DEF RunStateNext, StoreNext, CallAcquire, CallRelease, CallAdmit, CallUnadmit,
         CallTaskState, CallComplete, CallCleanup, KeysExpire, ClockTicks

\* Every step keeps the history in range, and the lease no shorter than what the
\* last sign of progress leaves of it.
LEMMA IdleHistoryStep ==
    ASSUME RunStateInv, StoreInv', [RunStateNext]_runStateVars
    PROVE  RunStateTypeOK' /\ ProgressKeepsSlot'
  <1> USE StoreAssumption DEF StoreAssumption
  <1>1. /\ lease \in [Runs -> NoSlot .. LeaseLength]
        /\ idle \in [Runs -> 0 .. LeaseLength]
        /\ \A r \in Runs : lease[r] # NoSlot => lease[r] + idle[r] >= LeaseLength
    BY DEF RunStateInv, RunStateTypeOK, StoreTypeOK, ProgressKeepsSlot, SlotHolders
  <1>2. SUFFICES /\ idle' \in [Runs -> 0 .. LeaseLength]
                 /\ \A r \in Runs : lease'[r] # NoSlot
                                      => lease'[r] + idle'[r] >= LeaseLength
    BY DEF StoreInv, RunStateTypeOK, ProgressKeepsSlot, SlotHolders
  <1>3. CASE UNCHANGED <<lease, idle>>
    BY <1>1, <1>3
  <1>4. CASE ClockTicks
    BY <1>1, <1>4 DEF ClockTicks, LeaseTick, Live, NoSlot
  <1>5. ASSUME NEW r \in Runs, CallAcquire(r)
        PROVE  /\ idle' \in [Runs -> 0 .. LeaseLength]
               /\ \A q \in Runs : lease'[q] # NoSlot
                                    => lease'[q] + idle'[q] >= LeaseLength
    BY <1>1, <1>5 DEF CallAcquire, AcquireRunSlot, ShowsProgress, NoSlot
  <1>6. ASSUME NEW r \in Runs, CallRelease(r)
        PROVE  /\ idle' \in [Runs -> 0 .. LeaseLength]
               /\ \A q \in Runs : lease'[q] # NoSlot
                                    => lease'[q] + idle'[q] >= LeaseLength
    BY <1>1, <1>6 DEF CallRelease, ReleaseRunSlot, NoSlot
  <1>7. ASSUME NEW r \in Runs, NEW t \in Tasks, CallTaskState(r, t)
        PROVE  /\ idle' \in [Runs -> 0 .. LeaseLength]
               /\ \A q \in Runs : lease'[q] # NoSlot
                                    => lease'[q] + idle'[q] >= LeaseLength
    <2>1. CASE Live(r)
      <3>1. /\ lease' = [lease EXCEPT ![r] = LeaseLength]
            /\ idle' = [idle EXCEPT ![r] = 0]
        BY <1>7, <2>1 DEF CallTaskState, TaskState, TaskStateReply, Renewed, ShowsProgress
      <3> QED BY <1>1, <3>1
    <2>2. CASE ~Live(r)
      <3>1. lease' = lease /\ idle' = idle
        BY <1>1, <1>7, <2>2 DEF CallTaskState, TaskState, TaskStateReply, Renewed
      <3> QED BY <1>1, <3>1
    <2> QED BY <2>1, <2>2
  <1>8. ASSUME NEW r \in Runs, NEW t \in Tasks, CallComplete(r, t)
        PROVE  /\ idle' \in [Runs -> 0 .. LeaseLength]
               /\ \A q \in Runs : lease'[q] # NoSlot
                                    => lease'[q] + idle'[q] >= LeaseLength
    BY <1>1, <1>8 DEF CallComplete, CompleteTask, CompleteReply, Renewed, Live, ShowsProgress,
                      NoSlot, store
  <1>9. ASSUME NEW r \in Runs,
               \/ CallCleanup(r) \/ KeysExpire(r)
               \/ \E t \in Tasks : CallAdmit(r, t) \/ CallUnadmit(r, t)
        PROVE  UNCHANGED <<lease, idle>>
    BY <1>9 DEF CallCleanup, KeysExpire, CallAdmit, CallUnadmit, CleanupRun, StateExpires, AdmitTask,
                UnadmitTask, store
  <1> QED BY <1>3, <1>4, <1>5, <1>6, <1>7, <1>8, <1>9 DEF RunStateNext, runStateVars

\* The inductive invariant of RunState, from which the theorems below follow.
LEMMA RunStateInductive == RunStateSpec => []RunStateInv
  <1>1. RunStateInit => RunStateInv
    <2> SUFFICES ASSUME RunStateInit PROVE RunStateInv
      OBVIOUS
    <2>1. StoreInv
      BY StoreInitInv DEF RunStateInit
    <2>2. idle \in [Runs -> 0 .. LeaseLength] /\ SlotHolders = {}
      BY StoreAssumption DEF RunStateInit, StoreInit, SlotHolders, StoreAssumption
    <2> QED BY <2>1, <2>2 DEF RunStateInv, StoreInv, RunStateTypeOK, ProgressKeepsSlot
  <1>2. RunStateInv /\ [RunStateNext]_runStateVars => RunStateInv'
    <2> SUFFICES ASSUME RunStateInv, [RunStateNext]_runStateVars PROVE RunStateInv'
      OBVIOUS
    <2>1. [StoreNext]_store
      BY CallIsStoreStep DEF runStateVars, store
    <2>2. StoreInv'
      BY <2>1, StoreStep DEF RunStateInv
    <2> QED BY <2>2, IdleHistoryStep DEF RunStateInv
  <1> QED BY <1>1, <1>2, PTL DEF RunStateSpec

\* RunState is type correct; the counters never go below zero.
THEOREM StoreTypeCorrect == RunStateSpec => []RunStateTypeOK
  <1>1. RunStateInv => RunStateTypeOK
    BY DEF RunStateInv
  <1> QED BY <1>1, RunStateInductive, PTL

\* Both counters always agree with the hash of tasks, whatever nodes do: the
\* zero CompleteTask reports is a true zero (runstate_redis.go:89-103).
THEOREM CountersCorrect == RunStateSpec => []CountersExact
  <1>1. RunStateInv => CountersExact
    BY DEF RunStateInv, StoreInv
  <1> QED BY <1>1, RunStateInductive, PTL

\* The number of runs holding a slot never exceeds MaxConcurrent
\* (runstate_redis.go:26-39).
THEOREM SlotsBounded == RunStateSpec => []SlotBound
  <1>1. RunStateInv => SlotBound
    BY DEF RunStateInv, StoreInv
  <1> QED BY <1>1, RunStateInductive, PTL

\* No run ever has more admitted tasks than its link limit
\* (runstate_redis.go:51-57).
THEOREM LinksBounded == RunStateSpec => []LinkBound
  <1>1. RunStateInv => LinkBound
    BY DEF RunStateInv, StoreInv
  <1> QED BY <1>1, RunStateInductive, PTL

\* A run that showed progress within the last lease still holds its slot's lease
\* (runstate_redis.go:80-82, 97-100).
THEOREM ProgressIsEnough == RunStateSpec => []ProgressKeepsSlot
  <1>1. RunStateInv => ProgressKeepsSlot
    BY DEF RunStateInv
  <1> QED BY <1>1, RunStateInductive, PTL

\* A task counted as done stays done until its run's state is dropped whole
\* (runstate_redis.go:41-103).
THEOREM StoreDoneStays == RunStateSpec => DoneIsFinal
  <1>1. RunStateInv /\ [RunStateNext]_runStateVars => [KeepsDone]_runStateVars
    <2> SUFFICES ASSUME RunStateInv, RunStateNext, NEW r \in Runs, NEW t \in Tasks,
                        status[r][t] = "done", status'[r][t] # "done"
                 PROVE  status'[r] = NoTasks /\ active'[r] = 0 /\ links'[r] = 0
      BY DEF KeepsDone, runStateVars
    <2>1. /\ status \in [Runs -> [Tasks -> Status]]
          /\ active \in [Runs -> Nat]
          /\ links \in [Runs -> Nat]
      BY DEF RunStateInv, RunStateTypeOK, StoreTypeOK
    <2>2. PICK q \in Runs :
             \/ CallCleanup(q) \/ KeysExpire(q)
             \/ \E s \in Tasks : CallAdmit(q, s) \/ CallUnadmit(q, s) \/ CallComplete(q, s)
      BY DEF RunStateNext, ClockTicks, LeaseTick, CallAcquire, AcquireRunSlot, CallRelease, ReleaseRunSlot,
             CallTaskState, TaskState
    <2>3. CASE CallCleanup(q) \/ KeysExpire(q)
      BY <2>1, <2>3 DEF CallCleanup, KeysExpire, CleanupRun, StateExpires
    <2>4. ASSUME NEW s \in Tasks, CallAdmit(q, s) PROVE FALSE
      BY <2>1, <2>4 DEF CallAdmit, AdmitTask, AdmitReply, store
    <2>5. ASSUME NEW s \in Tasks, CallUnadmit(q, s) PROVE FALSE
      BY <2>1, <2>5 DEF CallUnadmit, UnadmitTask, store
    <2>6. ASSUME NEW s \in Tasks, CallComplete(q, s) PROVE FALSE
      BY <2>1, <2>6 DEF CallComplete, CompleteTask, CompleteReply, store
    <2> QED BY <2>2, <2>3, <2>4, <2>5, <2>6
  <1> QED BY <1>1, RunStateInductive, PTL DEF RunStateSpec, DoneIsFinal

=============================================================================
