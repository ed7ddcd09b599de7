------------------------------ MODULE JobProofs ------------------------------
(***************************************************************************)
(* Theorems about JobLifecycle, for every value of its constants.          *)
(***************************************************************************)
EXTENDS JobProperties, TLAPS

-----------------------------------------------------------------------------
(* The records that the actions store have the type of their variable.     *)
LEMMA DispatchRecords ==
  /\ DispatchIdle \in DispatchType
  /\ \A d \in DispatchType, pc \in {"later", "lookup", "open", "missing", "granted", "refused"} :
       [d EXCEPT !.pc = pc] \in DispatchType
  /\ \A pc \in {"later", "lookup", "granted"}, origin \in {"enqueue", "due", "retry", "retryAll"} :
       [pc |-> pc, origin |-> origin] \in DispatchType
BY DEF DispatchType, DispatchIdle

LEMMA SemaphoreRecords ==
  /\ NoSemaphore \in SemaphoreType
  /\ \A s \in SemaphoreType, limit \in Int : Taken(s, limit) \in SemaphoreType
  /\ \A limit : \A s \in SemaphoreType : Signalled(s, limit) \in SemaphoreType
  /\ \A s \in SemaphoreType : [s EXCEPT !.expired = TRUE] \in SemaphoreType
<1>1. NoSemaphore \in SemaphoreType
  BY DEF SemaphoreType, NoSemaphore
<1>2. ASSUME NEW s \in SemaphoreType, NEW limit \in Int
      PROVE  Taken(s, limit) \in SemaphoreType
  BY DEF SemaphoreType, Taken
<1>3. ASSUME NEW s \in SemaphoreType, NEW limit
      PROVE  Signalled(s, limit) \in SemaphoreType
  BY DEF SemaphoreType, Signalled
<1>4. ASSUME NEW s \in SemaphoreType
      PROVE  [s EXCEPT !.expired = TRUE] \in SemaphoreType
  BY DEF SemaphoreType
<1>5. QED
  BY <1>1, <1>2, <1>3, <1>4

LEMMA ThreadRecords ==
  /\ ThreadIdle \in ThreadType
  /\ \A j \in Jobs : [pc |-> "posted", job |-> j] \in ThreadType
  /\ \A j \in Jobs : AfterWork(j) \in ThreadType
  /\ \A d \in ThreadType : d.pc # "idle" =>
       /\ d.job \in Jobs
       /\ \A pc \in {"running", "raised", "release"} : [d EXCEPT !.pc = pc] \in ThreadType
BY DEF ThreadType, ThreadIdle, AfterWork

LEMMA CleanerRecords ==
  /\ CleanerIdle \in CleanerType
  /\ \A mode \in {"reap", "prune", "orphans", "release"}, p \in Procs \cup {NoProc},
        todo \in SUBSET (Jobs \X Threads) :
       [mode |-> mode, proc |-> p, todo |-> todo, pc |-> "next", job |-> NoJob] \in CleanerType
  /\ \A d \in CleanerType :
       /\ d.todo \in SUBSET (Jobs \X Threads)
       /\ \A todo \in SUBSET (Jobs \X Threads) :
            /\ [d EXCEPT !.todo = todo] \in CleanerType
            /\ [d EXCEPT !.todo = todo, !.pc = "next", !.job = NoJob] \in CleanerType
            /\ \A j \in Jobs : [d EXCEPT !.todo = todo, !.pc = "signal", !.job = j] \in CleanerType
       /\ d.pc # "next" => [d EXCEPT !.pc = "release"] \in CleanerType
       /\ [d EXCEPT !.pc = "next", !.job = NoJob] \in CleanerType
<1>1. CleanerIdle \in CleanerType
  BY DEF CleanerType, CleanerIdle
<1>2. ASSUME NEW mode \in {"reap", "prune", "orphans", "release"}, NEW p \in Procs \cup {NoProc},
             NEW todo \in SUBSET (Jobs \X Threads)
      PROVE  [mode |-> mode, proc |-> p, todo |-> todo, pc |-> "next", job |-> NoJob]
               \in CleanerType
  BY DEF CleanerType
<1>3. ASSUME NEW d \in CleanerType
      PROVE  /\ d.todo \in SUBSET (Jobs \X Threads)
             /\ d.pc # "next" => [d EXCEPT !.pc = "release"] \in CleanerType
             /\ [d EXCEPT !.pc = "next", !.job = NoJob] \in CleanerType
  BY DEF CleanerType
<1>4. ASSUME NEW d \in CleanerType, NEW todo \in SUBSET (Jobs \X Threads)
      PROVE  /\ [d EXCEPT !.todo = todo] \in CleanerType
             /\ [d EXCEPT !.todo = todo, !.pc = "next", !.job = NoJob] \in CleanerType
  BY DEF CleanerType
<1>5. ASSUME NEW d \in CleanerType, NEW todo \in SUBSET (Jobs \X Threads), NEW j \in Jobs
      PROVE  [d EXCEPT !.todo = todo, !.pc = "signal", !.job = j] \in CleanerType
  BY DEF CleanerType
<1>6. QED
  BY <1>1, <1>2, <1>3, <1>4, <1>5
-----------------------------------------------------------------------------
(* Starting or advancing a dispatch keeps the type of dispatch.            *)
LEMMA StartTypes ==
  ASSUME TypeOK, NEW j \in Jobs,
         NEW pc \in {"later", "lookup", "granted"},
         NEW origin \in {"enqueue", "due", "retry", "retryAll"},
         StartDispatch(j, pc, origin)
  PROVE  dispatch' \in [Jobs -> DispatchType]
<1>1. [pc |-> pc, origin |-> origin] \in DispatchType
  BY DispatchRecords
<1>2. QED
  BY <1>1 DEF TypeOK, StartDispatch

LEMMA GoToTypes ==
  ASSUME TypeOK, NEW j \in Jobs,
         NEW pc \in {"missing", "open", "granted", "refused"}, GoTo(j, pc)
  PROVE  dispatch' \in [Jobs -> DispatchType]
<1>1. [dispatch[j] EXCEPT !.pc = pc] \in DispatchType
  BY DispatchRecords DEF TypeOK
<1>2. QED
  BY <1>1 DEF TypeOK, GoTo

(* Storing a row in the table of semaphores, for a key of it or any other. *)
LEMMA SemaphoreStored ==
  ASSUME NEW f \in [Keys -> SemaphoreType], NEW k, NEW s,
         k \in Keys => s \in SemaphoreType
  PROVE  [f EXCEPT ![k] = s] \in [Keys -> SemaphoreType]
OBVIOUS

(* What release_one writes has its type, whatever key it is called with.   *)
LEMMA ReleaseTypes ==
  ASSUME TypeOK, NEW k, ReleaseOne(k)
  PROVE  /\ semaphore' \in [Keys -> SemaphoreType] /\ blocked' \subseteq Jobs
         /\ ready' \in [Jobs -> {"none", "own", "blank"}]
<1>1. CASE UNCHANGED <<semaphore, ready, blocked>>
  BY <1>1 DEF TypeOK
<1>2. ASSUME NEW j \in BlockedOn(k),
             semaphore' = [semaphore EXCEPT ![k] = Taken(@, LimitOf[j])],
             ready' = [ready EXCEPT ![j] = "blank"],
             blocked' = blocked \ {j}
      PROVE  /\ semaphore' \in [Keys -> SemaphoreType] /\ blocked' \subseteq Jobs
             /\ ready' \in [Jobs -> {"none", "own", "blank"}]
  <2>1. j \in Jobs /\ LimitOf[j] \in Int
    BY ConstantsOK DEF BlockedOn, TypeOK
  <2>2. k \in Keys => Taken(semaphore[k], LimitOf[j]) \in SemaphoreType
    BY <2>1, SemaphoreRecords DEF TypeOK
  <2>3. QED
    BY <1>2, <2>1, <2>2, SemaphoreStored DEF TypeOK
<1>3. QED
  BY <1>1, <1>2 DEF ReleaseOne
-----------------------------------------------------------------------------
(* Every variable keeps its type: each action of clients, dispatchers,     *)
(* workers and supervisors writes rows of the shape the tables allow.      *)
THEOREM TypeCorrect == Spec => []TypeOK
<1> USE ConstantsOK DEF Cleaners
<1>1. Init => TypeOK
  <2>1. /\ DispatchIdle \in DispatchType /\ NoSemaphore \in SemaphoreType
        /\ ThreadIdle \in ThreadType /\ CleanerIdle \in CleanerType
    BY DispatchRecords, SemaphoreRecords, ThreadRecords, CleanerRecords
  <2>2. QED
    BY <2>1 DEF Init, TypeOK
<1>2. TypeOK /\ [Next]_vars => TypeOK'
  <2> SUFFICES ASSUME TypeOK, [Next]_vars
               PROVE  TypeOK'
    OBVIOUS
  <2> USE DEF TypeOK, rows
  <2>1. ASSUME NEW j \in Jobs, Insert(j) PROVE TypeOK'
    <3>1. dispatch' \in [Jobs -> DispatchType]
      BY <2>1, StartTypes DEF Insert, FirstStep
    <3>2. job' \in [Jobs -> {"new", "live", "finished", "gone"}]
      BY <2>1 DEF Insert
    <3>3. QED
      BY <2>1, <3>1, <3>2 DEF Insert
  <2>2. ASSUME NEW j \in Jobs, Schedule(j) PROVE TypeOK'
    BY <2>2, DispatchRecords DEF Schedule, EndDispatch
  <2>3. ASSUME NEW j \in Jobs, LookUp(j) PROVE TypeOK'
    <3>1. dispatch' \in [Jobs -> DispatchType]
      BY <2>3, GoToTypes DEF LookUp
    <3>2. QED
      BY <2>3, <3>1 DEF LookUp
  <2>4. ASSUME NEW j \in Jobs, Decrement(j) PROVE TypeOK'
    <3>1. dispatch' \in [Jobs -> DispatchType]
      BY <2>4, GoToTypes DEF Decrement
    <3>2. KeyOf[j] \in Keys => Taken(semaphore[KeyOf[j]], LimitOf[j]) \in SemaphoreType
      <4>1. LimitOf[j] \in Int
        OBVIOUS
      <4>2. QED
        BY <4>1, SemaphoreRecords
    <3>3. [semaphore EXCEPT ![KeyOf[j]] = Taken(semaphore[KeyOf[j]], LimitOf[j])]
            \in [Keys -> SemaphoreType]
      BY <3>2, SemaphoreStored
    <3>5. semaphore' \in [Keys -> SemaphoreType]
      BY <2>4, <3>3 DEF Decrement
    <3>4. QED
      BY <2>4, <3>1, <3>5 DEF Decrement
  <2>5. ASSUME NEW j \in Jobs, Create(j) PROVE TypeOK'
    <3>1. dispatch' \in [Jobs -> DispatchType]
      BY <2>5, GoToTypes DEF Create
    <3>2. KeyOf[j] \in Keys => Taken(semaphore[KeyOf[j]], LimitOf[j]) \in SemaphoreType
      <4>1. LimitOf[j] \in Int
        OBVIOUS
      <4>2. QED
        BY <4>1, SemaphoreRecords
    <3>3. [semaphore EXCEPT ![KeyOf[j]] = Taken(semaphore[KeyOf[j]], LimitOf[j])]
            \in [Keys -> SemaphoreType]
      BY <3>2, SemaphoreStored
    <3>5. semaphore' \in [Keys -> SemaphoreType]
      BY <2>5, <3>3 DEF Create
    <3>4. QED
      BY <2>5, <3>1, <3>5 DEF Create
  <2>6. ASSUME NEW j \in Jobs, DispatchToReady(j) PROVE TypeOK'
    <3>1. dispatch' \in [Jobs -> DispatchType]
      BY <2>6, DispatchRecords DEF DispatchToReady, EndDispatch
    <3>2. /\ ready' \in [Jobs -> {"none", "own", "blank"}]
          /\ scheduled' \subseteq Jobs /\ failed' \subseteq Jobs
      <4>1. CASE BulkInsertClashes(j)
        BY <2>6, <4>1 DEF DispatchToReady
      <4>2. CASE ~BulkInsertClashes(j)
        <5>1. ready' = [ready EXCEPT ![j] = IF ready[j] = "none" THEN "own" ELSE ready[j]]
          BY <2>6, <4>2 DEF DispatchToReady
        <5>2. scheduled' \subseteq Jobs /\ failed' \subseteq Jobs
          BY <2>6, <4>2 DEF DispatchToReady, RemoveOrigin
        <5>3. QED
          BY <5>1, <5>2
      <4>3. QED
        BY <4>1, <4>2
    <3>3. UNCHANGED <<job, blocked, claimed, semaphore, doomed, thread, process, registered,
                      cleaner>>
      BY <2>6 DEF DispatchToReady
    <3>4. QED
      BY <3>1, <3>2, <3>3
  <2>7. ASSUME NEW j \in Jobs, DispatchToBlocked(j) PROVE TypeOK'
    BY <2>7, DispatchRecords DEF DispatchToBlocked, EndDispatch, RemoveOrigin
  <2>8. ASSUME NEW j \in Jobs, ClientCrash(j) PROVE TypeOK'
    BY <2>8, DispatchRecords DEF ClientCrash, EndDispatch
  <2>9. ASSUME NEW j \in Jobs, DispatchDue(j) PROVE TypeOK'
    <3>1. dispatch' \in [Jobs -> DispatchType]
      BY <2>9, StartTypes DEF DispatchDue, FirstStep
    <3>2. QED
      BY <2>9, <3>1 DEF DispatchDue
  <2>10. ASSUME NEW j \in Jobs, Retry(j) PROVE TypeOK'
    <3>1. dispatch' \in [Jobs -> DispatchType]
      BY <2>10, StartTypes DEF Retry, FirstStep
    <3>2. QED
      BY <2>10, <3>1 DEF Retry
  <2>11. ASSUME NEW j \in Jobs, Discard(j) PROVE TypeOK'
    BY <2>11 DEF Discard
  <2>12. ASSUME NEW k \in Keys, Expire(k) PROVE TypeOK'
    BY <2>12, SemaphoreRecords DEF Expire
  <2>13. ASSUME NEW k \in Keys, DeleteSemaphore(k) PROVE TypeOK'
    BY <2>13, SemaphoreRecords DEF DeleteSemaphore
  <2>14. ASSUME NEW k \in Keys, Unblock(k) PROVE TypeOK'
    <3>1. ReleaseOne(k)
      BY <2>14 DEF Unblock
    <3>2. /\ semaphore' \in [Keys -> SemaphoreType] /\ blocked' \subseteq Jobs
          /\ ready' \in [Jobs -> {"none", "own", "blank"}]
      BY <3>1, ReleaseTypes
    <3>3. QED
      BY <2>14, <3>2 DEF Unblock
  <2>15. CASE ReadExpired
    BY <2>15 DEF ReadExpired
  <2>16. ASSUME NEW t \in Threads, NEW j \in Jobs, Claim(t, j) PROVE TypeOK'
    BY <2>16, ThreadRecords DEF Claim
  <2>17. ASSUME NEW t \in Threads, Start(t) PROVE TypeOK'
    BY <2>17, ThreadRecords DEF Start
  <2>18. ASSUME NEW t \in Threads, Raise(t) PROVE TypeOK'
    BY <2>18, ThreadRecords DEF Raise
  <2>19. ASSUME NEW t \in Threads, Finish(t) PROVE TypeOK'
    <3>1. thread' \in [Threads -> ThreadType]
      <4>1. thread[t] \in ThreadType /\ thread[t].pc = "running"
        BY <2>19 DEF Finish
      <4>2. [thread[t] EXCEPT !.pc = "raised"] \in ThreadType
        BY <4>1 DEF ThreadType
      <4>3. \/ thread' = [thread EXCEPT ![t] = AfterWork(thread[t].job)]
            \/ thread' = [thread EXCEPT ![t] = [thread[t] EXCEPT !.pc = "raised"]]
        BY <2>19 DEF Finish
      <4>4. AfterWork(thread[t].job) \in ThreadType
        BY <4>1, ThreadRecords
      <4>5. QED
        BY <4>2, <4>3, <4>4
    <3>2. claimed' \in [Jobs -> Threads \cup {NoThread}]
      BY <2>19 DEF Finish, WithoutRow
    <3>3. job' \in [Jobs -> {"new", "live", "finished", "gone"}]
      BY <2>19 DEF Finish
    <3>4. QED
      BY <2>19, <3>1, <3>2, <3>3 DEF Finish
  <2>20. ASSUME NEW t \in Threads, FinishByDelete(t) PROVE TypeOK'
    BY <2>20, ThreadRecords DEF FinishByDelete
  <2>21. ASSUME NEW t \in Threads, FinishRaises(t) PROVE TypeOK'
    BY <2>21, ThreadRecords DEF FinishRaises
  <2>22. ASSUME NEW t \in Threads, Fail(t) PROVE TypeOK'
    <3>1. thread' \in [Threads -> ThreadType]
      BY <2>22, ThreadRecords DEF Fail
    <3>2. claimed' \in [Jobs -> Threads \cup {NoThread}]
      BY <2>22 DEF Fail, WithoutRow
    <3>3. failed' \subseteq Jobs
      <4>1. thread[t] \in ThreadType /\ thread[t].pc # "idle"
        BY <2>22 DEF Fail
      <4>2. thread[t].job \in Jobs
        BY <4>1, ThreadRecords
      <4>3. QED
        BY <2>22, <4>2 DEF Fail
    <3>4. QED
      BY <2>22, <3>1, <3>2, <3>3 DEF Fail
  <2>23. ASSUME NEW t \in Threads, Signal(t) PROVE TypeOK'
    BY <2>23, ThreadRecords, SemaphoreRecords DEF Signal, SignalFor, NextAfterSignal
  <2>24. ASSUME NEW t \in Threads, Release(t) PROVE TypeOK'
    <3>1. ReleaseOne(KeyOf[thread[t].job])
      BY <2>24 DEF Release
    <3>2. /\ semaphore' \in [Keys -> SemaphoreType] /\ blocked' \subseteq Jobs
          /\ ready' \in [Jobs -> {"none", "own", "blank"}]
      BY <3>1, ReleaseTypes
    <3>3. QED
      BY <2>24, <3>2, ThreadRecords DEF Release
  <2>25. ASSUME NEW p \in Procs, Shutdown(p) PROVE TypeOK'
    BY <2>25, ThreadRecords, CleanerRecords DEF Shutdown, CancelPosted, StartCleaning, RowsOf
  <2>26. ASSUME NEW p \in Procs, LoseRegistration(p) PROVE TypeOK'
    BY <2>26, ThreadRecords DEF LoseRegistration, CancelPosted
  <2>27. ASSUME NEW p \in Procs, Crash(p) PROVE TypeOK'
    BY <2>27, ThreadRecords, CleanerRecords DEF Crash
  <2>28. ASSUME NEW s \in Supervisors, FailOrphans(s) PROVE TypeOK'
    BY <2>28, CleanerRecords DEF FailOrphans, StartCleaning, Orphans
  <2>29. ASSUME NEW s \in Supervisors, NEW p \in Procs,
                Reap(s, p) \/ Prune(s, p) \/ Deregister(s, p)
         PROVE  TypeOK'
    <3>1. RowsOf(p) \in SUBSET (Jobs \X Threads)
      BY DEF RowsOf
    <3>2. \A mode \in {"reap", "prune", "orphans", "release"} :
            [mode |-> mode, proc |-> p, todo |-> RowsOf(p), pc |-> "next", job |-> NoJob]
              \in CleanerType
      BY <3>1, CleanerRecords
    <3>3. CASE Reap(s, p)
      BY <3>2, <3>3 DEF Reap, StartCleaning
    <3>4. CASE Prune(s, p)
      BY <3>2, <3>4 DEF Prune, StartCleaning
    <3>5. CASE Deregister(s, p)
      BY <3>2, <3>5 DEF Deregister, StartCleaning
    <3>6. QED
      BY <2>29, <3>3, <3>4, <3>5
  <2>30. ASSUME NEW c \in Cleaners, CleanerFail(c) PROVE TypeOK'
    <3>1. PICK r \in cleaner[c].todo :
            /\ failed' = failed \cup {r[1]}
            /\ claimed' = WithoutRow(r[1], r[2])
            /\ cleaner' = [cleaner EXCEPT ![c].todo = @ \ {r},
                              ![c].pc = IF Limited(r[1]) THEN "signal" ELSE "next",
                              ![c].job = IF Limited(r[1]) THEN r[1] ELSE NoJob]
            /\ UNCHANGED <<job, ready, scheduled, blocked, semaphore, doomed, dispatch,
                           thread, process, registered>>
      BY <2>30 DEF CleanerFail
    <3>2. cleaner[c] \in CleanerType /\ cleaner[c].todo \in SUBSET (Jobs \X Threads)
      BY CleanerRecords
    <3>3. r[1] \in Jobs /\ cleaner[c].todo \ {r} \in SUBSET (Jobs \X Threads)
      BY <3>2
    <3>4. CASE Limited(r[1])
      <4>1. [cleaner[c] EXCEPT !.todo = @ \ {r}, !.pc = "signal", !.job = r[1]] \in CleanerType
        BY <3>2, <3>3, CleanerRecords
      <4>2. cleaner' \in [Cleaners -> CleanerType]
        BY <3>1, <3>4, <4>1
      <4>3. QED
        BY <3>1, <3>3, <4>2 DEF WithoutRow
    <3>5. CASE ~Limited(r[1])
      <4>1. [cleaner[c] EXCEPT !.todo = @ \ {r}, !.pc = "next", !.job = NoJob] \in CleanerType
        BY <3>2, <3>3, CleanerRecords
      <4>2. cleaner' \in [Cleaners -> CleanerType]
        BY <3>1, <3>5, <4>1
      <4>3. QED
        BY <3>1, <3>3, <4>2 DEF WithoutRow
    <3>6. QED
      BY <3>4, <3>5
  <2>31. ASSUME NEW c \in Cleaners, CleanerSignal(c) PROVE TypeOK'
    BY <2>31, CleanerRecords, SemaphoreRecords DEF CleanerSignal, SignalFor, NextAfterSignal
  <2>32. ASSUME NEW c \in Cleaners, CleanerRelease(c) PROVE TypeOK'
    <3>1. ReleaseOne(KeyOf[cleaner[c].job])
      BY <2>32 DEF CleanerRelease
    <3>2. /\ semaphore' \in [Keys -> SemaphoreType] /\ blocked' \subseteq Jobs
          /\ ready' \in [Jobs -> {"none", "own", "blank"}]
      BY <3>1, ReleaseTypes
    <3>3. QED
      BY <2>32, <3>2, CleanerRecords DEF CleanerRelease
  <2>33. ASSUME NEW c \in Cleaners, CleanerRequeue(c) PROVE TypeOK'
    <3>1. PICK r \in cleaner[c].todo :
            /\ ready' = [ready EXCEPT ![r[1]] = IF @ = "none" THEN "own" ELSE @]
            /\ claimed' = WithoutRow(r[1], r[2])
            /\ cleaner' = [cleaner EXCEPT ![c].todo = @ \ {r}]
            /\ UNCHANGED <<job, scheduled, blocked, failed, semaphore, doomed, dispatch,
                           thread, process, registered>>
      BY <2>33 DEF CleanerRequeue
    <3>2. cleaner[c] \in CleanerType /\ cleaner[c].todo \in SUBSET (Jobs \X Threads)
      BY CleanerRecords
    <3>3. r[1] \in Jobs /\ cleaner[c].todo \ {r} \in SUBSET (Jobs \X Threads)
      BY <3>2
    <3>4. [cleaner[c] EXCEPT !.todo = @ \ {r}] \in CleanerType
      BY <3>2, <3>3, CleanerRecords
    <3>5. cleaner' \in [Cleaners -> CleanerType]
      BY <3>1, <3>4
    <3>6. QED
      BY <3>1, <3>3, <3>5 DEF WithoutRow
  <2>34. ASSUME NEW c \in Cleaners, CleanerAborts(c) PROVE TypeOK'
    BY <2>34, CleanerRecords DEF CleanerAborts
  <2>35. ASSUME NEW c \in Cleaners, CleanerDone(c) PROVE TypeOK'
    BY <2>35, CleanerRecords DEF CleanerDone
  <2>36. CASE UNCHANGED vars
    BY <2>36 DEF vars
  <2>37. QED
    BY <2>1, <2>2, <2>3, <2>4, <2>5, <2>6, <2>7, <2>8, <2>9, <2>10, <2>11, <2>12,
       <2>13, <2>14, <2>15, <2>16, <2>17, <2>18, <2>19, <2>20, <2>21, <2>22, <2>23,
       <2>24, <2>25, <2>26, <2>27, <2>28, <2>29, <2>30, <2>31, <2>32, <2>33, <2>34,
       <2>35, <2>36
       DEF Next, OtherSteps, DispatchStep, ThreadStep, CleanerStep
<1>3. QED
  BY <1>1, <1>2, PTL DEF Spec
-----------------------------------------------------------------------------
(***************************************************************************)
(* No job is lost, whatever happens to workers and supervisors.            *)
(***************************************************************************)
HasRow(j) ==
  ready[j] # "none" \/ j \in scheduled \cup blocked \cup failed \/ claimed[j] # NoThread

Found(j) == job[j] = "live" /\ dispatch[j].pc = "idle" => HasRow(j)

AllFound == \A j \in Jobs : Found(j)

LEMMA RowsAreExecutions == AllFound <=> NeverLost
<1>1. ASSUME NEW j \in Jobs PROVE HasRow(j) <=> ExecutionsOf(j) # {}
  BY DEF HasRow, ExecutionsOf, Tables
<1> QED
  BY <1>1 DEF AllFound, Found, NeverLost

(* A step keeps every job found when it takes no row away without a row or *)
(* a dispatch in its place.                                                *)
LEMMA StayFound ==
  ASSUME AllFound,
         \A i \in Jobs : job'[i] = "live" /\ dispatch'[i].pc = "idle" =>
           \/ HasRow(i)'
           \/ /\ job[i] = "live" /\ dispatch[i].pc = "idle"
              /\ HasRow(i) => HasRow(i)'
  PROVE  AllFound'
BY DEF AllFound, Found

LEMMA StayFoundByRows ==
  ASSUME AllFound, UNCHANGED <<rows, dispatch>>
  PROVE  AllFound'
BY DEF AllFound, Found, HasRow, rows

(* release_one exchanges a blocked row for a ready one.                    *)
LEMMA ReleaseFinds ==
  ASSUME TypeOK, AllFound, NEW k, ReleaseOne(k),
         UNCHANGED <<job, scheduled, failed, claimed, dispatch>>
  PROVE  AllFound'
<1>1. CASE UNCHANGED <<ready, blocked>>
  BY <1>1, StayFoundByRows DEF rows
<1>2. ASSUME NEW j \in Jobs, ready' = [ready EXCEPT ![j] = "blank"], blocked' = blocked \ {j}
      PROVE  AllFound'
  <2>1. ready'[j] # "none" /\ \A i \in Jobs \ {j} : ready'[i] = ready[i]
    BY <1>2 DEF TypeOK
  <2> QED
    BY <1>2, <2>1, StayFound DEF HasRow
<1> QED
  BY <1>1, <1>2 DEF ReleaseOne, BlockedOn, TypeOK

(* Deleting a claimed row comes with the insertion of another.             *)
LEMMA WithoutRowFinds ==
  ASSUME TypeOK, NEW j \in Jobs, NEW t, claimed' = WithoutRow(j, t)
  PROVE  \A i \in Jobs \ {j} : claimed'[i] = claimed[i]
BY DEF TypeOK, WithoutRow

(* With the row of a dispatched job, only rows of idle jobs disappear from *)
(* scheduled, and none does if no batch has late rows.                     *)
LEMMA OriginRemoved ==
  ASSUME TypeOK, NEW j \in Jobs, NEW dispatched, RemoveOrigin(j, dispatched)
  PROVE  \A i \in Jobs \ {j} :
           /\ i \in failed' <=> i \in failed
           /\ i \in scheduled' => i \in scheduled
           /\ i \in scheduled \ scheduled' =>
                "lateRow" \in Hazards /\ dispatch[i].pc = "idle"
<1>1. \A i \in Jobs \ {j} : i \in failed' <=> i \in failed
  BY DEF RemoveOrigin
<1>2. CASE dispatch[j].origin = "due"
  <2>1. PICK late \in SUBSET LateRows(j) : scheduled' = scheduled \ ({j} \cup late)
    BY <1>2 DEF RemoveOrigin
  <2> QED
    BY <1>1, <2>1 DEF LateRows, At
<1>3. CASE dispatch[j].origin # "due"
  BY <1>1, <1>3 DEF RemoveOrigin
<1> QED
  BY <1>2, <1>3

LEMMA FoundStep ==
  ASSUME Hazards \cap {"clientCrash", "lateRow"} = {}, TypeOK, AllFound, [Next]_vars
  PROVE  AllFound'
<1> USE ConstantsOK
<1>1. ASSUME NEW j \in Jobs,
             \/ Insert(j) \/ DispatchDue(j) \/ Retry(j) \/ LookUp(j) \/ Decrement(j) \/ Create(j)
      PROVE  AllFound'
  <2>1. /\ \A i \in Jobs \ {j} : job'[i] = job[i] /\ dispatch'[i] = dispatch[i]
        /\ dispatch'[j].pc # "idle"
        /\ UNCHANGED <<ready, scheduled, blocked, failed, claimed>>
    <3>1. CASE Insert(j)
      BY <3>1 DEF Insert, StartDispatch, FirstStep, TypeOK
    <3>2. CASE DispatchDue(j) \/ Retry(j)
      BY <3>2 DEF DispatchDue, Retry, StartDispatch, FirstStep, TypeOK, rows
    <3>3. CASE LookUp(j)
      BY <3>3 DEF LookUp, GoTo, TypeOK, DispatchType, rows
    <3>4. CASE Decrement(j) \/ Create(j)
      BY <3>4 DEF Decrement, Create, GoTo, TypeOK, DispatchType, rows
    <3> QED
      BY <1>1, <3>1, <3>2, <3>3, <3>4
  <2> QED
    BY <2>1, StayFound DEF HasRow
<1>2. ASSUME NEW j \in Jobs, Schedule(j) \/ DispatchToReady(j) \/ DispatchToBlocked(j)
      PROVE  AllFound'
  <2>1. /\ \A i \in Jobs \ {j} : /\ dispatch'[i] = dispatch[i]
                                 /\ ready'[i] = ready[i]
                                 /\ i \in scheduled' <=> i \in scheduled
                                 /\ i \in failed' <=> i \in failed
                                 /\ i \in blocked' <=> i \in blocked
        /\ UNCHANGED <<job, claimed>>
    <3>1. CASE Schedule(j)
      BY <3>1 DEF Schedule, EndDispatch, TypeOK
    <3>2. CASE DispatchToReady(j)
      <4>1. CASE BulkInsertClashes(j)
        BY <3>2, <4>1 DEF DispatchToReady, EndDispatch, TypeOK
      <4>2. CASE ~BulkInsertClashes(j)
        <5>1. RemoveOrigin(j, TRUE)
          BY <3>2, <4>2 DEF DispatchToReady
        <5> QED
          BY <3>2, <4>2, <5>1, OriginRemoved DEF DispatchToReady, EndDispatch, TypeOK
      <4> QED
        BY <4>1, <4>2
    <3>3. CASE DispatchToBlocked(j)
      <4>1. RemoveOrigin(j, ready[j] # "none" \/ j \in scheduled)
        BY <3>3 DEF DispatchToBlocked
      <4> QED
        BY <3>3, <4>1, OriginRemoved DEF DispatchToBlocked, EndDispatch, TypeOK
    <3> QED
      BY <1>2, <3>1, <3>2, <3>3
  <2>2. HasRow(j)'
    <3>1. CASE Schedule(j) \/ DispatchToBlocked(j)
      BY <3>1 DEF Schedule, DispatchToBlocked, HasRow
    <3>2. CASE DispatchToReady(j)
      BY <3>2 DEF DispatchToReady, BulkInsertClashes, HasRow, TypeOK
    <3> QED
      BY <1>2, <3>1, <3>2
  <2> QED
    BY <2>1, <2>2, StayFound DEF HasRow
<1>3. ASSUME NEW j \in Jobs, ClientCrash(j) PROVE AllFound'
  BY <1>3 DEF ClientCrash
<1>4. ASSUME NEW j \in Jobs, Discard(j) \/ (\E t \in Threads : FinishByDelete(t) /\ thread[t].job = j)
      PROVE  AllFound'
  <2>1. /\ job' = [job EXCEPT ![j] = "gone"] /\ dispatch' = dispatch
        /\ \A i \in Jobs \ {j} : HasRow(i) => HasRow(i)'
    BY <1>4 DEF Discard, FinishByDelete, HasRow, TypeOK
  <2> QED
    BY <2>1, StayFound DEF TypeOK
<1>5. ASSUME NEW k, ReleaseOne(k), UNCHANGED <<job, scheduled, failed, claimed, dispatch>>
      PROVE  AllFound'
  BY <1>5, ReleaseFinds
<1>6. ASSUME NEW t \in Threads, NEW j \in Jobs, Claim(t, j) PROVE AllFound'
  <2>1. /\ UNCHANGED <<job, dispatch, scheduled, blocked, failed>>
        /\ claimed'[j] # NoThread
        /\ \A i \in Jobs \ {j} : ready'[i] = ready[i] /\ claimed'[i] = claimed[i]
    BY <1>6 DEF Claim, TypeOK
  <2> QED
    BY <2>1, StayFound DEF HasRow
<1>7. ASSUME NEW t \in Threads, Finish(t) PROVE AllFound'
  <2>1. PICK j \in Jobs : j = thread[t].job
    BY <1>7, ThreadRecords DEF Finish, TypeOK
  <2>2. /\ job'[j] # "live" /\ \A i \in Jobs \ {j} : job'[i] = job[i]
        /\ UNCHANGED <<dispatch, ready, scheduled, blocked, failed>>
        /\ \A i \in Jobs \ {j} : claimed'[i] = claimed[i]
    BY <1>7, <2>1, WithoutRowFinds DEF Finish, TypeOK
  <2> QED
    BY <2>2, StayFound DEF HasRow
<1>8. ASSUME NEW t \in Threads, Fail(t) PROVE AllFound'
  <2>1. PICK j \in Jobs : j = thread[t].job
    BY <1>8, ThreadRecords DEF Fail, TypeOK
  <2>2. /\ UNCHANGED <<job, dispatch, ready, scheduled, blocked>>
        /\ \/ UNCHANGED <<failed, claimed>>
           \/ failed' = failed \cup {j} /\ claimed' = WithoutRow(j, t)
    BY <1>8, <2>1 DEF Fail
  <2>3. CASE UNCHANGED <<failed, claimed>>
    BY <2>2, <2>3, StayFound DEF HasRow
  <2>4. CASE failed' = failed \cup {j} /\ claimed' = WithoutRow(j, t)
    BY <2>2, <2>4, WithoutRowFinds, StayFound DEF HasRow
  <2> QED
    BY <2>2, <2>3, <2>4
<1>9. ASSUME NEW c \in Cleaners, CleanerFail(c) \/ CleanerRequeue(c) PROVE AllFound'
  <2>1. cleaner[c].todo \in SUBSET (Jobs \X Threads)
    BY CleanerRecords DEF TypeOK
  <2>2. CASE CleanerFail(c)
    <3>1. PICK r \in cleaner[c].todo :
            /\ failed' = failed \cup {r[1]} /\ claimed' = WithoutRow(r[1], r[2])
            /\ UNCHANGED <<job, ready, scheduled, blocked, dispatch>>
      BY <2>2 DEF CleanerFail
    <3>2. r[1] \in Jobs
      BY <2>1
    <3> QED
      BY <3>1, <3>2, WithoutRowFinds, StayFound DEF HasRow
  <2>3. CASE CleanerRequeue(c)
    <3>1. PICK r \in cleaner[c].todo :
            /\ ready' = [ready EXCEPT ![r[1]] = IF @ = "none" THEN "own" ELSE @]
            /\ claimed' = WithoutRow(r[1], r[2])
            /\ UNCHANGED <<job, scheduled, blocked, failed, dispatch>>
      BY <2>3 DEF CleanerRequeue
    <3>2. r[1] \in Jobs
      BY <2>1
    <3>3. ready'[r[1]] # "none" /\ \A i \in Jobs \ {r[1]} : ready'[i] = ready[i]
      BY <3>1, <3>2 DEF TypeOK
    <3> QED
      BY <3>1, <3>2, <3>3, WithoutRowFinds, StayFound DEF HasRow
  <2> QED
    BY <1>9, <2>2, <2>3
<1>10. ASSUME UNCHANGED <<rows, dispatch>> PROVE AllFound'
  BY <1>10, StayFoundByRows
<1>11. ASSUME NEW j \in Jobs,
              \/ Insert(j) \/ DispatchStep(j) \/ ClientCrash(j)
              \/ DispatchDue(j) \/ Retry(j) \/ Discard(j)
       PROVE  AllFound'
  BY <1>1, <1>2, <1>3, <1>4, <1>11 DEF DispatchStep
<1>12. ASSUME NEW k \in Keys, Expire(k) \/ DeleteSemaphore(k) \/ Unblock(k) PROVE AllFound'
  BY <1>5, <1>10, <1>12 DEF Expire, DeleteSemaphore, Unblock
<1>13. ASSUME NEW t \in Threads, ThreadStep(t) PROVE AllFound'
  <2>1. CASE FinishByDelete(t)
    <3>1. thread[t].job \in Jobs
      BY <2>1, ThreadRecords DEF FinishByDelete, TypeOK
    <3> QED
      BY <1>4, <2>1, <3>1
  <2>2. CASE Start(t) \/ Raise(t) \/ FinishRaises(t) \/ Signal(t)
    BY <1>10, <2>2 DEF Start, Raise, FinishRaises, Signal
  <2>3. CASE Release(t)
    BY <1>5, <2>3 DEF Release
  <2> QED
    BY <1>7, <1>8, <1>13, <2>1, <2>2, <2>3 DEF ThreadStep
<1>14. ASSUME NEW p \in Procs, Shutdown(p) \/ LoseRegistration(p) \/ Crash(p) PROVE AllFound'
  BY <1>10, <1>14 DEF Shutdown, LoseRegistration, Crash
<1>15. ASSUME NEW s \in Supervisors,
              \/ FailOrphans(s)
              \/ \E p \in Procs : Reap(s, p) \/ Prune(s, p) \/ Deregister(s, p)
       PROVE  AllFound'
  BY <1>10, <1>15 DEF FailOrphans, Reap, Prune, Deregister
<1>16. ASSUME NEW c \in Cleaners, CleanerStep(c) PROVE AllFound'
  <2>1. CASE CleanerSignal(c) \/ CleanerAborts(c) \/ CleanerDone(c)
    BY <1>10, <2>1 DEF CleanerSignal, CleanerAborts, CleanerDone
  <2>2. CASE CleanerRelease(c)
    BY <1>5, <2>2 DEF CleanerRelease
  <2> QED
    BY <1>9, <1>16, <2>1, <2>2 DEF CleanerStep
<1>17. CASE ReadExpired \/ UNCHANGED vars
  BY <1>10, <1>17 DEF ReadExpired, vars
<1> QED
  BY <1>6, <1>11, <1>12, <1>13, <1>14, <1>15, <1>16, <1>17 DEF Next, OtherSteps

(* A live job that no step is at work on has a row in one of the execution *)
(* tables: whatever statements clients, dispatchers, threads and cleaners  *)
(* interleave, and whoever dies in between, each row deleted comes with    *)
(* another one or with the end of the job.  Two things are excluded, for   *)
(* the code does lose jobs to them: a client dies between the INSERT of    *)
(* the job and its execution, or the last reading of a batch of due jobs   *)
(* deletes a scheduled row that the reading before did not dispatch        *)
(* (scheduled_execution.py, dispatching.py; ScheduledBatch has a trace).   *)
THEOREM NoJobIsLost ==
  ASSUME Hazards \cap {"clientCrash", "lateRow"} = {}
  PROVE  Spec => []NeverLost
<1>1. Init => AllFound
  BY DEF Init, AllFound, Found
<1>2. TypeOK /\ AllFound /\ [Next]_vars => AllFound'
  BY FoundStep
<1>3. AllFound => NeverLost
  BY RowsAreExecutions
<1> QED
  BY <1>1, <1>2, <1>3, TypeCorrect, PTL DEF Spec
-----------------------------------------------------------------------------
(***************************************************************************)
(* One job, one row, one thread: OneExecution, NoDuplicateExecution and    *)
(* ClaimsAreNotStolen for every number of jobs, keys, limits, workers and  *)
(* threads, as long as nothing disturbs the workers (Undisturbed).         *)
(***************************************************************************)
(* What a step does not touch stays as it is.                              *)
LEMMA RowsFrame ==
  ASSUME RowsAreExclusive, UNCHANGED <<rows, dispatch>>
  PROVE  RowsAreExclusive'
BY DEF RowsAreExclusive, RowsExclude, DispatchOwns, rows

LEMMA OtherJobs ==
  ASSUME RowsAreExclusive, NEW j \in Jobs,
         \A i \in Jobs \ {j} :
           /\ job'[i] = job[i] /\ ready'[i] = ready[i] /\ claimed'[i] = claimed[i]
           /\ dispatch'[i] = dispatch[i]
           /\ i \in scheduled' <=> i \in scheduled
           /\ i \in blocked' <=> i \in blocked
           /\ i \in failed' <=> i \in failed,
         RowsExclude(j)', DispatchOwns(j)'
  PROVE  RowsAreExclusive'
BY DEF RowsAreExclusive, RowsExclude, DispatchOwns

(* The same with rows of idle jobs that a batch deleted as late ones.      *)
LEMMA OtherJobsAndLateRows ==
  ASSUME RowsAreExclusive, NEW j \in Jobs,
         \A i \in Jobs \ {j} :
           /\ job'[i] = job[i] /\ ready'[i] = ready[i] /\ claimed'[i] = claimed[i]
           /\ dispatch'[i] = dispatch[i]
           /\ i \in blocked' <=> i \in blocked
           /\ i \in failed' <=> i \in failed
           /\ i \in scheduled' => i \in scheduled
           /\ i \in scheduled \ scheduled' =>
                "lateRow" \in Hazards /\ dispatch[i].pc = "idle",
         RowsExclude(j)', DispatchOwns(j)'
  PROVE  RowsAreExclusive'
BY DEF RowsAreExclusive, RowsExclude, DispatchOwns

LEMMA ThreadsFrame ==
  ASSUME ThreadsOwn, UNCHANGED claimed,
         \A u \in Threads :
           thread'[u].pc \in {"posted", "running", "raised"} =>
             /\ thread[u].pc \in {"posted", "running", "raised"}
             /\ thread'[u].job = thread[u].job
  PROVE  ThreadsOwn'
BY DEF ThreadsOwn, ThreadOwns

LEMMA WorkersFrame ==
  ASSUME WorkersRun, UNCHANGED process,
         \A q \in Procs : /\ cleaner'[q] = cleaner[q]
                          /\ process[q] = "live" /\ q \in registered => q \in registered',
         \A u \in Threads : thread'[u].pc # "idle" =>
           thread[u].pc # "idle" \/ process[ProcOf[u]] = "live"
  PROVE  WorkersRun'
BY ConstantsOK DEF WorkersRun, WorkerRuns

LEMMA SnapshotsFrame ==
  ASSUME TypeOK, SnapshotsAreCurrent, UNCHANGED <<process, cleaner>>,
         \A i \in Jobs, u \in Threads :
           claimed[i] = u /\ claimed'[i] # u => process[ProcOf[u]] # "dead"
  PROVE  SnapshotsAreCurrent'
<1> SUFFICES ASSUME NEW x \in Supervisors
             PROVE  SnapshotIsCurrent(x)'
  BY DEF SnapshotsAreCurrent
<1>1. cleaner[x].todo \in SUBSET (Jobs \X Threads)
  BY CleanerRecords DEF TypeOK, Cleaners
<1>2. SnapshotIsCurrent(x)
  BY DEF SnapshotsAreCurrent
<1>3. ASSUME NEW r \in cleaner[x].todo
      PROVE  claimed'[r[1]] = r[2] /\ process[ProcOf[r[2]]] = "dead"
  BY <1>1, <1>2 DEF SnapshotIsCurrent
<1>4. QED
  BY <1>2, <1>3 DEF SnapshotIsCurrent

LEMMA DispatchAdvances ==
  ASSUME TypeOK, RowsAreExclusive, NEW j \in Jobs, UNCHANGED rows,
         NEW pc \in {"missing", "open", "granted", "refused"}, GoTo(j, pc),
         dispatch[j].pc \notin {"idle", "later"}
  PROVE  RowsAreExclusive'
<1>1. /\ dispatch'[j].pc = pc /\ dispatch'[j].origin = dispatch[j].origin
      /\ \A i \in Jobs \ {j} : dispatch'[i] = dispatch[i]
  BY DEF TypeOK, DispatchType, GoTo
<1>2. RowsExclude(j)' /\ DispatchOwns(j)'
  BY <1>1 DEF RowsAreExclusive, RowsExclude, DispatchOwns, rows
<1>3. QED
  BY <1>1, <1>2, OtherJobs DEF rows

(* A thread at work belongs to a worker that is alive.                     *)
LEMMA AtWorkIsLive ==
  ASSUME TypeOK, WorkersRun, NEW t \in Threads, thread[t].pc # "idle"
  PROVE  process[ProcOf[t]] = "live"
BY ConstantsOK DEF WorkersRun, WorkerRuns

(* The thread of an unfinished job holds its claim, so the job is live.    *)
LEMMA AtWorkHolds ==
  ASSUME TypeOK, RowsAreExclusive, ThreadsOwn, NEW t \in Threads,
         thread[t].pc \in {"posted", "running", "raised"}
  PROVE  /\ thread[t].job \in Jobs
         /\ claimed[thread[t].job] = t
         /\ job[thread[t].job] = "live"
         /\ ready[thread[t].job] = "none"
         /\ thread[t].job \notin scheduled \cup blocked \cup failed
         /\ dispatch[thread[t].job].origin = "none"
<1>1. thread[t].job \in Jobs
  BY ThreadRecords DEF TypeOK
<1>2. claimed[thread[t].job] = t /\ t # NoThread
  BY ConstantsOK DEF ThreadsOwn, ThreadOwns
<1>3. QED
  BY <1>1, <1>2 DEF RowsAreExclusive, RowsExclude, DispatchOwns

(* The end of work on j: no row is left, or the failed one.                *)
LEMMA WorkEnds ==
  ASSUME TypeOK, RowsAreExclusive, NEW j \in Jobs,
         ready[j] = "none", j \notin scheduled \cup blocked \cup failed,
         job[j] = "live", dispatch[j].origin = "none",
         UNCHANGED <<ready, scheduled, blocked, dispatch>>,
         claimed' = [claimed EXCEPT ![j] = NoThread],
         \/ job' = job /\ failed' = failed \cup {j}
         \/ /\ job' = [job EXCEPT ![j] = "finished"] \/ job' = [job EXCEPT ![j] = "gone"]
            /\ failed' = failed
  PROVE  RowsAreExclusive'
<1>1. RowsExclude(j)' /\ DispatchOwns(j)'
  BY DEF TypeOK, RowsAreExclusive, RowsExclude, DispatchOwns
<1>2. QED
  BY <1>1, OtherJobs DEF TypeOK

(* The one supervisor is the only process that cleans up.                  *)
LEMMA OneCleaner ==
  ASSUME TypeOK, Undisturbed, WorkersRun, SnapshotsAreCurrent,
         NEW c \in Cleaners, cleaner[c] # CleanerIdle
  PROVE  /\ c \in Supervisors /\ c \notin Procs
         /\ \A x \in Supervisors : x = c
         /\ cleaner[c].mode \notin {"idle", "release"}
<1>1. c \notin Procs
  BY DEF WorkersRun, WorkerRuns
<1>2. c \in Supervisors /\ \A x \in Supervisors : x = c
  BY <1>1 DEF Cleaners, Undisturbed
<1>3. QED
  BY <1>1, <1>2 DEF SnapshotsAreCurrent, SnapshotIsCurrent

(* A cleaner goes on to a part of the snapshot it has.                     *)
LEMMA SnapshotShrinks ==
  ASSUME TypeOK, SnapshotsAreCurrent, NEW c \in Supervisors,
         \A x \in Supervisors : x = c,
         UNCHANGED process,
         cleaner[c].mode # "idle", cleaner'[c].mode = cleaner[c].mode,
         cleaner'[c].proc = cleaner[c].proc,
         cleaner'[c].todo \subseteq cleaner[c].todo,
         \A r \in cleaner'[c].todo : claimed'[r[1]] = claimed[r[1]]
  PROVE  SnapshotsAreCurrent'
BY DEF SnapshotsAreCurrent, SnapshotIsCurrent
-----------------------------------------------------------------------------
(* What release_one does to a job's rows: nothing, or it moves one job     *)
(* from the blocked to the ready table.                                    *)
LEMMA ReleaseMoves ==
  ASSUME NEW k, ReleaseOne(k), TypeOK
  PROVE  \/ UNCHANGED <<ready, blocked>>
         \/ \E j \in Jobs : /\ j \in blocked /\ ready[j] = "none"
                             /\ ready' = [ready EXCEPT ![j] = "blank"]
                             /\ blocked' = blocked \ {j}
BY DEF ReleaseOne, BlockedOn, Promotes, IsFirstBlocked, TypeOK

LEMMA ReleaseKeepsRows ==
  ASSUME TypeOK, RowsAreExclusive, NEW k, ReleaseOne(k),
         UNCHANGED <<job, scheduled, failed, claimed, dispatch>>
  PROVE  RowsAreExclusive'
<1>1. CASE UNCHANGED <<ready, blocked>>
  BY <1>1, RowsFrame DEF rows
<1>2. ASSUME NEW j \in Jobs, j \in blocked, ready[j] = "none",
             ready' = [ready EXCEPT ![j] = "blank"], blocked' = blocked \ {j}
      PROVE  RowsAreExclusive'
  <2>1. RowsExclude(j)' /\ DispatchOwns(j)'
    BY <1>2 DEF TypeOK, RowsAreExclusive, RowsExclude, DispatchOwns
  <2>2. QED
    BY <1>2, <2>1, OtherJobs DEF TypeOK
<1>3. QED
  BY <1>1, <1>2, ReleaseMoves
-----------------------------------------------------------------------------
(* The invariant is inductive: every action keeps its four parts.          *)
LEMMA ExclusiveStep ==
  ASSUME Undisturbed, TypeOK, Exclusive, [Next]_vars
  PROVE  Exclusive'
<1> USE ConstantsOK
<1>0. RowsAreExclusive /\ ThreadsOwn /\ WorkersRun /\ SnapshotsAreCurrent
  BY DEF Exclusive
<1>1. ASSUME NEW j \in Jobs, Insert(j) PROVE Exclusive'
  <2>1. RowsExclude(j)' /\ DispatchOwns(j)'
    BY <1>0, <1>1
       DEF TypeOK, RowsAreExclusive, RowsExclude, DispatchOwns, Insert,
           StartDispatch, FirstStep, At
  <2>2. RowsAreExclusive'
    BY <1>0, <1>1, <2>1, OtherJobs DEF TypeOK, Insert, StartDispatch, FirstStep, At
  <2>3. ThreadsOwn' /\ WorkersRun' /\ SnapshotsAreCurrent'
    BY <1>0, <1>1, ThreadsFrame, WorkersFrame, SnapshotsFrame DEF Insert
  <2>4. QED
    BY <2>2, <2>3 DEF Exclusive
<1>2. ASSUME NEW j \in Jobs, Schedule(j) PROVE Exclusive'
  <2>1. RowsExclude(j)' /\ DispatchOwns(j)'
    BY <1>0, <1>2
       DEF TypeOK, RowsAreExclusive, RowsExclude, DispatchOwns, Schedule,
           EndDispatch, DispatchIdle, At
  <2>2. RowsAreExclusive'
    BY <1>0, <1>2, <2>1, OtherJobs DEF TypeOK, Schedule, EndDispatch, DispatchIdle, At
  <2>3. ThreadsOwn' /\ WorkersRun' /\ SnapshotsAreCurrent'
    BY <1>0, <1>2, ThreadsFrame, WorkersFrame, SnapshotsFrame DEF Schedule
  <2>4. QED
    BY <2>2, <2>3 DEF Exclusive
<1>3. ASSUME NEW j \in Jobs, LookUp(j) PROVE Exclusive'
  <2>1. PICK pc \in {"missing", "open", "granted", "refused"} : GoTo(j, pc)
    BY <1>3 DEF LookUp
  <2>2. dispatch[j].pc \notin {"idle", "later"}
    BY <1>3 DEF LookUp, At
  <2>3. RowsAreExclusive'
    BY <1>0, <1>3, <2>1, <2>2, DispatchAdvances DEF LookUp
  <2>4. ThreadsOwn' /\ WorkersRun' /\ SnapshotsAreCurrent'
    BY <1>0, <1>3, ThreadsFrame, WorkersFrame, SnapshotsFrame DEF LookUp, rows
  <2>5. QED
    BY <2>3, <2>4 DEF Exclusive
<1>4. ASSUME NEW j \in Jobs, Decrement(j) PROVE Exclusive'
  <2>1. PICK pc \in {"missing", "open", "granted", "refused"} : GoTo(j, pc)
    BY <1>4 DEF Decrement
  <2>2. dispatch[j].pc \notin {"idle", "later"}
    BY <1>4 DEF Decrement, At
  <2>3. RowsAreExclusive'
    BY <1>0, <1>4, <2>1, <2>2, DispatchAdvances DEF Decrement
  <2>4. ThreadsOwn' /\ WorkersRun' /\ SnapshotsAreCurrent'
    BY <1>0, <1>4, ThreadsFrame, WorkersFrame, SnapshotsFrame DEF Decrement, rows
  <2>5. QED
    BY <2>3, <2>4 DEF Exclusive
<1>5. ASSUME NEW j \in Jobs, Create(j) PROVE Exclusive'
  <2>1. PICK pc \in {"missing", "open", "granted", "refused"} : GoTo(j, pc)
    BY <1>5 DEF Create
  <2>2. dispatch[j].pc \notin {"idle", "later"}
    BY <1>5 DEF Create, At
  <2>3. RowsAreExclusive'
    BY <1>0, <1>5, <2>1, <2>2, DispatchAdvances DEF Create
  <2>4. ThreadsOwn' /\ WorkersRun' /\ SnapshotsAreCurrent'
    BY <1>0, <1>5, ThreadsFrame, WorkersFrame, SnapshotsFrame DEF Create, rows
  <2>5. QED
    BY <2>3, <2>4 DEF Exclusive
<1>6. ASSUME NEW j \in Jobs, DispatchToReady(j) PROVE Exclusive'
  <2>1. RowsExclude(j)' /\ DispatchOwns(j)'
    BY <1>0, <1>6
       DEF TypeOK, RowsAreExclusive, RowsExclude, DispatchOwns, DispatchToReady,
           EndDispatch, DispatchIdle, At, RemoveOrigin, BulkInsertClashes
  <2>2. RowsAreExclusive'
    <3>1. CASE BulkInsertClashes(j)
      BY <1>0, <1>6, <2>1, <3>1, OtherJobs DEF TypeOK, DispatchToReady, EndDispatch
    <3>2. CASE ~BulkInsertClashes(j)
      <4>1. RemoveOrigin(j, TRUE)
        BY <1>6, <3>2 DEF DispatchToReady
      <4>2. \A i \in Jobs \ {j} :
              /\ job'[i] = job[i] /\ ready'[i] = ready[i] /\ claimed'[i] = claimed[i]
              /\ dispatch'[i] = dispatch[i]
              /\ i \in blocked' <=> i \in blocked
        BY <1>6, <3>2 DEF TypeOK, DispatchToReady, EndDispatch
      <4> QED
        BY <1>0, <2>1, <4>1, <4>2, OriginRemoved, OtherJobsAndLateRows
    <3> QED
      BY <3>1, <3>2
  <2>3. ThreadsOwn' /\ WorkersRun' /\ SnapshotsAreCurrent'
    BY <1>0, <1>6, ThreadsFrame, WorkersFrame, SnapshotsFrame DEF DispatchToReady
  <2>4. QED
    BY <2>2, <2>3 DEF Exclusive
<1>7. ASSUME NEW j \in Jobs, DispatchToBlocked(j) PROVE Exclusive'
  <2>1. RowsExclude(j)' /\ DispatchOwns(j)'
    BY <1>0, <1>7
       DEF TypeOK, RowsAreExclusive, RowsExclude, DispatchOwns, DispatchToBlocked,
           EndDispatch, DispatchIdle, At, RemoveOrigin
  <2>2. RowsAreExclusive'
    <3>1. RemoveOrigin(j, ready[j] # "none" \/ j \in scheduled)
      BY <1>7 DEF DispatchToBlocked
    <3>2. \A i \in Jobs \ {j} :
            /\ job'[i] = job[i] /\ ready'[i] = ready[i] /\ claimed'[i] = claimed[i]
            /\ dispatch'[i] = dispatch[i]
            /\ i \in blocked' <=> i \in blocked
      BY <1>7 DEF TypeOK, DispatchToBlocked, EndDispatch
    <3> QED
      BY <1>0, <2>1, <3>1, <3>2, OriginRemoved, OtherJobsAndLateRows
  <2>3. ThreadsOwn' /\ WorkersRun' /\ SnapshotsAreCurrent'
    BY <1>0, <1>7, ThreadsFrame, WorkersFrame, SnapshotsFrame DEF DispatchToBlocked
  <2>4. QED
    BY <2>2, <2>3 DEF Exclusive
<1>8. ASSUME NEW j \in Jobs, ClientCrash(j) PROVE Exclusive'
  <2>1. RowsExclude(j)' /\ DispatchOwns(j)'
    BY <1>0, <1>8
       DEF TypeOK, RowsAreExclusive, RowsExclude, DispatchOwns, ClientCrash,
           EndDispatch, DispatchIdle, rows
  <2>2. RowsAreExclusive'
    BY <1>0, <1>8, <2>1, OtherJobs DEF TypeOK, ClientCrash, EndDispatch, DispatchIdle, rows
  <2>3. ThreadsOwn' /\ WorkersRun' /\ SnapshotsAreCurrent'
    BY <1>0, <1>8, ThreadsFrame, WorkersFrame, SnapshotsFrame DEF ClientCrash, rows
  <2>4. QED
    BY <2>2, <2>3 DEF Exclusive
<1>9. ASSUME NEW j \in Jobs, DispatchDue(j) PROVE Exclusive'
  <2>1. RowsExclude(j)' /\ DispatchOwns(j)'
    BY <1>0, <1>9
       DEF TypeOK, RowsAreExclusive, RowsExclude, DispatchOwns, DispatchDue,
           StartDispatch, FirstStep, At, rows
  <2>2. RowsAreExclusive'
    BY <1>0, <1>9, <2>1, OtherJobs
       DEF TypeOK, DispatchDue, StartDispatch, FirstStep, At, rows
  <2>3. ThreadsOwn' /\ WorkersRun' /\ SnapshotsAreCurrent'
    BY <1>0, <1>9, ThreadsFrame, WorkersFrame, SnapshotsFrame DEF DispatchDue, rows
  <2>4. QED
    BY <2>2, <2>3 DEF Exclusive
<1>10. ASSUME NEW j \in Jobs, Retry(j) PROVE Exclusive'
  <2>1. RowsExclude(j)' /\ DispatchOwns(j)'
    BY <1>0, <1>10
       DEF TypeOK, RowsAreExclusive, RowsExclude, DispatchOwns, Retry,
           StartDispatch, FirstStep, At, rows, Undisturbed
  <2>2. RowsAreExclusive'
    BY <1>0, <1>10, <2>1, OtherJobs
       DEF TypeOK, Retry, StartDispatch, FirstStep, At, rows, Undisturbed
  <2>3. ThreadsOwn' /\ WorkersRun' /\ SnapshotsAreCurrent'
    BY <1>0, <1>10, ThreadsFrame, WorkersFrame, SnapshotsFrame DEF Retry, rows
  <2>4. QED
    BY <2>2, <2>3 DEF Exclusive
<1>11. ASSUME NEW j \in Jobs, Discard(j) PROVE Exclusive'
  <2>1. RowsExclude(j)' /\ DispatchOwns(j)' /\ claimed' = claimed
    BY <1>0, <1>11 DEF TypeOK, RowsAreExclusive, RowsExclude, DispatchOwns, Discard, At
  <2>2. RowsAreExclusive'
    BY <1>0, <1>11, <2>1, OtherJobs DEF TypeOK, Discard
  <2>3. ThreadsOwn' /\ WorkersRun' /\ SnapshotsAreCurrent'
    BY <1>0, <1>11, <2>1, ThreadsFrame, WorkersFrame, SnapshotsFrame DEF Discard
  <2>4. QED
    BY <2>2, <2>3 DEF Exclusive
<1>12. ASSUME NEW k \in Keys, Expire(k) PROVE Exclusive'
  BY <1>0, <1>12, RowsFrame, ThreadsFrame, WorkersFrame, SnapshotsFrame
     DEF Exclusive, Expire, rows
<1>13. ASSUME NEW k \in Keys, DeleteSemaphore(k) PROVE Exclusive'
  BY <1>0, <1>13, RowsFrame, ThreadsFrame, WorkersFrame, SnapshotsFrame
     DEF Exclusive, DeleteSemaphore, rows
<1>14. CASE ReadExpired
  BY <1>0, <1>14, RowsFrame, ThreadsFrame, WorkersFrame, SnapshotsFrame
     DEF Exclusive, ReadExpired, rows
<1>15. ASSUME NEW k \in Keys, Unblock(k) PROVE Exclusive'
  BY <1>0, <1>15, ReleaseKeepsRows, ThreadsFrame, WorkersFrame, SnapshotsFrame
     DEF Exclusive, Unblock, rows
<1>16. ASSUME NEW t \in Threads, NEW j \in Jobs, Claim(t, j) PROVE Exclusive'
  <2>1. RowsExclude(j)' /\ DispatchOwns(j)'
    BY <1>0, <1>16 DEF TypeOK, RowsAreExclusive, RowsExclude, DispatchOwns, Claim, Selects
  <2>2. RowsAreExclusive'
    BY <1>0, <1>16, <2>1, OtherJobs DEF TypeOK, Claim
  <2>3. ThreadsOwn'
    BY <1>0, <1>16 DEF TypeOK, ThreadsOwn, ThreadOwns, Claim
  <2>4. WorkersRun'
    BY <1>0, <1>16, WorkersFrame DEF TypeOK, Claim
  <2>5. SnapshotsAreCurrent'
    BY <1>0, <1>16, SnapshotsFrame DEF Claim
  <2>6. QED
    BY <2>2, <2>3, <2>4, <2>5 DEF Exclusive
<1>17. ASSUME NEW t \in Threads, Start(t) PROVE Exclusive'
  <2>1. RowsAreExclusive'
    BY <1>0, <1>17, RowsFrame DEF Start
  <2>2. ThreadsOwn'
    BY <1>0, <1>17, ThreadsFrame DEF Start, TypeOK, rows, ThreadIdle
  <2>3. WorkersRun' /\ SnapshotsAreCurrent'
    BY <1>0, <1>17, WorkersFrame, SnapshotsFrame DEF Start, TypeOK, rows, ThreadIdle
  <2>4. QED
    BY <2>1, <2>2, <2>3 DEF Exclusive
<1>18. ASSUME NEW t \in Threads, Raise(t) PROVE Exclusive'
  <2>1. RowsAreExclusive'
    BY <1>0, <1>18, RowsFrame DEF Raise
  <2>2. ThreadsOwn'
    BY <1>0, <1>18, ThreadsFrame DEF Raise, TypeOK, rows
  <2>3. WorkersRun' /\ SnapshotsAreCurrent'
    BY <1>0, <1>18, WorkersFrame, SnapshotsFrame DEF Raise, TypeOK, rows
  <2>4. QED
    BY <2>1, <2>2, <2>3 DEF Exclusive
<1>19. ASSUME NEW t \in Threads, Finish(t) PROVE Exclusive'
  <2> DEFINE j == thread[t].job
  <2>1. thread[t].pc \in {"posted", "running", "raised"} /\ process[ProcOf[t]] = "live"
    BY <1>0, <1>19, AtWorkIsLive DEF Finish
  <2>2. /\ j \in Jobs /\ claimed[j] = t /\ job[j] = "live" /\ ready[j] = "none"
        /\ j \notin scheduled \cup blocked \cup failed /\ dispatch[j].origin = "none"
    BY <1>0, <2>1, AtWorkHolds
  <2>3. claimed' = [claimed EXCEPT ![j] = NoThread]
    BY <1>19, <2>2 DEF Finish, WithoutRow
  <2>4. UNCHANGED <<ready, scheduled, blocked, dispatch>>
    BY <1>19, <2>2 DEF Finish, TypeOK
  <2>5. job' = [job EXCEPT ![j] = "finished"] /\ failed' = failed
    BY <1>19, <2>2 DEF Finish
  <2>6. RowsAreExclusive'
    BY <1>0, <2>2, <2>4, <2>3, <2>5, WorkEnds
  <2>7. /\ thread'[t].pc \notin {"posted", "running", "raised"}
        /\ \A u \in Threads \ {t} : thread'[u] = thread[u]
    BY <1>0, <1>19, <2>2 DEF TypeOK, Finish, AfterWork, ThreadIdle, Undisturbed
  <2>8. ThreadsOwn'
    BY <1>0, <2>2, <2>3, <2>7 DEF TypeOK, ThreadsOwn, ThreadOwns
  <2>9. WorkersRun'
    BY <1>0, <1>19, <2>1, <2>7, WorkersFrame DEF Finish
  <2>10. SnapshotsAreCurrent'
    BY <1>0, <1>19, <2>1, <2>2, <2>3, SnapshotsFrame DEF Finish, TypeOK
  <2>11. QED
    BY <2>6, <2>8, <2>9, <2>10 DEF Exclusive
<1>20. ASSUME NEW t \in Threads, FinishByDelete(t) PROVE Exclusive'
  <2> DEFINE j == thread[t].job
  <2>1. thread[t].pc \in {"posted", "running", "raised"} /\ process[ProcOf[t]] = "live"
    BY <1>0, <1>20, AtWorkIsLive DEF FinishByDelete
  <2>2. /\ j \in Jobs /\ claimed[j] = t /\ job[j] = "live" /\ ready[j] = "none"
        /\ j \notin scheduled \cup blocked \cup failed /\ dispatch[j].origin = "none"
    BY <1>0, <2>1, AtWorkHolds
  <2>3. claimed' = [claimed EXCEPT ![j] = NoThread]
    BY <1>20, <2>2 DEF FinishByDelete, WithoutRow
  <2>4. UNCHANGED <<ready, scheduled, blocked, dispatch>>
    BY <1>20, <2>2 DEF FinishByDelete, TypeOK
  <2>5. job' = [job EXCEPT ![j] = "gone"] /\ failed' = failed
    BY <1>20, <2>2 DEF FinishByDelete
  <2>6. RowsAreExclusive'
    BY <1>0, <2>2, <2>4, <2>3, <2>5, WorkEnds
  <2>7. thread'[t].pc \notin {"posted", "running", "raised"} /\ \A u \in Threads \ {t} : thread'[u] = thread[u]
    BY <1>20, <2>2 DEF TypeOK, FinishByDelete, ThreadIdle
  <2>8. ThreadsOwn'
    BY <1>0, <2>2, <2>3, <2>7 DEF TypeOK, ThreadsOwn, ThreadOwns
  <2>9. WorkersRun'
    BY <1>0, <1>20, <2>1, <2>7, WorkersFrame DEF FinishByDelete
  <2>10. SnapshotsAreCurrent'
    BY <1>0, <1>20, <2>1, <2>2, <2>3, SnapshotsFrame DEF FinishByDelete, TypeOK
  <2>11. QED
    BY <2>6, <2>8, <2>9, <2>10 DEF Exclusive
<1>21. ASSUME NEW t \in Threads, FinishRaises(t) PROVE Exclusive'
  <2>1. RowsAreExclusive'
    BY <1>0, <1>21, RowsFrame DEF FinishRaises
  <2>2. ThreadsOwn'
    BY <1>0, <1>21, ThreadsFrame DEF FinishRaises, TypeOK, rows
  <2>3. WorkersRun' /\ SnapshotsAreCurrent'
    BY <1>0, <1>21, WorkersFrame, SnapshotsFrame DEF FinishRaises, TypeOK, rows
  <2>4. QED
    BY <2>1, <2>2, <2>3 DEF Exclusive
<1>22. ASSUME NEW t \in Threads, Fail(t) PROVE Exclusive'
  <2> DEFINE j == thread[t].job
  <2>1. thread[t].pc \in {"posted", "running", "raised"} /\ process[ProcOf[t]] = "live"
    BY <1>0, <1>22, AtWorkIsLive DEF Fail
  <2>2. /\ j \in Jobs /\ claimed[j] = t /\ job[j] = "live" /\ ready[j] = "none"
        /\ j \notin scheduled \cup blocked \cup failed /\ dispatch[j].origin = "none"
    BY <1>0, <2>1, AtWorkHolds
  <2>3. claimed' = [claimed EXCEPT ![j] = NoThread]
    BY <1>22, <2>2 DEF Fail, WithoutRow
  <2>4. UNCHANGED <<ready, scheduled, blocked, dispatch>>
    BY <1>22, <2>2 DEF Fail, TypeOK
  <2>5. job' = job /\ failed' = failed \cup {j}
    BY <1>22, <2>2 DEF Fail
  <2>6. RowsAreExclusive'
    BY <1>0, <2>2, <2>4, <2>3, <2>5, WorkEnds
  <2>7. thread'[t].pc \notin {"posted", "running", "raised"} /\ \A u \in Threads \ {t} : thread'[u] = thread[u]
    BY <1>22, <2>2 DEF TypeOK, Fail, WithoutRow, AfterWork, ThreadIdle
  <2>8. ThreadsOwn'
    BY <1>0, <2>2, <2>3, <2>7 DEF TypeOK, ThreadsOwn, ThreadOwns
  <2>9. WorkersRun'
    BY <1>0, <1>22, <2>1, <2>7, WorkersFrame DEF Fail
  <2>10. SnapshotsAreCurrent'
    BY <1>0, <1>22, <2>1, <2>2, <2>3, SnapshotsFrame DEF Fail, TypeOK
  <2>11. QED
    BY <2>6, <2>8, <2>9, <2>10 DEF Exclusive
<1>23. ASSUME NEW t \in Threads, Signal(t) PROVE Exclusive'
  <2>1. RowsAreExclusive'
    BY <1>0, <1>23, RowsFrame DEF Signal
  <2>2. ThreadsOwn'
    BY <1>0, <1>23, ThreadsFrame DEF Signal, TypeOK, rows, ThreadIdle
  <2>3. WorkersRun' /\ SnapshotsAreCurrent'
    BY <1>0, <1>23, WorkersFrame, SnapshotsFrame DEF Signal, TypeOK, rows, ThreadIdle
  <2>4. QED
    BY <2>1, <2>2, <2>3 DEF Exclusive
<1>24. ASSUME NEW t \in Threads, Release(t) PROVE Exclusive'
  <2>1. RowsAreExclusive'
    BY <1>0, <1>24, ReleaseKeepsRows DEF Release
  <2>2. ThreadsOwn'
    BY <1>0, <1>24, ThreadsFrame DEF Release, TypeOK, rows, ThreadIdle
  <2>3. WorkersRun' /\ SnapshotsAreCurrent'
    BY <1>0, <1>24, WorkersFrame, SnapshotsFrame DEF Release, TypeOK, rows, ThreadIdle
  <2>4. QED
    BY <2>1, <2>2, <2>3 DEF Exclusive
<1>25. ASSUME NEW p \in Procs, Shutdown(p) PROVE Exclusive'
  BY <1>0, <1>25 DEF TypeOK, RowsAreExclusive, RowsExclude, Shutdown, Undisturbed, Selects
<1>26. ASSUME NEW p \in Procs, LoseRegistration(p) PROVE Exclusive'
  BY <1>0, <1>26 DEF LoseRegistration, WorkersRun, WorkerRuns
<1>27. ASSUME NEW p \in Procs, Crash(p) PROVE Exclusive'
  <2>1. RowsAreExclusive'
    BY <1>0, <1>27, RowsFrame DEF Crash
  <2>2. \A u \in Threads : thread'[u] = thread[u] \/ thread'[u] = ThreadIdle
    BY <1>27 DEF Crash
  <2>3. ThreadsOwn'
    BY <1>0, <1>27, <2>2, ThreadsFrame DEF Crash, rows, ThreadIdle
  <2>4. WorkersRun'
    BY <1>0, <1>27, <2>2 DEF TypeOK, WorkersRun, WorkerRuns, Crash, ThreadIdle, Cleaners
  <2>5. \A x \in Supervisors : cleaner'[x] = cleaner[x]
    BY <1>27 DEF TypeOK, Crash, Cleaners
  <2>6. \A q : process[q] = "dead" => process'[q] = "dead"
    BY <1>27 DEF TypeOK, Crash
  <2>7. SnapshotsAreCurrent'
    BY <1>0, <1>27, <2>5, <2>6 DEF SnapshotsAreCurrent, SnapshotIsCurrent, Crash, rows
  <2>8. QED
    BY <2>1, <2>3, <2>4, <2>7 DEF Exclusive
<1>28. ASSUME NEW s \in Supervisors, FailOrphans(s) PROVE Exclusive'
  <2>1. RowsAreExclusive'
    BY <1>0, <1>28, RowsFrame DEF FailOrphans
  <2>2. ThreadsOwn'
    BY <1>0, <1>28, ThreadsFrame DEF FailOrphans, rows
  <2>3. s \in Cleaners /\ s \notin Procs /\ \A x \in Supervisors : x = s
    BY DEF Cleaners, Undisturbed
  <2>4. \A q \in Procs : cleaner'[q] = cleaner[q]
    BY <1>28, <2>3 DEF TypeOK, FailOrphans, StartCleaning, Cleaners
  <2>5. WorkersRun'
    BY <1>0, <1>28, <2>4, WorkersFrame DEF FailOrphans
  <2>6. \A r \in Orphans : claimed[r[1]] = r[2] /\ process[ProcOf[r[2]]] = "dead"
    BY <1>0, <1>28 DEF WorkersRun, WorkerRuns, FailOrphans, Orphans
  <2>7. "orphans" # "prune"
    OBVIOUS
  <2>8. cleaner'[s] = [mode |-> "orphans", proc |-> NoProc, todo |-> Orphans, pc |-> "next", job |-> NoJob]
    BY <1>28, <2>3 DEF TypeOK, FailOrphans, StartCleaning
  <2>9. claimed' = claimed /\ process' = process
    BY <1>28 DEF FailOrphans, rows
  <2>10. SnapshotsAreCurrent'
    BY <2>3, <2>6, <2>7, <2>8, <2>9 DEF SnapshotsAreCurrent, SnapshotIsCurrent
  <2>11. QED
    BY <2>1, <2>2, <2>5, <2>10 DEF Exclusive
<1>29. ASSUME NEW s \in Supervisors, NEW p \in Procs, Reap(s, p) PROVE Exclusive'
  <2>1. RowsAreExclusive'
    BY <1>0, <1>29, RowsFrame DEF Reap
  <2>2. ThreadsOwn'
    BY <1>0, <1>29, ThreadsFrame DEF Reap, rows
  <2>3. s \in Cleaners /\ s \notin Procs /\ \A x \in Supervisors : x = s
    BY DEF Cleaners, Undisturbed
  <2>4. \A q \in Procs : cleaner'[q] = cleaner[q]
    BY <1>29, <2>3 DEF TypeOK, Reap, StartCleaning, Cleaners
  <2>5. WorkersRun'
    BY <1>0, <1>29, <2>4, WorkersFrame DEF Reap
  <2>6. \A r \in RowsOf(p) : claimed[r[1]] = r[2] /\ process[ProcOf[r[2]]] = "dead"
    BY <1>0, <1>29 DEF WorkersRun, WorkerRuns, Reap, RowsOf, Terminated
  <2>7. process[p] = "dead"
    BY <1>0, <1>29 DEF WorkersRun, WorkerRuns, Reap, RowsOf, Terminated
  <2>8. cleaner'[s] = [mode |-> "reap", proc |-> p, todo |-> RowsOf(p), pc |-> "next", job |-> NoJob]
    BY <1>29, <2>3 DEF TypeOK, Reap, StartCleaning
  <2>9. claimed' = claimed /\ process' = process
    BY <1>29 DEF Reap, rows
  <2>10. SnapshotsAreCurrent'
    BY <2>3, <2>6, <2>7, <2>8, <2>9 DEF SnapshotsAreCurrent, SnapshotIsCurrent
  <2>11. QED
    BY <2>1, <2>2, <2>5, <2>10 DEF Exclusive
<1>30. ASSUME NEW s \in Supervisors, NEW p \in Procs, Prune(s, p) PROVE Exclusive'
  <2>1. RowsAreExclusive'
    BY <1>0, <1>30, RowsFrame DEF Prune
  <2>2. ThreadsOwn'
    BY <1>0, <1>30, ThreadsFrame DEF Prune, rows
  <2>3. s \in Cleaners /\ s \notin Procs /\ \A x \in Supervisors : x = s
    BY DEF Cleaners, Undisturbed
  <2>4. \A q \in Procs : cleaner'[q] = cleaner[q]
    BY <1>30, <2>3 DEF TypeOK, Prune, StartCleaning, Cleaners
  <2>5. WorkersRun'
    BY <1>0, <1>30, <2>4, WorkersFrame DEF Prune
  <2>6. \A r \in RowsOf(p) : claimed[r[1]] = r[2] /\ process[ProcOf[r[2]]] = "dead"
    BY <1>0, <1>30 DEF WorkersRun, WorkerRuns, Prune, RowsOf, Undisturbed
  <2>7. process[p] = "dead"
    BY <1>0, <1>30 DEF WorkersRun, WorkerRuns, Prune, RowsOf, Undisturbed
  <2>8. cleaner'[s] = [mode |-> "prune", proc |-> p, todo |-> RowsOf(p), pc |-> "next", job |-> NoJob]
    BY <1>30, <2>3 DEF TypeOK, Prune, StartCleaning
  <2>9. claimed' = claimed /\ process' = process
    BY <1>30 DEF Prune, rows
  <2>10. SnapshotsAreCurrent'
    BY <2>3, <2>6, <2>7, <2>8, <2>9 DEF SnapshotsAreCurrent, SnapshotIsCurrent
  <2>11. QED
    BY <2>1, <2>2, <2>5, <2>10 DEF Exclusive
<1>31. ASSUME NEW s \in Supervisors, NEW p \in Procs, Deregister(s, p) PROVE Exclusive'
  BY <1>0, <1>31 DEF Deregister, Undisturbed
<1>32. ASSUME NEW c \in Cleaners, CleanerFail(c) PROVE Exclusive'
  <2>1. PICK r \in cleaner[c].todo :
          /\ failed' = failed \cup {r[1]}
          /\ claimed' = WithoutRow(r[1], r[2])
          /\ cleaner' = [cleaner EXCEPT ![c].todo = @ \ {r},
                            ![c].pc = IF Limited(r[1]) THEN "signal" ELSE "next",
                            ![c].job = IF Limited(r[1]) THEN r[1] ELSE NoJob]
          /\ UNCHANGED <<job, ready, scheduled, blocked, dispatch, thread, process, registered>>
    BY <1>32 DEF CleanerFail
  <2>2. /\ c \in Supervisors /\ c \notin Procs /\ \A x \in Supervisors : x = c
        /\ cleaner[c].mode \notin {"idle", "release"}
    BY <1>0, <2>1, OneCleaner DEF CleanerIdle
  <2>3. cleaner[c].todo \in SUBSET (Jobs \X Threads)
    BY CleanerRecords DEF TypeOK
  <2>4. r[1] \in Jobs /\ r[2] \in Threads
    BY <2>3
  <2>5. claimed[r[1]] = r[2] /\ process[ProcOf[r[2]]] = "dead" /\ r[2] # NoThread
    BY <1>0, <2>2, <2>4 DEF SnapshotsAreCurrent, SnapshotIsCurrent
  <2>6. claimed' = [claimed EXCEPT ![r[1]] = NoThread]
    BY <2>1, <2>5 DEF WithoutRow
  <2>7. RowsExclude(r[1])' /\ DispatchOwns(r[1])'
    BY <1>0, <2>1, <2>4, <2>5, <2>6 DEF TypeOK, RowsAreExclusive, RowsExclude, DispatchOwns
  <2>8. RowsAreExclusive'
    BY <1>0, <2>1, <2>4, <2>6, <2>7, OtherJobs DEF TypeOK
  <2>9. \A u \in Threads : thread[u].pc # "idle" => claimed[r[1]] # u
    BY <1>0, <2>5, AtWorkIsLive
  <2>10. ThreadsOwn'
    BY <1>0, <2>1, <2>4, <2>6, <2>9 DEF TypeOK, ThreadsOwn, ThreadOwns
  <2>11. WorkersRun'
    BY <1>0, <2>1, <2>2, WorkersFrame DEF TypeOK, Cleaners
  <2>12. /\ cleaner'[c].mode = cleaner[c].mode /\ cleaner'[c].proc = cleaner[c].proc
         /\ cleaner'[c].todo = cleaner[c].todo \ {r}
    <3>1. cleaner[c] \in CleanerType
      BY DEF TypeOK
    <3>2. QED
      BY <2>1, <3>1 DEF TypeOK, CleanerType
  <2>13. \A q \in cleaner'[c].todo : claimed'[q[1]] = claimed[q[1]]
    <3> SUFFICES ASSUME NEW q \in cleaner[c].todo, q # r
                 PROVE  q[1] # r[1]
      BY <2>3, <2>4, <2>6, <2>12 DEF TypeOK
    <3>1. q \in Jobs \X Threads /\ r \in Jobs \X Threads
      BY <2>3
    <3>2. claimed[q[1]] = q[2] /\ claimed[r[1]] = r[2]
      BY <1>0, <2>2 DEF SnapshotsAreCurrent, SnapshotIsCurrent
    <3>3. QED
      BY <3>1, <3>2
  <2>14. SnapshotsAreCurrent'
    BY <1>0, <2>1, <2>2, <2>12, <2>13, SnapshotShrinks
  <2>15. QED
    BY <2>8, <2>10, <2>11, <2>14 DEF Exclusive
<1>33. ASSUME NEW c \in Cleaners, CleanerSignal(c) PROVE Exclusive'
  <2>1. RowsAreExclusive'
    BY <1>0, <1>33, RowsFrame DEF CleanerSignal
  <2>2. ThreadsOwn'
    BY <1>0, <1>33, ThreadsFrame DEF CleanerSignal, rows
  <2>3. cleaner[c].pc # "next"
    BY <1>33 DEF CleanerSignal
  <2>4. c \in Supervisors /\ c \notin Procs /\ cleaner[c].mode \notin {"idle", "release"} /\ \A x \in Supervisors : x = c
    BY <1>0, <2>3, OneCleaner DEF CleanerIdle
  <2>5. WorkersRun'
    BY <1>0, <1>33, <2>4, WorkersFrame DEF TypeOK, Cleaners, CleanerSignal
  <2>6. /\ cleaner'[c].mode = cleaner[c].mode /\ cleaner'[c].proc = cleaner[c].proc
        /\ cleaner'[c].todo = cleaner[c].todo
    <3>1. cleaner[c] \in CleanerType
      BY DEF TypeOK
    <3>2. QED
      BY <1>33, <3>1 DEF TypeOK, CleanerType, CleanerSignal
  <2>7. SnapshotsAreCurrent'
    BY <1>0, <1>33, <2>4, <2>6, SnapshotShrinks DEF CleanerSignal, rows
  <2>8. QED
    BY <2>1, <2>2, <2>5, <2>7 DEF Exclusive
<1>34. ASSUME NEW c \in Cleaners, CleanerRelease(c) PROVE Exclusive'
  <2>1. RowsAreExclusive'
    BY <1>0, <1>34, ReleaseKeepsRows DEF CleanerRelease
  <2>2. ThreadsOwn'
    BY <1>0, <1>34, ThreadsFrame DEF CleanerRelease
  <2>3. cleaner[c].pc # "next"
    BY <1>34 DEF CleanerRelease
  <2>4. c \in Supervisors /\ c \notin Procs /\ cleaner[c].mode \notin {"idle", "release"} /\ \A x \in Supervisors : x = c
    BY <1>0, <2>3, OneCleaner DEF CleanerIdle
  <2>5. WorkersRun'
    BY <1>0, <1>34, <2>4, WorkersFrame DEF TypeOK, Cleaners, CleanerRelease
  <2>6. /\ cleaner'[c].mode = cleaner[c].mode /\ cleaner'[c].proc = cleaner[c].proc
        /\ cleaner'[c].todo = cleaner[c].todo
    <3>1. cleaner[c] \in CleanerType
      BY DEF TypeOK
    <3>2. QED
      BY <1>34, <3>1 DEF TypeOK, CleanerType, CleanerRelease
  <2>7. SnapshotsAreCurrent'
    BY <1>0, <1>34, <2>4, <2>6, SnapshotShrinks DEF CleanerRelease
  <2>8. QED
    BY <2>1, <2>2, <2>5, <2>7 DEF Exclusive
<1>35. ASSUME NEW c \in Cleaners, CleanerRequeue(c) PROVE Exclusive'
  <2>1. cleaner[c].mode = "release"
    BY <1>35 DEF CleanerRequeue
  <2>2. QED
    BY <1>0, <2>1, OneCleaner DEF CleanerIdle
<1>36. ASSUME NEW c \in Cleaners, CleanerAborts(c) PROVE Exclusive'
  <2>1. PICK r \in cleaner[c].todo :
          job[r[1]] = "gone" \/ (cleaner[c].mode # "release" /\ r[1] \in failed)
    BY <1>36 DEF CleanerAborts
  <2>2. c \in Supervisors
    BY <1>0, <2>1, OneCleaner DEF CleanerIdle
  <2>3. r[1] \in Jobs /\ r[2] \in Threads
    <3>1. cleaner[c].todo \in SUBSET (Jobs \X Threads)
      BY CleanerRecords DEF TypeOK
    <3>2. QED
      BY <3>1
  <2>4. claimed[r[1]] = r[2] /\ r[2] # NoThread
    BY <1>0, <2>2, <2>3 DEF SnapshotsAreCurrent, SnapshotIsCurrent
  <2>5. QED
    BY <1>0, <2>1, <2>3, <2>4 DEF RowsAreExclusive, RowsExclude
<1>37. ASSUME NEW c \in Cleaners, CleanerDone(c) PROVE Exclusive'
  <2>1. c \in Supervisors /\ c \notin Procs /\ cleaner[c].mode # "release" /\ \A x \in Supervisors : x = c
    BY <1>0, <1>37, OneCleaner DEF CleanerDone, CleanerIdle
  <2>2. RowsAreExclusive'
    BY <1>0, <1>37, RowsFrame DEF CleanerDone
  <2>3. ThreadsOwn'
    BY <1>0, <1>37, ThreadsFrame DEF CleanerDone, rows
  <2>4. cleaner' = [cleaner EXCEPT ![c] = CleanerIdle] /\ process' = process
    BY <1>37, <2>1 DEF CleanerDone
  <2>5. cleaner[c].mode = "prune" => process[cleaner[c].proc] = "dead"
    BY <1>0, <2>1 DEF SnapshotsAreCurrent, SnapshotIsCurrent
  <2>6. \A q \in Procs : process[q] = "live" /\ q \in registered => q \in registered'
    BY <1>37, <2>1, <2>5 DEF CleanerDone
  <2>7. WorkersRun'
    BY <1>0, <1>37, <2>1, <2>4, <2>6, WorkersFrame DEF TypeOK, CleanerDone, Cleaners
  <2>8. SnapshotsAreCurrent'
    BY <2>1, <2>4 DEF TypeOK, SnapshotsAreCurrent, SnapshotIsCurrent, CleanerIdle
  <2>9. QED
    BY <2>2, <2>3, <2>7, <2>8 DEF Exclusive
<1>38. CASE UNCHANGED vars
  BY <1>0, <1>38, RowsFrame, ThreadsFrame, WorkersFrame, SnapshotsFrame
     DEF Exclusive, vars, rows
<1>39. QED
  BY <1>1, <1>2, <1>3, <1>4, <1>5, <1>6, <1>7, <1>8, <1>9, <1>10, <1>11,
     <1>12, <1>13, <1>14, <1>15, <1>16, <1>17, <1>18, <1>19, <1>20, <1>21,
     <1>22, <1>23, <1>24, <1>25, <1>26, <1>27, <1>28, <1>29, <1>30, <1>31,
     <1>32, <1>33, <1>34, <1>35, <1>36, <1>37, <1>38
     DEF Next, OtherSteps, DispatchStep, ThreadStep, CleanerStep


(* The invariant holds for ever when nothing disturbs the workers.         *)
THEOREM ExclusiveInvariant ==
  ASSUME Undisturbed
  PROVE  Spec => []Exclusive
<1>1. Init => Exclusive
  BY ConstantsOK DEF Init, Exclusive, RowsAreExclusive, ThreadsOwn, WorkersRun,
         SnapshotsAreCurrent, RowsExclude, DispatchOwns, ThreadOwns, WorkerRuns,
         SnapshotIsCurrent, Cleaners, DispatchIdle, ThreadIdle, CleanerIdle
<1>2. TypeOK /\ Exclusive /\ [Next]_vars => Exclusive'
  BY ExclusiveStep
<1>3. QED
  BY <1>1, <1>2, TypeCorrect, PTL DEF Spec

-----------------------------------------------------------------------------
(* A job is in exactly one execution table until it is finished: no order  *)
(* of the statements of clients, dispatchers, threads and the supervisor   *)
(* leaves it in two tables or in none, if no client dies in between and no *)
(* batch of due jobs deletes a row that it did not dispatch.               *)
THEOREM JobsAreInOneTable ==
  ASSUME Undisturbed, Hazards \cap {"clientCrash", "lateRow"} = {}
  PROVE  Spec => []OneExecution
<1>1. Exclusive => OneExecution
  <2> SUFFICES ASSUME Exclusive, NEW j \in Jobs
               PROVE  /\ job[j] # "live" => ExecutionsOf(j) = {}
                      /\ job[j] = "live" =>
                           \/ /\ dispatch[j].origin = "none"
                              /\ \E table \in Tables : ExecutionsOf(j) = {table}
                           \/ dispatch[j].origin = "enqueue" /\ ExecutionsOf(j) = {}
                           \/ dispatch[j].origin = "due" /\ ExecutionsOf(j) = {"scheduled"}
                           \/ dispatch[j].origin = "retry" /\ ExecutionsOf(j) = {"failed"}
    BY DEF OneExecution
  <2>1. RowsExclude(j) /\ DispatchOwns(j)
    BY DEF Exclusive, RowsAreExclusive
  <2>2. job[j] # "live" => ExecutionsOf(j) = {}
    BY <2>1 DEF RowsExclude, ExecutionsOf
  <2>3. ASSUME job[j] = "live", dispatch[j].origin = "none"
        PROVE  \E table \in Tables : ExecutionsOf(j) = {table}
    <3>1. CASE ready[j] # "none"
      BY <2>1, <3>1 DEF RowsExclude, ExecutionsOf, Tables
    <3>2. CASE claimed[j] # NoThread
      BY <2>1, <3>2 DEF RowsExclude, ExecutionsOf, Tables
    <3>3. CASE j \in scheduled
      BY <2>1, <3>3 DEF RowsExclude, ExecutionsOf, Tables
    <3>4. CASE j \in blocked
      BY <2>1, <3>4 DEF RowsExclude, ExecutionsOf, Tables
    <3>5. CASE j \in failed
      BY <2>1, <3>5 DEF RowsExclude, ExecutionsOf, Tables
    <3>6. QED
      BY <2>1, <2>3, <3>1, <3>2, <3>3, <3>4, <3>5 DEF DispatchOwns
  <2>4. dispatch[j].origin = "enqueue" => ExecutionsOf(j) = {}
    BY <2>1 DEF DispatchOwns, ExecutionsOf
  <2>5. dispatch[j].origin = "due" => ExecutionsOf(j) = {"scheduled"}
    BY <2>1 DEF DispatchOwns, ExecutionsOf, Tables
  <2>6. dispatch[j].origin = "retry" => ExecutionsOf(j) = {"failed"}
    BY <2>1 DEF DispatchOwns, ExecutionsOf, Tables
  <2>7. QED
    BY <2>1, <2>2, <2>3, <2>4, <2>5, <2>6 DEF DispatchOwns
<1>2. QED
  BY <1>1, ExclusiveInvariant, PTL

(* No two threads of any workers perform the same job: the claimed row of  *)
(* a job names the one thread that may be performing it.                   *)
THEOREM NoTwoThreadsPerformAJob ==
  ASSUME Undisturbed
  PROVE  Spec => []NoDuplicateExecution
<1>1. Exclusive => NoDuplicateExecution
  BY DEF Exclusive, ThreadsOwn, ThreadOwns, NoDuplicateExecution
<1>2. QED
  BY <1>1, ExclusiveInvariant, PTL

(* A claimed execution is only given up by the thread that performs its    *)
(* job or after the death of that thread's worker.                         *)
THEOREM ClaimsStay ==
  ASSUME Undisturbed
  PROVE  Spec => ClaimsAreNotStolen
<1> DEFINE Kept == \A j \in Jobs, t \in Threads :
                     claimed[j] = t /\ claimed'[j] # t =>
                       \/ thread[t].job = j /\ thread'[t] # thread[t]
                       \/ process[ProcOf[t]] = "dead"
<1>1. TypeOK /\ Exclusive /\ [Next]_vars => Kept
  <2> SUFFICES ASSUME TypeOK, Exclusive, [Next]_vars, NEW j \in Jobs, NEW t \in Threads,
                      claimed[j] = t, claimed'[j] # t
               PROVE  \/ thread[t].job = j /\ thread'[t] # thread[t]
                      \/ process[ProcOf[t]] = "dead"
    BY DEF Kept
  <2>0. t # NoThread /\ claimed' # claimed
    BY ConstantsOK
  <2>1. ASSUME NEW i \in Jobs, Discard(i) PROVE FALSE
    BY <2>0, <2>1 DEF TypeOK, Exclusive, RowsAreExclusive, RowsExclude, Discard
  <2>2. ASSUME NEW u \in Threads, NEW i \in Jobs, Claim(u, i) PROVE FALSE
    BY <2>0, <2>2 DEF TypeOK, Claim
  <2>3. ASSUME NEW u \in Threads, Finish(u) \/ FinishByDelete(u) \/ Fail(u)
        PROVE  thread[t].job = j /\ thread'[t] # thread[t]
    <3>1. thread[u].pc \in {"posted", "running", "raised"}
      BY <2>3 DEF Finish, FinishByDelete, Fail
    <3>2. claimed[thread[u].job] = u
      BY <3>1 DEF Exclusive, ThreadsOwn, ThreadOwns
    <3>3. thread[u].job = j
      BY <2>3, <2>0 DEF TypeOK, Finish, FinishByDelete, Fail, WithoutRow
    <3>4. u = t
      BY <3>2, <3>3
    <3>5. thread'[t].pc # thread[t].pc
      <4>1. /\ AfterWork(thread[t].job).pc \in {"signal", "idle"}
            /\ ThreadIdle.pc = "idle"
        BY DEF AfterWork, ThreadIdle
      <4>2. CASE Finish(u)
        <5>1. /\ thread[t].pc = "running"
              /\ \/ thread' = [thread EXCEPT ![t] = AfterWork(thread[t].job)]
                 \/ thread' = [thread EXCEPT ![t].pc = "raised"]
          BY <3>4, <4>2 DEF Finish
        <5>2. CASE thread' = [thread EXCEPT ![t] = AfterWork(thread[t].job)]
          BY <4>1, <5>1, <5>2 DEF TypeOK
        <5>3. CASE thread' = [thread EXCEPT ![t].pc = "raised"]
          BY <5>1, <5>3 DEF TypeOK
        <5>4. QED
          BY <5>1, <5>2, <5>3
      <4>3. CASE FinishByDelete(u)
        BY <3>4, <4>1, <4>3 DEF TypeOK, FinishByDelete
      <4>4. CASE Fail(u)
        BY <3>4, <4>1, <4>4 DEF TypeOK, Fail
      <4>5. QED
        BY <2>3, <4>2, <4>3, <4>4
    <3>6. QED
      BY <3>3, <3>4, <3>5
  <2>4. ASSUME NEW c \in Cleaners, CleanerFail(c) \/ CleanerRequeue(c)
        PROVE  process[ProcOf[t]] = "dead"
    <3>1. PICK r \in cleaner[c].todo : claimed' = WithoutRow(r[1], r[2])
      BY <2>4 DEF CleanerFail, CleanerRequeue
    <3>2. c \in Supervisors
      BY <3>1, OneCleaner DEF CleanerIdle, Exclusive
    <3>3. claimed[r[1]] = r[2] /\ process[ProcOf[r[2]]] = "dead"
      BY <3>2 DEF Exclusive, SnapshotsAreCurrent, SnapshotIsCurrent
    <3>4. r[1] = j
      BY <2>0, <3>1 DEF TypeOK, WithoutRow
    <3>5. QED
      BY <3>3, <3>4
  <2>5. QED
    BY <2>0, <2>1, <2>2, <2>3, <2>4
       DEF Next, OtherSteps, vars, rows, DispatchStep, ThreadStep, CleanerStep, Insert, Schedule,
           LookUp, Decrement, Create, DispatchToReady, DispatchToBlocked, ClientCrash,
           DispatchDue, Retry, Expire, DeleteSemaphore, Unblock, ReadExpired, Start,
           Raise, FinishRaises, Signal, Release, Shutdown, LoseRegistration, Crash,
           FailOrphans, Reap, Prune, Deregister, CleanerSignal, CleanerRelease,
           CleanerAborts, CleanerDone
<1>2. QED
  BY <1>1, TypeCorrect, ExclusiveInvariant, PTL DEF Spec, ClaimsAreNotStolen, Kept
=============================================================================
