----------------------------- MODULE PoolProofs -----------------------------
(***************************************************************************)
(* The counter of a worker's pool and the wake-ups of its main thread, for *)
(* every number of jobs, threads and relations.                            *)
(***************************************************************************)
EXTENDS PoolProperties, FiniteSetTheorems, TLAPS

(***************************************************************************)
(* Counting.                                                               *)
(***************************************************************************)
LEMMA JobSets ==
  ASSUME NEW S \in SUBSET Jobs
  PROVE  /\ IsFiniteSet(S) /\ Cardinality(S) \in Nat
         /\ S # {} => Cardinality(S) > 0
         /\ \A x : /\ x \in S => Cardinality(S \ {x}) = Cardinality(S) - 1
                   /\ x \notin S => Cardinality(S \cup {x}) = Cardinality(S) + 1
<1>1. IsFiniteSet(S)
  BY PoolConstantsOK, FS_Subset
<1>2. Cardinality(S) \in Nat /\ (Cardinality(S) = 0 <=> S = {})
  BY <1>1, FS_CardinalityType, FS_EmptySet
<1>3. QED
  BY <1>1, <1>2, FS_AddElement, FS_RemoveElement

LEMMA ThreadSets ==
  ASSUME NEW S \in SUBSET Threads
  PROVE  /\ IsFiniteSet(S) /\ Cardinality(S) \in Nat /\ Cardinality(S) <= Size
         /\ S # {} => Cardinality(S) > 0
         /\ \A x : /\ x \in S => Cardinality(S \ {x}) = Cardinality(S) - 1
                   /\ x \notin S => Cardinality(S \cup {x}) = Cardinality(S) + 1
<1>1. IsFiniteSet(Threads) /\ Size = Cardinality(Threads)
  BY PoolConstantsOK DEF Size
<1>2. IsFiniteSet(S) /\ Cardinality(S) <= Size
  BY <1>1, FS_Subset
<1>3. Cardinality(S) \in Nat /\ (Cardinality(S) = 0 <=> S = {})
  BY <1>2, FS_CardinalityType, FS_EmptySet
<1>4. S # {} => Cardinality(S) > 0
  BY <1>3
<1>5. \A x : x \in S => Cardinality(S \ {x}) = Cardinality(S) - 1
  BY <1>2, FS_RemoveElement
<1>6. \A x : x \notin S => Cardinality(S \cup {x}) = Cardinality(S) + 1
  BY <1>2, FS_AddElement
<1> QED
  BY <1>2, <1>3, <1>4, <1>5, <1>6

LEMMA SizeIsNatural == Size \in Nat
BY PoolConstantsOK, FS_CardinalityType DEF Size

LEMMA Counts ==
  ASSUME PoolTypeOK
  PROVE  /\ Cardinality(batch) \in Nat /\ Cardinality(queue) \in Nat
         /\ Cardinality(Occupied) \in Nat /\ Posted \in {0, 1}
         /\ available \in Nat /\ limit \in Nat /\ Size \in Nat
<1>1. batch \in SUBSET Jobs /\ queue \in SUBSET Jobs /\ Occupied \in SUBSET Threads
  BY DEF PoolTypeOK, Occupied
<1>2. Size \in Nat
  BY SizeIsNatural
<1>3. available \in Nat /\ limit \in Nat
  BY <1>2 DEF PoolTypeOK
<1>4. Posted \in {0, 1}
  BY DEF Posted
<1>5. QED
  BY <1>1, <1>2, <1>3, <1>4, JobSets, ThreadSets

(* What the steps of a thread do to the set of threads in use.             *)
LEMMA OccupiedTake ==
  ASSUME PoolTypeOK, NEW t \in Threads, NEW j \in Jobs, Take(t, j)
  PROVE  /\ Occupied' = Occupied \cup {t} /\ t \notin Occupied
         /\ Cardinality(Occupied') = Cardinality(Occupied) + 1
<1>1. Occupied' = Occupied \cup {t} /\ t \notin Occupied
  BY DEF PoolTypeOK, Take, Occupied, FreeThread
<1>2. Occupied \in SUBSET Threads
  BY DEF Occupied
<1>3. QED
  BY <1>1, <1>2, ThreadSets

LEMMA OccupiedIncrement ==
  ASSUME PoolTypeOK, NEW t \in Threads, Increment(t)
  PROVE  /\ Occupied' = Occupied \ {t} /\ t \in Occupied
         /\ Cardinality(Occupied') = Cardinality(Occupied) - 1
         /\ Cardinality(Occupied) > 0
<1>1. Occupied' = Occupied \ {t} /\ t \in Occupied
  BY DEF PoolTypeOK, Increment, Occupied
<1>2. Occupied \in SUBSET Threads
  BY DEF Occupied
<1>3. QED
  BY <1>1, <1>2, ThreadSets

LEMMA OccupiedOtherwise ==
  ASSUME PoolTypeOK, WakersWake, NEW t \in Threads,
         Perform(t) \/ PerformRaises(t) \/ CheckIdle(t) \/ OpenFile(t) \/ WakerStep(t)
  PROVE  Occupied' = Occupied
<1>1. CASE Perform(t)
  BY <1>1 DEF PoolTypeOK, Perform, Performing, Occupied
<1>2. CASE PerformRaises(t)
  BY <1>2 DEF PoolTypeOK, PerformRaises, Performing, Occupied, Ended
<1>3. CASE CheckIdle(t)
  BY <1>3 DEF PoolTypeOK, CheckIdle, Occupied, FreeThread
<1>4. CASE OpenFile(t)
  BY <1>4 DEF OpenFile, Occupied
<1>5. CASE WakerStep(t)
  <2>1. CASE AccessPipe(t) \/ CachePipe(t)
    BY <2>1 DEF AccessPipe, CachePipe, Occupied
  <2>2. CASE WritePipe(t)
    <3>1. thread[t].at = "waking" /\ thread' = [thread EXCEPT ![t] = FreeThread]
      BY <2>2 DEF WakersWake, WritePipe
    <3>2. QED
      BY <3>1 DEF PoolTypeOK, Occupied, FreeThread
  <2>3. QED
    BY <1>5, <2>1, <2>2 DEF WakerStep
<1>6. QED
  BY <1>1, <1>2, <1>3, <1>4, <1>5

-----------------------------------------------------------------------------
(***************************************************************************)
(* The parts of PoolInv.  An action that leaves a part alone is covered by *)
(* the last step of its proof.                                             *)
(***************************************************************************)
LEMMA WakersStep ==
  ASSUME PoolTypeOK, WakersWake, [Next]_vars
  PROVE  WakersWake'
<1>1. CASE UNCHANGED <<thread, waker>>
  BY <1>1 DEF WakersWake
<1>2. CASE LoseRegistration
  BY <1>2, PoolConstantsOK DEF LoseRegistration, WakersWake, PoolTypeOK, Wakers
<1>3. ASSUME NEW a \in Wakers, WakerStep(a)
      PROVE  WakersWake'
  <2>1. CASE AccessPipe(a)
    BY <1>3, <2>1, PoolConstantsOK DEF AccessPipe, WakersWake, PoolTypeOK, Wakers, Actors
  <2>2. CASE CachePipe(a)
    BY <1>3, <2>2 DEF CachePipe, WakersWake, PoolTypeOK, Wakers
  <2>3. CASE WritePipe(a)
    BY <1>3, <2>3 DEF WritePipe, WakersWake, PoolTypeOK, Wakers, NotWaking, FreeThread
  <2>4. QED
    BY <1>3, <2>1, <2>2, <2>3 DEF WakerStep
<1>4. ASSUME NEW t \in Threads, NEW j \in Jobs, Take(t, j)
      PROVE  WakersWake'
  BY <1>4 DEF Take, WakersWake, PoolTypeOK, FreeThread, pipeVars
<1>5. ASSUME NEW t \in Threads, Perform(t) \/ PerformRaises(t) \/ Increment(t)
      PROVE  WakersWake'
  BY <1>5 DEF Perform, PerformRaises, Increment, WakersWake, PoolTypeOK, Performing, Ended,
              pipeVars
<1>6. ASSUME NEW t \in Threads, CheckIdle(t)
      PROVE  WakersWake'
  BY <1>6 DEF CheckIdle, WakersWake, PoolTypeOK, Wakers, FreeThread
<1>7. QED
  <2>1. ASSUME NEW t \in Threads, ThreadStep(t) \/ Perform(t) \/ PerformRaises(t) \/ OpenFile(t)
        PROVE  WakersWake'
    BY <2>1, <1>1, <1>3, <1>4, <1>5, <1>6 DEF ThreadStep, OpenFile, Wakers
  <2>2. ASSUME MainStep \/ TimesOut("long") \/ PollRaises \/ Stop
        PROVE  UNCHANGED <<thread, waker>>
    BY <2>2 DEF MainStep, Check, ReadIdleThreads, ClaimFrom, Claimed, PostDecrement,
                PostSubmit, PollReturns, Sleep, StorePipe, Interrupted, Drain, TimesOut,
                ShutPool, ShutPipe, Deregister, PollRaises, Stop, pipeVars
  <2>3. ASSUME NEW j \in Jobs, Arrive(j) \/ TakenByOther(j)
        PROVE  UNCHANGED <<thread, waker>>
    BY <2>3 DEF Arrive, TakenByOther, pipeVars
  <2>4. HeartbeatThread \in Wakers
    BY DEF Wakers
  <2>5. QED
    BY <1>1, <1>2, <1>3, <2>1, <2>2, <2>3, <2>4 DEF Next, vars, pipeVars

(* Nobody is given a thread that is not there, and none is lost.           *)
LEMMA CountedStep ==
  ASSUME PoolInv, [Next]_vars
  PROVE  ThreadsCounted'
<1> USE Counts DEF PoolInv
<1>1. CASE UNCHANGED <<available, queue, Occupied, posting>> /\ (main' = main \/ ~Looping')
  BY <1>1 DEF ThreadsCounted, InUse, Posted, Looping
<1>2. CASE UNCHANGED <<available, queue, thread, posting>>
           /\ (Looping' => Looping /\ main # "submit" /\ main' # "submit")
  BY <1>2 DEF ThreadsCounted, InUse, Posted, Looping, Occupied
<1>3. CASE PostDecrement
  <2>1. PICK j \in batch : posting' = j
    BY <1>3 DEF PostDecrement
  <2>2. posting = NoJob /\ posting' # NoJob /\ Occupied' = Occupied
    BY <1>3, <2>1, PoolConstantsOK
    DEF PostDecrement, ThreadsCounted, Looping, PoolTypeOK, Occupied, pipeVars
  <2>3. QED
    BY <1>3, <2>2 DEF PostDecrement, ThreadsCounted, InUse, Posted, Looping
<1>4. CASE PostSubmit
  <2>1. posting \in Jobs \ queue /\ Occupied' = Occupied
    BY <1>4 DEF PostSubmit, ThreadsCounted, JobsApart, Looping, PoolTypeOK, Occupied
  <2>2. Cardinality(queue') = Cardinality(queue) + 1
    BY <1>4, <2>1, JobSets DEF PostSubmit, PoolTypeOK
  <2>3. QED
    BY <1>4, <2>1, <2>2, PoolConstantsOK
    DEF PostSubmit, ThreadsCounted, InUse, Posted, Looping
<1>5. CASE ShutPool
  <2>1. Cardinality(queue') = 0 /\ Occupied' = Occupied
    BY <1>5, FS_EmptySet DEF ShutPool, Occupied
  <2>2. QED
    BY <1>5, <2>1 DEF ShutPool, ThreadsCounted, InUse, Posted, Looping
<1>6. ASSUME NEW t \in Threads, NEW j \in Jobs, Take(t, j)
      PROVE  ThreadsCounted'
  <2>1. Cardinality(queue') = Cardinality(queue) - 1
    BY <1>6, JobSets DEF Take, PoolTypeOK
  <2>2. Cardinality(Occupied') = Cardinality(Occupied) + 1
    BY <1>6, OccupiedTake
  <2>3. UNCHANGED <<main, available, posting>>
    BY <1>6 DEF Take
  <2>4. QED
    BY <2>1, <2>2, <2>3 DEF ThreadsCounted, InUse, Posted, Looping
<1>7. ASSUME NEW t \in Threads, Increment(t)
      PROVE  ThreadsCounted'
  <2>1. Cardinality(Occupied') = Cardinality(Occupied) - 1
    BY <1>7, OccupiedIncrement
  <2>2. available' = available + 1 /\ UNCHANGED <<main, queue, posting>>
    BY <1>7 DEF Increment, jobVars
  <2>3. QED
    BY <2>1, <2>2 DEF ThreadsCounted, InUse, Posted, Looping
<1>8. ASSUME NEW t \in Threads, ThreadStep(t) \/ Perform(t) \/ PerformRaises(t) \/ OpenFile(t)
      PROVE  ThreadsCounted'
  <2>1. CASE Perform(t) \/ PerformRaises(t) \/ CheckIdle(t) \/ OpenFile(t) \/ WakerStep(t)
    <3>1. UNCHANGED <<available, queue, posting, main>>
      BY <2>1 DEF Perform, PerformRaises, CheckIdle, OpenFile, WakerStep, AccessPipe,
                  CachePipe, WritePipe, jobVars
    <3>2. QED
      BY <1>1, <2>1, <3>1, OccupiedOtherwise
  <2>2. QED
    BY <1>6, <1>7, <1>8, <2>1 DEF ThreadStep
<1>9. CASE Stop \/ LoseRegistration \/ WakerStep(HeartbeatThread) \/ UNCHANGED vars
  <2>1. UNCHANGED <<available, queue, thread, posting, main>>
    BY <1>9, PoolConstantsOK
    DEF Stop, LoseRegistration, WakerStep, AccessPipe, CachePipe, WritePipe, jobVars, vars
  <2>2. QED
    BY <1>1, <2>1 DEF Occupied
<1>10. ASSUME NEW j \in Jobs, Arrive(j) \/ TakenByOther(j)
       PROVE  ThreadsCounted'
  BY <1>1, <1>10 DEF Arrive, TakenByOther, Occupied
<1>11. CASE PollRaises \/ ShutPipe \/ Deregister
  BY <1>1, <1>11 DEF PollRaises, ShutPipe, Deregister, Occupied, Looping, jobVars
<1>12. CASE \/ Check \/ ReadIdleThreads \/ ClaimFrom \/ Claimed \/ PollReturns \/ Sleep
            \/ StorePipe \/ Interrupted \/ Drain \/ TimesOut("short") \/ TimesOut("long")
  BY <1>2, <1>12 DEF Check, ReadIdleThreads, ClaimFrom, Claimed, PollReturns, Sleep,
       StorePipe, Interrupted, Drain, TimesOut, Awake, Looping, jobVars
<1>13. QED
  BY <1>3, <1>4, <1>5, <1>8, <1>9, <1>10, <1>11, <1>12 DEF Next, MainStep

(* What may be claimed never outgrows the threads: the relations share one *)
(* limit, read when every thread not available was already in use.         *)
LEMMA BatchStep ==
  ASSUME PoolInv, [Next]_vars
  PROVE  BatchFits'
<1> USE Counts DEF PoolInv
<1>1. CASE UNCHANGED <<available, batch, limit, main>>
  BY <1>1 DEF BatchFits, Looping
<1>2. CASE UNCHANGED <<available, batch>> /\ ~Looping'
  BY <1>2 DEF BatchFits, Looping
<1>3. CASE UNCHANGED <<available, batch>> /\ main' # "claim" /\ Looping
           /\ (main \in {"claim", "post", "submit"} => main' = "post" \/ batch = {})
  BY <1>3 DEF BatchFits, Looping
<1>4. CASE ReadIdleThreads
  <2>1. batch = {} /\ Cardinality(batch) = 0
    BY <1>4, FS_EmptySet DEF ReadIdleThreads, BatchFits, Looping
  <2>2. QED
    BY <1>4, <2>1 DEF ReadIdleThreads, BatchFits, jobVars
<1>5. CASE ClaimFrom
  <2>1. PICK claimed \in SUBSET Jobs :
          /\ Cardinality(claimed) <= limit
          /\ batch' = batch \cup claimed
          /\ limit' = limit - Cardinality(claimed)
    BY <1>5 DEF ClaimFrom, LimitAfter, PoolTypeOK
  <2>2. /\ IsFiniteSet(batch) /\ IsFiniteSet(claimed) /\ Cardinality(claimed) \in Nat
        /\ IsFiniteSet(batch \cap claimed) /\ Cardinality(batch \cap claimed) \in Nat
    BY JobSets DEF PoolTypeOK
  <2>3. Cardinality(batch \cup claimed) =
          Cardinality(batch) + Cardinality(claimed) - Cardinality(batch \cap claimed)
    BY <2>2, FS_Union
  <2>4. /\ Cardinality(batch') <= Cardinality(batch) + Cardinality(claimed)
        /\ Cardinality(batch') \in Int
    BY <2>1, <2>2, <2>3
  <2>5. main = "claim" /\ main' = "claim" /\ available' = available
    BY <1>5 DEF ClaimFrom
  <2>6. Cardinality(batch') + limit' <= available'
    BY <2>1, <2>2, <2>3, <2>4, <2>5 DEF BatchFits
  <2>7. QED
    BY <2>5, <2>6 DEF BatchFits
<1>6. CASE PostDecrement
  <2>1. PICK j \in batch : batch' = batch \ {j}
    BY <1>6 DEF PostDecrement
  <2>2. Cardinality(batch') = Cardinality(batch) - 1
    BY <2>1, JobSets DEF PoolTypeOK
  <2>3. QED
    BY <1>6, <2>2 DEF PostDecrement, BatchFits, Looping
<1>7. ASSUME NEW t \in Threads, ThreadStep(t) \/ Perform(t) \/ PerformRaises(t) \/ OpenFile(t)
      PROVE  BatchFits'
  <2>1. CASE Increment(t)
    BY <2>1 DEF Increment, BatchFits, Looping, jobVars, loopVars
  <2>2. CASE \E j \in Jobs : Take(t, j)
    BY <1>1, <2>2 DEF Take, loopVars
  <2>3. CASE Perform(t) \/ PerformRaises(t) \/ CheckIdle(t) \/ OpenFile(t) \/ WakerStep(t)
    BY <1>1, <2>3 DEF Perform, PerformRaises, CheckIdle, OpenFile, WakerStep, AccessPipe,
                      CachePipe, WritePipe, jobVars, loopVars
  <2>4. QED
    BY <1>7, <2>1, <2>2, <2>3 DEF ThreadStep
<1>8. CASE Stop \/ LoseRegistration \/ WakerStep(HeartbeatThread) \/ UNCHANGED vars
           \/ \E j \in Jobs : Arrive(j) \/ TakenByOther(j)
  BY <1>1, <1>8
  DEF Stop, LoseRegistration, WakerStep, AccessPipe, CachePipe, WritePipe, Arrive,
      TakenByOther, jobVars, loopVars, vars
<1>9. CASE PollRaises \/ ShutPool \/ ShutPipe \/ Deregister
  BY <1>2, <1>9 DEF PollRaises, ShutPool, ShutPipe, Deregister, Looping, jobVars
<1>10. CASE Check
  BY <1>2, <1>3, <1>10 DEF Check, Looping, jobVars
<1>11. CASE \/ Claimed \/ PostSubmit \/ PollReturns \/ Sleep \/ StorePipe
            \/ Interrupted \/ Drain \/ TimesOut("short") \/ TimesOut("long")
  BY <1>3, <1>11 DEF Claimed, PostSubmit, PollReturns, Sleep, StorePipe, Interrupted,
       Drain, TimesOut, Awake, Looping, jobVars
<1>12. QED
  BY <1>4, <1>5, <1>6, <1>7, <1>8, <1>9, <1>10, <1>11 DEF Next, MainStep

(* No job is in two places, and none is performed by two threads.          *)
LEMMA ApartStep ==
  ASSUME PoolInv, [Next]_vars
  PROVE  JobsApart'
<1> SUFFICES ASSUME Looping'
             PROVE  JobsApart'
  BY DEF JobsApart
<1> USE DEF PoolInv
<1>1. CASE UNCHANGED <<ready, claims, batch, queue, posting, thread>> /\ Looping
  BY <1>1 DEF JobsApart, Performed, Performing
<1>2. CASE ClaimFrom
  <2>1. PICK claimed \in SUBSET ready :
          ready' = ready \ claimed /\ claims' = claims \cup claimed
          /\ batch' = batch \cup claimed
    BY <1>2 DEF ClaimFrom
  <2>2. Looping /\ UNCHANGED <<queue, posting, thread>>
    BY <1>2 DEF ClaimFrom, Looping
  <2>3. QED
    BY <2>1, <2>2 DEF JobsApart, Performed, Performing
<1>3. CASE PostDecrement
  <2>1. PICK j \in batch : posting' = j /\ batch' = batch \ {j}
    BY <1>3 DEF PostDecrement
  <2>2. Looping /\ UNCHANGED <<ready, claims, queue, thread>>
    BY <1>3 DEF PostDecrement, Looping
  <2>3. QED
    BY <2>1, <2>2 DEF JobsApart, Performed, Performing
<1>4. CASE PostSubmit
  <2>1. Looping /\ posting # NoJob
    BY <1>4 DEF PostSubmit, Looping, ThreadsCounted
  <2>2. QED
    BY <1>4, <2>1 DEF PostSubmit, JobsApart, Performed, Performing
<1>5. ASSUME NEW j \in Jobs, Arrive(j) \/ TakenByOther(j)
      PROVE  JobsApart'
  BY <1>5 DEF Arrive, TakenByOther, JobsApart, Performed, Performing, Looping
<1>6. ASSUME NEW t \in Threads, NEW j \in Jobs, Take(t, j)
      PROVE  JobsApart'
  <2>1. /\ Looping /\ j \in queue /\ queue' = queue \ {j}
        /\ UNCHANGED <<ready, claims, batch, posting>>
    BY <1>6 DEF Take, Looping
  <2>2. /\ t \notin Performing /\ Performing' = Performing \cup {t}
        /\ thread'[t].job = j
        /\ \A u \in Performing : thread'[u] = thread[u]
    BY <1>6 DEF Take, Performing, PoolTypeOK, FreeThread
  <2>3. Performed' = Performed \cup {j}
    BY <2>2 DEF Performed
  <2>4. \A u, v \in Performing' : thread'[u].job = thread'[v].job => u = v
    BY <2>1, <2>2 DEF JobsApart, Performed
  <2>5. QED
    BY <2>1, <2>3, <2>4 DEF JobsApart
<1>7. ASSUME NEW t \in Threads, Perform(t) \/ PerformRaises(t)
      PROVE  JobsApart'
  <2>1. /\ Looping /\ claims' \in {claims, claims \ {thread[t].job}}
        /\ UNCHANGED <<ready, queue, batch, posting>>
    BY <1>7 DEF Perform, PerformRaises, Looping, jobVars
  <2>2. /\ t \in Performing /\ Performing' = Performing \ {t}
        /\ \A u \in Performing' : thread'[u] = thread[u]
    BY <1>7 DEF Perform, PerformRaises, Performing, PoolTypeOK, Ended
  <2>3. Performed' = Performed \ {thread[t].job} /\ thread[t].job \in Performed
    BY <2>1, <2>2 DEF Performed, JobsApart
  <2>4. \A u, v \in Performing' : thread'[u].job = thread'[v].job => u = v
    BY <2>1, <2>2 DEF JobsApart
  <2>5. QED
    BY <2>1, <2>3, <2>4 DEF JobsApart
<1>8. ASSUME UNCHANGED <<ready, claims, batch, queue, posting>>, Looping,
             Performing' = Performing, \A u \in Performing : thread'[u] = thread[u]
      PROVE  JobsApart'
  BY <1>8 DEF JobsApart, Performed
<1>9. ASSUME NEW t \in Threads, Increment(t) \/ CheckIdle(t) \/ OpenFile(t) \/ WakerStep(t)
      PROVE  JobsApart'
  <2>1. UNCHANGED <<ready, claims, batch, queue, posting>> /\ Looping
    BY <1>9 DEF Increment, CheckIdle, OpenFile, WakerStep, AccessPipe, CachePipe, WritePipe,
                jobVars, Looping
  <2>2. /\ thread[t].at # "performing" \/ thread' = thread
        /\ \A u \in Threads \ {t} : thread'[u] = thread[u]
        /\ thread'[t].at = thread[t].at \/ thread'[t].at # "performing"
    <3>1. CASE Increment(t) \/ CheckIdle(t)
      BY <3>1 DEF Increment, CheckIdle, PoolTypeOK, FreeThread
    <3>2. CASE OpenFile(t) \/ AccessPipe(t) \/ CachePipe(t)
      BY <3>2 DEF OpenFile, AccessPipe, CachePipe
    <3>3. CASE WritePipe(t)
      BY <3>3 DEF WritePipe, WakersWake, PoolTypeOK, FreeThread
    <3>4. QED
      BY <1>9, <3>1, <3>2, <3>3 DEF WakerStep
  <2>3. Performing' = Performing /\ \A u \in Performing : thread'[u] = thread[u]
    BY <2>2 DEF Performing
  <2>4. QED
    BY <1>8, <2>1, <2>3
<1>10. CASE Stop \/ LoseRegistration \/ WakerStep(HeartbeatThread) \/ UNCHANGED vars
  BY <1>1, <1>10, PoolConstantsOK
  DEF Stop, LoseRegistration, WakerStep, AccessPipe, CachePipe, WritePipe, jobVars, vars,
      Looping
<1>11. CASE \/ Check \/ ReadIdleThreads \/ Claimed \/ PollReturns \/ Sleep \/ StorePipe
            \/ Interrupted \/ Drain \/ TimesOut("short") \/ TimesOut("long")
  BY <1>1, <1>11 DEF Check, ReadIdleThreads, Claimed, PollReturns, Sleep, StorePipe,
       Interrupted, Drain, TimesOut, Awake, jobVars, Looping
<1>12. CASE PollRaises \/ ShutPool \/ ShutPipe \/ Deregister
  BY <1>12 DEF PollRaises, ShutPool, ShutPipe, Deregister, Looping
<1>13. QED
  BY <1>2, <1>3, <1>4, <1>5, <1>6, <1>7, <1>9, <1>10, <1>11, <1>12
  DEF Next, MainStep, ThreadStep

(* wake_up leaves the types alone, whoever calls it.                       *)
LEMMA WakerKeepsType ==
  ASSUME PoolTypeOK, WakersWake, NEW a \in Wakers, WakerStep(a)
  PROVE  PoolTypeOK'
<1>1. CASE AccessPipe(a)
  <2>1. waker' \in [Wakers -> [at : {"no", "access", "made", "write"},
                               pipe : Actors \cup {NoPipe}]]
    BY <1>1 DEF AccessPipe, PoolTypeOK, Actors
  <2>2. QED
    BY <1>1, <2>1 DEF AccessPipe, PoolTypeOK, loopVars, jobVars
<1>2. CASE CachePipe(a)
  <2>1. waker' \in [Wakers -> [at : {"no", "access", "made", "write"},
                               pipe : Actors \cup {NoPipe}]]
    BY <1>2 DEF CachePipe, PoolTypeOK
  <2>2. QED
    BY <1>2, <2>1 DEF CachePipe, PoolTypeOK, loopVars, jobVars, Actors
<1>3. CASE WritePipe(a)
  <2>1. waker' \in [Wakers -> [at : {"no", "access", "made", "write"},
                               pipe : Actors \cup {NoPipe}]]
    BY <1>3 DEF WritePipe, PoolTypeOK, NotWaking
  <2>2. thread' \in [Threads -> [at : {"free", "performing", "ended", "idle", "waking"},
                                 job : Jobs \cup {NoJob}]]
    BY <1>3 DEF WritePipe, PoolTypeOK, FreeThread
  <2>3. waker[a].pipe \in Actors
    BY <1>3 DEF WritePipe, WakersWake, PoolTypeOK
  <2>4. bytes' \subseteq Actors /\ stray' \in BOOLEAN
    BY <1>3, <2>3 DEF WritePipe, WriteTo, PoolTypeOK
  <2>5. QED
    BY <1>3, <2>1, <2>2, <2>4 DEF WritePipe, PoolTypeOK, loopVars, jobVars
<1>4. QED
  BY <1>1, <1>2, <1>3 DEF WakerStep

(* The counters stay within the size of the pool.                          *)
LEMMA TypeStep ==
  ASSUME PoolInv, [Next]_vars
  PROVE  PoolTypeOK'
<1> USE Counts DEF PoolInv
<1>1. ASSUME NEW t \in Threads, ThreadStep(t) \/ Perform(t) \/ PerformRaises(t) \/ OpenFile(t)
      PROVE  PoolTypeOK'
  <2>1. ASSUME NEW j \in Jobs, Take(t, j)
        PROVE  PoolTypeOK'
    BY <2>1 DEF Take, PoolTypeOK, loopVars, pipeVars
  <2>2. CASE Perform(t) \/ PerformRaises(t)
    <3>1. thread' = [thread EXCEPT ![t] = [at |-> "ended", job |-> thread[t].job]]
      BY <2>2 DEF Perform, PerformRaises, Ended, PoolTypeOK
    <3>2. thread' \in [Threads -> [at : {"free", "performing", "ended", "idle", "waking"},
                                   job : Jobs \cup {NoJob}]]
      BY <3>1 DEF PoolTypeOK
    <3>3. QED
      BY <2>2, <3>2 DEF Perform, PerformRaises, PoolTypeOK, loopVars, jobVars, pipeVars
  <2>3. CASE Increment(t)
    <3>1. Cardinality(Occupied) > 0 /\ available' = available + 1
      BY <2>3, OccupiedIncrement DEF Increment
    <3>2. available + Cardinality(queue) + Cardinality(Occupied) + Posted <= Size
      BY DEF ThreadsCounted, InUse
    <3>3. available' \in 0..Size
      BY <3>1, <3>2
    <3>4. QED
      BY <2>3, <3>3 DEF Increment, PoolTypeOK, loopVars, jobVars, pipeVars
  <2>4. CASE CheckIdle(t)
    <3>1. thread' \in [Threads -> [at : {"free", "performing", "ended", "idle", "waking"},
                                   job : Jobs \cup {NoJob}]]
      BY <2>4 DEF CheckIdle, PoolTypeOK, FreeThread
    <3>2. waker' \in [Wakers -> [at : {"no", "access", "made", "write"},
                                 pipe : Actors \cup {NoPipe}]]
      BY <2>4 DEF CheckIdle, PoolTypeOK
    <3>3. QED
      BY <2>4, <3>1, <3>2 DEF CheckIdle, PoolTypeOK, loopVars, jobVars
  <2>5. CASE OpenFile(t)
    BY <2>5 DEF OpenFile, PoolTypeOK, loopVars, jobVars
  <2>6. CASE WakerStep(t)
    BY <2>6, WakerKeepsType DEF Wakers
  <2>7. QED
    BY <1>1, <2>1, <2>2, <2>3, <2>4, <2>5, <2>6 DEF ThreadStep
<1>2. CASE Stop \/ LoseRegistration \/ WakerStep(HeartbeatThread) \/ UNCHANGED vars
  <2>1. CASE Stop
    BY <2>1 DEF Stop, InterruptFromHandler, WriteTo, PoolTypeOK, Actors, loopVars, jobVars
  <2>2. CASE LoseRegistration
    <3>1. waker' \in [Wakers -> [at : {"no", "access", "made", "write"},
                                 pipe : Actors \cup {NoPipe}]]
      BY <2>2 DEF LoseRegistration, PoolTypeOK
    <3>2. /\ registered' = FALSE
          /\ UNCHANGED <<main, stopped, limit, relation, delay, available, ready, claims, queue,
                         batch, posting, thread, pipe, bytes, sleepsOn, closed, reused, stray>>
      BY <2>2 DEF LoseRegistration, loopVars, jobVars
    <3>3. /\ main' = main /\ stopped' = stopped /\ limit' = limit /\ relation' = relation
          /\ delay' = delay /\ available' = available /\ ready' = ready /\ claims' = claims
          /\ queue' = queue /\ batch' = batch /\ posting' = posting
      BY <3>2
    <3>4. /\ thread' = thread /\ pipe' = pipe /\ bytes' = bytes /\ sleepsOn' = sleepsOn
          /\ closed' = closed /\ reused' = reused /\ stray' = stray /\ registered' \in BOOLEAN
      BY <3>2
    <3> HIDE <2>2
    <3>5. QED
      BY <3>1, <3>3, <3>4 DEF PoolTypeOK
  <2>3. CASE WakerStep(HeartbeatThread)
    BY <2>3, WakerKeepsType DEF Wakers
  <2>4. CASE UNCHANGED vars
    BY <2>4 DEF PoolTypeOK, vars, loopVars, jobVars, pipeVars
  <2>5. QED
    BY <1>2, <2>1, <2>2, <2>3, <2>4
<1>3. ASSUME NEW j \in Jobs, Arrive(j) \/ TakenByOther(j)
      PROVE  PoolTypeOK'
  BY <1>3 DEF Arrive, TakenByOther, PoolTypeOK, loopVars, pipeVars
<1>4. CASE ReadIdleThreads
  BY <1>4 DEF ReadIdleThreads, PoolTypeOK, jobVars, pipeVars
<1>5. CASE ClaimFrom
  <2>1. PICK claimed \in SUBSET ready :
          /\ Cardinality(claimed) <= limit
          /\ ready' = ready \ claimed
          /\ claims' = claims \cup claimed
          /\ batch' = batch \cup claimed
          /\ limit' = limit - Cardinality(claimed)
    BY <1>5 DEF ClaimFrom, LimitAfter
  <2>2. Cardinality(claimed) \in Nat
    BY JobSets DEF PoolTypeOK
  <2>3. limit' \in 0..Size
    BY <2>1, <2>2 DEF PoolTypeOK
  <2>4. relation' \in 1..(Relations + 1)
    BY <1>5, PoolConstantsOK DEF ClaimFrom, PoolTypeOK
  <2>5. UNCHANGED <<main, stopped, registered, delay, available, queue, posting, thread, pipeVars>>
    BY <1>5 DEF ClaimFrom
  <2>6. QED
    BY <2>1, <2>3, <2>4, <2>5 DEF PoolTypeOK, pipeVars
<1>6. CASE Claimed
  BY <1>6, PoolConstantsOK DEF Claimed, PoolTypeOK, jobVars, pipeVars
<1>7. CASE PostDecrement
  <2>1. PICK j \in batch : posting' = j /\ batch' = batch \ {j}
    BY <1>7 DEF PostDecrement
  <2>2. Cardinality(batch) > 0
    BY <2>1, JobSets DEF PoolTypeOK
  <2>3. available' \in 0..Size
    BY <1>7, <2>2 DEF PostDecrement, BatchFits, PoolTypeOK
  <2>4. QED
    BY <1>7, <2>1, <2>3 DEF PostDecrement, PoolTypeOK, loopVars, pipeVars
<1>8. CASE PostSubmit
  <2>1. posting \in Jobs
    BY <1>8 DEF PostSubmit, ThreadsCounted, Looping, PoolTypeOK
  <2>2. QED
    BY <1>8, <2>1 DEF PostSubmit, PoolTypeOK, loopVars, pipeVars
<1>9. CASE Check \/ PollReturns \/ PollRaises \/ Interrupted
  BY <1>9 DEF Check, PollReturns, PollRaises, Interrupted, PoolTypeOK, loopVars, jobVars,
              pipeVars
<1>10. CASE Sleep \/ StorePipe \/ Drain \/ TimesOut("short") \/ TimesOut("long")
  BY <1>10 DEF Sleep, StorePipe, Drain, TimesOut, Awake, PoolTypeOK, loopVars, jobVars, Actors
<1>11. CASE ShutPool \/ ShutPipe \/ Deregister
  BY <1>11 DEF ShutPool, ShutPipe, Deregister, PoolTypeOK, loopVars, jobVars, pipeVars
<1>12. QED
  BY <1>1, <1>2, <1>3, <1>4, <1>5, <1>6, <1>7, <1>8, <1>9, <1>10, <1>11 DEF Next, MainStep

LEMMA PoolInvariant == Spec => []PoolInv
<1>1. Init => PoolInv
  <2> SUFFICES ASSUME Init
               PROVE  PoolInv
    OBVIOUS
  <2>1. PoolTypeOK
    <3>1. /\ limit \in 0..Size /\ available \in 0..Size /\ relation \in 1..(Relations + 1)
      BY SizeIsNatural, PoolConstantsOK DEF Init
    <3>2. thread \in [Threads -> [at : {"free", "performing", "ended", "idle", "waking"},
                                  job : Jobs \cup {NoJob}]]
      BY DEF Init, FreeThread
    <3>3. waker \in [Wakers -> [at : {"no", "access", "made", "write"},
                                pipe : Actors \cup {NoPipe}]]
      BY DEF Init, NotWaking
    <3>4. QED
      BY <3>1, <3>2, <3>3 DEF Init, PoolTypeOK, Actors
  <2>2. WakersWake
    BY DEF Init, WakersWake, FreeThread, NotWaking, Wakers
  <2>3. Occupied = {} /\ Performed = {} /\ Performing = {}
    BY DEF Init, Occupied, Performed, Performing, FreeThread
  <2>4. Cardinality(Occupied) = 0 /\ Cardinality(queue) = 0 /\ Cardinality(batch) = 0
    BY <2>3, FS_EmptySet DEF Init
  <2>5. ThreadsCounted /\ BatchFits
    BY <2>4, SizeIsNatural DEF Init, ThreadsCounted, BatchFits, InUse, Posted, Looping
  <2>6. JobsApart
    BY <2>3 DEF Init, JobsApart
  <2>7. QED
    BY <2>1, <2>2, <2>5, <2>6 DEF PoolInv
<1>2. PoolInv /\ [Next]_vars => PoolInv'
  BY TypeStep, WakersStep, CountedStep, BatchStep, ApartStep DEF PoolInv
<1>3. QED
  BY <1>1, <1>2, PTL DEF Spec
-----------------------------------------------------------------------------
(* The counters of a worker's pool stay within its size and its sets within*)
(* the jobs and threads there are, in every state.                         *)
THEOREM PoolTypes == Spec => []PoolTypeOK
BY PoolInvariant, PTL DEF PoolInv

(* The counter of available threads is exact at every step of the poll     *)
(* loop, of Pool.post and of wrapped_execution: no thread leaks.           *)
THEOREM PoolCounter == Spec => []CounterExact
<1>1. PoolInv => CounterExact
  <2> SUFFICES ASSUME PoolInv, Looping
               PROVE  CounterExact
    BY DEF CounterExact
  <2>1. InUse = Size /\ (posting # NoJob <=> main = "submit")
    BY DEF PoolInv, ThreadsCounted
  <2>2. QED
    BY <2>1, Counts DEF PoolInv, CounterExact, InUse, Posted
<1>2. QED
  BY <1>1, PoolInvariant, PTL

(* A worker never claims, through all relations of a poll and of the polls *)
(* before, more than its pool has threads for.                             *)
THEOREM PoolBound == Spec => []WithinPool
<1>1. PoolInv => WithinPool
  <2> SUFFICES ASSUME PoolInv
               PROVE  WithinPool
    OBVIOUS
  <2>1. Occupied \in SUBSET Threads /\ Performing \in SUBSET Occupied
    BY DEF Occupied, Performing
  <2>2. /\ Cardinality(Performing) <= Cardinality(Occupied)
        /\ Cardinality(Performing) \in Nat
    BY <2>1, ThreadSets, FS_Subset, FS_CardinalityType
  <2>3. /\ Cardinality(batch) <= available
        /\ available + Cardinality(queue) + Cardinality(Occupied) + Posted <= Size
    BY Counts DEF PoolInv, ThreadsCounted, BatchFits, InUse
  <2>4. QED
    BY <2>2, <2>3, Counts DEF PoolInv, WithinPool, Posted
<1>2. QED
  BY <1>1, PoolInvariant, PTL
-----------------------------------------------------------------------------
(***************************************************************************)
(* The wake-ups, when the pipe was made before the threads that share it.  *)
(* On the first sleep two of them may each make one (FreshPipe), and the   *)
(* wake-up is lost.                                                        *)
(***************************************************************************)
LEMMA MainThreadPipe == MainThread \in Actors /\ MainThread # NoPipe
BY PoolConstantsOK DEF Actors

(* The one pipe stays the one that everybody writes to and sleeps on.      *)
LEMMA OnePipeStep ==
  ASSUME PoolInv, OnePipe, [Next]_vars
  PROVE  OnePipe'
<1> USE MainThreadPipe DEF PoolInv
<1>1. CASE UNCHANGED <<main, pipe, sleepsOn, waker, closed>>
  BY <1>1 DEF OnePipe, Looping
<1>2. CASE UNCHANGED <<pipe, sleepsOn, waker, closed>> /\ (Looping' => Looping)
           /\ (main' \in {"made", "select", "drain"} => main = "select" /\ main' = "drain")
  BY <1>2 DEF OnePipe, Looping
<1>3. CASE Sleep
  BY <1>3 DEF Sleep, OnePipe, Looping
<1>4. CASE Drain \/ TimesOut("short") \/ TimesOut("long")
  BY <1>4 DEF Drain, TimesOut, Awake, OnePipe, Looping
<1>5. CASE ShutPipe
  BY <1>5 DEF ShutPipe, OnePipe, Looping
<1>6. CASE Stop
  BY <1>6 DEF Stop, InterruptFromHandler, OnePipe, Looping
<1>7. CASE LoseRegistration
  BY <1>7 DEF LoseRegistration, OnePipe, Looping, PoolTypeOK
<1>8. ASSUME NEW a \in Wakers, WakerStep(a)
      PROVE  OnePipe'
  <2>1. CASE AccessPipe(a)
    BY <1>8, <2>1 DEF AccessPipe, OnePipe, Looping, PoolTypeOK
  <2>2. CASE CachePipe(a)
    BY <1>8, <2>2 DEF CachePipe, OnePipe
  <2>3. CASE WritePipe(a)
    BY <1>8, <2>3 DEF WritePipe, OnePipe, Looping, PoolTypeOK, NotWaking
  <2>4. QED
    BY <1>8, <2>1, <2>2, <2>3 DEF WakerStep
<1>9. ASSUME NEW t \in Threads, CheckIdle(t)
      PROVE  OnePipe'
  BY <1>9 DEF CheckIdle, OnePipe, Looping, PoolTypeOK, Wakers
<1>10. ASSUME NEW t \in Threads, ThreadStep(t) \/ Perform(t) \/ PerformRaises(t) \/ OpenFile(t)
       PROVE  OnePipe'
  BY <1>1, <1>8, <1>9, <1>10
  DEF ThreadStep, Take, Perform, PerformRaises, Increment, OpenFile, pipeVars, Wakers
<1>11. ASSUME NEW j \in Jobs, Arrive(j) \/ TakenByOther(j)
       PROVE  OnePipe'
  BY <1>1, <1>11 DEF Arrive, TakenByOther, pipeVars
<1>12. CASE \/ Check \/ ReadIdleThreads \/ ClaimFrom \/ Claimed \/ PostDecrement \/ PostSubmit
            \/ PollReturns \/ PollRaises \/ Interrupted \/ ShutPool \/ Deregister
  BY <1>2, <1>12 DEF Check, ReadIdleThreads, ClaimFrom, Claimed, PostDecrement, PostSubmit,
       PollReturns, PollRaises, Interrupted, ShutPool, Deregister, Looping, pipeVars
<1>13. CASE StorePipe
  BY <1>13 DEF StorePipe, OnePipe
<1>14. HeartbeatThread \in Wakers
  BY DEF Wakers
<1>15. QED
  BY <1>1, <1>3, <1>4, <1>5, <1>6, <1>7, <1>8, <1>10, <1>11, <1>12, <1>13, <1>14
  DEF Next, MainStep, vars, pipeVars

(* A thread made available during a long sleep ends it, and so does stop.  *)
LEMMA WakeUpStep ==
  ASSUME PoolInv, PipeInv, [Next]_vars
  PROVE  WakeUpComes'
<1> DEFINE Unwoken == ~registered /\ waker[HeartbeatThread].at = "no"
<1> USE MainThreadPipe, Counts DEF PoolInv, PipeInv
<1>1. CASE /\ UNCHANGED <<main, stopped, delay, available, pipe>> /\ bytes \subseteq bytes'
           /\ \A t \in Threads : thread[t].at \in {"idle", "waking"}
                                 => thread'[t].at \in {"idle", "waking"}
           /\ Unwoken' => Unwoken
  BY <1>1 DEF WakeUpComes, Sleeping, Looping
<1>2. CASE UNCHANGED <<stopped, pipe, bytes>> /\ ~Sleeping'
           /\ (Looping' /\ main' \notin {"check", "drain"}
                 => Looping /\ (main \notin {"check", "drain"} \/ (~stopped /\ registered)))
           /\ UNCHANGED <<registered, waker>>
  BY <1>2 DEF WakeUpComes
<1>3. CASE Check
  BY <1>2, <1>3 DEF Check, IsShuttingDown, Sleeping, Looping, pipeVars
<1>4. CASE \/ ReadIdleThreads \/ ClaimFrom \/ Claimed \/ PostDecrement \/ PostSubmit
           \/ PollRaises \/ StorePipe \/ Interrupted \/ ShutPool \/ ShutPipe \/ Deregister
  <2>1. main # "made"
    BY DEF OnePipe
  <2>2. QED
    BY <1>2, <1>4, <2>1 DEF ReadIdleThreads, ClaimFrom, Claimed, PostDecrement, PostSubmit,
       PollRaises, StorePipe, Interrupted, ShutPool, ShutPipe, Deregister, Sleeping, Looping,
       pipeVars
<1>5. CASE PollReturns
  BY <1>5 DEF PollReturns, IsIdle, WakeUpComes, Sleeping, Looping, pipeVars
<1>6. CASE Sleep
  BY <1>6 DEF Sleep, OnePipe, WakeUpComes, Sleeping, Looping, loopVars
<1>7. CASE Drain \/ TimesOut("short") \/ TimesOut("long")
  BY <1>7 DEF Drain, TimesOut, Awake, WakeUpComes, Sleeping
<1>8. CASE Stop
  BY <1>8 DEF Stop, InterruptFromHandler, WriteTo, OnePipe, WakeUpComes, Sleeping, Looping
<1>9. CASE LoseRegistration \/ UNCHANGED vars
  <2>1. CASE LoseRegistration
    <3>1. waker'[HeartbeatThread].at = "access"
      BY <2>1 DEF LoseRegistration, PoolTypeOK, Wakers
    <3>2. QED
      BY <1>1, <2>1, <3>1 DEF LoseRegistration, loopVars
  <2>2. CASE UNCHANGED vars
    BY <1>1, <2>2 DEF vars, loopVars, pipeVars
  <2>3. QED
    BY <1>9, <2>1, <2>2
<1>10. ASSUME NEW a \in Wakers, WakerStep(a)
       PROVE  WakeUpComes'
  <2>1. CASE AccessPipe(a)
    BY <1>1, <2>1 DEF AccessPipe, loopVars
  <2>2. CASE CachePipe(a)
    BY <1>10, <2>2 DEF CachePipe, OnePipe
  <2>3. CASE WritePipe(a)
    <3>1. UNCHANGED <<main, pipe>> /\ (Looping' => pipe \in bytes')
      BY <1>10, <2>3 DEF WritePipe, WriteTo, OnePipe, Looping
    <3>2. QED
      BY <3>1 DEF WakeUpComes, Sleeping, Looping
  <2>4. QED
    BY <1>10, <2>1, <2>2, <2>3 DEF WakerStep
<1>11. ASSUME NEW t \in Threads, Increment(t)
       PROVE  WakeUpComes'
  <2>1. thread'[t].at = "idle" /\ UNCHANGED <<main, stopped, registered, pipe, bytes, waker>>
    BY <1>11 DEF Increment, PoolTypeOK, pipeVars
  <2>2. QED
    BY <2>1 DEF WakeUpComes, Sleeping, Looping
<1>12. ASSUME NEW t \in Threads, CheckIdle(t)
       PROVE  WakeUpComes'
  <2>1. UNCHANGED <<main, stopped, delay, available, pipe, bytes>>
    BY <1>12 DEF CheckIdle, loopVars
  <2>2. available > 0 => thread'[t].at = "waking"
    BY <1>12 DEF CheckIdle, WorthWaking, IsIdle, PoolTypeOK
  <2>3. Unwoken' => Unwoken
    BY <1>12 DEF CheckIdle, PoolTypeOK, Wakers
  <2>4. QED
    BY <2>1, <2>2, <2>3 DEF WakeUpComes, Sleeping, Looping
<1>13. ASSUME NEW t \in Threads, NEW j \in Jobs, Take(t, j)
       PROVE  WakeUpComes'
  BY <1>1, <1>13 DEF Take, PoolTypeOK, FreeThread, loopVars, pipeVars
<1>14. ASSUME NEW t \in Threads, Perform(t) \/ PerformRaises(t) \/ OpenFile(t)
       PROVE  WakeUpComes'
  BY <1>1, <1>14 DEF Perform, PerformRaises, OpenFile, Performing, PoolTypeOK, Ended,
                     loopVars, pipeVars
<1>15. ASSUME NEW j \in Jobs, Arrive(j) \/ TakenByOther(j)
       PROVE  WakeUpComes'
  BY <1>1, <1>15 DEF Arrive, TakenByOther, loopVars, pipeVars
<1>16. ASSUME NEW t \in Threads, ThreadStep(t)
       PROVE  WakeUpComes'
  BY <1>10, <1>11, <1>12, <1>13, <1>16 DEF ThreadStep, Wakers
<1>17. HeartbeatThread \in Wakers
  BY DEF Wakers
<1>18. QED
  BY <1>3, <1>4, <1>5, <1>6, <1>7, <1>8, <1>9, <1>10, <1>14, <1>15, <1>16, <1>17
  DEF Next, MainStep

LEMMA PipeInvariant ==
  ASSUME FreshPipe = FALSE
  PROVE  Spec => []PipeInv
<1>1. Init => PipeInv
  BY MainThreadPipe
  DEF Init, PipeInv, OnePipe, WakeUpComes, Sleeping, Looping, NotWaking, FreeThread
<1>2. PoolInv /\ PipeInv /\ [Next]_vars => PipeInv'
  BY OnePipeStep, WakeUpStep DEF PipeInv
<1>3. QED
  BY <1>1, <1>2, PoolInvariant, PTL DEF Spec

(* The main thread does not sleep for ten minutes while a thread is        *)
(* available: poll decides on the long sleep when none is, and on_idle     *)
(* comes for every thread that is given back.                              *)
THEOREM WakeUps ==
  ASSUME FreshPipe = FALSE
  PROVE  Spec => []NoLostWakeUp
<1>1. PipeInv => NoLostWakeUp
  BY DEF PipeInv, OnePipe, WakeUpComes, Sleeping, NoLostWakeUp
<1>2. QED
  BY <1>1, PipeInvariant, PTL

(* A worker told to stop, or one that lost its registration, does not      *)
(* sleep out its ten minutes: the write that ends the sleep is in the pipe *)
(* or about to come, with the pipe made before (FreshPipe = FALSE; the     *)
(* first access may make two, see FirstSleep).                             *)
THEOREM StopWakesUp ==
  ASSUME FreshPipe = FALSE
  PROVE  Spec => []StopInterruptsSleep
<1>1. PipeInv => StopInterruptsSleep
  BY DEF PipeInv, OnePipe, WakeUpComes, Looping, StopInterruptsSleep
<1>2. QED
  BY <1>1, PipeInvariant, PTL
=============================================================================
