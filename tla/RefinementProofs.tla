-------------------------- MODULE RefinementProofs --------------------------
(***************************************************************************)
(* JobLifecycle implements TaskQueue for every number of jobs, keys,       *)
(* limits, workers and threads.                                            *)
(***************************************************************************)
EXTENDS JobRefinement, SlotProofs

(* The status of a job is read from three of its rows.                     *)
LEMMA StatusFrame ==
  ASSUME NEW j \in Jobs,
         job'[j] = job[j], claimed'[j] = claimed[j], j \in failed' <=> j \in failed
  PROVE  StatusOf(j)' = StatusOf(j)
BY DEF StatusOf

LEMMA StatusStays ==
  ASSUME UNCHANGED <<job, claimed, failed>>
  PROVE  Status' = Status
BY StatusFrame DEF Status

LEMMA OneStatusChanges ==
  ASSUME NEW j \in Jobs,
         \A i \in Jobs \ {j} : /\ job'[i] = job[i] /\ claimed'[i] = claimed[i]
                               /\ i \in failed' <=> i \in failed
  PROVE  /\ StatusOf(j)' = StatusOf(j) => Status' = Status
         /\ \A s : StatusOf(j)' = s => Queue!Becomes(j, s)
<1>1. \A i \in Jobs \ {j} : StatusOf(i)' = StatusOf(i)
  BY StatusFrame
<1>2. QED
  BY <1>1 DEF Status, Queue!Becomes

LEMMA StatusValues ==
  ASSUME NEW j \in Jobs
  PROVE  /\ Status[j] = StatusOf(j)
         /\ job[j] = "new" => StatusOf(j) = "absent"
         /\ job[j] \in {"finished", "gone"} => StatusOf(j) = job[j]
         /\ job[j] = "live" /\ claimed[j] # NoThread => StatusOf(j) = "performing"
         /\ job[j] = "live" /\ claimed[j] = NoThread =>
              StatusOf(j) = IF j \in failed THEN "failed" ELSE "waiting"
         /\ job'[j] \in {"finished", "gone"} => StatusOf(j)' = job'[j]
         /\ job'[j] = "live" /\ claimed'[j] # NoThread => StatusOf(j)' = "performing"
         /\ job'[j] = "live" /\ claimed'[j] = NoThread =>
              StatusOf(j)' = IF j \in failed' THEN "failed" ELSE "waiting"
BY DEF StatusOf, Status

(* TaskQueue counts as FiniteSets does.                                    *)
LEMMA SameCardinality ==
  ASSUME NEW S
  PROVE  Queue!Cardinality(S) = Cardinality(S)
BY DEF Queue!Cardinality, Cardinality

(* A job that is claimed finds a slot: those of its key that are being     *)
(* performed, and itself, all hold one.                                    *)
LEMMA ClaimFindsSlot ==
  ASSUME TypeOK, Exclusive, SlotsConserved, NEW j \in Jobs, Limited(j),
         ready[j] # "none", claimed[j] = NoThread
  PROVE  Cardinality(Queue!Performing(KeyOf[j])) < LimitOf[j]
<1> DEFINE k == KeyOf[j]
           P == Queue!Performing(k)
           SlotOf == [i \in P \cup {j} |-> <<"job", i>>]
<1>1. k \in Keys
  BY ConstantsOK DEF Limited
<1>2. ASSUME NEW i \in P
      PROVE  i \in Jobs /\ KeyOf[i] = k /\ claimed[i] # NoThread
  <2>1. i \in Jobs /\ KeyOf[i] = k /\ Status[i] = "performing"
    BY DEF Queue!Performing
  <2>2. QED
    BY <2>1, StatusValues DEF TypeOK
<1>3. ASSUME NEW i \in P \cup {j} PROVE i \in Jobs /\ SlotOf[i] \in Slots(k)
  BY <1>2, SlotMembers DEF JobSlot, Holds
<1>4. SlotOf \in Injection(P \cup {j}, Slots(k))
  BY <1>3 DEF Injection, IsInjective
<1>5. IsFiniteSet(P \cup {j}) /\ Cardinality(P \cup {j}) <= Cardinality(Slots(k))
  BY <1>4, SlotsAreFinite, FS_Injection
<1>6. j \notin P
  BY <1>2
<1>7. IsFiniteSet(P) /\ Cardinality(P) \in Nat
  BY <1>5, FS_Subset, FS_CardinalityType
<1>8. Cardinality(P \cup {j}) = Cardinality(P) + 1
  BY <1>6, <1>7, FS_AddElement
<1>9. Slots(k) # {}
  BY <1>3
<1>10. semaphore[k].value >= 0 /\ semaphore[k].value + Cardinality(Slots(k)) <= LimitOf[j]
  BY <1>1, <1>9 DEF SlotsConserved, SlotsAddUp
<1>11. QED
  BY <1>1, <1>5, <1>7, <1>8, <1>10, SlotCounts, SemaphoreValue, LimitTypes
-----------------------------------------------------------------------------
LEMMA TaskQueueStep ==
  ASSUME Undisturbed, TypeOK, Exclusive, SlotsConserved, [Next]_vars
  PROVE  [Queue!Next]_Status
<1> USE ConstantsOK
<1>0. RowsAreExclusive
  BY DEF Exclusive
<1>1. ASSUME NEW j \in Jobs, Insert(j) PROVE Queue!Next
  <2>1. job[j] = "new" /\ job'[j] = "live" /\ claimed'[j] = NoThread /\ j \notin failed'
    BY <1>0, <1>1 DEF TypeOK, Insert, RowsAreExclusive, RowsExclude
  <2>2. Status[j] = "absent" /\ Queue!Becomes(j, "waiting")
    BY <1>1, <2>1, OneStatusChanges, StatusValues DEF TypeOK, Insert
  <2>3. QED
    BY <2>2 DEF Queue!Next, Queue!Enqueue
<1>2. ASSUME NEW j \in Jobs, DispatchToReady(j) \/ DispatchToBlocked(j)
      PROVE  [Queue!Next]_Status
  <2>1. /\ UNCHANGED <<job, claimed>>
        /\ job[j] = "live" /\ claimed[j] = NoThread
        /\ failed' = failed \/ (j \in failed /\ failed' = failed \ {j})
    BY <1>0, <1>2 DEF TypeOK, RowsAreExclusive, DispatchOwns, DispatchToReady,
                      DispatchToBlocked, At, RemoveOrigin
  <2>2. CASE failed' = failed
    BY <2>1, <2>2, StatusStays
  <2>3. CASE j \in failed /\ failed' = failed \ {j}
    <3>1. Status[j] = "failed" /\ Queue!Becomes(j, "waiting")
      BY <2>1, <2>3, OneStatusChanges, StatusValues
    <3>2. QED
      BY <3>1 DEF Queue!Next, Queue!Retry
  <2>4. QED
    BY <2>1, <2>2, <2>3
<1>3. ASSUME NEW j \in Jobs, Discard(j) PROVE Queue!Next
  <2>1. job[j] = "live" /\ claimed[j] = NoThread
    BY <1>0, <1>3 DEF TypeOK, RowsAreExclusive, RowsExclude, Discard
  <2>2. Status[j] \in {"waiting", "failed"} /\ Queue!Becomes(j, "gone")
    BY <1>3, <2>1, OneStatusChanges, StatusValues DEF TypeOK, Discard
  <2>3. QED
    BY <2>2 DEF Queue!Next, Queue!Discard
<1>4. ASSUME NEW t \in Threads, NEW j \in Jobs, Claim(t, j) PROVE Queue!Next
  <2>1. /\ ready[j] # "none" /\ claimed[j] = NoThread /\ claimed'[j] = t /\ t # NoThread
        /\ job' = job /\ failed' = failed
    BY <1>4 DEF TypeOK, Claim, Selects
  <2>2. job[j] = "live" /\ j \notin failed
    BY <1>0, <2>1 DEF TypeOK, RowsAreExclusive, RowsExclude
  <2>3. Status[j] = "waiting" /\ Queue!Becomes(j, "performing")
    BY <1>4, <2>1, <2>2, OneStatusChanges, StatusValues DEF TypeOK, Claim
  <2>4. KeyOf[j] # NoKey => Cardinality(Queue!Performing(KeyOf[j])) < LimitOf[j]
    BY <2>1, ClaimFindsSlot DEF Limited
  <2>5. Queue!Perform(j)
    BY <2>3, <2>4, SameCardinality, Zenon DEF Queue!Perform
  <2>6. QED
    BY <2>5, Zenon DEF Queue!Next
<1>5. ASSUME NEW t \in Threads, Finish(t) \/ FinishByDelete(t) \/ Fail(t) PROVE Queue!Next
  <2>1. PICK j \in Jobs :
          /\ j = thread[t].job /\ claimed[j] = t /\ t # NoThread
          /\ job[j] = "live" /\ j \notin failed
    BY <1>5, AtWorkHolds DEF Exclusive, Finish, FinishByDelete, Fail
  <2>2. \A i \in Jobs \ {j} : /\ job'[i] = job[i] /\ claimed'[i] = claimed[i]
                              /\ i \in failed' <=> i \in failed
    BY <1>5, <2>1 DEF TypeOK, Finish, FinishByDelete, Fail, WithoutRow
  <2>3. \E s \in {"finished", "failed", "gone"} : StatusOf(j)' = s
    <3>1. CASE Finish(t)
      BY <2>1, <3>1, StatusValues DEF TypeOK, Finish
    <3>2. CASE FinishByDelete(t)
      BY <2>1, <3>2, StatusValues DEF TypeOK, FinishByDelete
    <3>3. CASE Fail(t)
      <4>1. job'[j] = "live" /\ claimed'[j] = NoThread /\ j \in failed'
        BY <2>1, <3>3 DEF TypeOK, Fail, WithoutRow
      <4>2. QED
        BY <4>1, StatusValues
    <3>4. QED
      BY <1>5, <3>1, <3>2, <3>3
  <2>4. Status[j] = "performing"
    BY <2>1, StatusValues
  <2>5. \E s \in {"finished", "failed", "gone"} : Queue!Becomes(j, s)
    <3>1. PICK s \in {"finished", "failed", "gone"} : StatusOf(j)' = s
      BY <2>3
    <3>2. \A x : StatusOf(j)' = x => Queue!Becomes(j, x)
      BY <2>2, OneStatusChanges
    <3>3. QED
      BY <3>1, <3>2
  <2>6. Queue!End(j)
    BY <2>4, <2>5, Zenon DEF Queue!End
  <2>7. QED
    BY <2>6, Zenon DEF Queue!Next
<1>6. ASSUME NEW c \in Cleaners, CleanerFail(c) PROVE Queue!Next
  <2>1. PICK r \in cleaner[c].todo :
          /\ failed' = failed \cup {r[1]} /\ claimed' = WithoutRow(r[1], r[2]) /\ job' = job
    BY <1>6 DEF CleanerFail
  <2>2. c \in Supervisors
    BY <1>6, OneCleaner DEF Exclusive, CleanerFail, CleanerIdle
  <2>3. r[1] \in Jobs /\ r[2] \in Threads
    <3>1. cleaner[c].todo \in SUBSET (Jobs \X Threads)
      BY CleanerRecords DEF TypeOK
    <3>2. QED
      BY <3>1
  <2>4. claimed[r[1]] = r[2] /\ r[2] # NoThread
    BY <2>2, <2>3 DEF Exclusive, SnapshotsAreCurrent, SnapshotIsCurrent
  <2>5. job[r[1]] = "live"
    BY <1>0, <2>3, <2>4 DEF RowsAreExclusive, RowsExclude
  <2>6. /\ claimed'[r[1]] = NoThread /\ r[1] \in failed'
        /\ \A i \in Jobs \ {r[1]} : /\ job'[i] = job[i] /\ claimed'[i] = claimed[i]
                                    /\ i \in failed' <=> i \in failed
    BY <2>1, <2>3, <2>4 DEF TypeOK, WithoutRow
  <2>7. Status[r[1]] = "performing" /\ Queue!Becomes(r[1], "failed")
    BY <2>1, <2>3, <2>4, <2>5, <2>6, OneStatusChanges, StatusValues
  <2>8. QED
    BY <2>3, <2>7 DEF Queue!Next, Queue!End
<1>7. ASSUME NEW c \in Cleaners, CleanerRequeue(c) PROVE FALSE
  BY <1>7, OneCleaner DEF Exclusive, CleanerRequeue, CleanerIdle
<1>8. CASE UNCHANGED <<job, claimed, failed>>
  BY <1>8, StatusStays
<1>9. QED
  BY <1>1, <1>2, <1>3, <1>4, <1>5, <1>6, <1>7, <1>8
     DEF Next, OtherSteps, vars, rows, DispatchStep, ThreadStep, CleanerStep, Schedule, LookUp,
         Decrement, Create, ClientCrash, DispatchDue, Retry, Expire, DeleteSemaphore,
         Unblock, ReadExpired, Start, Raise, FinishRaises, Signal, Release, Shutdown,
         LoseRegistration, Crash, FailOrphans, Reap, Prune, Deregister, CleanerSignal,
         CleanerRelease, CleanerAborts, CleanerDone

(* Steady Queue implements the task queue its documentation promises:      *)
(* enqueued tasks wait, are performed at most `to` at a time, end once and *)
(* may be retried or discarded, under any interleaving of clients,         *)
(* dispatchers, threads and the supervisor, and with any deaths of workers,*)
(* as far as no semaphore in use is deleted as an expired one (TimelySpec):*)
(* that lets more than `to` tasks start.                                   *)
THEOREM JobsImplementTaskQueue ==
  ASSUME Undisturbed, WithinDuration, LimitsAgree
  PROVE  TimelySpec => ImplementsTaskQueue
<1>1. Init => Queue!Init
  BY DEF Init, Queue!Init, Status, StatusOf
<1>2. TypeOK /\ Exclusive /\ SlotsConserved /\ [Next]_vars => [Queue!Next]_Status
  BY TaskQueueStep
<1>3. QED
  BY <1>1, <1>2, TypeCorrect, ExclusiveInvariant, SlotsInvariant, TimelyIsSpec, PTL
     DEF Spec, TimelySpec, ImplementsTaskQueue, Queue!Spec
=============================================================================
