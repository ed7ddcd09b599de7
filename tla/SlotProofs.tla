----------------------------- MODULE SlotProofs -----------------------------
(***************************************************************************)
(* The semaphore of a key and the jobs that hold its slots: SlotsConserved *)
(* and LimitRespected for every number of jobs, keys, workers and threads, *)
(* when the limits of a key agree, nothing disturbs the workers, no job    *)
(* overruns the duration of its semaphore and no semaphore that expired    *)
(* idle is deleted under a job that has taken it into use since            *)
(* (TimelySpec); and NoSlotLeaks, when also no client dies and no job is   *)
(* discarded.                                                              *)
(***************************************************************************)
EXTENDS JobProofs, FiniteSetTheorems

(* All jobs of a key have the same limit, and a semaphore expires only     *)
(* when nobody holds a slot of it.                                         *)
LimitsAgree == \A i, j \in Jobs : KeyOf[i] = KeyOf[j] => LimitOf[i] = LimitOf[j]

WithinDuration == "overrun" \notin Hazards
-----------------------------------------------------------------------------
(***************************************************************************)
(* How the slots of a key may change.                                      *)
(***************************************************************************)
JobSlot(k, j) == KeyOf[j] = k /\ Holds(j)

ThreadSlot(k, t) ==
  /\ thread[t].pc \in {"raised", "signal"}
  /\ claimed[thread[t].job] # t
  /\ KeyOf[thread[t].job] = k

CleanerSlot(k, c) == cleaner[c].pc = "signal" /\ KeyOf[cleaner[c].job] = k

LEMMA SlotMembers ==
  ASSUME NEW k
  PROVE  /\ \A x : x \in Slots(k) <=>
              \/ \E j \in Jobs : x = <<"job", j>> /\ JobSlot(k, j)
              \/ \E t \in Threads : x = <<"thread", t>> /\ ThreadSlot(k, t)
              \/ \E c \in Cleaners : x = <<"cleaner", c>> /\ CleanerSlot(k, c)
         /\ \A x : x \in Slots(k)' <=>
              \/ \E j \in Jobs : x = <<"job", j>> /\ JobSlot(k, j)'
              \/ \E t \in Threads : x = <<"thread", t>> /\ ThreadSlot(k, t)'
              \/ \E c \in Cleaners : x = <<"cleaner", c>> /\ CleanerSlot(k, c)'
BY DEF Slots, JobSlot, ThreadSlot, CleanerSlot

LEMMA SlotsAreFinite ==
  ASSUME NEW k
  PROVE  IsFiniteSet(Slots(k)) /\ IsFiniteSet(Slots(k)')
<1> DEFINE Places == ({"job"} \X Jobs) \cup ({"thread"} \X Threads) \cup ({"cleaner"} \X Cleaners)
<1>1. IsFiniteSet(Cleaners)
  BY ConstantsOK, FS_Union DEF Cleaners
<1>2. /\ IsFiniteSet({"job"} \X Jobs)
      /\ IsFiniteSet({"thread"} \X Threads)
      /\ IsFiniteSet({"cleaner"} \X Cleaners)
  BY <1>1, ConstantsOK, FS_Product, FS_Singleton
<1>3. IsFiniteSet(({"job"} \X Jobs) \cup ({"thread"} \X Threads))
  BY <1>2, FS_Union
<1>4. IsFiniteSet(Places)
  BY <1>2, <1>3, FS_Union
<1>5. Slots(k) \in SUBSET Places /\ Slots(k)' \in SUBSET Places
  BY SlotMembers
<1>6. QED
  BY <1>4, <1>5, FS_Subset

LEMMA SlotCounts ==
  ASSUME NEW k
  PROVE  Cardinality(Slots(k)) \in Nat /\ Cardinality(Slots(k)') \in Nat
BY SlotsAreFinite, FS_CardinalityType

LEMMA LimitTypes ==
  ASSUME NEW j \in Jobs
  PROVE  LimitOf[j] \in Nat /\ LimitOf[j] >= 1
BY ConstantsOK

LEMMA SemaphoreValue ==
  ASSUME TypeOK, NEW k \in Keys
  PROVE  semaphore[k].value \in Int
BY DEF TypeOK, SemaphoreType

(* No slot is added and the row stays: nothing can go wrong.               *)
LEMMA NoNewSlot ==
  ASSUME TypeOK, NEW k \in Keys, SlotsAddUp(k),
         Slots(k)' \subseteq Slots(k), semaphore'[k] = semaphore[k]
  PROVE  SlotsAddUp(k)'
<1>1. Cardinality(Slots(k)') <= Cardinality(Slots(k))
  BY SlotsAreFinite, FS_Subset
<1>2. semaphore[k].value \in Int
  BY SemaphoreValue
<1>3. QED
  BY <1>1, <1>2, SlotCounts, LimitTypes DEF SlotsAddUp

(* A slot is granted: wait() takes it from the row.                        *)
LEMMA SlotGranted ==
  ASSUME TypeOK, LimitsAgree, NEW k \in Keys, SlotsAddUp(k), NEW x,
         Slots(k)' \subseteq Slots(k) \cup {x},
         NEW j \in Jobs, KeyOf[j] = k,
         Available(semaphore[k]), semaphore'[k] = Taken(semaphore[k], LimitOf[j])
  PROVE  SlotsAddUp(k)'
<1>1. Cardinality(Slots(k)') <= Cardinality(Slots(k)) + 1
  <2>1. /\ IsFiniteSet(Slots(k) \cup {x})
        /\ Cardinality(Slots(k) \cup {x}) <= Cardinality(Slots(k)) + 1
    BY SlotsAreFinite, SlotCounts, FS_AddElement
  <2>2. Cardinality(Slots(k)') <= Cardinality(Slots(k) \cup {x})
    BY <2>1, FS_Subset
  <2>3. Cardinality(Slots(k) \cup {x}) \in Nat
    BY <2>1, FS_CardinalityType
  <2>4. QED
    BY <2>1, <2>2, <2>3, SlotCounts
<1>2. semaphore[k].value \in Int
  BY SemaphoreValue
<1>3. CASE ~semaphore[k].exists
  <2>1. Cardinality(Slots(k)) = 0
    BY <1>3, FS_EmptySet DEF SlotsAddUp
  <2>2. /\ semaphore'[k].exists /\ ~semaphore'[k].expired
        /\ semaphore'[k].value = LimitOf[j] - 1
    BY <1>3, SMT DEF Taken
  <2>3. ASSUME NEW i \in Jobs, KeyOf[i] = k PROVE LimitOf[i] = LimitOf[j]
    BY <2>3 DEF LimitsAgree
  <2>4. QED
    BY <1>1, <2>1, <2>2, <2>3, SlotCounts, LimitTypes DEF SlotsAddUp
<1>4. CASE semaphore[k].exists
  <2>1. semaphore[k].value > 0
    BY <1>4 DEF Available
  <2>2. /\ semaphore'[k].exists /\ ~semaphore'[k].expired
        /\ semaphore'[k].value = semaphore[k].value - 1
    BY <1>4, SMT DEF Taken
  <2>3. QED
    BY <1>1, <1>2, <1>4, <2>1, <2>2, SlotCounts, LimitTypes DEF SlotsAddUp
<1>5. QED
  BY <1>3, <1>4

(* A slot is given back: signal() adds it to the row.                      *)
LEMMA SlotReturned ==
  ASSUME TypeOK, NEW k \in Keys, SlotsAddUp(k), NEW x \in Slots(k),
         Slots(k)' \subseteq Slots(k) \ {x},
         NEW j \in Jobs, KeyOf[j] = k,
         semaphore'[k] = Signalled(semaphore[k], LimitOf[j])
  PROVE  SlotsAddUp(k)'
<1>1. Cardinality(Slots(k)') <= Cardinality(Slots(k)) - 1
  <2>1. /\ IsFiniteSet(Slots(k) \ {x})
        /\ Cardinality(Slots(k) \ {x}) = Cardinality(Slots(k)) - 1
    BY SlotsAreFinite, FS_RemoveElement
  <2>2. QED
    BY <2>1, FS_Subset
<1>2. semaphore[k].value \in Int
  BY SemaphoreValue
<1>3. semaphore[k].exists /\ ~semaphore[k].expired /\ semaphore[k].value <= LimitOf[j]
  BY <1>2, SlotCounts, LimitTypes DEF SlotsAddUp
<1>4. /\ semaphore'[k].exists
      /\ semaphore'[k].value = semaphore[k].value + 1 /\ ~semaphore'[k].expired
  BY <1>3, SMT DEF Signalled, Signallable
<1>5. QED
  BY <1>1, <1>2, <1>3, <1>4, SlotCounts, LimitTypes DEF SlotsAddUp

(* A slot passes from a job to the thread or the cleaner that will signal. *)
LEMMA SlotPassedOn ==
  ASSUME TypeOK, NEW k \in Keys, SlotsAddUp(k), NEW x \in Slots(k), NEW y,
         Slots(k)' \subseteq (Slots(k) \ {x}) \cup {y}, semaphore'[k] = semaphore[k]
  PROVE  SlotsAddUp(k)'
<1>1. Cardinality(Slots(k)') <= Cardinality(Slots(k))
  <2>1. /\ IsFiniteSet(Slots(k) \ {x})
        /\ Cardinality(Slots(k) \ {x}) = Cardinality(Slots(k)) - 1
    BY SlotsAreFinite, FS_RemoveElement
  <2> DEFINE Rest == Slots(k) \ {x}
  <2> HIDE DEF Rest
  <2>2. IsFiniteSet(Rest) /\ Cardinality(Rest) = Cardinality(Slots(k)) - 1
    BY <2>1 DEF Rest
  <2>3. IsFiniteSet(Rest \cup {y}) /\ Cardinality(Rest \cup {y}) <= Cardinality(Rest) + 1
    <3>1. Cardinality(Rest) \in Nat
      BY <2>2, FS_CardinalityType
    <3>2. CASE y \in Rest
      <4>1. Rest \cup {y} = Rest
        BY <3>2
      <4>2. /\ IsFiniteSet(Rest \cup {y})
            /\ Cardinality(Rest \cup {y}) = Cardinality(Rest)
        BY <2>2, <4>1, Zenon
      <4> QED
        BY <3>1, <4>2
    <3>3. CASE y \notin Rest
      <4>1. /\ IsFiniteSet(Rest \cup {y})
            /\ Cardinality(Rest \cup {y}) = Cardinality(Rest) + 1
        BY <2>2, <3>3, FS_AddElement
      <4> QED
        BY <3>1, <4>1
    <3> QED
      BY <3>2, <3>3
  <2>4. Cardinality(Slots(k)') <= Cardinality(Rest \cup {y})
    BY <2>3, FS_Subset DEF Rest
  <2>5. Cardinality(Rest \cup {y}) \in Nat
    BY <2>3, FS_CardinalityType
  <2>6. QED
    BY <2>2, <2>3, <2>4, <2>5, SlotCounts
<1>2. semaphore[k].value \in Int
  BY SemaphoreValue
<1>3. QED
  BY <1>1, <1>2, SlotCounts, LimitTypes DEF SlotsAddUp
-----------------------------------------------------------------------------
(***************************************************************************)
(* What the actions do to the slots.                                       *)
(***************************************************************************)
LEMMA SlotsWithin ==
  ASSUME NEW k,
         \A j \in Jobs : JobSlot(k, j)' => JobSlot(k, j),
         \A t \in Threads : ThreadSlot(k, t)' => ThreadSlot(k, t),
         \A c \in Cleaners : CleanerSlot(k, c)' => CleanerSlot(k, c)
  PROVE  Slots(k)' \subseteq Slots(k)
BY SlotMembers

(* Slots are kept when the jobs that hold one did so before and no thread  *)
(* or cleaner begins to signal.                                            *)
LEMMA SlotsKept ==
  ASSUME TypeOK, SlotsConserved, UNCHANGED semaphore,
         \A j \in Jobs : Limited(j) /\ Holds(j)' => Holds(j),
         \A t \in Threads : thread'[t].pc \in {"raised", "signal"} =>
           /\ \/ thread[t].pc \in {"raised", "signal"} /\ claimed[thread[t].job] # t
              \/ thread'[t].pc = "raised" /\ claimed'[thread'[t].job] = t
           /\ thread[t].job = thread'[t].job /\ (thread'[t].pc = "signal" => thread[t].pc = "signal"),
         \A t \in Threads : thread'[t].pc = "signal" => claimed'[thread'[t].job] # t,
         \A c \in Cleaners : cleaner'[c].pc = "signal" => cleaner'[c] = cleaner[c]
  PROVE  SlotsConserved'
<1> SUFFICES ASSUME NEW k \in Keys PROVE SlotsAddUp(k)'
  BY DEF SlotsConserved
<1>1. k # NoKey
  BY ConstantsOK
<1>2. Slots(k)' \subseteq Slots(k)
  BY <1>1, SlotsWithin DEF JobSlot, ThreadSlot, CleanerSlot, Limited
<1>3. QED
  BY <1>2, NoNewSlot DEF SlotsConserved

LEMMA SlotsKeptByRows ==
  ASSUME TypeOK, SlotsConserved, UNCHANGED <<semaphore, claimed, thread>>,
         \A j \in Jobs : Limited(j) /\ Holds(j)' => Holds(j),
         \A c \in Cleaners : cleaner'[c].pc = "signal" => cleaner'[c] = cleaner[c]
  PROVE  SlotsConserved'
BY SlotsKept DEF SlotsConserved

(* A row of the semaphore changes, and no slot of another key.             *)
LEMMA OneKeyChanges ==
  ASSUME TypeOK, SlotsConserved, NEW k \in Keys, SlotsAddUp(k)',
         \A h \in Keys \ {k} : semaphore'[h] = semaphore[h] /\ Slots(h)' \subseteq Slots(h),
         \A t \in Threads : thread'[t].pc = "signal" => claimed'[thread'[t].job] # t
  PROVE  SlotsConserved'
BY NoNewSlot DEF SlotsConserved

LEMMA WaitConserves ==
  ASSUME TypeOK, LimitsAgree, SlotsConserved, NEW j \in Jobs, NEW k \in Keys, KeyOf[j] = k,
         Available(semaphore[k]),
         semaphore' = [semaphore EXCEPT ![k] = Taken(@, LimitOf[j])],
         \A i \in Jobs \ {j} : Holds(i)' => Holds(i),
         UNCHANGED claimed,
         \A t \in Threads : thread'[t].pc \in {"raised", "signal"} => thread'[t] = thread[t],
         \A c \in Cleaners : cleaner'[c].pc = "signal" => cleaner'[c] = cleaner[c]
  PROVE  SlotsConserved'
<1>1. Slots(k)' \subseteq Slots(k) \cup {<<"job", j>>}
  BY SlotMembers DEF JobSlot, ThreadSlot, CleanerSlot
<1>2. semaphore'[k] = Taken(semaphore[k], LimitOf[j])
  BY DEF TypeOK
<1>3. SlotsAddUp(k)'
  BY <1>1, <1>2, SlotGranted DEF SlotsConserved
<1>4. ASSUME NEW h \in Keys \ {k} PROVE semaphore'[h] = semaphore[h] /\ Slots(h)' \subseteq Slots(h)
  BY SlotsWithin DEF TypeOK, JobSlot, ThreadSlot, CleanerSlot
<1>5. \A t \in Threads : thread'[t].pc = "signal" => claimed'[thread'[t].job] # t
  BY DEF SlotsConserved
<1>6. QED
  BY <1>3, <1>4, <1>5, OneKeyChanges

(* release_one passes a slot to the first blocked job, or to nobody.       *)
LEMMA ReleaseConserves ==
  ASSUME TypeOK, LimitsAgree, SlotsConserved, NEW k, ReleaseOne(k),
         UNCHANGED <<dispatch, claimed>>,
         \A t \in Threads : thread'[t].pc \in {"raised", "signal"} => thread'[t] = thread[t],
         \A c \in Cleaners : cleaner'[c].pc = "signal" => cleaner'[c] = cleaner[c]
  PROVE  SlotsConserved'
<1>1. CASE UNCHANGED <<semaphore, ready, blocked>>
  BY <1>1, SlotsKept DEF SlotsConserved, Holds
<1>2. ASSUME NEW j \in BlockedOn(k), Promotes(j, semaphore[k]),
             semaphore' = [semaphore EXCEPT ![k] = Taken(@, LimitOf[j])],
             ready' = [ready EXCEPT ![j] = "blank"]
      PROVE  SlotsConserved'
  <2>1. j \in Jobs /\ KeyOf[j] = k /\ Available(semaphore[k])
    BY <1>2 DEF TypeOK, BlockedOn, Promotes
  <2>2. \A i \in Jobs \ {j} : Holds(i)' => Holds(i)
    BY <1>2 DEF TypeOK, Holds
  <2>3. CASE k \in Keys
    BY <1>2, <2>1, <2>2, <2>3, WaitConserves
  <2>4. CASE k \notin Keys
    <3>1. semaphore' = semaphore
      BY <1>2, <2>4 DEF TypeOK
    <3>2. \A i \in Jobs : Limited(i) /\ Holds(i)' => Holds(i)
      BY <2>1, <2>2, <2>4, ConstantsOK DEF Limited
    <3>3. QED
      BY <3>1, <3>2, SlotsKept DEF SlotsConserved
  <2>5. QED
    BY <2>3, <2>4
<1>3. QED
  BY <1>1, <1>2 DEF ReleaseOne

(* A slot is signalled by the thread or the cleaner that owed it.          *)
LEMMA SignalConserves ==
  ASSUME TypeOK, SlotsConserved, NEW j \in Jobs, SignalFor(j), UNCHANGED <<ready, claimed, dispatch>>,
         NEW x, KeyOf[j] \in Keys => x \in Slots(KeyOf[j]) /\ x \notin Slots(KeyOf[j])',
         \A t \in Threads : thread'[t].pc \in {"raised", "signal"} => thread'[t] = thread[t],
         \A c \in Cleaners : cleaner'[c].pc = "signal" => cleaner'[c] = cleaner[c]
  PROVE  SlotsConserved'
<1>1. CASE KeyOf[j] \notin Keys
  <2>1. semaphore' = semaphore
    BY <1>1 DEF SignalFor, TypeOK
  <2>2. QED
    BY <2>1, SlotsKept DEF SlotsConserved, Holds
<1>2. CASE KeyOf[j] \in Keys
  <2> DEFINE k == KeyOf[j]
  <2>1. ASSUME NEW h \in Keys PROVE Slots(h)' \subseteq Slots(h)
    BY SlotsWithin DEF JobSlot, ThreadSlot, CleanerSlot, Holds
  <2>2. /\ semaphore'[k] = Signalled(semaphore[k], LimitOf[j])
        /\ \A h \in Keys \ {k} : semaphore'[h] = semaphore[h]
    BY <1>2 DEF SignalFor, TypeOK
  <2>3. SlotsAddUp(k)'
    BY <1>2, <2>1, <2>2, SlotReturned DEF SlotsConserved
  <2>4. \A t \in Threads : thread'[t].pc = "signal" => claimed'[thread'[t].job] # t
    BY DEF SlotsConserved
  <2>5. QED
    BY <1>2, <2>1, <2>2, <2>3, <2>4, OneKeyChanges
<1>3. QED
  BY <1>1, <1>2

(* The end of the work on a job: its slot is the thread's to signal ...    *)
LEMMA ThreadEndsConserve ==
  ASSUME TypeOK, Exclusive, SlotsConserved, NEW t \in Threads,
         thread[t].pc \in {"running", "raised"},
         UNCHANGED <<semaphore, ready, dispatch, cleaner>>,
         claimed' = WithoutRow(thread[t].job, t),
         thread' = [thread EXCEPT ![t] = AfterWork(thread[t].job)]
  PROVE  SlotsConserved'
<1>1. PICK j \in Jobs :
        /\ j = thread[t].job /\ claimed[j] = t /\ ready[j] = "none" /\ dispatch[j].pc = "idle"
  BY AtWorkHolds DEF Exclusive, RowsAreExclusive, DispatchOwns
<1>2. /\ \A i \in Jobs : Holds(i)' => Holds(i)
      /\ ~Holds(j)' /\ Holds(j)
  <2>1. claimed' = [claimed EXCEPT ![j] = NoThread] /\ t # NoThread
    BY <1>1, ConstantsOK DEF WithoutRow
  <2>2. QED
    BY <1>1, <2>1 DEF Holds, TypeOK
<1>3. thread'[t] = AfterWork(j) /\ \A u \in Threads \ {t} : thread'[u] = thread[u]
  BY <1>1 DEF TypeOK
<1>4. \A i \in Jobs \ {j} : claimed'[i] = claimed[i]
  BY <1>1 DEF TypeOK, WithoutRow
<1>5. \A u \in Threads : thread'[u].pc = "signal" => claimed'[thread'[u].job] # u
  <2>1. claimed'[j] = NoThread /\ NoThread \notin Threads
    BY <1>1, ConstantsOK DEF TypeOK, WithoutRow
  <2>2. ASSUME NEW u \in Threads, thread'[u].pc = "signal" PROVE claimed'[thread'[u].job] # u
    <3>1. thread'[u].job = j \/ u # t
      BY <1>3, <2>2 DEF AfterWork, ThreadIdle
    <3>2. CASE thread'[u].job = j
      BY <2>1, <3>2
    <3>3. CASE thread'[u].job # j
      <4>1. u # t /\ thread[u].pc = "signal" /\ thread[u].job \in Jobs
        BY <1>3, <2>2, <3>1, <3>3, ThreadRecords DEF TypeOK
      <4>2. QED
        BY <1>3, <1>4, <3>3, <4>1 DEF SlotsConserved
    <3>4. QED
      BY <3>2, <3>3
  <2>3. QED
    BY <2>2
<1>6. ASSUME NEW k, NEW u \in Threads \ {t}, ThreadSlot(k, u)' PROVE ThreadSlot(k, u)
  <2>1. thread[u].job \in Jobs
    BY <1>3, <1>6, ThreadRecords DEF ThreadSlot, TypeOK
  <2>2. QED
    BY <1>1, <1>3, <1>4, <1>6, <2>1 DEF ThreadSlot
<1>7. ASSUME NEW k, k # KeyOf[j] \/ ~Limited(j) PROVE ~ThreadSlot(k, t)'
  BY <1>3, <1>7 DEF ThreadSlot, AfterWork, ThreadIdle
<1>8. ASSUME NEW k \in Keys PROVE SlotsAddUp(k)'
  <2>1. CASE k # KeyOf[j]
    <3>1. Slots(k)' \subseteq Slots(k)
      BY <1>2, <1>6, <1>7, <2>1, SlotsWithin DEF JobSlot, CleanerSlot
    <3>2. QED
      BY <3>1, NoNewSlot DEF SlotsConserved
  <2>2. CASE k = KeyOf[j]
    <3>1. <<"job", j>> \in Slots(k)
      BY <1>1, <1>2, <2>2, SlotMembers DEF JobSlot
    <3>2. Slots(k)' \subseteq (Slots(k) \ {<<"job", j>>}) \cup {<<"thread", t>>}
      <4>1. \A i \in Jobs : JobSlot(k, i)' => JobSlot(k, i) /\ i # j
        BY <1>2 DEF JobSlot
      <4>2. \A u \in Threads \ {t} : ThreadSlot(k, u)' => ThreadSlot(k, u)
        BY <1>6
      <4>3. \A d \in Cleaners : CleanerSlot(k, d)' => CleanerSlot(k, d)
        BY DEF CleanerSlot
      <4>4. QED
        BY <4>1, <4>2, <4>3, SlotMembers
    <3>3. QED
      BY <3>1, <3>2, SlotPassedOn DEF SlotsConserved
  <2>3. QED
    BY <2>1, <2>2
<1>9. QED
  BY <1>5, <1>8 DEF SlotsConserved

(* ... or, when the worker is dead, that of the supervisor.                *)
LEMMA CleanerFailConserves ==
  ASSUME TypeOK, Undisturbed, Exclusive, SlotsConserved, NEW c \in Cleaners, CleanerFail(c)
  PROVE  SlotsConserved'
<1>1. PICK r \in cleaner[c].todo :
        /\ cleaner[c].pc = "next" /\ cleaner[c].mode # "idle"
        /\ claimed' = WithoutRow(r[1], r[2])
        /\ cleaner' = [cleaner EXCEPT ![c].todo = @ \ {r},
                                      ![c].pc = IF Limited(r[1]) THEN "signal" ELSE "next",
                                      ![c].job = IF Limited(r[1]) THEN r[1] ELSE NoJob]
  BY DEF CleanerFail
<1> DEFINE j == r[1]
<1>2. UNCHANGED <<semaphore, ready, dispatch, thread>>
  BY DEF CleanerFail
<1>3. c \in Supervisors /\ j \in Jobs /\ r[2] \in Threads
  <2>1. c \in Supervisors
    BY <1>1, OneCleaner DEF Exclusive, CleanerIdle
  <2>2. cleaner[c].todo \in SUBSET (Jobs \X Threads)
    BY CleanerRecords DEF TypeOK
  <2>3. QED
    BY <2>1, <2>2
<1>4. claimed[j] = r[2] /\ thread[r[2]].pc = "idle"
  BY <1>1, <1>3, ConstantsOK
     DEF Exclusive, SnapshotsAreCurrent, SnapshotIsCurrent, WorkersRun, WorkerRuns
<1>5. ready[j] = "none" /\ dispatch[j].pc = "idle"
  BY <1>3, <1>4, ConstantsOK DEF Exclusive, RowsAreExclusive, RowsExclude, DispatchOwns
<1>6. /\ \A i \in Jobs : Holds(i)' => Holds(i)
      /\ ~Holds(j)' /\ Holds(j)
  <2>1. claimed' = [claimed EXCEPT ![j] = NoThread] /\ r[2] # NoThread
    BY <1>1, <1>3, <1>4, ConstantsOK DEF WithoutRow
  <2>2. QED
    BY <1>2, <1>3, <1>4, <1>5, <2>1 DEF Holds, TypeOK
<1>7. /\ \A d \in Cleaners \ {c} : cleaner'[d] = cleaner[d]
      /\ cleaner'[c].pc = "signal" => Limited(j) /\ cleaner'[c].job = j
  BY <1>1 DEF TypeOK, CleanerType
<1>8. /\ \A i \in Jobs \ {j} : claimed'[i] = claimed[i]
      /\ claimed'[j] = NoThread
  BY <1>1, <1>3, <1>4 DEF TypeOK, WithoutRow
<1>9. ASSUME NEW u \in Threads, thread[u].pc \in {"raised", "signal"}
      PROVE  \/ claimed'[thread[u].job] # u /\ thread[u].pc = "signal"
             \/ claimed'[thread[u].job] = claimed[thread[u].job]
  <2>1. thread[u].job \in Jobs /\ u # r[2]
    BY <1>4, <1>9, ThreadRecords DEF TypeOK
  <2>2. CASE thread[u].job # j
    BY <1>8, <2>1, <2>2
  <2>3. CASE thread[u].job = j
    <3>1. thread[u].pc = "signal"
      BY <1>4, <1>9, <2>1, <2>3 DEF Exclusive, ThreadsOwn, ThreadOwns
    <3>2. QED
      BY <1>8, <2>3, <3>1, ConstantsOK
  <2>4. QED
    BY <2>2, <2>3
<1>10. \A k : \A u \in Threads : ThreadSlot(k, u)' => ThreadSlot(k, u)
  BY <1>2, <1>9 DEF ThreadSlot, SlotsConserved
<1>11. ASSUME NEW k \in Keys PROVE SlotsAddUp(k)'
  <2>1. CASE k # KeyOf[j]
    <3>1. Slots(k)' \subseteq Slots(k)
      BY <1>6, <1>7, <1>10, <2>1, SlotsWithin DEF JobSlot, CleanerSlot
    <3>2. QED
      BY <1>2, <3>1, NoNewSlot DEF SlotsConserved
  <2>2. CASE k = KeyOf[j]
    <3>1. <<"job", j>> \in Slots(k)
      BY <1>3, <1>6, <2>2, SlotMembers DEF JobSlot
    <3>2. Slots(k)' \subseteq (Slots(k) \ {<<"job", j>>}) \cup {<<"cleaner", c>>}
      BY <1>6, <1>7, <1>10, SlotMembers DEF JobSlot, CleanerSlot
    <3>3. QED
      BY <1>2, <3>1, <3>2, SlotPassedOn DEF SlotsConserved
  <2>3. QED
    BY <2>1, <2>2
<1>12. QED
  BY <1>2, <1>9, <1>11 DEF SlotsConserved
-----------------------------------------------------------------------------
LEMMA SlotsStep ==
  ASSUME Undisturbed, WithinDuration, LimitsAgree,
         TypeOK, Exclusive, SlotsConserved, [TimelyNext]_vars
  PROVE  SlotsConserved'
<1> USE ConstantsOK
<1>0. RowsAreExclusive /\ ThreadsOwn /\ WorkersRun /\ SnapshotsAreCurrent
  BY DEF Exclusive
<1>1. ASSUME NEW j \in Jobs,
             \/ Insert(j) \/ Schedule(j) \/ LookUp(j) \/ ClientCrash(j)
             \/ DispatchDue(j) \/ Retry(j)
      PROVE  SlotsConserved'
  <2>1. \A i \in Jobs \ {j} : dispatch'[i] = dispatch[i]
    BY <1>1 DEF TypeOK, Insert, Schedule, LookUp, ClientCrash, DispatchDue, Retry,
                StartDispatch, EndDispatch, GoTo
  <2>2. CASE Insert(j) \/ DispatchDue(j) \/ Retry(j)
    <3>1. Limited(j) => dispatch'[j].pc # "granted"
      BY <2>2 DEF TypeOK, Insert, DispatchDue, Retry, StartDispatch, FirstStep
    <3>2. QED
      BY <2>1, <2>2, <3>1, SlotsKeptByRows DEF Insert, DispatchDue, Retry, rows, Holds
  <2>3. CASE Schedule(j) \/ LookUp(j) \/ ClientCrash(j)
    <3>1. dispatch'[j].pc # "granted"
      BY <2>3 DEF TypeOK, DispatchType, Schedule, LookUp, ClientCrash, EndDispatch, GoTo,
                  DispatchIdle
    <3>2. QED
      BY <2>1, <2>3, <3>1, SlotsKeptByRows DEF Schedule, LookUp, ClientCrash, rows, Holds
  <2>4. QED
    BY <1>1, <2>2, <2>3
<1>2. ASSUME NEW j \in Jobs, DispatchToReady(j) \/ DispatchToBlocked(j) PROVE SlotsConserved'
  <2>1. dispatch'[j].pc = "idle" /\ \A i \in Jobs \ {j} : dispatch'[i] = dispatch[i]
    <3>1. dispatch' = [dispatch EXCEPT ![j] = DispatchIdle]
      BY <1>2 DEF DispatchToReady, DispatchToBlocked, EndDispatch
    <3>2. QED
      BY <3>1 DEF TypeOK, DispatchIdle
  <2>2. \A i \in Jobs \ {j} : ready'[i] = ready[i]
    BY <1>2 DEF TypeOK, DispatchToReady, DispatchToBlocked
  <2>3. ready'[j] # "none" => ready[j] # "none" \/ dispatch[j].pc = "granted"
    BY <1>2 DEF DispatchToReady, DispatchToBlocked, At
  <2>4. QED
    BY <1>2, <2>1, <2>2, <2>3, SlotsKeptByRows DEF DispatchToReady, DispatchToBlocked, Holds
<1>3. ASSUME NEW j \in Jobs, Discard(j) PROVE SlotsConserved'
  <2>1. claimed' = claimed
    BY <1>0, <1>3 DEF TypeOK, RowsAreExclusive, RowsExclude, Discard
  <2>2. \A i \in Jobs : Limited(i) /\ Holds(i)' => Holds(i)
    BY <1>3, <2>1 DEF TypeOK, Discard, Holds
  <2>3. QED
    BY <1>3, <2>1, <2>2, SlotsKeptByRows DEF Discard
<1>4. ASSUME NEW j \in Jobs, Decrement(j) \/ Create(j) PROVE SlotsConserved'
  <2>1. CASE UNCHANGED semaphore
    <3>1. \A i \in Jobs \ {j} : dispatch'[i] = dispatch[i]
      BY <1>4 DEF TypeOK, Decrement, Create, GoTo
    <3>2. Limited(j) => dispatch'[j].pc # "granted"
      <4>1. Limited(j) => semaphore[KeyOf[j]] \in SemaphoreType
        <5>1. Limited(j) => KeyOf[j] \in Keys
          BY DEF Limited
        <5>2. semaphore \in [Keys -> SemaphoreType]
          BY DEF TypeOK
        <5>3. QED
          BY <5>1, <5>2
      <4>2. ASSUME Limited(j), semaphore[KeyOf[j]] = Taken(semaphore[KeyOf[j]], LimitOf[j]),
                   semaphore[KeyOf[j]].exists => semaphore[KeyOf[j]].value > 0
            PROVE  FALSE
        BY <4>1, <4>2, SMT DEF SemaphoreType, Taken
      <4>3. QED
        BY <1>4, <2>1, <4>1, <4>2
           DEF TypeOK, DispatchType, Decrement, Create, GoTo, Limited, SemaphoreType
    <3>3. QED
      BY <1>4, <2>1, <3>1, <3>2, SlotsKeptByRows DEF Decrement, Create, rows, Holds
  <2>2. CASE /\ Available(semaphore[KeyOf[j]])
             /\ semaphore' = [semaphore EXCEPT ![KeyOf[j]] = Taken(@, LimitOf[j])]
    <3>1. \A i \in Jobs \ {j} : Holds(i)' => Holds(i)
      BY <1>4 DEF TypeOK, Decrement, Create, Holds, GoTo, rows
    <3>2. KeyOf[j] \in Keys \/ KeyOf[j] = NoKey
      OBVIOUS
    <3>3. CASE KeyOf[j] = NoKey
      <4>1. semaphore' = semaphore
        BY <2>2, <3>3 DEF TypeOK
      <4>2. QED
        BY <1>4, <3>1, <3>3, <4>1, SlotsKeptByRows DEF Decrement, Create, rows, Limited
    <3>4. QED
      BY <1>4, <2>2, <3>1, <3>2, <3>3, WaitConserves DEF Decrement, Create, rows
  <2>3. QED
    BY <1>4, <2>1, <2>2 DEF Decrement, Create, Available
<1>5. ASSUME NEW k \in Keys, Expire(k) \/ DeleteUnused(k) PROVE SlotsConserved'
  <2>1. \A h \in Keys : Slots(h)' = Slots(h)
    BY <1>5 DEF Expire, DeleteUnused, DeleteSemaphore, Slots, Holds, rows
  <2>2. \A h \in Keys \ {k} : semaphore'[h] = semaphore[h]
    BY <1>5 DEF TypeOK, Expire, DeleteUnused, DeleteSemaphore
  <2>3. SlotsAddUp(k)'
    <3>1. semaphore[k] \in SemaphoreType
      BY DEF TypeOK
    <3>2. CASE Expire(k)
      <4>1. semaphore'[k] = [semaphore[k] EXCEPT !.expired = TRUE] /\ Slots(k) = {}
        BY <3>2 DEF TypeOK, Expire, WithinDuration
      <4>2. QED
        BY <2>1, <3>1, <4>1 DEF SlotsConserved, SlotsAddUp, SemaphoreType
    <3>3. CASE DeleteUnused(k)
      <4>1. semaphore'[k] = NoSemaphore /\ Slots(k) = {}
        BY <3>3 DEF TypeOK, DeleteUnused, DeleteSemaphore
      <4>2. QED
        BY <2>1, <4>1 DEF SlotsAddUp, NoSemaphore
    <3>4. QED
      BY <1>5, <3>2, <3>3
  <2>4. \A t \in Threads : thread'[t].pc = "signal" => claimed'[thread'[t].job] # t
    BY <1>5 DEF Expire, DeleteUnused, DeleteSemaphore, SlotsConserved, rows
  <2>5. QED
    BY <2>1, <2>2, <2>3, <2>4, OneKeyChanges
<1>6. CASE ReadExpired
  BY <1>6, SlotsKeptByRows DEF ReadExpired, rows, Holds
<1>7. ASSUME NEW k \in Keys, Unblock(k) PROVE SlotsConserved'
  BY <1>7, ReleaseConserves DEF Unblock
<1>8. ASSUME NEW t \in Threads, NEW j \in Jobs, Claim(t, j) PROVE SlotsConserved'
  <2>1. /\ claimed[j] = NoThread /\ ready[j] # "none" /\ thread[t].pc = "idle"
        /\ claimed' = [claimed EXCEPT ![j] = t]
        /\ thread' = [thread EXCEPT ![t] = [pc |-> "posted", job |-> j]]
    BY <1>8 DEF Claim, Selects
  <2>2. \A i \in Jobs : Holds(i)' => Holds(i)
    BY <1>8, <2>1 DEF TypeOK, Claim, Holds
  <2>3. ASSUME NEW u \in Threads, thread'[u].pc \in {"raised", "signal"}
        PROVE  /\ u # t /\ thread'[u] = thread[u]
               /\ claimed'[thread[u].job] = u <=> claimed[thread[u].job] = u
    <3>1. u # t /\ thread'[u] = thread[u]
      BY <2>1, <2>3 DEF TypeOK
    <3>2. thread[u].job \in Jobs
      BY <2>3, <3>1, ThreadRecords DEF TypeOK
    <3>3. QED
      BY <2>1, <3>1, <3>2 DEF TypeOK
  <2>4. QED
    BY <1>8, <2>2, <2>3, SlotsKept DEF Claim, SlotsConserved
<1>9. ASSUME NEW t \in Threads, Start(t) \/ Raise(t) \/ FinishRaises(t) PROVE SlotsConserved'
  <2>1. thread[t].pc \in {"posted", "running"} /\ claimed[thread[t].job] = t
    BY <1>0, <1>9 DEF Start, Raise, FinishRaises, ThreadsOwn, ThreadOwns
  <2>2. /\ UNCHANGED <<job, ready, claimed, semaphore, dispatch, cleaner>>
        /\ thread \in [Threads -> ThreadType]
    BY <1>9 DEF Start, Raise, FinishRaises, rows, TypeOK
  <2>3. /\ \A u \in Threads \ {t} : thread'[u] = thread[u]
        /\ thread'[t].pc # "signal"
        /\ thread'[t].pc = "raised" => thread'[t].job = thread[t].job
    <3>1. CASE Start(t)
      <4>1. CASE thread[t].job \in Undecodable
        <5>1. thread' = [thread EXCEPT ![t] = ThreadIdle]
          BY <3>1, <4>1 DEF Start
        <5> QED
          BY <2>2, <5>1 DEF ThreadIdle
      <4>2. CASE thread[t].job \notin Undecodable
        <5>1. thread' = [thread EXCEPT ![t] = [thread[t] EXCEPT !.pc = "running"]]
          BY <3>1, <4>2 DEF Start
        <5>2. [thread[t] EXCEPT !.pc = "running"].pc = "running"
          BY <2>2 DEF ThreadType
        <5> QED
          BY <2>2, <5>1, <5>2
      <4> QED
        BY <4>1, <4>2
    <3>2. CASE Raise(t) \/ FinishRaises(t)
      <4>1. thread' = [thread EXCEPT ![t] = [thread[t] EXCEPT !.pc = "raised"]]
        BY <3>2 DEF Raise, FinishRaises
      <4>2. /\ [thread[t] EXCEPT !.pc = "raised"].pc = "raised"
            /\ [thread[t] EXCEPT !.pc = "raised"].job = thread[t].job
        BY <2>2 DEF ThreadType
      <4> QED
        BY <2>2, <4>1, <4>2
    <3> QED
      BY <1>9, <3>1, <3>2
  <2>4. \A i \in Jobs : Holds(i)' => Holds(i)
    BY <2>2 DEF Holds
  <2>5. ASSUME NEW u \in Threads, thread'[u].pc \in {"raised", "signal"}
        PROVE  /\ \/ thread[u].pc \in {"raised", "signal"} /\ claimed[thread[u].job] # u
                  \/ thread'[u].pc = "raised" /\ claimed'[thread'[u].job] = u
               /\ thread[u].job = thread'[u].job
               /\ thread'[u].pc = "signal" =>
                    thread[u].pc = "signal" /\ claimed'[thread'[u].job] # u
    <3>1. CASE u = t
      BY <2>1, <2>2, <2>3, <2>5, <3>1
    <3>2. CASE u # t
      <4>1. thread'[u] = thread[u]
        BY <2>3, <3>2
      <4> QED
        BY <2>2, <2>5, <4>1 DEF SlotsConserved
    <3> QED
      BY <3>1, <3>2
  <2> QED
    BY <2>2, <2>4, <2>5, SlotsKept
<1>10. ASSUME NEW t \in Threads, Finish(t) PROVE SlotsConserved'
  BY <1>10, ThreadEndsConserve DEF Finish, Undisturbed
<1>11. ASSUME NEW t \in Threads, Fail(t) PROVE SlotsConserved'
  <2>1. job[thread[t].job] # "gone" /\ thread[t].job \notin failed
    BY <1>0, <1>11, AtWorkHolds DEF Fail
  <2>2. QED
    BY <1>11, <2>1, ThreadEndsConserve DEF Fail
<1>12. ASSUME NEW t \in Threads, FinishByDelete(t) PROVE SlotsConserved'
  <2>1. PICK j \in Jobs : j = thread[t].job /\ ~Limited(j) /\ claimed[j] = t
    BY <1>0, <1>12, AtWorkHolds DEF FinishByDelete
  <2>2. /\ claimed' = [claimed EXCEPT ![j] = NoThread]
        /\ ready' = [ready EXCEPT ![j] = "none"]
        /\ thread' = [thread EXCEPT ![t] = ThreadIdle]
    BY <1>12, <2>1 DEF FinishByDelete
  <2>3. \A i \in Jobs : Limited(i) /\ Holds(i)' => Holds(i)
    BY <1>12, <2>2 DEF TypeOK, FinishByDelete, Holds
  <2>4. ASSUME NEW u \in Threads, thread'[u].pc \in {"raised", "signal"}
        PROVE  /\ u # t /\ thread'[u] = thread[u]
               /\ claimed'[thread[u].job] = u <=> claimed[thread[u].job] = u
    <3>1. u # t /\ thread'[u] = thread[u]
      BY <2>2, <2>4 DEF TypeOK, ThreadIdle
    <3>2. thread[u].job \in Jobs
      BY <2>4, <3>1, ThreadRecords DEF TypeOK
    <3>3. QED
      BY <2>1, <2>2, <3>1, <3>2 DEF TypeOK
  <2>5. QED
    BY <1>12, <2>3, <2>4, SlotsKept DEF FinishByDelete, SlotsConserved
<1>13. ASSUME NEW t \in Threads, Signal(t) PROVE SlotsConserved'
  <2>1. PICK j \in Jobs : j = thread[t].job
    BY <1>13, ThreadRecords DEF TypeOK, Signal
  <2>2. /\ SignalFor(j) /\ thread[t].pc = "signal"
        /\ UNCHANGED <<ready, claimed, dispatch, cleaner>>
        /\ thread'[t].pc \in {"release", "idle"}
        /\ \A u \in Threads \ {t} : thread'[u] = thread[u]
    BY <1>13, <2>1 DEF TypeOK, ThreadType, Signal, ThreadIdle, rows
  <2>3. ThreadSlot(KeyOf[j], t) /\ ~ThreadSlot(KeyOf[j], t)'
    BY <2>1, <2>2 DEF ThreadSlot, SlotsConserved
  <2>4. <<"thread", t>> \in Slots(KeyOf[j]) /\ <<"thread", t>> \notin Slots(KeyOf[j])'
    BY <2>3, SlotMembers
  <2>5. QED
    BY <2>2, <2>4, SignalConserves
<1>14. ASSUME NEW t \in Threads, Release(t) PROVE SlotsConserved'
  <2>1. PICK k : k = KeyOf[thread[t].job]
    OBVIOUS
  <2>2. /\ ReleaseOne(k) /\ UNCHANGED <<dispatch, claimed, cleaner>>
        /\ thread'[t].pc = "idle" /\ \A u \in Threads \ {t} : thread'[u] = thread[u]
    BY <1>14, <2>1 DEF TypeOK, Release, ThreadIdle
  <2>3. QED
    BY <2>2, ReleaseConserves
<1>15. ASSUME NEW p \in Procs, Shutdown(p) PROVE SlotsConserved'
  BY <1>0, <1>15
     DEF Shutdown, Undisturbed, Selects, RowsAreExclusive, RowsExclude
<1>16. ASSUME NEW p \in Procs, LoseRegistration(p) PROVE SlotsConserved'
  BY <1>0, <1>16 DEF LoseRegistration, WorkersRun, WorkerRuns
<1>17. ASSUME NEW p \in Procs, Crash(p) PROVE SlotsConserved'
  <2>1. \A t \in Threads : thread'[t] \in {thread[t], ThreadIdle}
    BY <1>17 DEF Crash
  <2>2. \A c \in Cleaners : cleaner'[c] \in {cleaner[c], CleanerIdle}
    BY <1>17 DEF Crash, TypeOK
  <2>3. QED
    BY <1>17, <2>1, <2>2, SlotsKept
       DEF Crash, rows, Holds, SlotsConserved, ThreadIdle, CleanerIdle
<1>18. ASSUME NEW s \in Supervisors, NEW p \in Procs,
              FailOrphans(s) \/ Reap(s, p) \/ Prune(s, p) \/ Deregister(s, p)
       PROVE  SlotsConserved'
  <2>1. \A c \in Cleaners : cleaner'[c].pc = "signal" => cleaner'[c] = cleaner[c]
    BY <1>18 DEF TypeOK, Cleaners, FailOrphans, Reap, Prune, Deregister, StartCleaning
  <2>2. QED
    BY <1>18, <2>1, SlotsKeptByRows
       DEF FailOrphans, Reap, Prune, Deregister, rows, Holds
<1>19. ASSUME NEW s \in Supervisors, FailOrphans(s) PROVE SlotsConserved'
  <2>1. \A c \in Cleaners : cleaner'[c].pc = "signal" => cleaner'[c] = cleaner[c]
    BY <1>19 DEF TypeOK, Cleaners, FailOrphans, StartCleaning
  <2>2. QED
    BY <1>19, <2>1, SlotsKeptByRows DEF FailOrphans, rows, Holds
<1>20. ASSUME NEW c \in Cleaners, CleanerFail(c) PROVE SlotsConserved'
  BY <1>20, CleanerFailConserves
<1>21. ASSUME NEW c \in Cleaners, CleanerSignal(c) PROVE SlotsConserved'
  <2>1. PICK j \in Jobs : j = cleaner[c].job
    BY <1>21 DEF TypeOK, CleanerType, CleanerSignal
  <2>2. /\ SignalFor(j) /\ cleaner[c].pc = "signal"
        /\ UNCHANGED <<ready, claimed, dispatch, thread>>
        /\ cleaner'[c].pc \in {"release", "next"}
        /\ \A d \in Cleaners \ {c} : cleaner'[d] = cleaner[d]
    BY <1>21, <2>1 DEF TypeOK, CleanerType, CleanerSignal, rows
  <2>3. CleanerSlot(KeyOf[j], c) /\ ~CleanerSlot(KeyOf[j], c)'
    BY <2>1, <2>2 DEF CleanerSlot
  <2>4. <<"cleaner", c>> \in Slots(KeyOf[j]) /\ <<"cleaner", c>> \notin Slots(KeyOf[j])'
    BY <2>3, SlotMembers
  <2>5. QED
    BY <2>2, <2>4, SignalConserves
<1>22. ASSUME NEW c \in Cleaners, CleanerRelease(c) PROVE SlotsConserved'
  <2>1. PICK k : k = KeyOf[cleaner[c].job]
    OBVIOUS
  <2>2. /\ ReleaseOne(k) /\ UNCHANGED <<dispatch, claimed, thread>>
        /\ cleaner'[c].pc = "next" /\ \A d \in Cleaners \ {c} : cleaner'[d] = cleaner[d]
    BY <1>22, <2>1 DEF TypeOK, CleanerType, CleanerRelease
  <2>3. QED
    BY <2>2, ReleaseConserves
<1>23. ASSUME NEW c \in Cleaners, CleanerRequeue(c) PROVE SlotsConserved'
  BY <1>0, <1>23, OneCleaner DEF CleanerRequeue, CleanerIdle
<1>24. ASSUME NEW c \in Cleaners, CleanerAborts(c) \/ CleanerDone(c) PROVE SlotsConserved'
  <2>1. \A d \in Cleaners : cleaner'[d] \in {cleaner[d], CleanerIdle}
    BY <1>24 DEF TypeOK, CleanerAborts, CleanerDone
  <2>2. QED
    BY <1>24, <2>1, SlotsKeptByRows DEF CleanerAborts, CleanerDone, rows, Holds, CleanerIdle
<1>25. CASE UNCHANGED vars
  BY <1>25, SlotsKeptByRows DEF vars, rows, Holds
<1>26. QED
  BY <1>1, <1>2, <1>3, <1>4, <1>5, <1>6, <1>7, <1>8, <1>9, <1>10, <1>11, <1>12, <1>13,
     <1>14, <1>15, <1>16, <1>17, <1>18, <1>19, <1>20, <1>21, <1>22, <1>23, <1>24, <1>25
     DEF TimelyNext, OtherSteps, DispatchStep, ThreadStep, CleanerStep

LEMMA TimelyIsSpec == TimelySpec => Spec
<1>1. [TimelyNext]_vars => [Next]_vars
  BY DEF TimelyNext, DeleteUnused, Next
<1> QED
  BY <1>1, PTL DEF TimelySpec, Spec

(* The slots of every key are conserved if the semaphores that the         *)
(* maintenance deletes are not in use (TimelySpec); the code has no guard  *)
(* that makes sure of it.                                                  *)
THEOREM SlotsInvariant ==
  ASSUME Undisturbed, WithinDuration, LimitsAgree
  PROVE  TimelySpec => []SlotsConserved
<1>1. Init => SlotsConserved
  <2> SUFFICES ASSUME Init PROVE SlotsConserved
    OBVIOUS
  <2>1. \A k \in Keys : Slots(k) = {}
    BY SlotMembers DEF Init, JobSlot, ThreadSlot, CleanerSlot, Holds, DispatchIdle,
       ThreadIdle, CleanerIdle
  <2>2. QED
    BY <2>1 DEF Init, SlotsConserved, SlotsAddUp, NoSemaphore, ThreadIdle
<1>2. TypeOK /\ Exclusive /\ SlotsConserved /\ [TimelyNext]_vars => SlotsConserved'
  BY SlotsStep
<1>3. QED
  BY <1>1, <1>2, TypeCorrect, ExclusiveInvariant, TimelyIsSpec, PTL DEF TimelySpec

(* limits_concurrency: at most `to` jobs of a key are performed at a time. *)
(* The threads that perform a job of the key each hold its claim, and the  *)
(* claimed jobs are among those that hold the key's slots.  It takes, like *)
(* SlotsInvariant, that no semaphore in use is deleted as an expired one.  *)
THEOREM ConcurrencyIsLimited ==
  ASSUME Undisturbed, WithinDuration, LimitsAgree
  PROVE  TimelySpec => []LimitRespected
<1>1. TypeOK /\ Exclusive /\ SlotsConserved => LimitRespected
  <2> SUFFICES ASSUME TypeOK, Exclusive, SlotsConserved,
                      NEW t \in Threads, NEW k \in Keys, t \in Running(k)
               PROVE  Cardinality(Running(k)) <= LimitOf[thread[t].job]
    BY DEF LimitRespected
  <2> DEFINE SlotOf == [u \in Running(k) |-> <<"job", thread[u].job>>]
  <2>1. ASSUME NEW u \in Running(k)
        PROVE  /\ thread[u].job \in Jobs /\ KeyOf[thread[u].job] = k
               /\ claimed[thread[u].job] = u /\ Holds(thread[u].job)
    BY ConstantsOK, AtWorkHolds DEF Exclusive, Running, Holds
  <2>2. \A u \in Running(k) : SlotOf[u] \in Slots(k)
    BY <2>1, SlotMembers DEF JobSlot
  <2>3. \A u, v \in Running(k) : SlotOf[u] = SlotOf[v] => u = v
    BY <2>1
  <2>4. SlotOf \in Injection(Running(k), Slots(k))
    BY <2>2, <2>3 DEF Injection, IsInjective
  <2>5. Cardinality(Running(k)) <= Cardinality(Slots(k)) /\ IsFiniteSet(Running(k))
    BY <2>4, SlotsAreFinite, FS_Injection
  <2>6. Slots(k) # {} /\ SlotsAddUp(k)
    BY <2>2 DEF SlotsConserved
  <2>7. semaphore[k].value >= 0 /\ semaphore[k].value + Cardinality(Slots(k)) <= LimitOf[thread[t].job]
    BY <2>1, <2>6 DEF SlotsAddUp
  <2>8. Cardinality(Running(k)) \in Nat
    BY <2>5, FS_CardinalityType
  <2>9. QED
    BY <2>1, <2>5, <2>7, <2>8, SlotCounts, SemaphoreValue, LimitTypes
<1>2. QED
  BY <1>1, TypeCorrect, ExclusiveInvariant, SlotsInvariant, TimelyIsSpec, PTL
-----------------------------------------------------------------------------
(***************************************************************************)
(* No slot leaks while no worker has died: the other half of the account.  *)
(***************************************************************************)
NoneDead == \A p \in Procs : process[p] # "dead"

CleanersRest == \A c \in Cleaners : cleaner[c] = CleanerIdle

SlotsUsedUp(k) ==
  semaphore[k].exists =>
    \A j \in Jobs : KeyOf[j] = k => LimitOf[j] <= semaphore[k].value + Cardinality(Slots(k))

Accounted == NoneDead => CleanersRest /\ \A k \in Keys : SlotsUsedUp(k)

(* A client that dies and a job that is discarded take their slot along.   *)
SlotsGivenBack == Hazards \cap {"clientCrash", "discard"} = {}

(* No slot is lost, and the row stays, expires or is deleted.              *)
LEMMA NoLostSlot ==
  ASSUME TypeOK, NEW k \in Keys, SlotsUsedUp(k), Slots(k) \subseteq Slots(k)',
         semaphore'[k].exists =>
           semaphore[k].exists /\ semaphore'[k].value = semaphore[k].value
  PROVE  SlotsUsedUp(k)'
<1>1. Cardinality(Slots(k)) <= Cardinality(Slots(k)')
  BY SlotsAreFinite, FS_Subset
<1> QED
  BY <1>1, SemaphoreValue, SlotCounts, LimitTypes DEF SlotsUsedUp

(* A slot granted is a slot held.                                          *)
LEMMA GrantIsUsed ==
  ASSUME TypeOK, LimitsAgree, NEW k \in Keys, SlotsAddUp(k), SlotsUsedUp(k),
         NEW x, x \notin Slots(k), Slots(k) \cup {x} \subseteq Slots(k)',
         NEW j \in Jobs, KeyOf[j] = k, semaphore'[k] = Taken(semaphore[k], LimitOf[j])
  PROVE  SlotsUsedUp(k)'
<1>1. Cardinality(Slots(k)) + 1 <= Cardinality(Slots(k)')
  <2>1. /\ IsFiniteSet(Slots(k) \cup {x})
        /\ Cardinality(Slots(k) \cup {x}) = Cardinality(Slots(k)) + 1
    BY SlotsAreFinite, FS_AddElement
  <2> QED
    BY <2>1, SlotsAreFinite, FS_Subset
<1>2. CASE ~semaphore[k].exists
  <2>1. Cardinality(Slots(k)) = 0
    BY <1>2, FS_EmptySet DEF SlotsAddUp
  <2>2. semaphore'[k].value = LimitOf[j] - 1
    BY <1>2, SMT DEF Taken
  <2>3. \A i \in Jobs : KeyOf[i] = k => LimitOf[i] = LimitOf[j]
    BY DEF LimitsAgree
  <2> QED
    BY <1>1, <2>1, <2>2, <2>3, SlotCounts, LimitTypes DEF SlotsUsedUp
<1>3. CASE semaphore[k].exists
  <2>1. semaphore'[k].value = semaphore[k].value - 1
    BY <1>3, SMT DEF Taken
  <2> QED
    BY <1>1, <1>3, <2>1, SemaphoreValue, SlotCounts, LimitTypes DEF SlotsUsedUp
<1> QED
  BY <1>2, <1>3

(* A slot given back is there to be granted again: the WHERE of            *)
(* attempt_increment lets it pass.                                         *)
LEMMA ReturnIsCounted ==
  ASSUME TypeOK, NEW k \in Keys, SlotsAddUp(k), SlotsUsedUp(k), NEW x \in Slots(k),
         Slots(k) \ {x} \subseteq Slots(k)',
         NEW j \in Jobs, KeyOf[j] = k, semaphore'[k] = Signalled(semaphore[k], LimitOf[j])
  PROVE  SlotsUsedUp(k)'
<1>1. /\ Cardinality(Slots(k)) - 1 <= Cardinality(Slots(k)')
      /\ Cardinality(Slots(k)) >= 1
  <2>1. /\ IsFiniteSet(Slots(k) \ {x})
        /\ Cardinality(Slots(k) \ {x}) = Cardinality(Slots(k)) - 1
    BY SlotsAreFinite, FS_RemoveElement
  <2>2. Cardinality(Slots(k) \ {x}) \in Nat
    BY <2>1, FS_CardinalityType
  <2> QED
    BY <2>1, <2>2, SlotsAreFinite, SlotCounts, FS_Subset
<1>2. semaphore[k].exists /\ semaphore[k].value <= LimitOf[j]
  BY SemaphoreValue, SlotCounts, LimitTypes DEF SlotsAddUp
<1>3. semaphore'[k].value = semaphore[k].value + 1
  BY <1>2, SMT DEF Signalled, Signallable
<1> QED
  BY <1>1, <1>2, <1>3, SemaphoreValue, SlotCounts, LimitTypes DEF SlotsUsedUp

(* A slot passed on to the thread that will signal is still held.          *)
LEMMA PassedIsUsed ==
  ASSUME TypeOK, NEW k \in Keys, SlotsUsedUp(k), NEW x \in Slots(k), NEW y, y \notin Slots(k),
         (Slots(k) \ {x}) \cup {y} \subseteq Slots(k)', semaphore'[k] = semaphore[k]
  PROVE  SlotsUsedUp(k)'
<1> DEFINE Rest == Slots(k) \ {x}
<1>1. /\ IsFiniteSet(Rest)
      /\ Cardinality(Rest) = Cardinality(Slots(k)) - 1
      /\ y \notin Rest
  BY SlotsAreFinite, FS_RemoveElement
<1> HIDE DEF Rest
<1>2. /\ IsFiniteSet(Rest \cup {y})
      /\ Cardinality(Rest \cup {y}) = Cardinality(Rest) + 1
  BY <1>1, FS_AddElement
<1>3. Cardinality(Rest \cup {y}) <= Cardinality(Slots(k)')
  BY <1>2, SlotsAreFinite, FS_Subset DEF Rest
<1>4. Cardinality(Slots(k)) <= Cardinality(Slots(k)')
  BY <1>1, <1>2, <1>3, SlotCounts
<1> QED
  BY <1>4, SemaphoreValue, SlotCounts, LimitTypes DEF SlotsUsedUp
-----------------------------------------------------------------------------
LEMMA SlotsStay ==
  ASSUME NEW k,
         \A j \in Jobs : JobSlot(k, j) => JobSlot(k, j)',
         \A t \in Threads : ThreadSlot(k, t) => ThreadSlot(k, t)',
         \A c \in Cleaners : CleanerSlot(k, c) => CleanerSlot(k, c)'
  PROVE  Slots(k) \subseteq Slots(k)'
BY SlotMembers

(* A step that touches neither the semaphores nor the cleaners loses no    *)
(* slot if it lets go of no job and keeps every signal owed.               *)
LEMMA UsedUpKept ==
  ASSUME TypeOK, UNCHANGED <<semaphore, cleaner>>, \A k \in Keys : SlotsUsedUp(k),
         \A j \in Jobs : Limited(j) /\ Holds(j) => Holds(j)',
         \A t \in Threads : thread[t].pc \in {"raised", "signal"} =>
           /\ thread'[t] = thread[t]
           /\ claimed[thread[t].job] # t => claimed'[thread[t].job] # t
  PROVE  \A k \in Keys : SlotsUsedUp(k)'
<1> SUFFICES ASSUME NEW k \in Keys PROVE SlotsUsedUp(k)'
  OBVIOUS
<1>1. k # NoKey
  BY ConstantsOK
<1>2. Slots(k) \subseteq Slots(k)'
  BY <1>1, SlotsStay DEF JobSlot, ThreadSlot, CleanerSlot, Limited
<1> QED
  BY <1>2, NoLostSlot

(* wait() is granted to a job that holds nothing yet.                      *)
LEMMA WaitIsUsed ==
  ASSUME TypeOK, LimitsAgree, SlotsConserved, \A k \in Keys : SlotsUsedUp(k),
         NEW j \in Jobs, ~Holds(j), Holds(j)',
         semaphore' = [semaphore EXCEPT ![KeyOf[j]] = Taken(@, LimitOf[j])],
         \A i \in Jobs \ {j} : Holds(i) => Holds(i)',
         UNCHANGED <<claimed, cleaner>>,
         \A t \in Threads : thread[t].pc \in {"raised", "signal"} => thread'[t] = thread[t]
  PROVE  \A k \in Keys : SlotsUsedUp(k)'
<1> SUFFICES ASSUME NEW k \in Keys PROVE SlotsUsedUp(k)'
  OBVIOUS
<1>1. Slots(k) \subseteq Slots(k)'
  BY SlotsStay DEF JobSlot, ThreadSlot, CleanerSlot
<1>2. CASE k # KeyOf[j]
  <2>1. semaphore'[k] = semaphore[k]
    BY <1>2 DEF TypeOK
  <2> QED
    BY <1>1, <2>1, NoLostSlot
<1>3. CASE k = KeyOf[j]
  <2>1. semaphore'[k] = Taken(semaphore[k], LimitOf[j])
    BY <1>3 DEF TypeOK
  <2>2. <<"job", j>> \notin Slots(k) /\ <<"job", j>> \in Slots(k)'
    BY <1>3, SlotMembers DEF JobSlot
  <2> QED
    BY <1>1, <1>3, <2>1, <2>2, GrantIsUsed DEF SlotsConserved
<1> QED
  BY <1>2, <1>3

LEMMA ReleaseIsUsed ==
  ASSUME TypeOK, RowsAreExclusive, LimitsAgree, SlotsConserved, \A k \in Keys : SlotsUsedUp(k),
         NEW k, ReleaseOne(k), UNCHANGED <<dispatch, claimed, cleaner>>,
         \A t \in Threads : thread[t].pc \in {"raised", "signal"} => thread'[t] = thread[t]
  PROVE  \A h \in Keys : SlotsUsedUp(h)'
<1>1. CASE UNCHANGED <<semaphore, ready, blocked>>
  BY <1>1, UsedUpKept DEF Holds
<1>2. ASSUME NEW j \in BlockedOn(k),
             semaphore' = [semaphore EXCEPT ![k] = Taken(@, LimitOf[j])],
             ready' = [ready EXCEPT ![j] = "blank"]
      PROVE  \A h \in Keys : SlotsUsedUp(h)'
  <2>1. j \in Jobs /\ j \in blocked /\ KeyOf[j] = k
    BY DEF TypeOK, BlockedOn
  <2>2. ~Holds(j)
    BY <2>1, SMT DEF RowsAreExclusive, RowsExclude, DispatchOwns, Holds
  <2>3. Holds(j)' /\ \A i \in Jobs \ {j} : Holds(i) => Holds(i)'
    BY <1>2, <2>1 DEF TypeOK, Holds
  <2> QED
    BY <1>2, <2>1, <2>2, <2>3, WaitIsUsed
<1> QED
  BY <1>1, <1>2 DEF ReleaseOne

(* The end of the work on a job: the thread owes the signal.               *)
LEMMA EndIsUsed ==
  ASSUME TypeOK, Exclusive, \A k \in Keys : SlotsUsedUp(k), NEW t \in Threads,
         thread[t].pc \in {"running", "raised"},
         UNCHANGED <<semaphore, ready, dispatch, cleaner>>,
         claimed' = WithoutRow(thread[t].job, t),
         thread' = [thread EXCEPT ![t] = AfterWork(thread[t].job)]
  PROVE  \A k \in Keys : SlotsUsedUp(k)'
<1>1. PICK j \in Jobs : j = thread[t].job /\ claimed[j] = t
  BY AtWorkHolds DEF Exclusive
<1>2. /\ \A i \in Jobs \ {j} : claimed'[i] = claimed[i]
      /\ claimed'[j] = NoThread /\ NoThread \notin Threads
  BY <1>1, ConstantsOK DEF TypeOK, WithoutRow
<1>3. thread'[t] = AfterWork(j) /\ \A u \in Threads \ {t} : thread'[u] = thread[u]
  BY <1>1 DEF TypeOK
<1>4. ASSUME NEW k, NEW u \in Threads \ {t}, ThreadSlot(k, u) PROVE ThreadSlot(k, u)'
  <2>1. thread[u].job \in Jobs
    BY <1>4, ThreadRecords DEF ThreadSlot, TypeOK
  <2> QED
    BY <1>2, <1>3, <1>4, <2>1 DEF ThreadSlot
<1>5. ASSUME NEW k PROVE ~ThreadSlot(k, t)
  BY <1>1 DEF ThreadSlot, Exclusive, ThreadsOwn, ThreadOwns
<1>6. ASSUME NEW k, NEW i \in Jobs \ {j}, JobSlot(k, i) PROVE JobSlot(k, i)'
  BY <1>2, <1>6 DEF JobSlot, Holds
<1> SUFFICES ASSUME NEW k \in Keys PROVE SlotsUsedUp(k)'
  OBVIOUS
<1>7. CASE k # KeyOf[j]
  <2>1. Slots(k) \subseteq Slots(k)'
    BY <1>4, <1>5, <1>6, <1>7, SlotsStay DEF JobSlot, CleanerSlot
  <2> QED
    BY <2>1, NoLostSlot
<1>8. CASE k = KeyOf[j]
  <2>1. <<"job", j>> \in Slots(k)
    BY <1>1, <1>2, <1>8, SlotMembers DEF JobSlot, Holds
  <2>2. <<"thread", t>> \notin Slots(k)
    BY <1>5, SlotMembers
  <2>3. Limited(j)
    BY <1>8, ConstantsOK DEF Limited
  <2>4. thread'[t].pc = "signal" /\ thread'[t].job = j
    BY <1>3, <2>3 DEF AfterWork
  <2>5. ThreadSlot(k, t)'
    BY <1>2, <1>8, <2>4 DEF ThreadSlot
  <2>6. \A c \in Cleaners : CleanerSlot(k, c) => CleanerSlot(k, c)'
    BY DEF CleanerSlot
  <2>7. (Slots(k) \ {<<"job", j>>}) \cup {<<"thread", t>>} \subseteq Slots(k)'
    BY <1>4, <1>6, <2>5, <2>6, SlotMembers
  <2> QED
    BY <2>1, <2>2, <2>7, PassedIsUsed
<1> QED
  BY <1>7, <1>8

(* The thread's signal adds its slot to the row of its key alone.          *)
LEMMA SignalIsCounted ==
  ASSUME TypeOK, SlotsConserved, \A k \in Keys : SlotsUsedUp(k), NEW t \in Threads, Signal(t)
  PROVE  \A k \in Keys : SlotsUsedUp(k)'
<1>1. PICK j \in Jobs : j = thread[t].job
  BY ThreadRecords DEF TypeOK, Signal
<1>2. /\ SignalFor(j) /\ thread[t].pc = "signal"
      /\ UNCHANGED <<ready, claimed, dispatch, cleaner>>
      /\ \A u \in Threads \ {t} : thread'[u] = thread[u]
  BY <1>1 DEF TypeOK, Signal, rows
<1> SUFFICES ASSUME NEW k \in Keys PROVE SlotsUsedUp(k)'
  OBVIOUS
<1>3. /\ \A i \in Jobs : JobSlot(k, i) => JobSlot(k, i)'
      /\ \A u \in Threads \ {t} : ThreadSlot(k, u) => ThreadSlot(k, u)'
      /\ \A c \in Cleaners : CleanerSlot(k, c) => CleanerSlot(k, c)'
  BY <1>2 DEF JobSlot, ThreadSlot, CleanerSlot, Holds
<1>4. CASE k # KeyOf[j]
  <2>1. ~ThreadSlot(k, t)
    BY <1>1, <1>4 DEF ThreadSlot
  <2>2. semaphore'[k] = semaphore[k]
    BY <1>2, <1>4 DEF TypeOK, SignalFor
  <2> QED
    BY <1>3, <2>1, <2>2, SlotsStay, NoLostSlot
<1>5. CASE k = KeyOf[j]
  <2>1. <<"thread", t>> \in Slots(k)
    BY <1>1, <1>2, <1>5, SlotMembers DEF ThreadSlot, SlotsConserved
  <2>2. Slots(k) \ {<<"thread", t>>} \subseteq Slots(k)'
    BY <1>3, SlotMembers
  <2>3. semaphore'[k] = Signalled(semaphore[k], LimitOf[j])
    BY <1>2, <1>5 DEF TypeOK, SignalFor
  <2> QED
    BY <1>5, <2>1, <2>2, <2>3, ReturnIsCounted DEF SlotsConserved
<1> QED
  BY <1>4, <1>5
-----------------------------------------------------------------------------
(* The steps of clients, the dispatchers, the maintenance and the threads. *)
CalmNext ==
  \/ \E j \in Jobs :
       \/ Insert(j) \/ DispatchStep(j) \/ ClientCrash(j)
       \/ DispatchDue(j) \/ Retry(j) \/ Discard(j)
  \/ \E k \in Keys : Expire(k) \/ DeleteSemaphore(k) \/ Unblock(k)
  \/ ReadExpired
  \/ \E t \in Threads : ThreadStep(t) \/ \E j \in Jobs : Claim(t, j)
  \/ UNCHANGED vars

(* While no worker dies, nobody cleans up and nobody shuts down.           *)
LEMMA CalmStep ==
  ASSUME Undisturbed, TypeOK, Exclusive, NoneDead => CleanersRest, [Next]_vars, NoneDead'
  PROVE  /\ NoneDead /\ CleanersRest /\ UNCHANGED cleaner
         /\ CalmNext
<1>1. RowsAreExclusive /\ WorkersRun /\ SnapshotsAreCurrent
  BY DEF Exclusive
<1>2. CalmNext => UNCHANGED <<process, cleaner>>
  <2>1. ASSUME NEW j \in Jobs,
               \/ Insert(j) \/ DispatchStep(j) \/ ClientCrash(j)
               \/ DispatchDue(j) \/ Retry(j) \/ Discard(j)
        PROVE  UNCHANGED <<process, cleaner>>
    BY <2>1 DEF Insert, DispatchStep, ClientCrash, DispatchDue, Retry, Discard, Schedule,
                LookUp, Decrement, Create, DispatchToReady, DispatchToBlocked
  <2>2. ASSUME NEW k \in Keys, Expire(k) \/ DeleteSemaphore(k) \/ Unblock(k)
        PROVE  UNCHANGED <<process, cleaner>>
    BY <2>2 DEF Expire, DeleteSemaphore, Unblock
  <2>3. ASSUME NEW t \in Threads, ThreadStep(t) \/ \E j \in Jobs : Claim(t, j)
        PROVE  UNCHANGED <<process, cleaner>>
    BY <2>3 DEF ThreadStep, Start, Raise, Finish, FinishByDelete, FinishRaises, Fail,
                Signal, Release, Claim
  <2> QED
    BY <2>1, <2>2, <2>3 DEF CalmNext, ReadExpired, vars
<1>3. ASSUME NEW p \in Procs PROVE ~Shutdown(p) /\ ~LoseRegistration(p) /\ ~Crash(p)
  <2>1. ~Shutdown(p)
    BY <1>1 DEF Shutdown, Undisturbed, Selects, RowsAreExclusive, RowsExclude
  <2>2. ~LoseRegistration(p)
    BY <1>1 DEF LoseRegistration, WorkersRun, WorkerRuns
  <2>3. ~Crash(p)
    BY DEF Crash, NoneDead, TypeOK
  <2> QED
    BY <2>1, <2>2, <2>3
<1>4. ASSUME NoneDead, NEW s \in Supervisors, NEW p \in Procs
      PROVE  ~Reap(s, p) /\ ~Prune(s, p) /\ ~Deregister(s, p)
  BY <1>1, <1>4 DEF NoneDead, Reap, Terminated, Prune, Deregister, Undisturbed,
                    WorkersRun, WorkerRuns
<1>5. ASSUME NoneDead PROVE Orphans = {}
  BY <1>1, <1>5, ConstantsOK DEF NoneDead, Orphans, WorkersRun, WorkerRuns
<1>6. ASSUME NEW s \in Supervisors,
             \/ FailOrphans(s)
             \/ \E p \in Procs : Reap(s, p) \/ Prune(s, p) \/ Deregister(s, p)
      PROVE  FALSE
  <2>1. UNCHANGED process
    BY <1>6 DEF FailOrphans, Reap, Prune, Deregister
  <2> QED
    BY <1>4, <1>5, <1>6, <2>1 DEF NoneDead, FailOrphans
<1>7. ASSUME NEW c \in Cleaners, CleanerStep(c) PROVE FALSE
  <2>1. cleaner[c] = CleanerIdle => FALSE
    BY <1>7 DEF CleanerIdle, CleanerStep, CleanerFail, CleanerSignal, CleanerRelease,
                CleanerRequeue, CleanerAborts, CleanerDone
  <2>2. NoneDead
    BY <1>1, <1>7, ConstantsOK
       DEF NoneDead, CleanerStep, CleanerFail, CleanerSignal, CleanerRelease,
           CleanerRequeue, CleanerAborts, CleanerDone, WorkersRun, WorkerRuns
  <2> QED
    BY <2>1, <2>2 DEF CleanersRest
<1>8. CalmNext
  BY <1>3, <1>6, <1>7 DEF Next, OtherSteps, CalmNext
<1> QED
  BY <1>2, <1>8 DEF NoneDead

LEMMA AccountedStep ==
  ASSUME Undisturbed, WithinDuration, LimitsAgree, SlotsGivenBack,
         TypeOK, Exclusive, SlotsConserved, Accounted, [Next]_vars
  PROVE  Accounted'
<1> SUFFICES ASSUME NoneDead' PROVE CleanersRest' /\ \A k \in Keys : SlotsUsedUp(k)'
  BY DEF Accounted
<1> DEFINE Goal == \A k \in Keys : SlotsUsedUp(k)'
<1>1. NoneDead /\ CleanersRest /\ UNCHANGED cleaner
  BY CalmStep DEF Accounted
<1>2. \A k \in Keys : SlotsUsedUp(k)
  BY <1>1 DEF Accounted
<1>3. RowsAreExclusive /\ ThreadsOwn
  BY DEF Exclusive
<1> HIDE DEF Goal
<1>4. ASSUME NEW j \in Jobs,
             \/ Insert(j) \/ Schedule(j) \/ LookUp(j) \/ DispatchDue(j) \/ Retry(j)
             \/ DispatchToReady(j) \/ DispatchToBlocked(j)
      PROVE  Goal
  <2>1. /\ UNCHANGED <<semaphore, thread, claimed>>
        /\ \A i \in Jobs \ {j} : dispatch'[i] = dispatch[i] /\ ready'[i] = ready[i]
    BY <1>4 DEF TypeOK, Insert, Schedule, LookUp, DispatchDue, Retry, DispatchToReady,
                DispatchToBlocked, StartDispatch, EndDispatch, GoTo, rows
  <2>2. Limited(j) /\ Holds(j) => Holds(j)'
    <3>1. CASE DispatchToReady(j)
      BY <3>1 DEF DispatchToReady, BulkInsertClashes, TypeOK, Holds
    <3>2. CASE ~DispatchToReady(j)
      <4>1. dispatch[j].pc # "granted" /\ ready' = ready
        BY <1>4, <3>2 DEF Insert, Schedule, LookUp, DispatchDue, Retry, DispatchToBlocked,
                          StartDispatch, At, rows
      <4> QED
        BY <2>1, <4>1 DEF Holds
    <3> QED
      BY <3>1, <3>2
  <2>3. \A i \in Jobs : Limited(i) /\ Holds(i) => Holds(i)'
    BY <2>1, <2>2 DEF Holds
  <2> QED
    BY <1>1, <1>2, <2>1, <2>3, UsedUpKept DEF Goal
<1>5. ASSUME NEW j \in Jobs, Decrement(j) \/ Create(j) PROVE Goal
  <2>1. /\ UNCHANGED <<ready, claimed, thread>>
        /\ \A i \in Jobs \ {j} : dispatch'[i] = dispatch[i]
        /\ dispatch[j].pc \in {"open", "missing"}
    BY <1>5 DEF TypeOK, Decrement, Create, GoTo, At, rows
  <2>2. ~Holds(j)
    BY <1>3, <2>1, SMT DEF RowsAreExclusive, DispatchOwns, Holds
  <2>3. CASE UNCHANGED semaphore
    <3>1. \A i \in Jobs : Holds(i) => Holds(i)'
      BY <2>1, <2>2 DEF Holds
    <3> QED
      BY <1>1, <1>2, <2>1, <2>3, <3>1, UsedUpKept DEF Goal
  <2>4. CASE /\ semaphore' = [semaphore EXCEPT ![KeyOf[j]] = Taken(@, LimitOf[j])]
             /\ GoTo(j, "granted")
    <3>1. Holds(j)' /\ \A i \in Jobs \ {j} : Holds(i) => Holds(i)'
      BY <2>1, <2>4 DEF TypeOK, DispatchType, GoTo, Holds
    <3> QED
      BY <1>1, <1>2, <2>1, <2>2, <2>4, <3>1, WaitIsUsed DEF Goal
  <2> QED
    BY <1>5, <2>3, <2>4 DEF Decrement, Create
<1>6. ASSUME NEW k \in Keys, Expire(k) \/ DeleteSemaphore(k) PROVE Goal
  <2> SUFFICES ASSUME NEW h \in Keys PROVE SlotsUsedUp(h)'
    BY DEF Goal
  <2>1. Slots(h)' = Slots(h)
    BY <1>6 DEF Expire, DeleteSemaphore, Slots, Holds, rows
  <2>2. semaphore'[h].exists => semaphore[h].exists /\ semaphore'[h].value = semaphore[h].value
    <3>1. semaphore \in [Keys -> SemaphoreType]
      BY DEF TypeOK
    <3>2. semaphore'[h] \in {semaphore[h], [semaphore[h] EXCEPT !.expired = TRUE], NoSemaphore}
      BY <1>6, <3>1 DEF Expire, DeleteSemaphore
    <3> QED
      BY <3>1, <3>2 DEF SemaphoreType, NoSemaphore
  <2> QED
    BY <1>2, <2>1, <2>2, NoLostSlot
<1>7. ASSUME NEW k \in Keys, Unblock(k) PROVE Goal
  BY <1>2, <1>3, <1>7, ReleaseIsUsed DEF Unblock, Goal
<1>8. ASSUME NEW t \in Threads, NEW j \in Jobs, Claim(t, j) PROVE Goal
  <2>1. /\ claimed[j] = NoThread /\ thread[t].pc = "idle"
        /\ ready' = [ready EXCEPT ![j] = "none"]
        /\ claimed' = [claimed EXCEPT ![j] = t]
        /\ thread' = [thread EXCEPT ![t] = [pc |-> "posted", job |-> j]]
        /\ UNCHANGED <<semaphore, dispatch>>
    BY <1>8 DEF Claim
  <2>2. \A i \in Jobs : Holds(i) => Holds(i)'
    BY <2>1, ConstantsOK DEF TypeOK, Holds
  <2>3. ASSUME NEW u \in Threads, thread[u].pc \in {"raised", "signal"}
        PROVE  /\ thread'[u] = thread[u]
               /\ claimed[thread[u].job] # u => claimed'[thread[u].job] # u
    <3>1. u # t /\ thread[u].job \in Jobs
      BY <2>1, <2>3, ThreadRecords DEF TypeOK
    <3> QED
      BY <2>1, <3>1 DEF TypeOK
  <2> QED
    BY <1>1, <1>2, <2>1, <2>2, <2>3, UsedUpKept DEF Goal
<1>9. ASSUME NEW t \in Threads, Start(t) \/ Raise(t) \/ FinishRaises(t) PROVE Goal
  <2>1. /\ UNCHANGED <<semaphore, ready, claimed, dispatch>>
        /\ thread[t].pc \in {"posted", "running"}
        /\ \A u \in Threads \ {t} : thread'[u] = thread[u]
    BY <1>9 DEF TypeOK, Start, Raise, FinishRaises, rows
  <2>2. \A i \in Jobs : Holds(i) => Holds(i)'
    BY <2>1 DEF Holds
  <2> QED
    BY <1>1, <1>2, <2>1, <2>2, UsedUpKept DEF Goal
<1>10. ASSUME NEW t \in Threads, Finish(t) PROVE Goal
  BY <1>2, <1>10, EndIsUsed DEF Finish, Undisturbed, Goal
<1>11. ASSUME NEW t \in Threads, Fail(t) PROVE Goal
  <2>1. job[thread[t].job] # "gone" /\ thread[t].job \notin failed
    BY <1>3, <1>11, AtWorkHolds DEF Fail
  <2> QED
    BY <1>2, <1>11, <2>1, EndIsUsed DEF Fail, Goal
<1>12. ASSUME NEW t \in Threads, FinishByDelete(t) PROVE Goal
  <2>1. PICK j \in Jobs : j = thread[t].job /\ ~Limited(j) /\ claimed[j] = t
    BY <1>3, <1>12, AtWorkHolds DEF FinishByDelete
  <2>2. /\ claimed' = [claimed EXCEPT ![j] = NoThread]
        /\ ready' = [ready EXCEPT ![j] = "none"]
        /\ thread[t].pc = "running"
        /\ thread' = [thread EXCEPT ![t] = ThreadIdle]
        /\ UNCHANGED <<semaphore, dispatch>>
    BY <1>12, <2>1 DEF FinishByDelete
  <2>3. \A i \in Jobs : Limited(i) /\ Holds(i) => Holds(i)'
    BY <2>1, <2>2 DEF TypeOK, Holds
  <2>4. ASSUME NEW u \in Threads, thread[u].pc \in {"raised", "signal"}
        PROVE  /\ thread'[u] = thread[u]
               /\ claimed[thread[u].job] # u => claimed'[thread[u].job] # u
    <3>1. u # t /\ thread[u].job \in Jobs
      BY <2>2, <2>4, ThreadRecords DEF TypeOK
    <3> QED
      BY <2>2, <3>1, ConstantsOK DEF TypeOK
  <2> QED
    BY <1>1, <1>2, <2>2, <2>3, <2>4, UsedUpKept DEF Goal
<1>13. ASSUME NEW t \in Threads, Signal(t) PROVE Goal
  BY <1>2, <1>13, SignalIsCounted DEF Goal
<1>14. ASSUME NEW t \in Threads, Release(t) PROVE Goal
  <2>1. PICK k : k = KeyOf[thread[t].job]
    OBVIOUS
  <2>2. /\ ReleaseOne(k) /\ UNCHANGED <<dispatch, claimed, cleaner>>
        /\ thread[t].pc = "release" /\ \A u \in Threads \ {t} : thread'[u] = thread[u]
    BY <1>14, <2>1 DEF TypeOK, Release
  <2> QED
    BY <1>2, <1>3, <2>2, ReleaseIsUsed DEF Goal
<1>15. ASSUME ReadExpired \/ UNCHANGED vars PROVE Goal
  <2>1. UNCHANGED <<ready, claimed, semaphore, dispatch, thread>>
    BY <1>15 DEF ReadExpired, vars, rows
  <2>2. \A i \in Jobs : Holds(i) => Holds(i)'
    BY <2>1 DEF Holds
  <2> QED
    BY <1>1, <1>2, <2>1, <2>2, UsedUpKept DEF Goal
<1>16. ASSUME NEW j \in Jobs PROVE ~ClientCrash(j) /\ ~Discard(j)
  BY DEF SlotsGivenBack, ClientCrash, Discard
<1>17. Goal
  <2>1. NoneDead => CleanersRest
    BY DEF Accounted
  <2>2. ASSUME NEW j \in Jobs,
               \/ Insert(j) \/ DispatchStep(j) \/ ClientCrash(j)
               \/ DispatchDue(j) \/ Retry(j) \/ Discard(j)
        PROVE  Goal
    BY <1>4, <1>5, <1>16, <2>2 DEF DispatchStep
  <2>3. ASSUME NEW k \in Keys, Expire(k) \/ DeleteSemaphore(k) \/ Unblock(k) PROVE Goal
    BY <1>6, <1>7, <2>3
  <2>4. ASSUME NEW t \in Threads, ThreadStep(t) \/ \E j \in Jobs : Claim(t, j) PROVE Goal
    BY <1>8, <1>9, <1>10, <1>11, <1>12, <1>13, <1>14, <2>4 DEF ThreadStep
  <2>5. CalmNext
    BY <2>1, CalmStep
  <2> QED
    BY <1>15, <2>2, <2>3, <2>4, <2>5 DEF CalmNext
<1> QED
  BY <1>1, <1>17 DEF CleanersRest, Goal

(* Signals and releases are never lost unless a worker dies: whatever      *)
(* interleaving of waits, signals, releases and the maintenance has led to *)
(* a semaphore's value, it and the jobs that hold its slots account for    *)
(* the whole limit, if no semaphore in use is deleted as an expired one.   *)
THEOREM SlotsDoNotLeak ==
  ASSUME Undisturbed, WithinDuration, LimitsAgree, SlotsGivenBack
  PROVE  TimelySpec => []NoSlotLeaks
<1>1. Init => Accounted
  BY DEF Init, Accounted, CleanersRest, SlotsUsedUp, NoSemaphore
<1>2. /\ TypeOK /\ Exclusive /\ SlotsConserved /\ Accounted /\ [Next]_vars
      => Accounted'
  BY AccountedStep
<1>3. TypeOK /\ SlotsConserved /\ Accounted => NoSlotLeaks
  <2> SUFFICES ASSUME TypeOK, SlotsConserved, Accounted, AtRest, NEW j \in Jobs, Limited(j),
                      semaphore[KeyOf[j]].exists
               PROVE  semaphore[KeyOf[j]].value + Cardinality(Slots(KeyOf[j])) = LimitOf[j]
    BY DEF NoSlotLeaks
  <2> DEFINE k == KeyOf[j]
  <2>1. k \in Keys
    BY ConstantsOK DEF Limited
  <2>2. SlotsUsedUp(k) /\ SlotsAddUp(k)
    BY <2>1 DEF Accounted, NoneDead, AtRest, SlotsConserved
  <2>3. /\ LimitOf[j] <= semaphore[k].value + Cardinality(Slots(k))
        /\ semaphore[k].value + Cardinality(Slots(k)) <= LimitOf[j]
    BY <2>2 DEF SlotsUsedUp, SlotsAddUp
  <2> QED
    BY <2>1, <2>3, SemaphoreValue, SlotCounts, LimitTypes
<1> QED
  BY <1>1, <1>2, <1>3, TypeCorrect, ExclusiveInvariant, SlotsInvariant, TimelyIsSpec, PTL
     DEF Spec, TimelySpec
=============================================================================
