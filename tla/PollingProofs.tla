--------------------------- MODULE PollingProofs ---------------------------
(***************************************************************************)
(* Dispatchers and workers together, for every number of jobs, queues,     *)
(* dispatchers and workers, every batch size and number of threads.        *)
(*                                                                         *)
(* NeitherLostNorTwice, DispatchingMoves and DispatchedInOrder hold as     *)
(* long as the rows a dispatcher sees in its transaction are added in time *)
(* and no rolled-back transaction gives rows to one that is under way      *)
(* (Hazards = {}); LostBatch shows what a row added late does.             *)
(*                                                                         *)
(* PollingTypeOK, PausedOrForeignUntouched and FollowsTheList follow from  *)
(* what the selector yields for the lists the workers may have.            *)
(***************************************************************************)
EXTENDS PollingProperties, FiniteSetTheorems, WellFoundedInduction, TLAPS

-----------------------------------------------------------------------------
(***************************************************************************)
(* The first n elements of a set of numbers.                               *)
(***************************************************************************)
Smaller(S, j) == {i \in S : i < j}

First(S, n) == {j \in S : Cardinality(Smaller(S, j)) < n}

(* A set of numbers has a least element.                                   *)
LEMMA LeastElement ==
  ASSUME NEW S \in SUBSET Nat, S # {}
  PROVE  \E m \in S : \A i \in S : m <= i
<1> DEFINE Below == OpToRel(<, Nat)
<1>1. IsWellFoundedOn(Below, Nat)
  BY NatLessThanWellFounded, Zenon
<1>2. \A i, n \in Nat : i < n => <<i, n>> \in Below
  BY DEF OpToRel
<1> HIDE DEF Below
<1>3. PICK m \in S : \A i \in S : ~(<<i, m>> \in Below)
  BY <1>1, WFMin, Zenon
<1>4. \A i \in S : ~(i < m)
  BY <1>2, <1>3
<1> QED
  BY <1>4

(* A subset has no more elements below a number than the set.              *)
LEMMA SmallerCounts ==
  ASSUME NEW S \in SUBSET Nat, IsFiniteSet(S), NEW T \in SUBSET S, NEW j
  PROVE  /\ IsFiniteSet(Smaller(T, j))
         /\ Cardinality(Smaller(T, j)) \in Nat
         /\ Cardinality(Smaller(T, j)) <= Cardinality(Smaller(S, j))
<1>1. Smaller(T, j) \in SUBSET Smaller(S, j) /\ Smaller(S, j) \in SUBSET S
  BY DEF Smaller
<1>2. IsFiniteSet(Smaller(S, j))
  BY <1>1, FS_Subset
<1> QED
  BY <1>1, <1>2, FS_Subset, FS_CardinalityType

(* The others are all above the first ones,                                *)
LEMMA FirstComeFirst ==
  ASSUME NEW S \in SUBSET Nat, IsFiniteSet(S), NEW n \in Nat,
         NEW j \in First(S, n), NEW i \in S \ First(S, n)
  PROVE  j < i
<1> SUFFICES ASSUME ~(j < i) PROVE FALSE
  OBVIOUS
<1>1. i \in Nat /\ j \in Nat /\ i <= j
  BY DEF First
<1>2. Smaller(S, i) \in SUBSET Smaller(S, j)
  <2>1. \A h \in S : h < i => h < j
    BY <1>1
  <2> QED
    BY <2>1 DEF Smaller
<1>3. IsFiniteSet(Smaller(S, j)) /\ Cardinality(Smaller(S, j)) \in Nat
  BY SmallerCounts
<1>4. Cardinality(Smaller(S, i)) <= Cardinality(Smaller(S, j))
  BY <1>2, <1>3, FS_Subset
<1>5. Cardinality(Smaller(S, i)) \in Nat
  BY SmallerCounts
<1> QED
  BY <1>3, <1>4, <1>5 DEF First

(* of which there are as many as asked for if there are any others.        *)
LEMMA FirstAreEnough ==
  ASSUME NEW S \in SUBSET Nat, IsFiniteSet(S), NEW n \in Nat, First(S, n) # S
  PROVE  /\ IsFiniteSet(First(S, n)) /\ Cardinality(First(S, n)) \in Nat
         /\ n <= Cardinality(First(S, n))
<1> DEFINE Rest == S \ First(S, n)
<1>1. Rest \in SUBSET Nat /\ Rest # {} /\ First(S, n) \in SUBSET S
  BY DEF First
<1>2. PICK m \in Rest : \A i \in Rest : m <= i
  BY <1>1, LeastElement
<1>3. Smaller(S, m) \in SUBSET First(S, n)
  BY <1>1, <1>2 DEF Smaller
<1>4. IsFiniteSet(First(S, n)) /\ Cardinality(First(S, n)) \in Nat
  BY <1>1, FS_Subset, FS_CardinalityType
<1>5. Cardinality(Smaller(S, m)) <= Cardinality(First(S, n))
  BY <1>3, <1>4, FS_Subset
<1>6. Cardinality(Smaller(S, m)) \in Nat /\ ~(Cardinality(Smaller(S, m)) < n)
  BY <1>2, SmallerCounts DEF First
<1> QED
  BY <1>4, <1>5, <1>6

(* There are at most n first ones: the last of them has all the others     *)
(* below it.                                                               *)
LEMMA FirstAreNotMore ==
  ASSUME NEW S \in SUBSET Nat, IsFiniteSet(S), NEW n \in Nat
  PROVE  /\ IsFiniteSet(First(S, n)) /\ Cardinality(First(S, n)) \in Nat
         /\ Cardinality(First(S, n)) <= n
<1> DEFINE Place(x) == Cardinality(Smaller(S, x))
<1>1. IsFiniteSet(First(S, n)) /\ Cardinality(First(S, n)) \in Nat
  <2>1. First(S, n) \in SUBSET S
    BY DEF First
  <2> QED
    BY <2>1, FS_Subset, FS_CardinalityType
<1>2. CASE First(S, n) = {}
  BY <1>1, <1>2, FS_EmptySet
<1>3. CASE First(S, n) # {}
  <2>1. \A x : Place(x) \in Nat
    BY SmallerCounts
  <2>2. \A x \in First(S, n) : Place(x) < n /\ x \in S
    BY DEF First
  <2> HIDE DEF Place
  <2> DEFINE Gaps == {n - Place(x) : x \in First(S, n)}
  <2>3. Gaps \in SUBSET Nat /\ Gaps # {}
    BY <1>3, <2>1, <2>2
  <2>4. PICK gap \in Gaps : \A h \in Gaps : gap <= h
    BY <2>3, LeastElement
  <2>5. PICK m \in First(S, n) : gap = n - Place(m)
    BY <2>4
  <2>6. \A x \in First(S, n) : Place(x) <= Place(m)
    <3>1. ASSUME NEW x \in First(S, n) PROVE Place(x) <= Place(m)
      <4>1. n - Place(x) \in Gaps
        OBVIOUS
      <4>2. n - Place(m) <= n - Place(x)
        BY <2>4, <2>5, <4>1
      <4> QED
        BY <2>1, <4>2
    <3> QED
      BY <3>1
  <2>7. ASSUME NEW x \in First(S, n), x # m PROVE x \in Smaller(S, m)
    <3>1. x \in Nat /\ m \in Nat /\ x \in S /\ m \in S
      BY <2>2
    <3>2. CASE m < x
      <4>1. Smaller(S, m) \in SUBSET Smaller(S, x)
        <5>1. \A i \in S : i < m => i < x
          BY <3>1, <3>2
        <5> QED
          BY <5>1 DEF Smaller
      <4>2. m \in Smaller(S, x) /\ m \notin Smaller(S, m)
        BY <3>1, <3>2 DEF Smaller
      <4>3. IsFiniteSet(Smaller(S, x))
        BY SmallerCounts
      <4>4. Place(m) <= Place(x) /\ Place(m) # Place(x)
        BY <4>1, <4>2, <4>3, FS_Subset DEF Place
      <4> QED
        BY <2>1, <2>6, <4>4
    <3> QED
      BY <2>7, <3>1, <3>2 DEF Smaller
  <2>8. IsFiniteSet(Smaller(S, m)) /\ m \notin Smaller(S, m)
    <3>1. m \in Nat
      BY <2>2
    <3>2. m \notin Smaller(S, m)
      BY <3>1 DEF Smaller
    <3> QED
      BY <3>2, SmallerCounts
  <2>9. /\ IsFiniteSet(Smaller(S, m) \cup {m})
        /\ Cardinality(Smaller(S, m) \cup {m}) = Place(m) + 1
    BY <2>8, FS_AddElement DEF Place
  <2>10. First(S, n) \in SUBSET (Smaller(S, m) \cup {m})
    BY <2>7
  <2>11. Cardinality(First(S, n)) <= Place(m) + 1
    BY <2>9, <2>10, FS_Subset
  <2> QED
    BY <1>1, <2>1, <2>2, <2>5, <2>11
<1> QED
  BY <1>2, <1>3

(* The first ones stay the first when some of the others are taken away.   *)
LEMMA FirstStayFirst ==
  ASSUME NEW S \in SUBSET Nat, IsFiniteSet(S), NEW n \in Nat,
         NEW T \in SUBSET S, First(S, n) \subseteq T
  PROVE  First(T, n) = First(S, n)
<1>1. ASSUME NEW j \in First(S, n) PROVE j \in First(T, n)
  <2>1. Cardinality(Smaller(S, j)) < n /\ j \in T
    BY <1>1 DEF First
  <2>2. /\ Cardinality(Smaller(T, j)) <= Cardinality(Smaller(S, j))
        /\ Cardinality(Smaller(T, j)) \in Nat /\ Cardinality(Smaller(S, j)) \in Nat
    BY SmallerCounts
  <2> QED
    BY <2>1, <2>2 DEF First
<1>2. ASSUME NEW j \in First(T, n), j \notin First(S, n) PROVE FALSE
  <2>1. j \in S \ First(S, n) /\ Cardinality(Smaller(T, j)) < n
    BY <1>2 DEF First
  <2>2. First(S, n) \in SUBSET Smaller(T, j)
    BY <2>1, FirstComeFirst DEF First, Smaller
  <2>3. IsFiniteSet(Smaller(T, j)) /\ Cardinality(Smaller(T, j)) \in Nat
    BY SmallerCounts
  <2>4. Cardinality(First(S, n)) <= Cardinality(Smaller(T, j))
    BY <2>2, <2>3, FS_Subset
  <2>5. Cardinality(First(S, n)) \in Nat /\ n <= Cardinality(First(S, n))
    BY <2>1, FirstAreEnough
  <2> QED
    BY <2>1, <2>3, <2>4, <2>5
<1> QED
  BY <1>1, <1>2
-----------------------------------------------------------------------------
(***************************************************************************)
(* The batch of a transaction stays the same from its first reading to the *)
(* commit: the inductive invariant.                                        *)
(***************************************************************************)
(* The rows among which the query set of d's batch chooses.                *)
Sees(d) == {j \in scheduled : j <= dispatcher[d].now} \ LockedByOthers(d)

ReadingsAgree(d) ==
  LET at == dispatcher[d].at
      locks == dispatcher[d].locks
  IN  IF InTransaction(d)
        THEN /\ dispatcher[d].now <= clock
             /\ locks = First(Sees(d), BatchSize)
             /\ at # "counted" => dispatcher[d].jobs = locks
             /\ at = "matched" => dispatcher[d].dispatched = locks
        ELSE locks = {}

BatchesAgree == \A d \in Dispatchers : ReadingsAgree(d)

(* A saved job is in one table or was claimed once, another one is nowhere.*)
InOnePlace(j) ==
  /\ j \in saved =>
       (IF j \in scheduled THEN 1 ELSE 0) + (IF j \in ready THEN 1 ELSE 0) + claims[j] = 1
  /\ j \notin saved => j \notin scheduled \cup ready /\ claims[j] = 0

Placed ==
  /\ claims \in [Jobs -> Nat]
  /\ \A j \in Jobs : InOnePlace(j)

(* Job ids and the batch size are numbers.                                 *)
LEMMA JobsAreNumbers ==
  Jobs \in SUBSET Nat /\ BatchSize \in Nat
BY BatchConstantsOK

(* LockedByOthers, member by member.                                       *)
LEMMA LockedMembers ==
  ASSUME NEW d
  PROVE  /\ \A j : j \in LockedByOthers(d) <=>
              \E e \in Dispatchers \ {d} : j \in dispatcher[e].locks
         /\ \A j : j \in LockedByOthers(d)' <=>
              \E e \in Dispatchers \ {d} : j \in dispatcher'[e].locks
BY DEF LockedByOthers

(* next_batch is the first rows of those seen.                             *)
LEMMA BatchIsFirst ==
  ASSUME NEW d
  PROVE  /\ NextBatch(d, dispatcher[d].now) = First(Sees(d), BatchSize)
         /\ dispatcher'[d].now = clock /\ UNCHANGED <<scheduled, LockedByOthers(d)>>
              => NextBatch(d, clock) = First(Sees(d)', BatchSize)
BY DEF NextBatch, First, Smaller, Sees

(* The rows seen are jobs, finitely many.                                  *)
LEMMA SeenAreJobs ==
  ASSUME BatchTypeOK, NEW d
  PROVE  Sees(d) \in SUBSET Jobs /\ IsFiniteSet(Sees(d))
<1>1. Sees(d) \in SUBSET Jobs
  BY DEF BatchTypeOK, Sees
<1> QED
  BY <1>1, BatchConstantsOK, FS_Subset

(* Two dispatchers have no row in common.                                  *)
LEMMA LocksAreApart ==
  ASSUME BatchesAgree, NEW d \in Dispatchers, NEW e \in Dispatchers \ {d}
  PROVE  dispatcher[d].locks \cap dispatcher[e].locks = {}
<1>1. dispatcher[d].locks \cap LockedByOthers(d) = {}
  BY DEF BatchesAgree, ReadingsAgree, First, Sees
<1> QED
  BY <1>1, LockedMembers

(* The rows of a batch are in the table until the commit.                  *)
LEMMA LocksAreScheduled ==
  ASSUME BatchesAgree, NEW d \in Dispatchers
  PROVE  dispatcher[d].locks \subseteq scheduled
BY DEF BatchesAgree, ReadingsAgree, First, Sees

(* A batch is read again as it was when rows that are not in it go.        *)
LEMMA BatchStays ==
  ASSUME BatchTypeOK, NEW d \in Dispatchers, ReadingsAgree(d),
         dispatcher'[d] = dispatcher[d], clock \in Nat, clock' \in Nat, clock <= clock',
         Sees(d)' \subseteq Sees(d), dispatcher[d].locks \subseteq Sees(d)'
  PROVE  ReadingsAgree(d)'
<1>1. CASE ~InTransaction(d)
  BY <1>1 DEF ReadingsAgree, InTransaction
<1>2. CASE InTransaction(d)
  <2>1. Sees(d) \in SUBSET Nat /\ IsFiniteSet(Sees(d)) /\ BatchSize \in Nat
    BY SeenAreJobs, JobsAreNumbers
  <2>2. dispatcher[d].locks = First(Sees(d), BatchSize)
    BY <1>2 DEF ReadingsAgree
  <2>3. First(Sees(d)', BatchSize) = First(Sees(d), BatchSize)
    BY <2>1, <2>2, FirstStayFirst
  <2>4. dispatcher[d].now \in Nat
    BY DEF BatchTypeOK
  <2> QED
    BY <1>2, <2>2, <2>3, <2>4 DEF ReadingsAgree, InTransaction
<1> QED
  BY <1>1, <1>2

(* What a step of e must keep for the batches of the others: e takes no    *)
(* row of theirs, and no row that e lets go of stays in the table.         *)
LEMMA OthersAgree ==
  ASSUME BatchTypeOK, BatchesAgree, NEW e \in Dispatchers, UNCHANGED clock,
         \A d \in Dispatchers \ {e} :
           /\ dispatcher'[d] = dispatcher[d]
           /\ dispatcher'[e].locks \cap dispatcher[d].locks = {},
         scheduled' \subseteq scheduled, scheduled \ scheduled' \subseteq dispatcher[e].locks,
         dispatcher[e].locks \cap scheduled' \subseteq dispatcher'[e].locks,
         ReadingsAgree(e)'
  PROVE  BatchesAgree'
<1> SUFFICES ASSUME NEW d \in Dispatchers \ {e} PROVE ReadingsAgree(d)'
  BY DEF BatchesAgree
<1>1. ReadingsAgree(d)
  BY DEF BatchesAgree
<1>2. CASE ~InTransaction(d)
  BY <1>1, <1>2 DEF ReadingsAgree, InTransaction
<1>3. CASE InTransaction(d)
  <2>1. ASSUME NEW j \in Sees(d)' PROVE j \in Sees(d)
    <3>1. j \in scheduled /\ j \in scheduled' /\ j <= dispatcher[d].now
      BY <2>1 DEF Sees
    <3>2. j \notin LockedByOthers(d)'
      BY <2>1 DEF Sees
    <3>3. j \notin LockedByOthers(d)
      BY <3>1, <3>2, LockedMembers
    <3> QED
      BY <3>1, <3>3 DEF Sees
  <2>2. ASSUME NEW j \in dispatcher[d].locks PROVE j \in Sees(d)'
    <3>1. j \in Sees(d)
      BY <1>1, <1>3, <2>2 DEF ReadingsAgree, First
    <3>2. j \in scheduled /\ j <= dispatcher[d].now /\ j \notin LockedByOthers(d)
      BY <3>1 DEF Sees
    <3>3. j \in scheduled' /\ j \notin LockedByOthers(d)'
      BY <2>2, <3>2, LockedMembers
    <3> QED
      BY <3>2, <3>3 DEF Sees
  <2>3. clock \in Nat /\ clock <= clock'
    BY DEF BatchTypeOK
  <2> QED
    BY <1>1, <2>1, <2>2, <2>3, BatchStays
<1> QED
  BY <1>2, <1>3
-----------------------------------------------------------------------------
(***************************************************************************)
(* The steps of dispatchers.                                               *)
(***************************************************************************)
(* select_for_update(skip_locked) takes the first rows no other has locked.*)
LEMMA CountAgrees ==
  ASSUME BatchTypeOK, BatchesAgree, NEW e \in Dispatchers, Count(e)
  PROVE  BatchesAgree'
<1> DEFINE batch == NextBatch(e, clock)
<1>1. /\ dispatcher[e].at = "idle" /\ UNCHANGED <<clock, tables>>
      /\ dispatcher' = [dispatcher EXCEPT ![e] =
           [Idle EXCEPT !.at = "counted", !.now = clock, !.locks = batch]]
  BY DEF Count
<1>2. /\ dispatcher'[e].at = "counted" /\ dispatcher'[e].now = clock
      /\ dispatcher'[e].locks = batch
      /\ \A d \in Dispatchers \ {e} : dispatcher'[d] = dispatcher[d]
  BY <1>1, SMT DEF BatchTypeOK, Idle
<1>3. UNCHANGED <<scheduled, LockedByOthers(e)>>
  BY <1>1, <1>2 DEF tables, LockedByOthers
<1>4. batch = First(Sees(e)', BatchSize)
  BY <1>2, <1>3, BatchIsFirst
<1>5. ReadingsAgree(e)'
  BY <1>1, <1>2, <1>4 DEF ReadingsAgree, InTransaction, BatchTypeOK
<1>6. dispatcher[e].locks = {}
  BY <1>1 DEF BatchesAgree, ReadingsAgree, InTransaction
<1>7. batch \cap LockedByOthers(e) = {}
  BY DEF NextBatch
<1>8. \A d \in Dispatchers \ {e} : dispatcher'[e].locks \cap dispatcher[d].locks = {}
  BY <1>2, <1>7, LockedMembers
<1> QED
  BY <1>1, <1>2, <1>3, <1>5, <1>6, <1>8, OthersAgree

(* The other readings of the batch return the rows that are locked.        *)
LEMMA ReadsAgain ==
  ASSUME BatchesAgree, NEW e \in Dispatchers, InTransaction(e)
  PROVE  NextBatch(e, dispatcher[e].now) = dispatcher[e].locks
BY BatchIsFirst DEF BatchesAgree, ReadingsAgree

(* The second and the third reading add no row to the batch.               *)
LEMMA ReadingAgrees ==
  ASSUME BatchTypeOK, BatchesAgree, NEW e \in Dispatchers, Select(e) \/ Match(e)
  PROVE  BatchesAgree'
<1> DEFINE locks == dispatcher[e].locks
<1>1. InTransaction(e) /\ UNCHANGED <<clock, scheduled>>
  BY DEF InTransaction, Select, Match, tables
<1>2. /\ locks = First(Sees(e), BatchSize) /\ dispatcher[e].now <= clock
      /\ dispatcher[e].at = "dispatched" => dispatcher[e].jobs = locks
  BY <1>1 DEF BatchesAgree, ReadingsAgree
<1>3. NextBatch(e, dispatcher[e].now) = locks
  BY <1>1, ReadsAgain
<1>4. /\ dispatcher'[e].locks = locks /\ dispatcher'[e].now = dispatcher[e].now
      /\ dispatcher'[e].at \in {"selected", "matched"} /\ dispatcher'[e].jobs = locks
      /\ dispatcher'[e].at = "matched" => dispatcher'[e].dispatched = locks
      /\ \A d \in Dispatchers \ {e} : dispatcher'[d] = dispatcher[d]
  <2>1. CASE Select(e)
    BY <2>1, <1>3, SMT DEF Select, BatchTypeOK
  <2>2. CASE Match(e)
    BY <2>2, <1>2, <1>3, SMT DEF Match, BatchTypeOK
  <2> QED
    BY <2>1, <2>2
<1>5. Sees(e)' = Sees(e)
  BY <1>1, <1>4 DEF Sees, LockedByOthers
<1>6. ReadingsAgree(e)'
  BY <1>1, <1>2, <1>4, <1>5 DEF ReadingsAgree, InTransaction
<1> QED
  BY <1>1, <1>4, <1>6, LocksAreApart, OthersAgree

(* The ready rows are inserted: none of these jobs has one.                *)
LEMMA DispatchAgrees ==
  ASSUME BatchTypeOK, BatchesAgree, Placed, NEW e \in Dispatchers, Dispatch(e)
  PROVE  BatchesAgree'
<1>1. InTransaction(e) /\ dispatcher[e].at = "selected" /\ UNCHANGED <<clock, scheduled>>
  BY DEF InTransaction, Dispatch, tables
<1>2. ReadingsAgree(e)
  BY DEF BatchesAgree
<1>3. dispatcher[e].jobs \subseteq scheduled
  BY <1>1, <1>2, LocksAreScheduled DEF ReadingsAgree
<1>4. scheduled \cap ready = {}
  BY DEF Placed, InOnePlace, BatchTypeOK
<1>5. dispatcher' = [dispatcher EXCEPT ![e].at = "dispatched"]
  BY <1>3, <1>4 DEF Dispatch
<1>6. /\ dispatcher'[e].locks = dispatcher[e].locks /\ dispatcher'[e].now = dispatcher[e].now
      /\ dispatcher'[e].at = "dispatched" /\ dispatcher'[e].jobs = dispatcher[e].jobs
      /\ \A d \in Dispatchers \ {e} : dispatcher'[d] = dispatcher[d]
  BY <1>5, SMT DEF BatchTypeOK
<1>7. Sees(e)' = Sees(e)
  BY <1>1, <1>6 DEF Sees, LockedByOthers
<1>8. ReadingsAgree(e)'
  BY <1>1, <1>2, <1>6, <1>7 DEF ReadingsAgree, InTransaction
<1> QED
  BY <1>1, <1>6, <1>8, LocksAreApart, OthersAgree

(* The rows of the batch leave the table together with their locks.        *)
LEMMA CommitAgrees ==
  ASSUME BatchTypeOK, BatchesAgree, NEW e \in Dispatchers, Commit(e)
  PROVE  BatchesAgree'
<1>1. dispatcher[e].dispatched = dispatcher[e].locks
  BY DEF Commit, BatchesAgree, ReadingsAgree, InTransaction
<1>2. /\ dispatcher'[e] = Idle /\ \A d \in Dispatchers \ {e} : dispatcher'[d] = dispatcher[d]
      /\ scheduled' = scheduled \ dispatcher[e].locks /\ UNCHANGED clock
  BY <1>1 DEF Commit, BatchTypeOK
<1>3. ReadingsAgree(e)' /\ dispatcher'[e].locks = {}
  BY <1>2 DEF ReadingsAgree, InTransaction, Idle
<1> QED
  BY <1>2, <1>3, OthersAgree

(* The locks of one that dies go to others only when none is reading.      *)
LEMMA DieAgrees ==
  ASSUME Hazards = {}, BatchTypeOK, BatchesAgree, NEW e \in Dispatchers, Die(e)
  PROVE  BatchesAgree'
<1>1. /\ dispatcher'[e] = Down
      /\ \A d \in Dispatchers \ {e} : dispatcher'[d] = dispatcher[d] /\ ~InTransaction(d)
  BY DEF Die, BatchTypeOK
<1>2. ReadingsAgree(e)'
  BY <1>1 DEF ReadingsAgree, InTransaction, Down, Idle
<1> QED
  BY <1>1, <1>2 DEF BatchesAgree, ReadingsAgree, InTransaction

(* The one in its place begins without a batch.                            *)
LEMMA RestartAgrees ==
  ASSUME BatchTypeOK, BatchesAgree, NEW e \in Dispatchers, Restart(e)
  PROVE  BatchesAgree'
<1>1. /\ dispatcher'[e] = Idle /\ \A d \in Dispatchers \ {e} : dispatcher'[d] = dispatcher[d]
      /\ dispatcher[e].at = "down" /\ UNCHANGED <<clock, scheduled>>
  BY DEF Restart, BatchTypeOK, tables
<1>2. ReadingsAgree(e)' /\ dispatcher[e].locks = {} /\ dispatcher'[e].locks = {}
  BY <1>1 DEF ReadingsAgree, InTransaction, Idle, BatchesAgree
<1> QED
  BY <1>1, <1>2, OthersAgree

(* Time passes and rows are added, all of them due later than any reading. *)
LEMMA ArrivalAgrees ==
  ASSUME BatchTypeOK, BatchesAgree, UNCHANGED dispatcher, clock' \in Nat, clock <= clock',
         scheduled \subseteq scheduled', \A j \in scheduled' \ scheduled : j \in Nat /\ clock < j
  PROVE  BatchesAgree'
<1> SUFFICES ASSUME NEW d \in Dispatchers PROVE ReadingsAgree(d)'
  BY DEF BatchesAgree
<1>1. ReadingsAgree(d) /\ clock \in Nat /\ dispatcher[d].now \in Nat
  BY DEF BatchesAgree, BatchTypeOK
<1>2. CASE ~InTransaction(d)
  BY <1>1, <1>2 DEF ReadingsAgree, InTransaction
<1>3. CASE InTransaction(d)
  <2>1. LockedByOthers(d)' = LockedByOthers(d)
    BY DEF LockedByOthers
  <2>2. dispatcher[d].now <= clock
    BY <1>1, <1>3 DEF ReadingsAgree
  <2>3. \A j \in scheduled' : j <= dispatcher[d].now => j \in scheduled
    BY <1>1, <2>2
  <2>4. Sees(d)' = Sees(d)
    BY <2>1, <2>3 DEF Sees
  <2>5. dispatcher[d].locks \subseteq Sees(d)
    BY <1>1, <1>3 DEF ReadingsAgree, First
  <2> QED
    BY <1>1, <2>4, <2>5, BatchStays
<1> QED
  BY <1>2, <1>3
-----------------------------------------------------------------------------
(***************************************************************************)
(* Every step keeps the types, the batches and the places of the jobs.     *)
(***************************************************************************)
LEMMA BatchTypeStep ==
  ASSUME BatchTypeOK, BatchNext
  PROVE  BatchTypeOK'
<1> USE BatchConstantsOK
<1> DEFINE DispatcherType ==
      [at : {"idle", "counted", "selected", "dispatched", "matched", "down"}, now : Nat,
       locks : SUBSET Jobs, jobs : SUBSET Jobs, dispatched : SUBSET Jobs]
<1>1. /\ clock \in Nat /\ saved \subseteq Jobs /\ scheduled \subseteq Jobs /\ ready \subseteq Jobs
      /\ dispatcher \in [Dispatchers -> DispatcherType] /\ kills \in 0..MaxKills
  BY DEF BatchTypeOK
<1>2. Idle \in DispatcherType /\ Down \in DispatcherType
  BY DEF Idle, Down
<1>3. ASSUME NEW d, NEW now PROVE NextBatch(d, now) \in SUBSET Jobs
  BY <1>1 DEF NextBatch
<1>4. CASE Tick \/ \E j \in Jobs : Enqueue(j)
  <2>1. CASE Tick
    BY <1>1, <2>1 DEF Tick, tables, BatchTypeOK
  <2>2. ASSUME NEW j \in Jobs, Enqueue(j) PROVE BatchTypeOK'
    <3>1. /\ saved' \subseteq Jobs /\ scheduled' \subseteq Jobs /\ ready' \subseteq Jobs
          /\ UNCHANGED <<clock, dispatcher, kills>>
      BY <1>1, <2>2 DEF Enqueue
    <3> QED
      BY <1>1, <3>1 DEF BatchTypeOK
  <2> QED
    BY <1>4, <2>1, <2>2
<1>5. ASSUME NEW d \in Dispatchers, dispatcher' = [dispatcher EXCEPT ![d] = dispatcher'[d]],
             dispatcher'[d] \in DispatcherType, UNCHANGED <<clock, tables>>,
             kills' \in 0..MaxKills
      PROVE  BatchTypeOK'
  <2>1. dispatcher' \in [Dispatchers -> DispatcherType]
    BY <1>1, <1>5
  <2> QED
    BY <1>1, <1>5, <2>1 DEF tables, BatchTypeOK
<1>6. ASSUME NEW d \in Dispatchers, Dispatching(d) \/ Die(d) PROVE BatchTypeOK'
  <2>0. dispatcher[d] \in DispatcherType
    BY <1>1
  <2>1. CASE Count(d)
    <3>1. [Idle EXCEPT !.at = "counted", !.now = clock, !.locks = NextBatch(d, clock)]
            \in DispatcherType
      BY <1>1, <1>2, <1>3
    <3> QED
      BY <1>1, <1>5, <2>1, <3>1 DEF Count
  <2>2. CASE Select(d)
    <3> DEFINE batch == NextBatch(d, dispatcher[d].now)
    <3>1. [dispatcher[d] EXCEPT !.at = "selected", !.jobs = batch, !.locks = @ \cup batch]
            \in DispatcherType
      BY <1>3, <2>0
    <3>2. dispatcher' = [dispatcher EXCEPT ![d] =
            [dispatcher[d] EXCEPT !.at = "selected", !.jobs = batch, !.locks = @ \cup batch]]
      BY <2>2 DEF Select
    <3> HIDE DEF batch
    <3> QED
      BY <1>1, <1>5, <2>2, <3>1, <3>2 DEF Select
  <2>3. CASE Match(d)
    <3> DEFINE batch == NextBatch(d, dispatcher[d].now)
    <3>1. [dispatcher[d] EXCEPT !.at = "matched", !.dispatched = batch, !.locks = @ \cup batch]
            \in DispatcherType
      BY <1>3, <2>0
    <3>2. dispatcher' = [dispatcher EXCEPT ![d] =
            [dispatcher[d] EXCEPT !.at = "matched", !.dispatched = batch, !.locks = @ \cup batch]]
      BY <2>3 DEF Match
    <3> HIDE DEF batch
    <3> QED
      BY <1>1, <1>5, <2>3, <3>1, <3>2 DEF Match
  <2>4. CASE Dispatch(d)
    <3>1. [dispatcher[d] EXCEPT !.at = "dispatched"] \in DispatcherType
      BY <2>0
    <3>2. \/ dispatcher' = [dispatcher EXCEPT ![d] = Down]
          \/ dispatcher' = [dispatcher EXCEPT ![d] = [dispatcher[d] EXCEPT !.at = "dispatched"]]
      BY <2>4 DEF Dispatch
    <3> QED
      BY <1>1, <1>2, <1>5, <2>4, <3>1, <3>2 DEF Dispatch
  <2>5. CASE Commit(d)
    <3>1. dispatcher[d].jobs \subseteq Jobs
      BY <2>0
    <3>2. dispatcher' \in [Dispatchers -> DispatcherType]
      BY <1>1, <1>2, <2>5 DEF Commit
    <3> QED
      BY <1>1, <2>5, <3>1, <3>2 DEF Commit, BatchTypeOK
  <2>6. CASE Die(d) \/ Restart(d)
    BY <1>1, <1>2, <1>5, <2>6 DEF Die, Restart
  <2> QED
    BY <1>6, <2>1, <2>2, <2>3, <2>4, <2>5, <2>6 DEF Dispatching
<1> QED
  BY <1>4, <1>6 DEF BatchNext

(* It keeps every batch the same from reading to reading, too.             *)
LEMMA BatchesStep ==
  ASSUME Hazards = {}, BatchTypeOK, BatchesAgree, Placed, BatchNext
  PROVE  BatchesAgree'
<1>1. CASE Tick
  BY <1>1, ArrivalAgrees DEF Tick, tables, BatchTypeOK
<1>2. ASSUME NEW j \in Jobs, Enqueue(j) PROVE BatchesAgree'
  <2>1. \A i \in scheduled' \ scheduled : i = j /\ ~IsDue(j)
    BY <1>2 DEF Enqueue
  <2>2. \A i \in scheduled' \ scheduled : i \in Nat /\ clock < i
    BY <2>1, JobsAreNumbers DEF IsDue, BatchTypeOK
  <2> QED
    BY <1>2, <2>2, ArrivalAgrees DEF Enqueue, BatchTypeOK
<1> QED
  BY <1>1, <1>2, CountAgrees, ReadingAgrees, DispatchAgrees, CommitAgrees, RestartAgrees,
     DieAgrees DEF BatchNext, Dispatching

(* A row is exchanged for another, or for the job in a worker's hands.     *)
LEMMA PlacedBatchStep ==
  ASSUME BatchTypeOK, BatchesAgree, Placed, BatchNext, UNCHANGED claims
  PROVE  Placed'
<1>1. CASE UNCHANGED tables
  BY <1>1 DEF Placed, InOnePlace, tables
<1>2. ASSUME NEW j \in Jobs, Enqueue(j) PROVE Placed'
  BY <1>2 DEF Placed, InOnePlace, Enqueue
<1>3. ASSUME NEW d \in Dispatchers, Commit(d) PROVE Placed'
  <2>1. /\ dispatcher[d].jobs = dispatcher[d].dispatched
        /\ dispatcher[d].jobs \subseteq scheduled
    BY <1>3, LocksAreScheduled DEF Commit, BatchesAgree, ReadingsAgree, InTransaction
  <2>2. /\ ready' = ready \cup dispatcher[d].jobs /\ saved' = saved
        /\ scheduled' = scheduled \ dispatcher[d].jobs
    BY <1>3, <2>1 DEF Commit
  <2> QED
    BY <2>1, <2>2 DEF Placed, InOnePlace
<1> QED
  BY <1>1, <1>2, <1>3
     DEF BatchNext, Tick, Dispatching, Count, Select, Dispatch, Match, Restart, Die

(* The row of a ready job is exchanged for the job in a worker's hands.    *)
LEMMA PlacedClaimStep ==
  ASSUME BatchTypeOK, Placed, NEW w \in Workers, Claim(w)
  PROVE  Placed'
<1>1. PICK locked \in SUBSET ready :
        /\ ready' = ready \ locked
        /\ claims' = [j \in Jobs |-> claims[j] + (IF j \in locked THEN 1 ELSE 0)]
        /\ UNCHANGED <<saved, scheduled>>
  <2> DEFINE locked == Selected(Head(worker[w].relations), worker[w].limit)
  <2>1. locked \in SUBSET ready
    BY DEF Selected
  <2> QED
    BY <2>1 DEF Claim
<1> QED
  BY <1>1 DEF Placed, InOnePlace

(* What operators and workers do is nothing to the dispatchers.            *)
LEMMA PollStep ==
  ASSUME BatchTypeOK, Placed,
         \/ \E q \in Queues : Pause(q) \/ Resume(q)
         \/ \E w \in Workers : Poll(w)
  PROVE  BatchTypeOK' /\ Placed' /\ UNCHANGED <<clock, scheduled, dispatcher>>
<1>1. CASE UNCHANGED <<batchVars, claims>>
  BY <1>1 DEF BatchTypeOK, Placed, InOnePlace, batchVars, tables
<1>2. ASSUME NEW w \in Workers, Claim(w)
      PROVE  BatchTypeOK' /\ Placed' /\ UNCHANGED <<clock, scheduled, dispatcher>>
  <2>1. ready' \subseteq ready /\ UNCHANGED <<clock, saved, scheduled, dispatcher, kills>>
    BY <1>2 DEF Claim
  <2> QED
    BY <1>2, <2>1, PlacedClaimStep DEF BatchTypeOK
<1> QED
  BY <1>1, <1>2 DEF Pause, Resume, Poll, IsAll, IsNone, ReadNames, Filter

BatchInv == BatchTypeOK /\ BatchesAgree /\ Placed

(* Every step keeps the inductive invariant.                               *)
LEMMA BatchStep ==
  ASSUME Hazards = {}, BatchInv, [Next]_vars
  PROVE  BatchInv'
<1> USE DEF BatchInv
<1>1. CASE BatchNext /\ UNCHANGED pollVars
  BY <1>1, BatchTypeStep, BatchesStep, PlacedBatchStep DEF pollVars
<1>2. CASE \/ \E q \in Queues : Pause(q) \/ Resume(q)
           \/ \E w \in Workers : Poll(w)
  <2>1. BatchTypeOK' /\ Placed' /\ UNCHANGED <<clock, scheduled, dispatcher>>
    BY <1>2, PollStep
  <2>2. BatchesAgree'
    BY <2>1, ArrivalAgrees DEF BatchTypeOK
  <2> QED
    BY <2>1, <2>2
<1>3. CASE UNCHANGED vars
  <2>1. UNCHANGED <<batchVars, claims>>
    BY <1>3 DEF vars, pollVars
  <2>2. BatchTypeOK' /\ Placed' /\ UNCHANGED <<clock, scheduled, dispatcher>>
    BY <2>1 DEF batchVars, tables, BatchTypeOK, Placed, InOnePlace
  <2>3. BatchesAgree'
    BY <2>2, ArrivalAgrees DEF BatchTypeOK
  <2> QED
    BY <2>2, <2>3
<1> QED
  BY <1>1, <1>2, <1>3 DEF Next

(* The query set of dispatch_next_batch is sent to the database three      *)
(* times in a transaction and returns the same rows each time, whoever     *)
(* enqueues in time, dispatches or claims in between.  Hazards = {} leaves *)
(* out a row committed late and the death of a dispatcher, whose locks     *)
(* then go, while another is within its batch (LostBatch, RolledBack); a   *)
(* dispatcher may still die when no other is.                              *)
THEOREM BatchInvariant ==
  ASSUME Hazards = {}
  PROVE  Spec => []BatchInv
<1>1. Init => BatchInv
  BY BatchConstantsOK
     DEF Init, BatchInit, BatchInv, BatchTypeOK, BatchesAgree, ReadingsAgree, InTransaction,
         Idle, Placed, InOnePlace
<1>2. BatchInv /\ [Next]_vars => BatchInv'
  BY BatchStep
<1> QED
  BY <1>1, <1>2, PTL DEF Spec

(* NeitherLostNorTwice: dispatch_next_batch exchanges a scheduled row for  *)
(* one ready row, and ReadyExecution.claim that one for one claim: a job   *)
(* that was enqueued is in one place, and comes into a worker's hands at   *)
(* most once, with the two exceptions of BatchInvariant.                   *)
THEOREM JobsAreNeitherLostNorTwice ==
  ASSUME Hazards = {}
  PROVE  Spec => []NeitherLostNorTwice
<1>1. BatchInv => NeitherLostNorTwice
  BY DEF BatchInv, BatchTypeOK, Placed, InOnePlace, NeitherLostNorTwice
<1> QED
  BY <1>1, BatchInvariant, PTL

(* DispatchingMoves: the rows that the third reading deletes are those of  *)
(* the jobs the second one has made ready. (With rows that are added late  *)
(* it is violated: see LostBatch.)                                         *)
THEOREM BatchesMoveJobs ==
  ASSUME Hazards = {}
  PROVE  Spec => DispatchingMoves
<1> DEFINE Moves == \A j \in scheduled : j \notin scheduled' => j \in ready'
<1>1. BatchInv /\ [Next]_vars => [Moves]_vars
  <2> SUFFICES ASSUME BatchInv, Next PROVE Moves
    BY DEF vars
  <2>1. ASSUME NEW d \in Dispatchers, Commit(d) PROVE Moves
    BY <2>1 DEF Commit, BatchInv, BatchesAgree, ReadingsAgree, InTransaction
  <2>2. CASE scheduled \subseteq scheduled'
    BY <2>2
  <2>3. CASE \/ \E q \in Queues : Pause(q) \/ Resume(q)
             \/ \E w \in Workers : Poll(w)
    BY <2>2, <2>3, PollStep DEF BatchInv
  <2>4. CASE BatchNext
    BY <2>1, <2>2, <2>4
       DEF BatchNext, Tick, Enqueue, Dispatching, Count, Select, Dispatch, Match, Restart, Die,
           tables
  <2> QED
    BY <2>3, <2>4 DEF Next
<1> QED
  BY <1>1, BatchInvariant, PTL DEF Spec, DispatchingMoves

(* A transaction that has made its last reading ends with the commit.      *)
LEMMA EndsByCommit ==
  ASSUME BatchTypeOK, Placed, Next, NEW d \in Dispatchers,
         dispatcher[d].at = "matched", dispatcher'[d].at = "idle"
  PROVE  Commit(d)
<1>1. dispatcher' # dispatcher
  OBVIOUS
<1>2. ASSUME NEW e \in Dispatchers, Dispatching(e) \/ Die(e), ~Commit(d) PROVE FALSE
  <2>1. e = d
    BY <1>2 DEF Dispatching, Count, Select, Dispatch, Match, Commit, Restart, Die, BatchTypeOK
  <2>2. Die(d)
    BY <1>2, <2>1 DEF Dispatching, Count, Select, Dispatch, Match, Restart
  <2> QED
    BY <2>2 DEF Die, BatchTypeOK, Down, Idle
<1>3. BatchNext
  BY <1>1, PollStep DEF Next
<1> QED
  BY <1>1, <1>2, <1>3 DEF BatchNext, Tick, Enqueue

(* DispatchedInOrder: next_batch takes the rows in_order; when its batch   *)
(* is committed, no earlier row stays behind that was due and that no      *)
(* other dispatcher has locked.                                            *)
THEOREM BatchesAreDispatchedInOrder ==
  ASSUME Hazards = {}
  PROVE  Spec => DispatchedInOrder
<1> DEFINE Earlier(d) ==
      dispatcher[d].at = "matched" /\ dispatcher'[d].at = "idle" =>
        \A j \in scheduled \ scheduled', i \in scheduled' :
          i \in LockedByOthers(d) \/ j < i
<1>1. BatchInv /\ [Next]_vars => [\A d \in Dispatchers : Earlier(d)]_vars
  <2> SUFFICES ASSUME BatchInv, Next, NEW d \in Dispatchers,
                      dispatcher[d].at = "matched", dispatcher'[d].at = "idle",
                      NEW j \in scheduled \ scheduled', NEW i \in scheduled',
                      i \notin LockedByOthers(d)
               PROVE  j < i
    BY DEF vars
  <2>1. BatchTypeOK /\ Commit(d) /\ ReadingsAgree(d) /\ InTransaction(d)
    BY EndsByCommit DEF BatchInv, BatchesAgree, InTransaction
  <2>2. /\ dispatcher[d].locks = First(Sees(d), BatchSize)
        /\ scheduled' = scheduled \ dispatcher[d].locks
    BY <2>1 DEF Commit, ReadingsAgree
  <2>3. j \in First(Sees(d), BatchSize) /\ i \in scheduled /\ i \notin First(Sees(d), BatchSize)
    BY <2>2
  <2>4. /\ Sees(d) \in SUBSET Nat /\ IsFiniteSet(Sees(d)) /\ BatchSize \in Nat
        /\ i \in Nat /\ j \in Nat /\ dispatcher[d].now \in Nat
    <3>1. Sees(d) \in SUBSET Nat /\ IsFiniteSet(Sees(d)) /\ BatchSize \in Nat
      BY <2>1, SeenAreJobs, JobsAreNumbers
    <3>2. scheduled \subseteq Nat /\ dispatcher[d].now \in Nat
      BY <2>1, JobsAreNumbers DEF BatchTypeOK
    <3> QED
      BY <2>3, <3>1, <3>2
  <2>5. CASE i \in Sees(d)
    BY <2>3, <2>4, <2>5, FirstComeFirst
  <2>6. CASE i \notin Sees(d)
    <3>1. ~(i <= dispatcher[d].now)
      BY <2>3, <2>6 DEF Sees
    <3>2. j <= dispatcher[d].now
      BY <2>3 DEF First, Sees
    <3> QED
      BY <2>4, <3>1, <3>2
  <2> QED
    BY <2>5, <2>6
<1> QED
  BY <1>1, BatchInvariant, PTL DEF Spec, DispatchedInOrder
-----------------------------------------------------------------------------
(***************************************************************************)
(* Workers claim from the queues on their lists, in order.                 *)
(***************************************************************************)
(* The hypotheses on the selector. It is a recursion over the list, which  *)
(* TLC evaluates for all short lists (MCPolling, SelectorOK).              *)
NamesAreYielded ==
  \A w \in Workers : \A list \in RawQueues[w] : YieldsNames(list)

OrderIsYielded ==
  \A w \in Workers : \A list \in RawQueues[w] : YieldsInOrder(list)

(* A worker that polls everything, as by default, fulfills them.           *)
LEMMA EverythingIsYielded ==
  ASSUME NEW list, IncludeAllQueues(list), IsFiniteSet(Queues)
  PROVE  YieldsNames(list) /\ YieldsInOrder(list)
<1>1. ASSUME NEW present \in SUBSET Queues, NEW eligible \in EligibleQueues(list, present)
      PROVE  eligible.taken \in Seq(Queues)
  <2>1. PICK names \in SetToSeqs(present) : eligible = [NoError EXCEPT !.taken = names]
    BY DEF EligibleQueues
  <2>2. names \in [1..Cardinality(present) -> present] /\ Cardinality(present) \in Nat
    <3>1. Cardinality(present) \in Nat
      BY FS_Subset, FS_CardinalityType
    <3> QED
      BY <3>1 DEF SetToSeqs
  <2>3. names \in Seq(Queues)
    BY <2>2
  <2> QED
    BY <2>1, <2>3 DEF NoError
<1> QED
  BY <1>1 DEF YieldsNames, YieldsInOrder, Names

WorkerState ==
  [at : {"rest", "none", "names", "filter", "claim"}, limit : 0..PoolSize,
   queues : Seq(Queues), relations : Seq(SUBSET Queues)]

(* Where a worker has queues to look up and relations to claim from.       *)
InPhase(w) ==
  /\ worker[w].at = "filter" <=> worker[w].queues # <<>>
  /\ worker[w].at \in {"rest", "none", "names"} => worker[w].relations = <<>>
  /\ worker[w].at = "claim" => worker[w].relations # <<>>

(* What is noted of a queue during a poll is so now.                       *)
NoteHolds(w) ==
  lately[w].paused \subseteq paused /\ lately[w].open \cap paused = {}

OnlyNamed(w) ==
  /\ \A n \in DOMAIN worker[w].queues : Names(raw[w], worker[w].queues[n])
  /\ \A n \in DOMAIN worker[w].relations : \A q \in worker[w].relations[n] :
       Names(raw[w], q) /\ q \notin lately[w].paused

PollOK(w) ==
  /\ raw[w] \in RawQueues[w]
  /\ worker[w] \in WorkerState /\ lately[w] \in PollRecord
  /\ InPhase(w) /\ NoteHolds(w) /\ OnlyNamed(w)

(* The inductive invariant.                                                *)
PollInv ==
  /\ BatchTypeOK
  /\ paused \subseteq Queues
  /\ worker = [w \in Workers |-> worker[w]] /\ lately = [w \in Workers |-> lately[w]]
  /\ claims \in [Jobs -> Nat]
  /\ \A w \in Workers : PollOK(w)

-----------------------------------------------------------------------------
(* A sequence is its head and its tail.                                    *)
LEMMA OneByOne ==
  ASSUME NEW S, NEW s \in Seq(S), s # <<>>
  PROVE  /\ Head(s) = s[1] /\ Head(s) \in S /\ Tail(s) \in Seq(S)
         /\ 1 \in DOMAIN s /\ DOMAIN s = 1..Len(s) /\ Len(s) \in Nat
         /\ DOMAIN Tail(s) = 1..(Len(s) - 1)
         /\ \A n \in DOMAIN Tail(s) : n + 1 \in DOMAIN s /\ Tail(s)[n] = s[n + 1]
         /\ Tail(s) # <<>> <=> Len(s) # 1
<1>1. /\ Head(s) = s[1] /\ Head(s) \in S /\ Tail(s) \in Seq(S)
      /\ 1 \in DOMAIN s /\ DOMAIN s = 1..Len(s) /\ Len(s) \in Nat
      /\ Len(Tail(s)) = Len(s) - 1
  BY SMT
<1>2. DOMAIN Tail(s) = 1..(Len(s) - 1)
  BY SMT
<1>3. \A n \in DOMAIN Tail(s) : n + 1 \in DOMAIN s /\ Tail(s)[n] = s[n + 1]
  BY SMT
<1>4. Tail(s) # <<>> <=> Len(Tail(s)) # 0
  BY <1>1
<1> QED
  BY <1>1, <1>2, <1>3, <1>4

(* An element is added at the end, or none.                                *)
LEMMA OneMore ==
  ASSUME NEW S, NEW s \in Seq(S), NEW x \in S
  PROVE  /\ s \o <<x>> \in Seq(S) /\ s \o <<>> = s /\ s \o <<x>> # <<>>
         /\ DOMAIN s = 1..Len(s) /\ DOMAIN (s \o <<x>>) = 1..(Len(s) + 1)
         /\ \A n \in DOMAIN s : (s \o <<x>>)[n] = s[n]
         /\ (s \o <<x>>)[Len(s) + 1] = x
BY SMT

(* select_and_lock takes as many rows as there may still be, or all there  *)
(* are.                                                                    *)
LEMMA SelectedIsFirst ==
  ASSUME BatchTypeOK, NEW queues, NEW limit \in Nat
  PROVE  LET found == {j \in ready : QueueOf[j] \in queues}
             locked == Selected(queues, limit)
         IN  /\ found \in SUBSET Nat /\ IsFiniteSet(found)
             /\ locked = First(found, limit)
             /\ limit - Cardinality(locked) \in 0..limit
             /\ limit - Cardinality(locked) # 0 => locked = found
<1> DEFINE found == {j \in ready : QueueOf[j] \in queues}
           locked == Selected(queues, limit)
<1>1. found \in SUBSET Nat /\ IsFiniteSet(found)
  <2>1. found \in SUBSET Jobs
    BY DEF BatchTypeOK
  <2> QED
    BY <2>1, BatchConstantsOK, FS_Subset
<1>2. locked = First(found, limit)
  BY DEF Selected, First, Smaller
<1> HIDE DEF found, locked
<1>3. Cardinality(locked) \in Nat /\ Cardinality(locked) <= limit
  BY <1>1, <1>2, FirstAreNotMore
<1>4. locked # found => limit <= Cardinality(locked)
  BY <1>1, <1>2, FirstAreEnough
<1>5. limit - Cardinality(locked) \in 0..limit
  BY <1>3
<1>6. limit - Cardinality(locked) # 0 => locked = found
  BY <1>3, <1>4
<1> QED
  BY <1>1, <1>2, <1>5, <1>6 DEF found, locked

(***************************************************************************)
(* What the parts of a poll leave behind.                                  *)
(***************************************************************************)
(* One worker polls and the others do not move.                            *)
OnlyMoves(w) ==
  /\ DOMAIN worker' = Workers /\ DOMAIN lately' = Workers
  /\ \A v \in Workers \ {w} : worker'[v] = worker[v] /\ lately'[v] = lately[v]
  /\ UNCHANGED <<raw, paused>>

Ends(w) == worker'[w] = Resting /\ lately'[w] = NoPoll

(* Jobs leave the ready table in a poll, and none comes.                   *)
LEMMA PollMoves ==
  ASSUME PollInv, NEW w \in Workers, Poll(w)
  PROVE  /\ OnlyMoves(w) /\ BatchTypeOK' /\ ready' \subseteq ready
         /\ claims' \in [Jobs -> Nat] /\ UNCHANGED <<saved, scheduled>>
<1>1. BatchTypeOK /\ claims \in [Jobs -> Nat] /\ DOMAIN worker = Workers /\ DOMAIN lately = Workers
  BY DEF PollInv
<1>2. CASE Claim(w)
  <2>1. /\ ready' \subseteq ready
        /\ UNCHANGED <<clock, saved, scheduled, dispatcher, kills, raw, paused>>
    BY <1>2 DEF Claim
  <2>2. OnlyMoves(w)
    BY <1>1, <1>2 DEF Claim, OnlyMoves, EndOfPoll
  <2>3. claims' \in [Jobs -> Nat]
    <3> DEFINE locked == Selected(Head(worker[w].relations), worker[w].limit)
    <3>1. claims' = [j \in Jobs |-> claims[j] + (IF j \in locked THEN 1 ELSE 0)]
      BY <1>2 DEF Claim
    <3> HIDE DEF locked
    <3> QED
      BY <1>1, <3>1
  <2> QED
    BY <1>1, <2>1, <2>2, <2>3 DEF BatchTypeOK
<1>3. CASE UNCHANGED <<batchVars, raw, paused, claims>> /\ OnlyMoves(w)
  BY <1>1, <1>3 DEF BatchTypeOK, batchVars, tables
<1>4. CASE IsAll(w)
  BY <1>1, <1>3, <1>4 DEF IsAll, OnlyMoves
<1>5. CASE IsNone(w)
  BY <1>1, <1>3, <1>5 DEF IsNone, OnlyMoves, EndOfPoll
<1>6. CASE ReadNames(w)
  BY <1>1, <1>3, <1>6 DEF ReadNames, OnlyMoves, EndOfPoll
<1>7. CASE Filter(w)
  BY <1>1, <1>3, <1>7 DEF Filter, OnlyMoves, EndOfPoll
<1> QED
  BY <1>2, <1>4, <1>5, <1>6, <1>7 DEF Poll

(* The other workers' entries stay as well.                                *)
LEMMA StillFunctions ==
  ASSUME PollInv, NEW w \in Workers, Poll(w)
  PROVE  worker' = [v \in Workers |-> worker'[v]] /\ lately' = [v \in Workers |-> lately'[v]]
<1> DEFINE Fcn(f) == f = [v \in Workers |-> f[v]]
<1>1. Fcn(worker) /\ Fcn(lately)
  BY DEF PollInv
<1>2. \A f, s : Fcn(f) => Fcn([f EXCEPT ![w] = s])
  OBVIOUS
<1>3. EndOfPoll(w) => Fcn(worker') /\ Fcn(lately')
  BY <1>1, <1>2 DEF EndOfPoll
<1>4. CASE Claim(w)
  BY <1>1, <1>2, <1>3, <1>4 DEF Claim
<1>5. CASE IsAll(w)
  BY <1>1, <1>2, <1>5 DEF IsAll
<1>6. CASE IsNone(w)
  BY <1>1, <1>2, <1>3, <1>6 DEF IsNone
<1>7. CASE ReadNames(w)
  BY <1>1, <1>2, <1>3, <1>7 DEF ReadNames
<1>8. CASE Filter(w)
  BY <1>1, <1>2, <1>3, <1>8 DEF Filter
<1> QED
  BY <1>4, <1>5, <1>6, <1>7, <1>8 DEF Poll

(* The queues to look up are those the selector yields.                    *)
LEMMA ReadNamesLeaves ==
  ASSUME PollInv, NEW w \in Workers, ReadNames(w), ~Ends(w)
  PROVE  \E eligible \in EligibleQueues(raw[w], Present) :
           /\ ~eligible.raised /\ eligible.taken # <<>>
           /\ worker'[w] = [worker[w] EXCEPT !.at = "filter", !.queues = eligible.taken]
           /\ lately'[w] = lately[w]
<1>1. PICK eligible \in EligibleQueues(raw[w], Present) :
        IF eligible.raised \/ eligible.taken = <<>>
          THEN EndOfPoll(w)
          ELSE /\ worker' = [worker EXCEPT ![w].at = "filter", ![w].queues = eligible.taken]
               /\ UNCHANGED lately
  BY DEF ReadNames
<1>2. ~EndOfPoll(w)
  BY DEF EndOfPoll, Ends, PollInv
<1>3. /\ ~eligible.raised /\ eligible.taken # <<>> /\ UNCHANGED lately
      /\ worker' = [worker EXCEPT ![w].at = "filter", ![w].queues = eligible.taken]
  BY <1>1, <1>2
<1>4. worker'[w] = [worker[w] EXCEPT !.at = "filter", !.queues = eligible.taken]
  BY <1>3, SMT DEF PollInv
<1> QED
  BY <1>3, <1>4

(* One of them is looked up.                                               *)
LEMMA FilterLeaves ==
  ASSUME PollInv, NEW w \in Workers, Filter(w), ~Ends(w)
  PROVE  LET q == Head(worker[w].queues)
             left == Tail(worker[w].queues)
             kept == worker[w].relations \o (IF q \in paused THEN <<>> ELSE <<{q}>>)
         IN  /\ worker[w].at = "filter" /\ (left # <<>> \/ kept # <<>>)
             /\ worker'[w] = [worker[w] EXCEPT
                  !.at = IF left = <<>> THEN "claim" ELSE "filter",
                  !.queues = left, !.relations = kept]
             /\ lately'[w] = lately[w]
<1> DEFINE q == Head(worker[w].queues)
           left == Tail(worker[w].queues)
           kept == worker[w].relations \o (IF q \in paused THEN <<>> ELSE <<{q}>>)
           at == IF left = <<>> THEN "claim" ELSE "filter"
<1>1. ~EndOfPoll(w)
  BY DEF EndOfPoll, Ends, PollInv
<1>2. /\ worker[w].at = "filter" /\ ~(left = <<>> /\ kept = <<>>) /\ UNCHANGED lately
      /\ worker' = [worker EXCEPT ![w].at = at, ![w].queues = left, ![w].relations = kept]
  BY <1>1 DEF Filter
<1> HIDE DEF left, kept, at
<1>3. worker'[w] = [worker[w] EXCEPT !.at = at, !.queues = left, !.relations = kept]
  BY <1>2, SMT DEF PollInv
<1> QED
  BY <1>2, <1>3 DEF left, kept, at

(* One relation is claimed from.                                           *)
LEMMA ClaimLeaves ==
  ASSUME PollInv, NEW w \in Workers, Claim(w)
  PROVE  LET locked == Selected(Head(worker[w].relations), worker[w].limit)
             limit == worker[w].limit - Cardinality(locked)
         IN  /\ worker[w].at = "claim" /\ ready' = ready \ locked
             /\ claims' = [j \in Jobs |-> claims[j] + (IF j \in locked THEN 1 ELSE 0)]
             /\ \/ Ends(w)
                \/ /\ limit # 0 /\ Len(worker[w].relations) # 1
                   /\ worker'[w] = [worker[w] EXCEPT !.relations = Tail(@), !.limit = limit]
                   /\ lately'[w] = lately[w]
<1> DEFINE locked == Selected(Head(worker[w].relations), worker[w].limit)
           limit == worker[w].limit - Cardinality(locked)
<1>1. /\ worker[w].at = "claim" /\ ready' = ready \ locked
      /\ claims' = [j \in Jobs |-> claims[j] + (IF j \in locked THEN 1 ELSE 0)]
      /\ IF limit = 0 \/ Len(worker[w].relations) = 1
           THEN EndOfPoll(w)
           ELSE /\ worker' = [worker EXCEPT ![w].relations = Tail(@), ![w].limit = limit]
                /\ UNCHANGED lately
  BY DEF Claim
<1> HIDE DEF limit, locked
<1>2. EndOfPoll(w) => Ends(w)
  BY DEF EndOfPoll, Ends, PollInv
<1>3. worker' = [worker EXCEPT ![w].relations = Tail(@), ![w].limit = limit]
        => worker'[w] = [worker[w] EXCEPT !.relations = Tail(@), !.limit = limit]
  BY SMT DEF PollInv
<1> QED
  BY <1>1, <1>2, <1>3 DEF limit, locked

(***************************************************************************)
(* Every step keeps to the queues that are named and not paused.           *)
(***************************************************************************)
(* At the end nothing is left.                                             *)
LEMMA EndIsOK ==
  ASSUME PollInv, NEW w \in Workers, OnlyMoves(w), Ends(w)
  PROVE  PollOK(w)'
<1>1. Resting \in WorkerState /\ NoPoll \in PollRecord
  BY PollingConstantsOK DEF Resting, NoPoll, WorkerState, PollRecord
<1>2. raw'[w] \in RawQueues[w] /\ worker'[w] = Resting /\ lately'[w] = NoPoll
  BY DEF PollInv, PollOK, OnlyMoves, Ends
<1>3. InPhase(w)' /\ NoteHolds(w)' /\ OnlyNamed(w)'
  BY <1>2 DEF InPhase, NoteHolds, OnlyNamed, Resting, NoPoll
<1> QED
  BY <1>1, <1>2, <1>3 DEF PollOK

(* With "*" and no pauses, all queues may be claimed from.                 *)
LEMMA IsAllIsOK ==
  ASSUME PollInv, NEW w \in Workers, IsAll(w)
  PROVE  PollOK(w)'
<1>1. PICK idle_threads \in 1..PoolSize :
        worker' = [worker EXCEPT ![w] =
          IF IncludeAllQueues(raw[w]) /\ paused = {}
            THEN [Resting EXCEPT !.at = "claim", !.limit = idle_threads,
                                 !.relations = <<Queues>>]
            ELSE [Resting EXCEPT !.at = "none", !.limit = idle_threads]]
  BY DEF IsAll
<1>2. lately'[w] = [ready |-> ready, paused |-> paused, open |-> Queues \ paused]
  BY DEF IsAll, PollInv
<1>3. lately'[w] \in PollRecord /\ NoteHolds(w)' /\ UNCHANGED <<raw, paused>>
  BY <1>2 DEF IsAll, PollRecord, PollInv, BatchTypeOK, NoteHolds
<1>4. idle_threads \in 0..PoolSize
  BY PollingConstantsOK
<1>5. raw[w] \in RawQueues[w]
  BY DEF PollInv, PollOK
<1>6. CASE IncludeAllQueues(raw[w]) /\ paused = {}
  <2>1. worker'[w] = [at |-> "claim", limit |-> idle_threads, queues |-> <<>>,
                      relations |-> <<Queues>>]
    BY <1>1, <1>6 DEF PollInv, Resting
  <2>2. worker'[w] \in WorkerState
    BY <1>4, <2>1 DEF WorkerState
  <2>3. InPhase(w)'
    BY <2>1 DEF InPhase
  <2>4. OnlyNamed(w)'
    BY <1>2, <1>3, <1>6, <2>1 DEF OnlyNamed, Names
  <2> QED
    BY <1>3, <1>5, <2>2, <2>3, <2>4 DEF PollOK
<1>7. CASE ~(IncludeAllQueues(raw[w]) /\ paused = {})
  <2>1. worker'[w] = [at |-> "none", limit |-> idle_threads, queues |-> <<>>,
                      relations |-> <<>>]
    BY <1>1, <1>7 DEF PollInv, Resting
  <2>2. worker'[w] \in WorkerState
    BY <1>4, <2>1 DEF WorkerState
  <2>3. InPhase(w)' /\ OnlyNamed(w)'
    BY <2>1 DEF InPhase, OnlyNamed
  <2> QED
    BY <1>3, <1>5, <2>2, <2>3 DEF PollOK
<1> QED
  BY <1>6, <1>7

(* The second step only goes on.                                           *)
LEMMA IsNoneIsOK ==
  ASSUME PollInv, NEW w \in Workers, IsNone(w), ~Ends(w)
  PROVE  PollOK(w)'
<1>1. ~EndOfPoll(w)
  BY DEF EndOfPoll, Ends, PollInv
<1>2. /\ worker' = [worker EXCEPT ![w].at = "names"] /\ worker[w].at = "none"
      /\ UNCHANGED <<raw, paused, lately>>
  BY <1>1 DEF IsNone
<1>3. PollOK(w) /\ worker'[w] = [worker[w] EXCEPT !.at = "names"]
  BY <1>2, SMT DEF PollInv
<1>4. worker[w] \in WorkerState
  BY <1>3 DEF PollOK
<1>5. /\ worker'[w].at = "names" /\ worker'[w].queues = worker[w].queues
      /\ worker'[w].relations = worker[w].relations /\ worker'[w] \in WorkerState
  BY <1>3, <1>4, SMT DEF WorkerState
<1> QED
  BY <1>2, <1>3, <1>5 DEF PollOK, InPhase, NoteHolds, OnlyNamed

(* The names are the list's.                                               *)
LEMMA ReadNamesIsOK ==
  ASSUME NamesAreYielded, PollInv, NEW w \in Workers, ReadNames(w), ~Ends(w)
  PROVE  PollOK(w)'
<1>1. PICK eligible \in EligibleQueues(raw[w], Present) :
        /\ ~eligible.raised /\ eligible.taken # <<>>
        /\ worker'[w] = [worker[w] EXCEPT !.at = "filter", !.queues = eligible.taken]
        /\ lately'[w] = lately[w]
  BY ReadNamesLeaves
<1>2. Present \in SUBSET Queues
  BY PollingConstantsOK DEF Present, PollInv, BatchTypeOK
<1>3. PollOK(w) /\ UNCHANGED <<raw, paused>> /\ worker[w].at = "names"
  BY DEF PollInv, ReadNames
<1>4. YieldsNames(raw[w])
  BY <1>3 DEF NamesAreYielded, PollOK
<1>5. /\ eligible.taken \in Seq(Queues)
      /\ \A n \in DOMAIN eligible.taken : Names(raw[w], eligible.taken[n])
  BY <1>1, <1>2, <1>4 DEF YieldsNames
<1>6. worker[w] \in WorkerState
  BY <1>3 DEF PollOK
<1>7. /\ worker'[w].at = "filter" /\ worker'[w].queues = eligible.taken
      /\ worker'[w].relations = worker[w].relations /\ worker'[w] \in WorkerState
  <2> DEFINE taken == eligible.taken
  <2>1. worker'[w] = [worker[w] EXCEPT !.at = "filter", !.queues = taken] /\ taken \in Seq(Queues)
    BY <1>1, <1>5
  <2> HIDE DEF taken
  <2>2. worker'[w] = [at |-> "filter", limit |-> worker[w].limit, queues |-> taken,
                      relations |-> worker[w].relations]
    BY <1>6, <2>1 DEF WorkerState
  <2>3. worker[w].limit \in 0..PoolSize /\ worker[w].relations \in Seq(SUBSET Queues)
    BY <1>6 DEF WorkerState
  <2> QED
    BY <2>1, <2>2, <2>3 DEF WorkerState, taken
<1>8. worker[w].relations = <<>>
  BY <1>3 DEF PollOK, InPhase
<1>9. InPhase(w)' /\ OnlyNamed(w)'
  BY <1>1, <1>3, <1>5, <1>7, <1>8 DEF InPhase, OnlyNamed
<1> QED
  BY <1>1, <1>3, <1>7, <1>9 DEF PollOK, NoteHolds

(* A queue paused throughout the poll is dropped when it is looked up.     *)
LEMMA FilterIsOK ==
  ASSUME PollInv, NEW w \in Workers, Filter(w), ~Ends(w)
  PROVE  PollOK(w)'
<1> DEFINE q == Head(worker[w].queues)
           left == Tail(worker[w].queues)
           kept == worker[w].relations \o (IF q \in paused THEN <<>> ELSE <<{q}>>)
<1>1. /\ worker[w].at = "filter" /\ (left # <<>> \/ kept # <<>>)
      /\ worker'[w] = [worker[w] EXCEPT
           !.at = IF left = <<>> THEN "claim" ELSE "filter",
           !.queues = left, !.relations = kept]
      /\ lately'[w] = lately[w]
  BY FilterLeaves
<1>2. PollOK(w) /\ UNCHANGED <<raw, paused>> /\ worker[w].queues # <<>>
  BY <1>1 DEF PollInv, Filter, PollOK, InPhase
<1>3. worker[w] \in WorkerState /\ worker[w].queues \in Seq(Queues)
      /\ worker[w].relations \in Seq(SUBSET Queues)
  BY <1>2 DEF PollOK, WorkerState
<1>4. /\ q = worker[w].queues[1] /\ 1 \in DOMAIN worker[w].queues /\ q \in Queues
      /\ left \in Seq(Queues)
      /\ \A n \in DOMAIN left : n + 1 \in DOMAIN worker[w].queues
                                /\ left[n] = worker[w].queues[n + 1]
  BY <1>2, <1>3, OneByOne
<1>5. /\ kept \in Seq(SUBSET Queues)
      /\ \A n \in DOMAIN kept : \A r \in kept[n] :
           Names(raw[w], r) /\ r \notin lately[w].paused
  <2>1. \A n \in DOMAIN worker[w].relations : \A r \in worker[w].relations[n] :
          Names(raw[w], r) /\ r \notin lately[w].paused
    BY <1>2 DEF PollOK, OnlyNamed
  <2>2. CASE q \in paused
    <3>1. kept = worker[w].relations
      BY <1>3, <2>2, OneMore
    <3> QED
      BY <1>3, <2>1, <3>1
  <2>3. CASE q \notin paused
    <3>1. Names(raw[w], q) /\ q \notin lately[w].paused
      BY <1>2, <1>4, <2>3 DEF PollOK, OnlyNamed, NoteHolds
    <3>2. kept = worker[w].relations \o <<{q}>> /\ {q} \in SUBSET Queues
      BY <1>4, <2>3
    <3> HIDE DEF kept, q
    <3>3. /\ kept \in Seq(SUBSET Queues)
          /\ DOMAIN worker[w].relations = 1..Len(worker[w].relations)
          /\ DOMAIN kept = 1..(Len(worker[w].relations) + 1)
          /\ \A n \in DOMAIN worker[w].relations : kept[n] = worker[w].relations[n]
          /\ kept[Len(worker[w].relations) + 1] = {q}
      BY <1>3, <3>2, OneMore
    <3>4. Len(worker[w].relations) \in Nat
      BY <1>3
    <3>5. ASSUME NEW n \in DOMAIN kept, NEW r \in kept[n]
          PROVE  Names(raw[w], r) /\ r \notin lately[w].paused
      <4>1. n \in DOMAIN worker[w].relations \/ n = Len(worker[w].relations) + 1
        BY <3>3, <3>4
      <4> QED
        BY <2>1, <3>1, <3>3, <3>5, <4>1
    <3> QED
      BY <3>3, <3>5
  <2> QED
    BY <2>2, <2>3
<1>6. \A n \in DOMAIN left : Names(raw[w], left[n])
  BY <1>2, <1>4 DEF PollOK, OnlyNamed
<1> DEFINE at == IF left = <<>> THEN "claim" ELSE "filter"
<1>7. at \in {"filter", "claim"} /\ (at = "filter" <=> left # <<>>)
  OBVIOUS
<1>8. worker'[w] = [worker[w] EXCEPT !.at = at, !.queues = left, !.relations = kept]
  BY <1>1
<1> HIDE DEF left, kept, at
<1>9. /\ worker'[w].at = at /\ worker'[w].queues = left /\ worker'[w].relations = kept
      /\ worker'[w] \in WorkerState
  <2>1. left \in Seq(Queues) /\ kept \in Seq(SUBSET Queues)
    BY <1>4, <1>5
  <2>2. worker'[w] = [at |-> at, limit |-> worker[w].limit, queues |-> left, relations |-> kept]
    BY <1>3, <1>8 DEF WorkerState
  <2>3. worker[w].limit \in 0..PoolSize
    BY <1>3 DEF WorkerState
  <2> QED
    BY <1>7, <2>1, <2>2, <2>3 DEF WorkerState
<1>10. InPhase(w)' /\ OnlyNamed(w)'
  BY <1>1, <1>2, <1>5, <1>6, <1>7, <1>9 DEF InPhase, OnlyNamed
<1> QED
  BY <1>1, <1>2, <1>9, <1>10 DEF PollOK, NoteHolds

(* What is left to claim, and the relations left, are so after a turn.     *)
LEMMA ClaimIsOK ==
  ASSUME PollInv, NEW w \in Workers, Claim(w), ~Ends(w)
  PROVE  PollOK(w)'
<1> DEFINE locked == Selected(Head(worker[w].relations), worker[w].limit)
           limit == worker[w].limit - Cardinality(locked)
           left == Tail(worker[w].relations)
<1>1. /\ worker[w].at = "claim" /\ Len(worker[w].relations) # 1
      /\ worker'[w] = [worker[w] EXCEPT !.relations = left, !.limit = limit]
      /\ lately'[w] = lately[w]
  <2> HIDE DEF limit
  <2>1. /\ worker[w].at = "claim" /\ Len(worker[w].relations) # 1
        /\ worker'[w] = [worker[w] EXCEPT !.relations = Tail(@), !.limit = limit]
        /\ lately'[w] = lately[w]
    BY ClaimLeaves DEF limit
  <2> QED
    BY <2>1
<1>2. PollOK(w) /\ UNCHANGED <<raw, paused>> /\ worker[w].relations # <<>>
  BY <1>1 DEF PollInv, Claim, PollOK, InPhase
<1>3. worker[w] \in WorkerState /\ worker[w].limit \in 0..PoolSize
      /\ worker[w].relations \in Seq(SUBSET Queues)
  BY <1>2 DEF PollOK, WorkerState
<1>4. /\ left \in Seq(SUBSET Queues) /\ left # <<>>
      /\ \A n \in DOMAIN left : n + 1 \in DOMAIN worker[w].relations
                                /\ left[n] = worker[w].relations[n + 1]
  BY <1>1, <1>2, <1>3, OneByOne
<1>5. limit \in 0..PoolSize
  <2>1. limit \in 0..worker[w].limit
    <3>1. BatchTypeOK /\ worker[w].limit \in Nat
      BY <1>3 DEF PollInv
    <3> QED
      BY <3>1, SelectedIsFirst
  <2> HIDE DEF limit
  <2> QED
    BY <1>3, <2>1, PollingConstantsOK
<1> HIDE DEF left, limit
<1>6. /\ worker'[w].at = "claim" /\ worker'[w].queues = worker[w].queues
      /\ worker'[w].relations = left /\ worker'[w] \in WorkerState
  <2>1. left \in Seq(SUBSET Queues)
    BY <1>4
  <2>2. worker'[w] = [at |-> "claim", limit |-> limit, queues |-> worker[w].queues,
                      relations |-> left]
    BY <1>1, <1>3 DEF WorkerState
  <2>3. worker[w].queues \in Seq(Queues)
    BY <1>3 DEF WorkerState
  <2> QED
    BY <1>5, <2>1, <2>2, <2>3 DEF WorkerState
<1>7. InPhase(w)' /\ OnlyNamed(w)'
  BY <1>1, <1>2, <1>4, <1>6 DEF PollOK, InPhase, OnlyNamed
<1> QED
  BY <1>1, <1>2, <1>6, <1>7 DEF PollOK, NoteHolds

(* A queue that is paused or resumed is taken out of the notes.            *)
LEMMA NotesAreKept ==
  ASSUME PollInv, NEW q \in Queues, Pause(q) \/ Resume(q), NEW w \in Workers
  PROVE  /\ lately'[w] \in PollRecord /\ lately'[w].ready = lately[w].ready
         /\ lately'[w].open \subseteq lately[w].open
         /\ lately'[w].paused \subseteq lately[w].paused
         /\ NoteHolds(w)'
<1>1. lately[w] \in PollRecord /\ NoteHolds(w)
  BY DEF PollInv, PollOK
<1>2. CASE Pause(q)
  <2>1. lately'[w] = [lately[w] EXCEPT !.open = @ \ {q}] /\ paused' = paused \cup {q}
    BY <1>2 DEF Pause
  <2>2. lately'[w] = [ready |-> lately[w].ready, paused |-> lately[w].paused,
                      open |-> lately[w].open \ {q}]
    BY <1>1, <2>1 DEF PollRecord
  <2>3. NoteHolds(w)'
    BY <1>1, <2>1, <2>2 DEF NoteHolds
  <2> QED
    BY <1>1, <2>2, <2>3 DEF PollRecord
<1>3. CASE Resume(q)
  <2>1. lately'[w] = [lately[w] EXCEPT !.paused = @ \ {q}] /\ paused' = paused \ {q}
    BY <1>3 DEF Resume
  <2>2. lately'[w] = [ready |-> lately[w].ready, paused |-> lately[w].paused \ {q},
                      open |-> lately[w].open]
    BY <1>1, <2>1 DEF PollRecord
  <2>3. NoteHolds(w)'
    BY <1>1, <2>1, <2>2 DEF NoteHolds
  <2> QED
    BY <1>1, <2>2, <2>3 DEF PollRecord
<1> QED
  BY <1>2, <1>3

LEMMA PauseIsOK ==
  ASSUME PollInv, NEW q \in Queues, Pause(q) \/ Resume(q)
  PROVE  PollInv'
<1>1. /\ UNCHANGED <<batchVars, raw, worker, claims>>
      /\ lately' = [w \in Workers |-> lately'[w]]
  BY DEF Pause, Resume
<1>2. ASSUME NEW w \in Workers PROVE PollOK(w)'
  <2>1. PollOK(w)
    BY DEF PollInv
  <2>2. /\ lately'[w] \in PollRecord /\ lately'[w].paused \subseteq lately[w].paused
        /\ NoteHolds(w)'
    BY NotesAreKept
  <2>3. OnlyNamed(w)' /\ InPhase(w)'
    BY <1>1, <2>1, <2>2 DEF PollOK, OnlyNamed, InPhase
  <2> QED
    BY <1>1, <2>1, <2>2, <2>3 DEF PollOK
<1>3. BatchTypeOK' /\ claims' \in [Jobs -> Nat]
  BY <1>1 DEF PollInv, BatchTypeOK, batchVars, tables
<1>4. paused' \subseteq Queues
  BY DEF PollInv, Pause, Resume
<1> QED
  BY <1>1, <1>2, <1>3, <1>4 DEF PollInv

(* A worker that does not move has the same poll.                          *)
LEMMA OthersAreOK ==
  ASSUME PollInv, NEW w \in Workers, UNCHANGED <<raw, paused>>,
         worker'[w] = worker[w], lately'[w] = lately[w]
  PROVE  PollOK(w)'
BY DEF PollInv, PollOK, InPhase, NoteHolds, OnlyNamed

(* Every step keeps the inductive invariant.                               *)
LEMMA PollInvStep ==
  ASSUME NamesAreYielded, PollInv, [Next]_vars
  PROVE  PollInv'
<1>1. CASE BatchNext /\ UNCHANGED pollVars
  <2>1. BatchTypeOK'
    BY <1>1, BatchTypeStep DEF PollInv
  <2> QED
    BY <1>1, <2>1, OthersAreOK DEF PollInv, pollVars
<1>2. CASE \E q \in Queues : Pause(q) \/ Resume(q)
  BY <1>2, PauseIsOK
<1>3. ASSUME NEW w \in Workers, Poll(w) PROVE PollInv'
  <2>1. OnlyMoves(w) /\ BatchTypeOK' /\ claims' \in [Jobs -> Nat]
    BY <1>3, PollMoves
  <2>2. PollOK(w)'
    BY <1>3, <2>1, EndIsOK, IsAllIsOK, IsNoneIsOK, ReadNamesIsOK, FilterIsOK, ClaimIsOK DEF Poll
  <2>3. \A v \in Workers \ {w} : PollOK(v)'
    BY <2>1, OthersAreOK DEF OnlyMoves
  <2> QED
    BY <1>3, <2>1, <2>2, <2>3, StillFunctions DEF PollInv, OnlyMoves
<1>4. CASE UNCHANGED vars
  <2>1. UNCHANGED <<batchVars, raw, paused, worker, claims, lately>>
    BY <1>4 DEF vars, pollVars
  <2>2. BatchTypeOK'
    BY <2>1 DEF PollInv, BatchTypeOK, batchVars, tables
  <2> QED
    BY <2>1, <2>2, OthersAreOK DEF PollInv
<1> QED
  BY <1>1, <1>2, <1>3, <1>4 DEF Next

(* In every poll, the queues to look up are named by the worker's list,    *)
(* and those to claim from have not been paused for as long as the poll    *)
(* lasts, although is_none and queue_names read names and pauses again and *)
(* again.                                                                  *)
THEOREM PollInvariant ==
  ASSUME NamesAreYielded
  PROVE  Spec => []PollInv
<1>1. Init => PollInv
  <2> SUFFICES ASSUME Init PROVE PollInv
    OBVIOUS
  <2>1. BatchTypeOK
    BY BatchConstantsOK DEF Init, BatchInit, BatchTypeOK, Idle
  <2>2. ASSUME NEW w \in Workers PROVE PollOK(w)
    <3>1. Resting \in WorkerState /\ NoPoll \in PollRecord
      BY PollingConstantsOK DEF Resting, NoPoll, WorkerState, PollRecord
    <3>2. raw[w] \in RawQueues[w] /\ worker[w] = Resting /\ lately[w] = NoPoll
      BY DEF Init
    <3>3. InPhase(w) /\ NoteHolds(w) /\ OnlyNamed(w)
      BY <3>2 DEF InPhase, NoteHolds, OnlyNamed, Resting, NoPoll
    <3> QED
      BY <3>1, <3>2, <3>3 DEF PollOK
  <2> QED
    BY <2>1, <2>2 DEF Init, PollInv
<1>2. PollInv /\ [Next]_vars => PollInv' 
  BY PollInvStep
<1> QED
  BY <1>1, <1>2, PTL DEF Spec

(* PollingTypeOK: among others, the limit that claim passes on from queue  *)
(* to queue is never negative and never above the number of threads.       *)
THEOREM PollingIsTyped ==
  ASSUME NamesAreYielded
  PROVE  Spec => []PollingTypeOK
<1>1. PollInv => PollingTypeOK
  <2> SUFFICES ASSUME PollInv PROVE PollingTypeOK
    OBVIOUS
  <2>1. worker = [w \in Workers |-> worker[w]] /\ lately = [w \in Workers |-> lately[w]]
    BY DEF PollInv
  <2> QED
    BY <2>1 DEF PollInv, PollOK, PollingTypeOK, WorkerState
<1> QED
  BY <1>1, PollInvariant, PTL

(* Only a worker that claims counts a job.                                 *)
LEMMA ClaimedByClaim ==
  ASSUME PollInv, Next, NEW w \in Workers, NEW j \in Jobs,
         worker'[w] # worker[w], claims'[j] > claims[j]
  PROVE  /\ Claim(w) /\ j \in ready /\ worker[w].relations # <<>>
         /\ QueueOf[j] \in worker[w].relations[1] /\ 1 \in DOMAIN worker[w].relations
<1>1. claims[j] \in Nat
  BY DEF PollInv
<1>2. claims' # claims /\ worker' # worker
  BY <1>1
<1>3. PICK v \in Workers : Poll(v)
  BY <1>2 DEF Next, pollVars, Pause, Resume
<1>4. v = w
  BY <1>3, PollMoves DEF OnlyMoves
<1>5. Claim(w)
  BY <1>2, <1>3, <1>4 DEF Poll, IsAll, IsNone, ReadNames, Filter
<1>6. PollOK(w) /\ worker[w].at = "claim"
  BY <1>5 DEF PollInv, Claim
<1>7. worker[w].relations # <<>> /\ worker[w].relations \in Seq(SUBSET Queues)
  BY <1>6 DEF PollOK, InPhase, WorkerState
<1>8. /\ Head(worker[w].relations) = worker[w].relations[1]
      /\ 1 \in DOMAIN worker[w].relations
  BY <1>7, OneByOne
<1>9. j \in Selected(Head(worker[w].relations), worker[w].limit)
  <2> DEFINE locked == Selected(Head(worker[w].relations), worker[w].limit)
  <2>1. claims'[j] = claims[j] + (IF j \in locked THEN 1 ELSE 0)
    BY <1>5, ClaimLeaves
  <2> HIDE DEF locked
  <2> QED
    BY <1>1, <2>1 DEF locked
<1> QED
  BY <1>5, <1>7, <1>8, <1>9 DEF Selected

(* PausedOrForeignUntouched: claim takes jobs of queues only which the     *)
(* list names and which were open at some time in the poll.                *)
THEOREM OnlyOpenAndNamedQueuesAreClaimed ==
  ASSUME NamesAreYielded
  PROVE  Spec => PausedOrForeignUntouched
<1> DEFINE Untouched ==
      \A w \in Workers : \A j \in Jobs :
        worker'[w] # worker[w] /\ claims'[j] > claims[j] =>
          Names(raw[w], QueueOf[j]) /\ QueueOf[j] \notin lately[w].paused
<1>1. PollInv /\ [Next]_vars => [Untouched]_vars
  <2> SUFFICES ASSUME PollInv, Next, NEW w \in Workers, NEW j \in Jobs,
                      worker'[w] # worker[w], claims'[j] > claims[j]
               PROVE  Names(raw[w], QueueOf[j]) /\ QueueOf[j] \notin lately[w].paused
    BY DEF vars
  <2>1. OnlyNamed(w)
    BY DEF PollInv, PollOK
  <2> QED
    BY <2>1, ClaimedByClaim DEF OnlyNamed
<1> QED
  BY <1>1, PollInvariant, PTL DEF Spec, PausedOrForeignUntouched
-----------------------------------------------------------------------------
(***************************************************************************)
(* The queues of a list are polled in its order.                           *)
(***************************************************************************)
(* The jobs w's poll found ready that it must not pass over.               *)
Waiting(w) ==
  {i \in lately[w].ready \cap ready :
     QueueOf[i] \in lately[w].open /\ Rank(raw[w], QueueOf[i]) # 0}

(* The queue of a waiting job is ahead of every queue listed later: among  *)
(* the relations, or among the queues that are still to be looked up.      *)
Ahead(w, q) ==
  /\ \A n \in DOMAIN worker[w].relations : \A r \in worker[w].relations[n] :
       Rank(raw[w], q) < Rank(raw[w], r) =>
         \E m \in 1..(n - 1) : q \in worker[w].relations[m]
  /\ \A n \in DOMAIN worker[w].queues :
       Rank(raw[w], q) < Rank(raw[w], worker[w].queues[n]) =>
         \/ \E m \in DOMAIN worker[w].relations : q \in worker[w].relations[m]
         \/ \E m \in 1..(n - 1) : worker[w].queues[m] = q

InOrder(w) ==
  /\ lately[w].ready \subseteq saved \ scheduled
  /\ ~IncludeAllQueues(raw[w]) => \A i \in Waiting(w) : Ahead(w, QueueOf[i])

OrderInv == \A w \in Workers : InOrder(w)

(* No two numbers of entries are without an order.                         *)
LEMMA RankIsNumber ==
  ASSUME NEW w \in Workers, NEW list \in RawQueues[w], NEW q
  PROVE  Rank(list, q) \in Nat
<1>1. Len(list) \in Nat
  BY PollingConstantsOK
<1> DEFINE Naming == {i \in 1..Len(list) : q \in list[i].names}
<1>2. Naming \in SUBSET Nat
  BY <1>1
<1>3. CASE Naming = {}
  BY <1>3 DEF Rank, SelectInSeq
<1>4. CASE Naming # {}
  <2>1. \E m \in Naming : \A i \in Naming : m <= i
    BY <1>2, <1>4, LeastElement
  <2>2. Rank(list, q) = CHOOSE m \in Naming : \A i \in Naming : m <= i
    BY <1>4 DEF Rank, SelectInSeq, Min
  <2> HIDE DEF Naming
  <2> QED
    BY <1>2, <2>1, <2>2
<1> QED
  BY <1>3, <1>4

(* Only the worker's own queues and relations matter.                      *)
LEMMA SameQueues ==
  ASSUME NEW w \in Workers, NEW q, Ahead(w, q), raw' = raw,
         worker'[w].queues = worker[w].queues, worker'[w].relations = worker[w].relations
  PROVE  Ahead(w, q)'
BY DEF Ahead

(* A job that waits goes on waiting or is taken.                           *)
LEMMA OthersInOrder ==
  ASSUME OrderInv, NEW w \in Workers, raw' = raw,
         worker'[w] = worker[w], lately'[w].ready = lately[w].ready,
         lately'[w].open \subseteq lately[w].open,
         lately[w].ready \subseteq saved' \ scheduled',
         lately[w].ready \cap ready' \subseteq ready
  PROVE  InOrder(w)'
<1>1. InOrder(w)
  BY DEF OrderInv
<1>2. Waiting(w)' \subseteq Waiting(w)
  BY DEF Waiting
<1> QED
  BY <1>1, <1>2, SameQueues DEF InOrder

(* Between polls no job is waited for.                                     *)
LEMMA EndInOrder ==
  ASSUME OrderInv, NEW w \in Workers, Ends(w)
  PROVE  InOrder(w)'
BY DEF Ends, InOrder, Waiting, NoPoll

(* A poll begins without queues or relations, or with "*".                 *)
LEMMA IsAllInOrder ==
  ASSUME PollInv, Placed, NEW w \in Workers, IsAll(w)
  PROVE  InOrder(w)'
<1>1. /\ lately'[w].ready = ready
      /\ UNCHANGED <<saved, scheduled, ready, raw>>
  BY DEF IsAll, PollInv, batchVars, tables
<1>2. ready \subseteq saved \ scheduled
  <2>1. ready \subseteq Jobs /\ claims \in [Jobs -> Nat]
    BY DEF PollInv, BatchTypeOK
  <2> QED
    BY <2>1 DEF Placed, InOnePlace
<1>3. ASSUME ~IncludeAllQueues(raw[w]), NEW q PROVE Ahead(w, q)'
  <2>1. PICK idle_threads \in 1..PoolSize :
          worker'[w] = [Resting EXCEPT !.at = "none", !.limit = idle_threads]
    BY <1>3 DEF IsAll, PollInv
  <2>2. worker'[w].queues = <<>> /\ worker'[w].relations = <<>>
    BY <2>1 DEF Resting
  <2> QED
    BY <2>2 DEF Ahead
<1> QED
  BY <1>1, <1>2, <1>3 DEF InOrder

(* The second step leaves them so.                                         *)
LEMMA IsNoneInOrder ==
  ASSUME PollInv, OrderInv, NEW w \in Workers, IsNone(w), ~Ends(w)
  PROVE  InOrder(w)'
<1>1. ~EndOfPoll(w)
  BY DEF EndOfPoll, Ends, PollInv
<1>2. /\ worker' = [worker EXCEPT ![w].at = "names"]
      /\ UNCHANGED <<batchVars, raw, lately>>
  BY <1>1 DEF IsNone
<1>3. worker[w] \in WorkerState
  BY DEF PollInv, PollOK
<1>4. worker'[w] = [worker[w] EXCEPT !.at = "names"]
  BY <1>2, SMT DEF PollInv
<1>5. worker'[w].queues = worker[w].queues /\ worker'[w].relations = worker[w].relations
  BY <1>3, <1>4 DEF WorkerState
<1>6. InOrder(w) /\ Waiting(w)' = Waiting(w)
  BY <1>2 DEF OrderInv, Waiting, batchVars, tables
<1> QED
  BY <1>2, <1>5, <1>6, SameQueues DEF InOrder, batchVars, tables

(* The selector yields the queues in order, all of those with a ready job. *)
LEMMA ReadNamesInOrder ==
  ASSUME OrderIsYielded, PollInv, OrderInv, NEW w \in Workers, ReadNames(w), ~Ends(w)
  PROVE  InOrder(w)'
<1>1. PICK eligible \in EligibleQueues(raw[w], Present) :
        /\ ~eligible.raised /\ eligible.taken # <<>>
        /\ worker'[w] = [worker[w] EXCEPT !.at = "filter", !.queues = eligible.taken]
        /\ lately'[w] = lately[w]
  BY ReadNamesLeaves
<1>2. Present \in SUBSET Queues /\ \A i \in ready : QueueOf[i] \in Present
  BY PollingConstantsOK DEF Present, PollInv, BatchTypeOK
<1>3. /\ PollOK(w) /\ UNCHANGED <<saved, scheduled, ready, raw>> /\ worker[w].at = "names"
      /\ InOrder(w)
  BY DEF PollInv, ReadNames, batchVars, tables, OrderInv
<1>4. YieldsInOrder(raw[w]) /\ worker[w] \in WorkerState
  BY <1>3 DEF OrderIsYielded, PollOK
<1>5. worker'[w].queues = eligible.taken /\ worker'[w].relations = <<>>
  <2>1. worker[w].relations = <<>>
    BY <1>3 DEF PollOK, InPhase
  <2> QED
    BY <1>1, <1>4, <2>1 DEF WorkerState
<1>6. ASSUME ~IncludeAllQueues(raw[w]), NEW i \in Waiting(w) PROVE Ahead(w, QueueOf[i])'
  <2>1. QueueOf[i] \in Present /\ Rank(raw[w], QueueOf[i]) # 0
    BY <1>2 DEF Waiting
  <2>2. \A n \in DOMAIN eligible.taken :
          Rank(raw[w], QueueOf[i]) < Rank(raw[w], eligible.taken[n]) =>
            \E m \in 1..(n - 1) : eligible.taken[m] = QueueOf[i]
    BY <1>1, <1>2, <1>4, <1>6, <2>1 DEF YieldsInOrder
  <2> QED
    BY <1>3, <1>5, <2>2 DEF Ahead
<1>7. Waiting(w)' = Waiting(w)
  BY <1>1, <1>3 DEF Waiting
<1> QED
  BY <1>1, <1>3, <1>6, <1>7 DEF InOrder

(* The queue looked up is put behind the others, and only a paused one is  *)
(* dropped.                                                                *)
LEMMA FilterInOrder ==
  ASSUME PollInv, OrderInv, NEW w \in Workers, Filter(w), ~Ends(w)
  PROVE  InOrder(w)'
<1> DEFINE queues == worker[w].queues
           relations == worker[w].relations
           q == Head(queues)
           left == Tail(queues)
           kept == relations \o (IF q \in paused THEN <<>> ELSE <<{q}>>)
           at == IF left = <<>> THEN "claim" ELSE "filter"
<1>1. /\ worker[w].at = "filter"
      /\ worker'[w] = [worker[w] EXCEPT !.at = at, !.queues = left, !.relations = kept]
      /\ lately'[w] = lately[w]
  BY FilterLeaves
<1>2. /\ PollOK(w) /\ UNCHANGED <<saved, scheduled, ready, raw>> /\ queues # <<>>
      /\ InOrder(w)
  BY <1>1 DEF PollInv, Filter, PollOK, InPhase, OrderInv, batchVars, tables
<1>3. /\ worker[w] \in WorkerState /\ queues \in Seq(Queues)
      /\ relations \in Seq(SUBSET Queues)
  BY <1>2 DEF PollOK, WorkerState
<1>4. /\ q = queues[1] /\ 1 \in DOMAIN queues /\ q \in Queues
      /\ DOMAIN queues = 1..Len(queues) /\ Len(queues) \in Nat
      /\ DOMAIN left = 1..(Len(queues) - 1)
      /\ \A n \in DOMAIN left : n + 1 \in DOMAIN queues /\ left[n] = queues[n + 1]
  BY <1>2, <1>3, OneByOne
<1>5. worker'[w].queues = left /\ worker'[w].relations = kept
  <2> HIDE DEF at, left, kept
  <2> QED
    BY <1>1, <1>3 DEF WorkerState
<1>6. /\ Len(relations) \in Nat /\ DOMAIN relations = 1..Len(relations)
      /\ DOMAIN relations \subseteq DOMAIN kept
      /\ \A n \in DOMAIN relations : kept[n] = relations[n]
      /\ \A n \in DOMAIN kept \ DOMAIN relations : n = Len(relations) + 1 /\ kept[n] = {q}
      /\ q \notin paused => \E n \in DOMAIN kept : kept[n] = {q}
  <2>0. Len(relations) \in Nat /\ DOMAIN relations = 1..Len(relations)
    BY <1>3
  <2>1. CASE q \in paused
    <3>1. kept = relations
      BY <1>3, <2>1, OneMore
    <3> QED
      BY <2>0, <2>1, <3>1
  <2>2. CASE q \notin paused
    <3>1. kept = relations \o <<{q}>> /\ {q} \in SUBSET Queues
      BY <1>4, <2>2
    <3> HIDE DEF kept, q
    <3>2. /\ DOMAIN kept = 1..(Len(relations) + 1)
          /\ \A n \in DOMAIN relations : kept[n] = relations[n]
          /\ kept[Len(relations) + 1] = {q}
      BY <1>3, <3>1, OneMore
    <3> HIDE DEF relations
    <3>3. Len(relations) + 1 \in DOMAIN kept /\ DOMAIN relations \subseteq DOMAIN kept
      BY <2>0, <3>2
    <3>4. \A n \in DOMAIN kept \ DOMAIN relations : n = Len(relations) + 1
      BY <2>0, <3>2
    <3> QED
      BY <2>0, <3>2, <3>3, <3>4
  <2> QED
    BY <2>1, <2>2
<1> HIDE DEF at, left, kept, q
<1>7. ASSUME ~IncludeAllQueues(raw[w]), NEW i \in Waiting(w) PROVE Ahead(w, QueueOf[i])'
  <2> DEFINE p == QueueOf[i]
             Before(r) == Rank(raw[w], p) < Rank(raw[w], r)
  <2>0. p \notin paused
    BY <1>2 DEF Waiting, PollOK, NoteHolds
  <2> HIDE DEF p
  <2>1. /\ \A n \in DOMAIN relations : \A r \in relations[n] :
             Before(r) => \E m \in 1..(n - 1) : p \in relations[m]
        /\ \A n \in DOMAIN queues : Before(queues[n]) =>
             \/ \E m \in DOMAIN relations : p \in relations[m]
             \/ \E m \in 1..(n - 1) : queues[m] = p
    BY <1>2, <1>7 DEF InOrder, Ahead, p
  <2> HIDE DEF Before, queues, relations
  <2>2. ASSUME NEW n \in DOMAIN kept, NEW r \in kept[n], Before(r)
        PROVE  \E m \in 1..(n - 1) : p \in kept[m]
    <3>1. CASE n \in DOMAIN relations
      <4>1. PICK m \in 1..(n - 1) : p \in relations[m]
        BY <1>6, <2>1, <2>2, <3>1
      <4>2. m \in DOMAIN relations
        BY <1>6, <3>1
      <4> QED
        BY <1>6, <4>1, <4>2
    <3>2. CASE n \notin DOMAIN relations
      <4>1. n = Len(relations) + 1 /\ r = queues[1]
        BY <1>4, <1>6, <2>2, <3>2
      <4>2. PICK m \in DOMAIN relations : p \in relations[m]
        BY <1>4, <2>1, <2>2, <4>1
      <4>3. m \in 1..(n - 1) /\ p \in kept[m]
        BY <1>6, <4>1, <4>2
      <4> QED
        BY <4>3
    <3> QED
      BY <3>1, <3>2
  <2>3. ASSUME NEW n \in DOMAIN left, Before(left[n])
        PROVE  \/ \E m \in DOMAIN kept : p \in kept[m]
               \/ \E m \in 1..(n - 1) : left[m] = p
    <3>1. n \in Nat /\ n + 1 \in DOMAIN queues /\ Before(queues[n + 1])
      BY <1>4, <2>3
    <3>2. CASE \E m \in DOMAIN relations : p \in relations[m]
      BY <1>6, <3>2
    <3>3. CASE \E m \in 1..n : queues[m] = p
      <4>1. PICK m \in 1..n : queues[m] = p
        BY <3>3
      <4>2. CASE m = 1
        BY <1>4, <1>6, <2>0, <4>1, <4>2
      <4>3. CASE m # 1
        <5>1. m - 1 \in 1..(n - 1) /\ m - 1 \in DOMAIN left /\ (m - 1) + 1 = m
          BY <1>4, <3>1, <4>1, <4>3
        <5>2. left[m - 1] = p
          BY <1>4, <4>1, <5>1
        <5> QED
          BY <5>1, <5>2
      <4> QED
        BY <4>2, <4>3
    <3> QED
      BY <2>1, <3>1, <3>2, <3>3
  <2> QED
    BY <1>2, <1>5, <2>2, <2>3 DEF Ahead, Before, p
<1>8. Waiting(w)' = Waiting(w)
  BY <1>1, <1>2 DEF Waiting
<1> QED
  BY <1>1, <1>2, <1>7, <1>8 DEF InOrder

(* While the limit is not used up, the first relation is emptied: no job   *)
(* that waits is in the queue whose turn is over.                          *)
LEMMA ClaimInOrder ==
  ASSUME PollInv, OrderInv, NEW w \in Workers, Claim(w), ~Ends(w)
  PROVE  InOrder(w)'
<1> DEFINE relations == worker[w].relations
           locked == Selected(Head(relations), worker[w].limit)
           limit == worker[w].limit - Cardinality(locked)
           left == Tail(relations)
<1>1. /\ worker[w].at = "claim" /\ ready' = ready \ locked /\ limit # 0
      /\ worker'[w] = [worker[w] EXCEPT !.relations = left, !.limit = limit]
      /\ lately'[w] = lately[w]
  <2> HIDE DEF limit
  <2>1. /\ worker[w].at = "claim" /\ ready' = ready \ locked /\ limit # 0
        /\ worker'[w] = [worker[w] EXCEPT !.relations = Tail(@), !.limit = limit]
        /\ lately'[w] = lately[w]
    BY ClaimLeaves DEF limit
  <2> QED
    BY <2>1
<1>2. /\ PollOK(w) /\ UNCHANGED <<saved, scheduled, raw>> /\ relations # <<>>
      /\ worker[w].queues = <<>> /\ InOrder(w)
  BY <1>1 DEF PollInv, Claim, PollOK, InPhase, OrderInv
<1>3. /\ worker[w] \in WorkerState /\ worker[w].limit \in 0..PoolSize
      /\ relations \in Seq(SUBSET Queues)
  BY <1>2 DEF PollOK, WorkerState
<1>4. /\ Head(relations) = relations[1] /\ DOMAIN left = 1..(Len(relations) - 1)
      /\ DOMAIN relations = 1..Len(relations) /\ Len(relations) \in Nat
      /\ \A n \in DOMAIN left : n + 1 \in DOMAIN relations /\ left[n] = relations[n + 1]
  BY <1>2, <1>3, OneByOne
<1>5. locked = {j \in ready : QueueOf[j] \in relations[1]}
  <2>1. BatchTypeOK /\ worker[w].limit \in Nat
    BY <1>3 DEF PollInv
  <2>2. locked = {j \in ready : QueueOf[j] \in Head(relations)}
    BY <1>1, <2>1, SelectedIsFirst
  <2> QED
    BY <1>4, <2>2
<1> HIDE DEF limit, left, locked
<1>6. worker'[w].queues = <<>> /\ worker'[w].relations = left
  BY <1>1, <1>2, <1>3 DEF WorkerState
<1>7. ASSUME ~IncludeAllQueues(raw[w]), NEW i \in Waiting(w)' PROVE Ahead(w, QueueOf[i])'
  <2> DEFINE p == QueueOf[i]
  <2>1. i \in Waiting(w) /\ p \notin relations[1]
    BY <1>1, <1>2, <1>5 DEF Waiting
  <2>2. \A n \in DOMAIN relations : \A r \in relations[n] :
          Rank(raw[w], p) < Rank(raw[w], r) => \E m \in 1..(n - 1) : p \in relations[m]
    BY <1>2, <1>7, <2>1 DEF InOrder, Ahead
  <2> HIDE DEF p, relations
  <2>3. ASSUME NEW n \in DOMAIN left, NEW r \in left[n], Rank(raw[w], p) < Rank(raw[w], r)
        PROVE  \E m \in 1..(n - 1) : p \in left[m]
    <3>1. n \in Nat /\ n + 1 \in DOMAIN relations /\ r \in relations[n + 1]
      BY <1>4, <2>3
    <3>2. PICK m \in 1..n : p \in relations[m]
      <4>1. \E m \in 1..((n + 1) - 1) : p \in relations[m]
        BY <2>2, <2>3, <3>1
      <4> QED
        BY <3>1, <4>1
    <3>3. m # 1
      BY <2>1, <3>2
    <3>4. m - 1 \in 1..(n - 1) /\ m - 1 \in DOMAIN left /\ (m - 1) + 1 = m
      BY <1>4, <3>1, <3>2, <3>3
    <3>5. p \in left[m - 1]
      BY <1>4, <3>2, <3>4
    <3> QED
      BY <3>4, <3>5
  <2> QED
    BY <1>2, <1>6, <2>3 DEF Ahead, p
<1> QED
  BY <1>1, <1>2, <1>7 DEF InOrder

(***************************************************************************)
(* Dispatchers make jobs ready that were not, so that none of those which  *)
(* were ready comes back.                                                  *)
(***************************************************************************)
LEMMA NoneComesBack ==
  ASSUME BatchInv, OrderInv, BatchNext, NEW w \in Workers
  PROVE  /\ lately[w].ready \subseteq saved' \ scheduled'
         /\ lately[w].ready \cap ready' \subseteq ready
<1>1. lately[w].ready \subseteq saved \ scheduled
  BY DEF OrderInv, InOrder
<1>2. CASE UNCHANGED tables
  BY <1>1, <1>2 DEF tables
<1>3. ASSUME NEW j \in Jobs, Enqueue(j)
      PROVE  /\ lately[w].ready \subseteq saved' \ scheduled'
             /\ lately[w].ready \cap ready' \subseteq ready
  <2>1. /\ j \notin saved /\ saved' = saved \cup {j} /\ scheduled' \subseteq scheduled \cup {j}
        /\ ready' \subseteq ready \cup {j}
    BY <1>3 DEF Enqueue
  <2> QED
    BY <1>1, <2>1
<1>4. ASSUME NEW d \in Dispatchers, Commit(d)
      PROVE  /\ lately[w].ready \subseteq saved' \ scheduled'
             /\ lately[w].ready \cap ready' \subseteq ready
  <2>1. /\ dispatcher[d].jobs = dispatcher[d].dispatched
        /\ dispatcher[d].jobs \subseteq scheduled
    BY <1>4, LocksAreScheduled DEF Commit, BatchInv, BatchesAgree, ReadingsAgree, InTransaction
  <2>2. /\ ready' = ready \cup dispatcher[d].jobs /\ saved' = saved
        /\ scheduled' \subseteq scheduled
    BY <1>4 DEF Commit
  <2> QED
    BY <1>1, <2>1, <2>2
<1> QED
  BY <1>2, <1>3, <1>4
     DEF BatchNext, Tick, Dispatching, Count, Select, Dispatch, Match, Restart, Die

(* Every step keeps the order.                                             *)
LEMMA OrderStep ==
  ASSUME OrderIsYielded, BatchInv, PollInv, OrderInv, [Next]_vars
  PROVE  OrderInv'
<1>1. CASE BatchNext /\ UNCHANGED pollVars
  BY <1>1, NoneComesBack, OthersInOrder DEF OrderInv, pollVars
<1> DEFINE Kept == \A w \in Workers : lately[w].ready \subseteq saved \ scheduled
<1>0. Kept
  BY DEF OrderInv, InOrder
<1>2. ASSUME NEW q \in Queues, Pause(q) \/ Resume(q) PROVE OrderInv'
  <2>1. UNCHANGED <<raw, worker, saved, scheduled, ready>>
    BY <1>2 DEF Pause, Resume, batchVars, tables
  <2>2. \A w \in Workers : lately'[w].ready = lately[w].ready
                            /\ lately'[w].open \subseteq lately[w].open
    BY <1>2, NotesAreKept
  <2> QED
    BY <1>0, <2>1, <2>2, OthersInOrder DEF OrderInv
<1>3. ASSUME NEW w \in Workers, Poll(w) PROVE OrderInv'
  <2>1. OnlyMoves(w) /\ ready' \subseteq ready /\ UNCHANGED <<saved, scheduled>>
    BY <1>3, PollMoves
  <2>2. InOrder(w)'
    BY <1>3, EndInOrder, IsAllInOrder, IsNoneInOrder, ReadNamesInOrder, FilterInOrder,
       ClaimInOrder DEF Poll, BatchInv
  <2>3. ASSUME NEW v \in Workers \ {w} PROVE InOrder(v)'
    BY <1>0, <2>1, OthersInOrder DEF OnlyMoves
  <2> QED
    BY <2>2, <2>3 DEF OrderInv
<1>4. CASE UNCHANGED vars
  <2>1. UNCHANGED <<raw, worker, lately, saved, scheduled, ready>>
    BY <1>4 DEF vars, pollVars, batchVars, tables
  <2> QED
    BY <1>0, <2>1, OthersInOrder DEF OrderInv
<1> QED
  BY <1>1, <1>2, <1>3, <1>4 DEF Next

(* During a poll, the queue of every job that was ready from its beginning *)
(* stays ahead of the queues the list names later.                         *)
THEOREM OrderInvariant ==
  ASSUME Hazards = {}, NamesAreYielded, OrderIsYielded
  PROVE  Spec => []OrderInv
<1>1. Init => OrderInv
  BY DEF Init, OrderInv, InOrder, Waiting, NoPoll
<1>2. BatchInv /\ PollInv /\ OrderInv /\ [Next]_vars => OrderInv'
  BY OrderStep
<1> QED
  BY <1>1, <1>2, BatchInvariant, PollInvariant, PTL DEF Spec

(* FollowsTheList: claim goes on to the next queue of the list with what   *)
(* is left of its limit, so that it takes no job while one is left that    *)
(* its poll found ready in a queue listed earlier.                         *)
THEOREM ListsAreFollowed ==
  ASSUME Hazards = {}, NamesAreYielded, OrderIsYielded
  PROVE  Spec => FollowsTheList
<1> DEFINE Follows ==
      \A w \in Workers : \A i, j \in Jobs :
        /\ worker'[w] # worker[w] /\ claims'[j] > claims[j]
        /\ i \in lately[w].ready \cap ready' /\ QueueOf[i] \in lately[w].open
        /\ ~IncludeAllQueues(raw[w]) /\ Rank(raw[w], QueueOf[i]) # 0
        => Rank(raw[w], QueueOf[j]) <= Rank(raw[w], QueueOf[i])
<1>1. PollInv /\ OrderInv /\ [Next]_vars => [Follows]_vars
  <2> SUFFICES ASSUME PollInv, OrderInv, Next, NEW w \in Workers, NEW i \in Jobs, NEW j \in Jobs,
                      worker'[w] # worker[w], claims'[j] > claims[j],
                      i \in lately[w].ready \cap ready', QueueOf[i] \in lately[w].open,
                      ~IncludeAllQueues(raw[w]), Rank(raw[w], QueueOf[i]) # 0
               PROVE  Rank(raw[w], QueueOf[j]) <= Rank(raw[w], QueueOf[i])
    BY DEF vars
  <2>1. /\ Claim(w) /\ QueueOf[j] \in worker[w].relations[1]
        /\ 1 \in DOMAIN worker[w].relations
    BY ClaimedByClaim
  <2>2. i \in Waiting(w)
    BY <2>1, PollMoves DEF Poll, Waiting
  <2>3. ~(Rank(raw[w], QueueOf[i]) < Rank(raw[w], QueueOf[j]))
    <3>1. Ahead(w, QueueOf[i])
      BY <2>2 DEF OrderInv, InOrder
    <3>2. Rank(raw[w], QueueOf[i]) < Rank(raw[w], QueueOf[j]) =>
            \E m \in 1..(1 - 1) : QueueOf[i] \in worker[w].relations[m]
      BY <2>1, <3>1 DEF Ahead
    <3> QED
      BY <3>2
  <2>4. Rank(raw[w], QueueOf[i]) \in Nat /\ Rank(raw[w], QueueOf[j]) \in Nat
    BY RankIsNumber DEF PollInv, PollOK
  <2> QED
    BY <2>3, <2>4
<1> QED
  BY <1>1, PollInvariant, OrderInvariant, PTL DEF Spec, FollowsTheList
=============================================================================
