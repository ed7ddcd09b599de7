------------------------- MODULE PollingProperties -------------------------
(* What dispatchers and workers promise about scheduled jobs and queues.   *)
EXTENDS Polling

(***************************************************************************)
(* What claiming relies on in the selector (queue_selector.py,             *)
(* eligible_queues), whatever queues have jobs: it yields queues that the  *)
(* list names,                                                             *)
(***************************************************************************)
YieldsNames(list) ==
  \A present \in SUBSET Queues : \A eligible \in EligibleQueues(list, present) :
    ~eligible.raised =>
      /\ eligible.taken \in Seq(Queues)
      /\ \A n \in DOMAIN eligible.taken : Names(list, eligible.taken[n])

(* and those with jobs before every queue that is listed later.            *)
YieldsInOrder(list) ==
  \A present \in SUBSET Queues : \A eligible \in EligibleQueues(list, present) :
    ~eligible.raised /\ ~IncludeAllQueues(list) =>
      \A n \in DOMAIN eligible.taken : \A q \in present :
        Rank(list, q) # 0 /\ Rank(list, q) < Rank(list, eligible.taken[n]) =>
          \E m \in 1..(n - 1) : eligible.taken[m] = q

(***************************************************************************)
(* A job that has been enqueued is in exactly one of the scheduled table,  *)
(* the ready table and a worker's hands, and comes into these once: the    *)
(* three readings of a batch agree, two dispatchers do not move the same   *)
(* job, and one that dies has moved all of its batch or nothing            *)
(* (scheduled_execution.py, dispatch_next_batch).  The code breaks it when *)
(* a due row is committed between two readings, or when a dispatcher dies  *)
(* and leaves its locked rows to another one within its batch (Hazards).   *)
(***************************************************************************)
NeitherLostNorTwice ==
  \A j \in saved :
    (IF j \in scheduled THEN 1 ELSE 0) + (IF j \in ready THEN 1 ELSE 0) + claims[j] = 1

(***************************************************************************)
(* The README on dispatching: it is "simply moving them" from the          *)
(* scheduled to the ready executions.  A job that leaves the former is in  *)
(* the latter.                                                             *)
(***************************************************************************)
DispatchingMoves ==
  [][\A j \in scheduled : j \notin scheduled' => j \in ready']_vars

(***************************************************************************)
(* A batch takes the rows in order: it is not committed while an earlier   *)
(* one, which was visible when the dispatcher looked at the clock and is   *)
(* in no other dispatcher's hands, stays behind (in_order, next_batch).    *)
(***************************************************************************)
DispatchedInOrder ==
  [][\A d \in Dispatchers :
       dispatcher[d].at = "matched" /\ dispatcher'[d].at = "idle" =>
         \A j \in scheduled \ scheduled', i \in scheduled' :
           i \in LockedByOthers(d) \/ j < i]_vars

(***************************************************************************)
(* The README on queues: with ["real_time", "background"] no tasks are     *)
(* taken from the latter "unless there aren't any more tasks waiting in    *)
(* real_time", and prefixes keep the order.  When a job is claimed, none   *)
(* is left that its poll found ready in a queue listed earlier and not     *)
(* paused since.                                                           *)
(***************************************************************************)
FollowsTheList ==
  [][\A w \in Workers : \A i, j \in Jobs :
       /\ worker'[w] # worker[w] /\ claims'[j] > claims[j]
       /\ i \in lately[w].ready \cap ready' /\ QueueOf[i] \in lately[w].open
       /\ ~IncludeAllQueues(raw[w]) /\ Rank(raw[w], QueueOf[i]) # 0
       => Rank(raw[w], QueueOf[j]) <= Rank(raw[w], QueueOf[i])]_vars

(***************************************************************************)
(* A worker claims from the queues its list names only, and not from one   *)
(* that has been paused for as long as its poll lasts, in spite of the     *)
(* several readings of names and pauses a poll consists of.                *)
(***************************************************************************)
PausedOrForeignUntouched ==
  [][\A w \in Workers : \A j \in Jobs :
       worker'[w] # worker[w] /\ claims'[j] > claims[j] =>
         Names(raw[w], QueueOf[j]) /\ QueueOf[j] \notin lately[w].paused]_vars

(***************************************************************************)
(* From end to end: the jobs enqueued are all claimed in the end, those    *)
(* due at once and those due later, if a worker's list names their queue   *)
(* and it is not paused.  Jobs are finitely many, so that a job which is   *)
(* forgotten leaves the state described here unreached for ever.           *)
(***************************************************************************)
PollingCatchesUp ==
  []<>(\A j \in saved :
         (\E w \in Workers : Names(raw[w], QueueOf[j])) =>
           claims[j] > 0 \/ QueueOf[j] \in paused)
=============================================================================
