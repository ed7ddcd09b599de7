--------------------------- MODULE ScheduledBatch ---------------------------
(***************************************************************************)
(* Dispatchers move the scheduled jobs that are due to the ready table, a  *)
(* batch in one transaction (ScheduledExecution.dispatch_next_batch,       *)
(* Dispatching.dispatch_jobs, Executable.dispatch_all).                    *)
(*                                                                         *)
(* The batch is a query set that is never turned into a list: the          *)
(* transaction sends it to the database three times, once to count it,     *)
(* once nested in the query for its jobs and once more in the query for    *)
(* the rows to delete.  With PostgreSQL's default isolation each statement *)
(* sees what has been committed before it, so the three may return         *)
(* different rows; the locks of the earlier ones are kept.                 *)
(*                                                                         *)
(* Job ids stand for the order (scheduled_at, -priority, job_id), and the  *)
(* clock for the id of the last job that is due.                           *)
(***************************************************************************)
EXTENDS Integers, FiniteSets

CONSTANTS
  Jobs,         \* integers, in the order in which they fall due
  Immediate,    \* jobs enqueued without a scheduled_at, due at once
  Limited,      \* concurrency-limited jobs
  Dispatchers,
  BatchSize,
  MaxKills,     \* bound: how many dispatchers are killed
  Hazards       \* the environment events of this instance

ASSUME BatchConstantsOK ==
  /\ Jobs \subseteq Nat \ {0} /\ IsFiniteSet(Jobs)
  /\ Immediate \subseteq Jobs /\ Limited \subseteq Jobs
  /\ IsFiniteSet(Dispatchers)
  /\ BatchSize \in Nat \ {0} /\ MaxKills \in Nat
  /\ Hazards \subseteq {"lateInsert", "rollback"}

VARIABLES
  clock,       \* the jobs up to this one are due
  saved,       \* the jobs whose row has been inserted
  scheduled,   \* the jobs with a scheduled execution
  ready,       \* the jobs with a ready (or blocked) execution
  dispatcher,  \* where each dispatcher is in dispatch_next_batch
  kills        \* how many were killed so far

tables == <<saved, scheduled, ready>>
batchVars == <<clock, tables, dispatcher, kills>>

Idle == [at |-> "idle", now |-> 0, locks |-> {}, jobs |-> {}, dispatched |-> {}]

Down == [Idle EXCEPT !.at = "down"]

BatchTypeOK ==
  /\ clock \in Nat
  /\ saved \subseteq Jobs /\ scheduled \subseteq Jobs /\ ready \subseteq Jobs
  /\ dispatcher \in [Dispatchers ->
       [at : {"idle", "counted", "selected", "dispatched", "matched", "down"}, now : Nat,
        locks : SUBSET Jobs, jobs : SUBSET Jobs, dispatched : SUBSET Jobs]]
  /\ kills \in 0..MaxKills

BatchInit ==
  /\ clock = 0
  /\ saved = {} /\ scheduled = {} /\ ready = {}
  /\ dispatcher = [d \in Dispatchers |-> Idle]
  /\ kills = 0
-----------------------------------------------------------------------------
IsDue(j) == j \in Immediate \/ j <= clock

InTransaction(d) == dispatcher[d].at \notin {"idle", "down"}

LockedByOthers(d) == UNION {dispatcher[e].locks : e \in Dispatchers \ {d}}

(* Mutant: the latest come first.                                          *)
NextBatchBackwards(d, now) ==
  LET seen == {j \in scheduled : j <= now} \ LockedByOthers(d)
  IN  {j \in seen : Cardinality({i \in seen : i > j}) < BatchSize}

(* Mutant: FOR UPDATE is forgotten, and with it SKIP LOCKED.               *)
NextBatchUnlocked(d, now) ==
  LET seen == {j \in scheduled : j <= now}
  IN  {j \in seen : Cardinality({i \in seen : i < j}) < BatchSize}

(* next_batch(batch_size).select_for_update(skip_locked=True), with the    *)
(* time at which the query set was made.                                   *)
NextBatch(d, now) ==
  LET seen == {j \in scheduled : j <= now} \ LockedByOthers(d)
  IN  {j \in seen : Cardinality({i \in seen : i < j}) < BatchSize}

(***************************************************************************)
(* Clients.  A row is scheduled when the job was not due as the client     *)
(* looked at the clock; it is seen when the client's transaction commits,  *)
(* which "lateInsert" lets happen after the job has fallen due.            *)
(***************************************************************************)
Tick ==
  /\ \E j \in Jobs : clock < j
  /\ clock' = clock + 1
  /\ UNCHANGED <<tables, dispatcher, kills>>

Enqueue(j) ==
  /\ j \notin saved
  /\ saved' = saved \cup {j}
  /\ \/ /\ IsDue(j)
        /\ ready' = ready \cup {j}
        /\ UNCHANGED scheduled
     \/ /\ ~IsDue(j) \/ ("lateInsert" \in Hazards /\ j \notin Immediate)
        /\ scheduled' = scheduled \cup {j}
        /\ UNCHANGED ready
  /\ UNCHANGED <<clock, dispatcher, kills>>

(***************************************************************************)
(* Dispatchers                                                             *)
(***************************************************************************)
(* len(job_ids), the query set's first evaluation; an empty batch ends the *)
(* transaction, and the dispatcher sleeps for its polling interval.        *)
Count(d) ==
  /\ dispatcher[d].at = "idle"
  /\ LET batch == NextBatch(d, clock)
     IN  /\ batch # {}
         /\ dispatcher' = [dispatcher EXCEPT ![d] =
              [Idle EXCEPT !.at = "counted", !.now = clock, !.locks = batch]]
  /\ UNCHANGED <<clock, tables, kills>>

(* Job.objects.filter(id__in=job_ids), evaluated as dispatch_all sorts its *)
(* jobs by whether they are limited.                                       *)
Select(d) ==
  /\ dispatcher[d].at = "counted"
  /\ LET batch == NextBatch(d, dispatcher[d].now)
     IN  dispatcher' = [dispatcher EXCEPT
           ![d].at = "selected", ![d].jobs = batch, ![d].locks = @ \cup batch]
  /\ UNCHANGED <<clock, tables, kills>>

(* dispatch_all_at_once inserts the ready rows of unlimited jobs, and the  *)
(* unique key fails it when one is there: the transaction is rolled back   *)
(* and the dispatcher ends with the exception.  Limited jobs get or create *)
(* a row one by one.  The rows are seen by others after the commit.        *)
Dispatch(d) ==
  /\ dispatcher[d].at = "selected"
  /\ IF (dispatcher[d].jobs \ Limited) \cap ready # {}
       THEN dispatcher' = [dispatcher EXCEPT ![d] = Down]
       ELSE dispatcher' = [dispatcher EXCEPT ![d].at = "dispatched"]
  /\ UNCHANGED <<clock, tables, kills>>

(* successfully_dispatched(jobs): of the rows the query set returns now,   *)
(* those with a ready execution and, in the arm named for blocked ones,    *)
(* those with a scheduled execution, which they all have.                  *)
Match(d) ==
  /\ dispatcher[d].at = "dispatched"
  /\ LET batch == NextBatch(d, dispatcher[d].now)
     IN  dispatcher' = [dispatcher EXCEPT
           ![d].at = "matched", ![d].dispatched = batch, ![d].locks = @ \cup batch]
  /\ UNCHANGED <<clock, tables, kills>>

(* The scheduled rows are deleted and the transaction is committed.        *)
Commit(d) ==
  /\ dispatcher[d].at = "matched"
  /\ ready' = ready \cup dispatcher[d].jobs
  /\ scheduled' = scheduled \ dispatcher[d].dispatched
  /\ dispatcher' = [dispatcher EXCEPT ![d] = Idle]
  /\ UNCHANGED <<clock, saved, kills>>

(* The dispatcher is killed.  The database rolls its transaction back,     *)
(* which gives the locked rows to the others; without "rollback" that      *)
(* happens only when no other is in the middle of a batch.                 *)
Die(d) ==
  /\ InTransaction(d) /\ kills < MaxKills
  /\ "rollback" \in Hazards \/ \A e \in Dispatchers \ {d} : ~InTransaction(e)
  /\ dispatcher' = [dispatcher EXCEPT ![d] = Down]
  /\ kills' = kills + 1
  /\ UNCHANGED <<clock, tables>>

(* The supervisor starts another in its place.                             *)
Restart(d) ==
  /\ dispatcher[d].at = "down"
  /\ dispatcher' = [dispatcher EXCEPT ![d] = Idle]
  /\ UNCHANGED <<clock, tables, kills>>

Dispatching(d) ==
  Count(d) \/ Select(d) \/ Dispatch(d) \/ Match(d) \/ Commit(d) \/ Restart(d)

BatchNext ==
  \/ Tick
  \/ \E j \in Jobs : Enqueue(j)
  \/ \E d \in Dispatchers : Dispatching(d) \/ Die(d)
=============================================================================
