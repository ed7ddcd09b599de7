---------------------------- MODULE JobProperties ----------------------------
(***************************************************************************)
(* What JobLifecycle must guarantee, and the fairness its liveness needs.  *)
(***************************************************************************)
EXTENDS JobLifecycle

(* The execution tables, and those in which j has a row.                   *)
Tables == {"ready", "scheduled", "blocked", "failed", "claimed"}

ExecutionsOf(j) ==
  {table \in Tables :
     \/ table = "ready" /\ ready[j] # "none"
     \/ table = "scheduled" /\ j \in scheduled
     \/ table = "blocked" /\ j \in blocked
     \/ table = "failed" /\ j \in failed
     \/ table = "claimed" /\ claimed[j] # NoThread}

(* Job.execution and Job.status take a job to be in exactly one execution  *)
(* table until it is finished.  While a dispatch is in progress the job is *)
(* where the dispatch found it, in no table when it is being enqueued.     *)
OneExecution ==
  \A j \in Jobs :
    /\ job[j] # "live" => ExecutionsOf(j) = {}
    /\ job[j] = "live" =>
         CASE dispatch[j].origin = "none" -> \E table \in Tables : ExecutionsOf(j) = {table}
           [] dispatch[j].origin = "enqueue" -> ExecutionsOf(j) = {}
           [] dispatch[j].origin = "due" -> ExecutionsOf(j) = {"scheduled"}
           [] dispatch[j].origin = "retry" -> ExecutionsOf(j) = {"failed"}
           [] OTHER -> FALSE

(* "Tasks are never discarded or lost, just blocked": whatever workers and *)
(* supervisors do, a live job that no one is dispatching has a row that    *)
(* some process will find.  Without clientCrash and lateRow, that is: the  *)
(* code loses jobs to the death of a client between two inserts, and to    *)
(* batches of due jobs whose last reading differs from the one before.     *)
NeverLost ==
  \A j \in Jobs :
    job[j] = "live" /\ dispatch[j].pc = "idle" => ExecutionsOf(j) # {}

(* Threads that execute the function of a job with key k.                  *)
Running(k) == {t \in Threads : /\ thread[t].pc \in {"running", "raised"}
                               /\ KeyOf[thread[t].job] = k}

(* limits_concurrency: at most `to` jobs of a key are performed at a time, *)
(* under TimelySpec (below), and if no job overruns its semaphore.         *)
LimitRespected ==
  \A t \in Threads, k \in Keys :
    t \in Running(k) => Cardinality(Running(k)) <= LimitOf[thread[t].job]

(* The semaphore never has more to give than its limit leaves: what jobs   *)
(* hold or are about to signal, and its value, add up to at most the       *)
(* limit; nobody holds a slot of a row that is missing or has expired, and *)
(* a thread with a signal to send no longer holds its job.  It rests on    *)
(* TimelySpec and on the durations, as LimitRespected does.                *)
SlotsAddUp(k) ==
  LET s == semaphore[k] IN
  IF s.exists
    THEN /\ s.value >= 0
         /\ s.expired => Slots(k) = {}
         /\ \A j \in Jobs : KeyOf[j] = k => s.value + Cardinality(Slots(k)) <= LimitOf[j]
    ELSE Slots(k) = {}

SlotsConserved ==
  /\ \A k \in Keys : SlotsAddUp(k)
  /\ \A t \in Threads : thread[t].pc = "signal" => claimed[thread[t].job] # t

(* An assumption, about the timing of the environment, under which         *)
(* SlotsConserved and LimitRespected are claimed: no job holds a slot of a *)
(* semaphore that the maintenance read as expired when it comes to delete  *)
(* it.  expire_semaphores (dispatcher.py) deletes by id and sees to        *)
(* nothing of the kind, and without the assumption both fail               *)
(* (StaleExpiry.cfg): a job takes the row into use in between and loses    *)
(* its slot with it.                                                       *)
DeleteUnused(k) == Slots(k) = {} /\ DeleteSemaphore(k)

TimelyNext == OtherSteps \/ \E k \in Keys : DeleteUnused(k)

TimelySpec == Init /\ [][TimelyNext]_vars

(* No two threads perform the same job.                                    *)
NoDuplicateExecution ==
  \A t, u \in Threads :
    /\ thread[t].pc \in {"running", "raised"}
    /\ thread[u].pc \in {"running", "raised"}
    /\ thread[t].job = thread[u].job
    => t = u

(* A claimed execution is given up by the thread that performs its job, or *)
(* after the death of that thread's process; nobody takes it from a worker *)
(* that is alive.                                                          *)
ClaimsAreNotStolen ==
  [][\A j \in Jobs, t \in Threads :
       claimed[j] = t /\ claimed'[j] # t =>
         \/ thread[t].job = j /\ thread'[t] # thread[t]
         \/ process[ProcOf[t]] = "dead"]_vars

(* Signals and releases are never lost unless a worker dies: when every    *)
(* thread, cleaner and dispatch is at rest, the value of a semaphore and   *)
(* the jobs that hold its slots account for the whole limit.  With three   *)
(* jobs of a key it takes TimelySpec, too.                                 *)
AtRest ==
  /\ \A j \in Jobs : dispatch[j].pc = "idle"
  /\ \A t \in Threads : thread[t].pc \notin {"signal", "release"}
  /\ \A c \in Cleaners : cleaner[c].mode = "idle"
  /\ \A p \in Procs : process[p] # "dead"

NoSlotLeaks ==
  AtRest =>
    \A j \in Jobs : Limited(j) /\ semaphore[KeyOf[j]].exists =>
      semaphore[KeyOf[j]].value + Cardinality(Slots(KeyOf[j])) = LimitOf[j]
-----------------------------------------------------------------------------
(***************************************************************************)
(* Why OneExecution and NoDuplicateExecution hold when nothing takes a     *)
(* claimed execution from a live worker and only one process cleans up     *)
(* after dead ones: the inductive invariant behind them.                   *)
(***************************************************************************)
Undisturbed ==
  /\ Hazards \cap {"shutdown", "supervisorExit", "stall", "receiverError", "retryAll"} = {}
  /\ \A s, u \in Supervisors : s = u

(* No two tables have a row of j, and only a live job has one.             *)
RowsExclude(j) ==
  /\ ready[j] # "none" => claimed[j] = NoThread /\ j \notin scheduled \cup blocked \cup failed
  /\ claimed[j] # NoThread => j \notin scheduled \cup blocked \cup failed
  /\ j \in scheduled => j \notin blocked \cup failed
  /\ j \in blocked => j \notin failed
  /\ job[j] # "live" => /\ ready[j] = "none" /\ claimed[j] = NoThread
                        /\ j \notin scheduled \cup blocked \cup failed

(* A job that is being dispatched has only the row the dispatch started    *)
(* from; without a dispatch it has one, if no client died on the way and   *)
(* no other job's batch took its row along.                                *)
DispatchOwns(j) ==
  /\ dispatch[j].pc = "idle" <=> dispatch[j].origin = "none"
  /\ dispatch[j].pc = "later" => dispatch[j].origin = "enqueue"
  /\ dispatch[j].origin \in {"none", "enqueue", "due", "retry"}
  /\ dispatch[j].origin # "none" =>
       /\ job[j] = "live" /\ ready[j] = "none" /\ claimed[j] = NoThread /\ j \notin blocked
       /\ j \in scheduled <=> dispatch[j].origin = "due"
       /\ j \in failed <=> dispatch[j].origin = "retry"
  /\ dispatch[j].origin = "none" /\ job[j] = "live"
       /\ Hazards \cap {"clientCrash", "lateRow"} = {} =>
       ready[j] # "none" \/ claimed[j] # NoThread \/ j \in scheduled \cup blocked \cup failed

(* A thread that has yet to end its job has the claim on it.               *)
ThreadOwns(t) ==
  thread[t].pc \in {"posted", "running", "raised"} => claimed[thread[t].job] = t

(* Workers are registered until they die, and never clean up themselves.   *)
WorkerRuns(p) ==
  /\ process[p] \in {"live", "dead"}
  /\ process[p] = "live" => p \in registered
  /\ process[p] = "dead" => \A t \in Threads : ProcOf[t] = p => thread[t].pc = "idle"
  /\ cleaner[p] = CleanerIdle

(* A supervisor's snapshot: claims of dead workers, each still to be ended.*)
SnapshotIsCurrent(s) ==
  /\ cleaner[s].mode # "release"
  /\ cleaner[s].mode = "idle" => cleaner[s] = CleanerIdle
  /\ cleaner[s].mode = "prune" => process[cleaner[s].proc] = "dead"
  /\ \A r \in cleaner[s].todo : claimed[r[1]] = r[2] /\ process[ProcOf[r[2]]] = "dead"

RowsAreExclusive == \A j \in Jobs : RowsExclude(j) /\ DispatchOwns(j)
ThreadsOwn == \A t \in Threads : ThreadOwns(t)
WorkersRun == \A p \in Procs : WorkerRuns(p)
SnapshotsAreCurrent == \A s \in Supervisors : SnapshotIsCurrent(s)

Exclusive ==
  RowsAreExclusive /\ ThreadsOwn /\ WorkersRun /\ SnapshotsAreCurrent
-----------------------------------------------------------------------------
(***************************************************************************)
(* What the documentation says, and the code does not do.                  *)
(***************************************************************************)
(* Failed tasks that are retried "work in the same way as new tasks that   *)
(* get enqueued": one that waits for the semaphore again is not failed.    *)
RetriedIsNotFailed == failed \cap blocked = {}

(* "When False, completed jobs are deleted immediately": the end of a task *)
(* that returned is never turned into an error by finished().              *)
CompletionSucceeds == [][\A t \in Threads : ~FinishRaises(t)]_vars
-----------------------------------------------------------------------------
(* Every process that is alive keeps taking its steps: clients and         *)
(* dispatchers go on with their statements, poll loops run for ever,       *)
(* maintenance runs periodically and expiry times come.                    *)
Fairness ==
  /\ \A j \in Jobs :
       /\ WF_vars(DispatchStep(j)) /\ WF_vars(DispatchDue(j))
       /\ WF_vars(\E t \in Threads : Claim(t, j))
  /\ \A t \in Threads : WF_vars(ThreadStep(t))
  /\ \A k \in Keys :
       WF_vars(Expire(k)) /\ WF_vars(DeleteSemaphore(k)) /\ WF_vars(Unblock(k))
  /\ WF_vars(ReadExpired)
  /\ \A c \in Cleaners : WF_vars(CleanerStep(c))
  /\ \A p \in Procs :
       WF_vars(LoseRegistration(p)) /\ WF_vars(\E s \in Supervisors : Reap(s, p))

FairSpec == Spec /\ Fairness

Settled(j) == job[j] \in {"finished", "gone"} \/ j \in failed

(* Every enqueued job is finished, failed or discarded in the end, and no  *)
(* job stays blocked, whoever died with a slot (blocked_execution.py,      *)
(* dispatcher.py).                                                         *)
EveryJobSettles == \A j \in Jobs : (job[j] = "live") ~> Settled(j)
=============================================================================
