---------------------------- MODULE JobLifecycle ----------------------------
(***************************************************************************)
(* The life of a job in Steady Queue, from the INSERT of its row to its    *)
(* end, at the grain at which clients, dispatchers, worker threads and     *)
(* supervisors interleave: one action per autocommitted statement or       *)
(* committed transaction (steady_queue/models).                            *)
(*                                                                         *)
(* A job's state is spread over one row in jobs and at most one row in     *)
(* each of the five execution tables; a concurrency-limited job also needs *)
(* a slot of the semaphore row of its key.  Nothing but the order of the   *)
(* statements keeps these rows consistent.                                 *)
(*                                                                         *)
(* Time is abstract: a semaphore may expire and a scheduled job may become *)
(* due at any moment.  Hazards names the environment events an instance    *)
(* admits; the actions of the code are the same for every value of it.     *)
(***************************************************************************)
EXTENDS Integers, FiniteSets

CONSTANTS
  Jobs,              \* job ids: integers, so that "ORDER BY job_id" is their order
  Keys,              \* concurrency keys
  NoKey,             \* the concurrency_key of a job without limits
  KeyOf,             \* KeyOf[j]: the concurrency_key of j, or NoKey
  LimitOf,           \* LimitOf[j]: concurrency_limit of j's task
  Procs,             \* worker processes, each registered once
  Threads,           \* the threads of all worker pools
  ProcOf,            \* ProcOf[t]: the worker process t belongs to
  Supervisors,       \* processes that reap, prune and deregister workers
  Polls,             \* Polls[p]: jobs in a queue that p's selector names
  Wildcard,          \* workers that poll "*"
  Mortal,            \* workers that may be killed
  Undecodable,       \* jobs whose arguments can no longer be deserialized
  PreserveFinished,  \* steady_queue.preserve_finished_jobs
  Hazards,           \* the environment events of this instance
  NoJob, NoThread, NoProc

AllHazards ==
  {"clientCrash", "shutdown", "supervisorExit", "stall",
   "idleExpiry", "overrun", "lateRow", "receiverError",
   "retry", "retryAll", "discard"}

Limited(j) == KeyOf[j] # NoKey

ASSUME ConstantsOK ==
  /\ Jobs \subseteq Int /\ IsFiniteSet(Jobs)
  /\ NoKey \notin Keys
  /\ KeyOf \in [Jobs -> Keys \cup {NoKey}]
  /\ LimitOf \in [Jobs -> Nat \ {0}]
  /\ IsFiniteSet(Threads) /\ IsFiniteSet(Procs) /\ IsFiniteSet(Supervisors)
  /\ ProcOf \in [Threads -> Procs]
  /\ Procs \cap Supervisors = {}
  /\ Polls \in [Procs -> SUBSET Jobs]
  /\ Wildcard \subseteq Procs /\ Mortal \subseteq Procs
  /\ Undecodable \subseteq Jobs
  /\ PreserveFinished \in BOOLEAN
  /\ Hazards \subseteq AllHazards
  /\ ~PreserveFinished =>
       Hazards \cap {"shutdown", "supervisorExit", "stall", "receiverError", "retryAll"} = {}
  /\ NoJob \notin Jobs /\ NoThread \notin Threads /\ NoProc \notin Procs

(***************************************************************************)
(* A worker deregisters itself when it shuts down; a supervisor cleans up  *)
(* after workers.  Both walk a snapshot of a process' claimed executions.  *)
(***************************************************************************)
Cleaners == Procs \cup Supervisors

VARIABLES
  job,        \* the row of each job: "new" before the INSERT, "gone" after the DELETE
  ready,      \* "none", or the ready row: "own" queue and priority, or "blank"
  scheduled,  \* the jobs with a scheduled execution
  blocked,    \* the jobs with a blocked execution
  failed,     \* the jobs with a failed execution
  claimed,    \* the thread for which the job's claimed execution was created
  semaphore,  \* the semaphore row of each key
  doomed,     \* keys the maintenance read as expired and has still to delete
  dispatch,   \* the dispatch of each job in progress: its step and its origin
  thread,     \* what each pool thread does, for which job
  process,    \* the worker processes
  registered, \* the workers that have a row in processes
  cleaner     \* the snapshot each cleaner walks and where it is

rows == <<job, ready, scheduled, blocked, failed, claimed>>
vars == <<rows, semaphore, doomed, dispatch, thread, process, registered, cleaner>>

DispatchType ==
  [pc : {"idle", "later", "lookup", "open", "missing", "granted", "refused"},
   origin : {"none", "enqueue", "due", "retry", "retryAll"}]

ThreadType ==
  [pc : {"idle"}, job : {NoJob}]
    \cup [pc : {"posted", "running", "raised", "signal", "release"}, job : Jobs]

SemaphoreType == [exists : BOOLEAN, value : Int, expired : BOOLEAN]

CleanerType ==
  LET Modes == {"idle", "reap", "prune", "orphans", "release"}
      Todos == SUBSET (Jobs \X Threads)
  IN  [mode : Modes, proc : Procs \cup {NoProc}, todo : Todos,
       pc : {"next"}, job : {NoJob}]
        \cup [mode : Modes, proc : Procs \cup {NoProc}, todo : Todos,
              pc : {"signal", "release"}, job : Jobs]

TypeOK ==
  /\ job \in [Jobs -> {"new", "live", "finished", "gone"}]
  /\ ready \in [Jobs -> {"none", "own", "blank"}]
  /\ scheduled \subseteq Jobs
  /\ blocked \subseteq Jobs
  /\ failed \subseteq Jobs
  /\ claimed \in [Jobs -> Threads \cup {NoThread}]
  /\ semaphore \in [Keys -> SemaphoreType]
  /\ doomed \subseteq Keys
  /\ dispatch \in [Jobs -> DispatchType]
  /\ thread \in [Threads -> ThreadType]
  /\ process \in [Procs -> {"live", "stopping", "draining", "dead"}]
  /\ registered \subseteq Procs
  /\ cleaner \in [Cleaners -> CleanerType]
-----------------------------------------------------------------------------
(***************************************************************************)
(* Semaphore.Proxy                                                         *)
(***************************************************************************)
NoSemaphore == [exists |-> FALSE, value |-> 0, expired |-> FALSE]

(* Would wait() be granted a slot?  The row is missing, or its value > 0.  *)
Available(s) == ~s.exists \/ s.value > 0

(* Mutant: the first wait() creates the row without taking its slot.       *)
TakenForFree(s, limit) ==
  [exists |-> TRUE, value |-> IF s.exists THEN s.value - 1 ELSE limit,
   expired |-> FALSE]

(* The row after a granted wait(): created with limit - 1, or decremented. *)
Taken(s, limit) ==
  [exists |-> TRUE, value |-> (IF s.exists THEN s.value ELSE limit) - 1,
   expired |-> FALSE]

(* attempt_increment: UPDATE ... WHERE value <= limit.                     *)
Signallable(s, limit) == s.exists /\ s.value <= limit

Signalled(s, limit) ==
  IF Signallable(s, limit)
    THEN [exists |-> TRUE, value |-> s.value + 1, expired |-> FALSE]
    ELSE s

(***************************************************************************)
(* BlockedExecution.release_one.  A blocked row is saved with only its     *)
(* concurrency key and expiry, so every row has the column's default       *)
(* priority and queue, and a promotion copies these to the ready row.      *)
(***************************************************************************)
BlockedPriority(j) == 0

(* Mutant: no row is first.                                                *)
StrictlyInOrder(i, j) ==
  \/ BlockedPriority(i) > BlockedPriority(j)
  \/ BlockedPriority(i) = BlockedPriority(j) /\ i < j

InOrder(i, j) ==
  \/ BlockedPriority(i) > BlockedPriority(j)
  \/ BlockedPriority(i) = BlockedPriority(j) /\ i <= j

BlockedOn(k) == {j \in blocked : KeyOf[j] = k}

IsFirstBlocked(j) ==
  j \in blocked /\ \A i \in BlockedOn(KeyOf[j]) : InOrder(j, i)

(* release_one picks j, its wait() on the row s is granted and it has no   *)
(* ready row yet (the INSERT of a second one would roll the release back). *)
Promotes(j, s) == IsFirstBlocked(j) /\ Available(s) /\ ready[j] = "none"

(* Mutants: the promotion forgets the semaphore, or the blocked row.       *)
ReleaseWithoutWait(k) ==
  \/ \E j \in BlockedOn(k) :
       /\ Promotes(j, semaphore[k])
       /\ ready' = [ready EXCEPT ![j] = "blank"]
       /\ blocked' = blocked \ {j}
       /\ UNCHANGED semaphore
  \/ /\ \A j \in BlockedOn(k) : ~Promotes(j, semaphore[k])
     /\ UNCHANGED <<semaphore, ready, blocked>>

ReleaseKeepsBlocked(k) ==
  \/ \E j \in BlockedOn(k) :
       /\ Promotes(j, semaphore[k])
       /\ semaphore' = [semaphore EXCEPT ![k] = Taken(@, LimitOf[j])]
       /\ ready' = [ready EXCEPT ![j] = "blank"]
       /\ UNCHANGED blocked
  \/ /\ \A j \in BlockedOn(k) : ~Promotes(j, semaphore[k])
     /\ UNCHANGED <<semaphore, ready, blocked>>

ReleaseOne(k) ==
  \/ \E j \in BlockedOn(k) :
       /\ Promotes(j, semaphore[k])
       /\ semaphore' = [semaphore EXCEPT ![k] = Taken(@, LimitOf[j])]
       /\ ready' = [ready EXCEPT ![j] = "blank"]
       /\ blocked' = blocked \ {j}
  \/ /\ \A j \in BlockedOn(k) : ~Promotes(j, semaphore[k])
     /\ UNCHANGED <<semaphore, ready, blocked>>

(* release_concurrency_lock: TRUE when a row was updated.                  *)
SignalFor(j) ==
  semaphore' = [semaphore EXCEPT ![KeyOf[j]] = Signalled(@, LimitOf[j])]

NextAfterSignal(j) ==
  IF Signallable(semaphore[KeyOf[j]], LimitOf[j]) THEN "release" ELSE "idle"
-----------------------------------------------------------------------------
(***************************************************************************)
(* Enqueueing and dispatching.  A client inserts the job and then prepares *)
(* its execution outside any transaction; the dispatcher and the retries   *)
(* run the same steps inside one, so their ready or blocked row appears    *)
(* together with the removal of the row that they dispatch.                *)
(***************************************************************************)
DispatchIdle == [pc |-> "idle", origin |-> "none"]

FirstStep(j) == IF Limited(j) THEN "lookup" ELSE "granted"

At(j, pc) == dispatch[j].pc = pc

StartDispatch(j, pc, origin) ==
  /\ At(j, "idle")
  /\ dispatch' = [dispatch EXCEPT ![j] = [pc |-> pc, origin |-> origin]]

GoTo(j, pc) == dispatch' = [dispatch EXCEPT ![j].pc = pc]

EndDispatch(j) == dispatch' = [dispatch EXCEPT ![j] = DispatchIdle]

(* Job.save: the INSERT, and whether prepare_for_execution finds it due.   *)
Insert(j) ==
  /\ job[j] = "new"
  /\ job' = [job EXCEPT ![j] = "live"]
  /\ \/ StartDispatch(j, FirstStep(j), "enqueue")
     \/ StartDispatch(j, "later", "enqueue")
  /\ UNCHANGED <<ready, scheduled, blocked, failed, claimed, semaphore, doomed,
                 thread, process, registered, cleaner>>

(* The job is not due: schedule().                                         *)
Schedule(j) ==
  /\ At(j, "later")
  /\ EndDispatch(j)
  /\ scheduled' = scheduled \cup {j}
  /\ UNCHANGED <<job, ready, blocked, failed, claimed, semaphore, doomed,
                 thread, process, registered, cleaner>>

(* The client dies between two of its autocommitted statements.            *)
ClientCrash(j) ==
  /\ "clientCrash" \in Hazards
  /\ dispatch[j].origin = "enqueue"
  /\ EndDispatch(j)
  /\ UNCHANGED <<rows, semaphore, doomed, thread, process, registered, cleaner>>

(* The dispatcher finds the scheduled execution due and locks it.          *)
DispatchDue(j) ==
  /\ j \in scheduled
  /\ StartDispatch(j, FirstStep(j), "due")
  /\ UNCHANGED <<rows, semaphore, doomed, thread, process, registered, cleaner>>

(* FailedExecution.retry and retry_all, requested from the admin.          *)
Retry(j) ==
  /\ j \in failed
  /\ \/ "retry" \in Hazards /\ StartDispatch(j, FirstStep(j), "retry")
     \/ "retryAll" \in Hazards /\ StartDispatch(j, FirstStep(j), "retryAll")
  /\ UNCHANGED <<rows, semaphore, doomed, thread, process, registered, cleaner>>

(* wait(): the SELECT of the semaphore ...                                 *)
LookUp(j) ==
  LET s == semaphore[KeyOf[j]] IN
  /\ At(j, "lookup")
  /\ GoTo(j, IF ~s.exists THEN "missing" ELSE IF s.value > 0 THEN "open" ELSE "refused")
  /\ UNCHANGED <<rows, semaphore, doomed, thread, process, registered, cleaner>>

(* ... attempt_decrement, whose WHERE checks the value again ...           *)
Decrement(j) ==
  LET s == semaphore[KeyOf[j]] IN
  /\ At(j, "open")
  /\ \/ /\ s.exists /\ s.value > 0
        /\ semaphore' = [semaphore EXCEPT ![KeyOf[j]] = Taken(s, LimitOf[j])]
        /\ GoTo(j, "granted")
     \/ /\ ~(s.exists /\ s.value > 0)
        /\ GoTo(j, "refused")
        /\ UNCHANGED semaphore
  /\ UNCHANGED <<rows, doomed, thread, process, registered, cleaner>>

(* ... or attempt_creation, when somebody may have been faster.            *)
Create(j) ==
  LET s == semaphore[KeyOf[j]] IN
  /\ At(j, "missing")
  /\ \/ /\ ~s.exists
        /\ semaphore' = [semaphore EXCEPT ![KeyOf[j]] = Taken(s, LimitOf[j])]
        /\ GoTo(j, "granted")
     \/ /\ s.exists
        /\ GoTo(j, IF LimitOf[j] = 1 THEN "refused" ELSE "open")
        /\ UNCHANGED semaphore
  /\ UNCHANGED <<rows, doomed, thread, process, registered, cleaner>>

(* Mutant: retry() does not delete the failed execution.                   *)
RemoveScheduledOnly(j, dispatched) ==
  /\ scheduled' = IF dispatch[j].origin = "due" THEN scheduled \ {j} ELSE scheduled
  /\ UNCHANGED failed

(* Rows of other jobs that belong to the last reading of j's batch only: a *)
(* transaction committed or unlocked them after the reading that dispatched*)
(* (the three readings themselves are in ScheduledBatch).                  *)
LateRows(j) ==
  {i \in scheduled \ {j} : "lateRow" \in Hazards /\ At(i, "idle")}

(* The rows that dispatch_jobs or retry() delete in the same transaction.  *)
(* successfully_dispatched looks for a ready or a scheduled execution, so  *)
(* a failed job that retry_all got blocked is not among them, and late     *)
(* scheduled rows are.                                                     *)
RemoveOrigin(j, dispatched) ==
  LET origin == dispatch[j].origin IN
  /\ IF origin = "due"
       THEN \E late \in SUBSET LateRows(j) : scheduled' = scheduled \ ({j} \cup late)
       ELSE UNCHANGED scheduled
  /\ failed' = IF origin = "retry" \/ (origin = "retryAll" /\ dispatched)
                 THEN failed \ {j} ELSE failed

(* Jobs without limits are bulk-inserted, the others get_or_create.        *)
BulkInsertClashes(j) ==
  ~Limited(j) /\ dispatch[j].origin \in {"due", "retryAll"} /\ ready[j] # "none"

DispatchToReady(j) ==
  /\ At(j, "granted")
  /\ EndDispatch(j)
  /\ IF BulkInsertClashes(j)
       THEN UNCHANGED <<ready, scheduled, failed>>
       ELSE /\ ready' = [ready EXCEPT ![j] = IF @ = "none" THEN "own" ELSE @]
            /\ RemoveOrigin(j, TRUE)
  /\ UNCHANGED <<job, blocked, claimed, semaphore, doomed, thread, process,
                 registered, cleaner>>

DispatchToBlocked(j) ==
  /\ At(j, "refused")
  /\ EndDispatch(j)
  /\ blocked' = blocked \cup {j}
  /\ RemoveOrigin(j, ready[j] # "none" \/ j \in scheduled)
  /\ UNCHANGED <<job, ready, claimed, semaphore, doomed, thread, process,
                 registered, cleaner>>

(* discard_in_batches: the job is deleted with all its rows; nobody        *)
(* signals the semaphore.  Claimed executions cannot be discarded.         *)
Discard(j) ==
  /\ "discard" \in Hazards
  /\ At(j, "idle")
  /\ ready[j] # "none" \/ j \in scheduled \cup blocked \cup failed
  /\ job' = [job EXCEPT ![j] = "gone"]
  /\ ready' = [ready EXCEPT ![j] = "none"]
  /\ scheduled' = scheduled \ {j}
  /\ blocked' = blocked \ {j}
  /\ failed' = failed \ {j}
  /\ claimed' = [claimed EXCEPT ![j] = NoThread]
  /\ UNCHANGED <<semaphore, doomed, dispatch, thread, process, registered, cleaner>>
-----------------------------------------------------------------------------
(***************************************************************************)
(* The dispatcher's concurrency maintenance.                               *)
(***************************************************************************)
(* The jobs that hold, or are about to give back, a slot of key k.         *)
Holds(j) ==
  \/ dispatch[j].pc = "granted"
  \/ ready[j] # "none"
  \/ claimed[j] # NoThread

Slots(k) ==
  {<<"job", j>> : j \in {i \in Jobs : KeyOf[i] = k /\ Holds(i)}}
    \cup {<<"thread", t>> : t \in {u \in Threads : /\ thread[u].pc \in {"raised", "signal"}
                                                   /\ claimed[thread[u].job] # u
                                                   /\ KeyOf[thread[u].job] = k}}
    \cup {<<"cleaner", c>> : c \in {d \in Cleaners : /\ cleaner[d].pc = "signal"
                                                     /\ KeyOf[cleaner[d].job] = k}}

(* concurrency_duration passes since the last wait or signal.  Unless jobs *)
(* overrun it, that happens only when nobody uses the semaphore.           *)
Expire(k) ==
  /\ semaphore[k].exists /\ ~semaphore[k].expired
  /\ \/ "overrun" \in Hazards
     \/ "idleExpiry" \in Hazards /\ Slots(k) = {}
  /\ semaphore' = [semaphore EXCEPT ![k].expired = TRUE]
  /\ UNCHANGED <<rows, doomed, dispatch, thread, process, registered, cleaner>>

(* expire_semaphores reads the expired rows, then deletes each by its id,  *)
(* without a new look: a wait or a signal in between does not save it.     *)
ReadExpired ==
  /\ doomed = {}
  /\ doomed' = {k \in Keys : semaphore[k].expired}
  /\ doomed' # {}
  /\ UNCHANGED <<rows, semaphore, dispatch, thread, process, registered, cleaner>>

DeleteSemaphore(k) ==
  /\ k \in doomed
  /\ doomed' = doomed \ {k}
  /\ semaphore' = [semaphore EXCEPT ![k] = NoSemaphore]
  /\ UNCHANGED <<rows, dispatch, thread, process, registered, cleaner>>

(* unblock: one attempt for each key with an expired blocked execution.    *)
Unblock(k) ==
  /\ BlockedOn(k) # {}
  /\ ReleaseOne(k)
  /\ UNCHANGED <<job, scheduled, failed, claimed, doomed, dispatch, thread,
                 process, registered, cleaner>>
-----------------------------------------------------------------------------
(***************************************************************************)
(* Workers: the poll loop claims, the pool's threads perform.              *)
(***************************************************************************)
ThreadIdle == [pc |-> "idle", job |-> NoJob]

RowsOf(p) ==
  IF p \in registered
    THEN {r \in Jobs \X Threads : claimed[r[1]] = r[2] /\ ProcOf[r[2]] = p}
    ELSE {}

Orphans ==
  {r \in Jobs \X Threads : claimed[r[1]] = r[2] /\ ProcOf[r[2]] \notin registered}

(* p's queue selector matches the queue name of j's ready row.             *)
Selects(p, j) ==
  \/ ready[j] = "own" /\ j \in Polls[p]
  \/ ready[j] # "none" /\ p \in Wildcard

(* prune() holds the lock on p's row, which a claim by p references.       *)
BeingPruned(p) ==
  \E c \in Supervisors : cleaner[c].mode = "prune" /\ cleaner[c].proc = p

(* select_and_lock and Pool.post: one transaction moves the ready row to a *)
(* claimed row of p, and an idle thread gets the job.                      *)
Claim(t, j) ==
  LET p == ProcOf[t] IN
  /\ process[p] = "live" /\ p \in registered /\ ~BeingPruned(p)
  /\ thread[t].pc = "idle"
  /\ Selects(p, j) /\ claimed[j] = NoThread
  /\ ready' = [ready EXCEPT ![j] = "none"]
  /\ claimed' = [claimed EXCEPT ![j] = t]
  /\ thread' = [thread EXCEPT ![t] = [pc |-> "posted", job |-> j]]
  /\ UNCHANGED <<job, scheduled, blocked, failed, semaphore, doomed, dispatch,
                 process, registered, cleaner>>

(* perform() deserializes before its try: an error leaves the claimed row. *)
Start(t) ==
  /\ thread[t].pc = "posted"
  /\ thread' = [thread EXCEPT ![t] =
                  IF @.job \in Undecodable THEN ThreadIdle ELSE [@ EXCEPT !.pc = "running"]]
  /\ UNCHANGED <<rows, semaphore, doomed, dispatch, process, registered, cleaner>>

Raise(t) ==
  /\ thread[t].pc = "running"
  /\ thread' = [thread EXCEPT ![t].pc = "raised"]
  /\ UNCHANGED <<rows, semaphore, doomed, dispatch, process, registered, cleaner>>

(* Mutants: the thread forgets to signal, or to let go of the job.         *)
NothingAfterWork(j) == ThreadIdle

AfterWorkKeepsJob(j) ==
  [pc |-> IF Limited(j) THEN "signal" ELSE "idle", job |-> j]

(* What the finally of perform() still has to do for j.                    *)
AfterWork(j) == IF Limited(j) THEN [pc |-> "signal", job |-> j] ELSE ThreadIdle

(* DELETE of the claimed row with the id that t was given.                 *)
WithoutRow(j, t) == [claimed EXCEPT ![j] = IF @ = t THEN NoThread ELSE @]

(* The task returned: finished() commits, and a receiver of task_finished  *)
(* may still raise, within the same try ...                                *)
Finish(t) ==
  LET j == thread[t].job IN
  /\ PreserveFinished
  /\ thread[t].pc = "running"
  /\ job[j] # "gone"
  /\ job' = [job EXCEPT ![j] = "finished"]
  /\ claimed' = WithoutRow(j, t)
  /\ \/ thread' = [thread EXCEPT ![t] = AfterWork(j)]
     \/ "receiverError" \in Hazards /\ thread' = [thread EXCEPT ![t].pc = "raised"]
  /\ UNCHANGED <<ready, scheduled, blocked, failed, semaphore, doomed, dispatch,
                 process, registered, cleaner>>

(* ... or, when finished jobs are not preserved, deletes the job with all  *)
(* its rows.  ConcurrencyControls.delete first asks a limited job whether  *)
(* it is ready, and that raises when it has no ready row: see FinishRaises *)
(* (by ConstantsOK a running job has none here).                           *)
FinishByDelete(t) ==
  LET j == thread[t].job IN
  /\ ~PreserveFinished
  /\ thread[t].pc = "running"
  /\ ~Limited(j)
  /\ job' = [job EXCEPT ![j] = "gone"]
  /\ ready' = [ready EXCEPT ![j] = "none"]
  /\ scheduled' = scheduled \ {j}
  /\ blocked' = blocked \ {j}
  /\ failed' = failed \ {j}
  /\ claimed' = [claimed EXCEPT ![j] = NoThread]
  /\ thread' = [thread EXCEPT ![t] = ThreadIdle]
  /\ UNCHANGED <<semaphore, doomed, dispatch, process, registered, cleaner>>

(* finished() raises: the job row is gone, or is_ready finds no ready row. *)
FinishRaises(t) ==
  LET j == thread[t].job IN
  /\ thread[t].pc = "running"
  /\ IF PreserveFinished THEN job[j] = "gone" ELSE Limited(j) /\ ready[j] = "none"
  /\ thread' = [thread EXCEPT ![t].pc = "raised"]
  /\ UNCHANGED <<rows, semaphore, doomed, dispatch, process, registered, cleaner>>

(* failed_with: one transaction, which cannot commit when the job is gone  *)
(* or already has a failed execution with another error.                   *)
Fail(t) ==
  LET j == thread[t].job IN
  /\ thread[t].pc = "raised"
  /\ \/ /\ job[j] # "gone"
        /\ failed' = failed \cup {j}
        /\ claimed' = WithoutRow(j, t)
     \/ /\ job[j] = "gone" \/ j \in failed
        /\ UNCHANGED <<failed, claimed>>
  /\ thread' = [thread EXCEPT ![t] = AfterWork(j)]
  /\ UNCHANGED <<job, ready, scheduled, blocked, semaphore, doomed, dispatch,
                 process, registered, cleaner>>

(* unblock_next_blocked_job: signal, and in another statement release_one. *)
Signal(t) ==
  LET j == thread[t].job IN
  /\ thread[t].pc = "signal"
  /\ SignalFor(j)
  /\ thread' = [thread EXCEPT ![t] = IF NextAfterSignal(j) = "release"
                                       THEN [@ EXCEPT !.pc = "release"] ELSE ThreadIdle]
  /\ UNCHANGED <<rows, doomed, dispatch, process, registered, cleaner>>

Release(t) ==
  /\ thread[t].pc = "release"
  /\ ReleaseOne(KeyOf[thread[t].job])
  /\ thread' = [thread EXCEPT ![t] = ThreadIdle]
  /\ UNCHANGED <<job, scheduled, failed, claimed, doomed, dispatch, process,
                 registered, cleaner>>
-----------------------------------------------------------------------------
(***************************************************************************)
(* The end of a worker, and the cleaning up after it.                      *)
(***************************************************************************)
CleanerIdle ==
  [mode |-> "idle", proc |-> NoProc, todo |-> {}, pc |-> "next", job |-> NoJob]

StartCleaning(c, mode, p, todo) ==
  /\ cleaner[c].mode = "idle"
  /\ cleaner' = [cleaner EXCEPT ![c] =
                   [mode |-> mode, proc |-> p, todo |-> todo, pc |-> "next", job |-> NoJob]]

(* pool.shutdown(cancel_futures=True): posted jobs never start; running    *)
(* ones go on in their threads.                                            *)
CancelPosted(p) ==
  thread' = [t \in Threads |->
               IF ProcOf[t] = p /\ thread[t].pc = "posted" THEN ThreadIdle ELSE thread[t]]

(* A TERM, or an IntegrityError of a claim of a job that is claimed, ends  *)
(* the poll loop: Worker.shutdown stops the pool, then deregisters.        *)
Shutdown(p) ==
  /\ process[p] = "live"
  /\ \/ "shutdown" \in Hazards
     \/ \E j \in Jobs : Selects(p, j) /\ claimed[j] # NoThread
  /\ process' = [process EXCEPT ![p] = "stopping"]
  /\ CancelPosted(p)
  /\ StartCleaning(p, "release", p, RowsOf(p))
  /\ UNCHANGED <<rows, semaphore, doomed, dispatch, registered>>

(* A heartbeat, or the foreign key of a claim, tells p that its row is     *)
(* gone: it leaves the poll loop with nothing to deregister.               *)
LoseRegistration(p) ==
  /\ process[p] = "live" /\ p \notin registered
  /\ process' = [process EXCEPT ![p] = "draining"]
  /\ CancelPosted(p)
  /\ UNCHANGED <<rows, semaphore, doomed, dispatch, registered, cleaner>>

(* KILL, or QUIT after the shutdown timeout.                               *)
Crash(p) ==
  /\ p \in Mortal
  /\ process[p] # "dead"
  /\ process' = [process EXCEPT ![p] = "dead"]
  /\ thread' = [t \in Threads |-> IF ProcOf[t] = p THEN ThreadIdle ELSE thread[t]]
  /\ cleaner' = [cleaner EXCEPT ![p] = CleanerIdle]
  /\ UNCHANGED <<rows, semaphore, doomed, dispatch, registered>>

(* Mutant: the supervisor does not wait for the process to exit.           *)
TerminatedAtOnce(p) == process[p] \in {"live", "draining", "dead"}

Terminated(p) ==
  \/ process[p] = "dead"
  \/ process[p] = "draining" /\ \A t \in Threads : ProcOf[t] = p => thread[t].pc = "idle"

(* The supervisor of p reaps it: handle_claimed_jobs_by.                   *)
Reap(s, p) ==
  /\ Terminated(p) /\ RowsOf(p) # {}
  /\ StartCleaning(s, "reap", p, RowsOf(p))
  /\ UNCHANGED <<rows, semaphore, doomed, dispatch, thread, process, registered>>

(* A supervisor finds p without a heartbeat for process_alive_threshold.   *)
(* All of a prune is one transaction; here its statements take effect one  *)
(* by one, under the lock on p's row that BeingPruned stands for.          *)
Prune(s, p) ==
  /\ p \in registered
  /\ process[p] = "dead" \/ "stall" \in Hazards
  /\ StartCleaning(s, "prune", p, RowsOf(p))
  /\ UNCHANGED <<rows, semaphore, doomed, dispatch, thread, process, registered>>

(* A supervisor deregisters with its supervisees, alive or not.            *)
Deregister(s, p) ==
  /\ "supervisorExit" \in Hazards
  /\ p \in registered
  /\ StartCleaning(s, "release", p, RowsOf(p))
  /\ UNCHANGED <<rows, semaphore, doomed, dispatch, thread, process, registered>>

(* A supervisor boots: fail_orphaned_executions.                           *)
FailOrphans(s) ==
  /\ Orphans # {}
  /\ StartCleaning(s, "orphans", NoProc, Orphans)
  /\ UNCHANGED <<rows, semaphore, doomed, dispatch, thread, process, registered>>

(* fail_all_with: failed_with for the next claimed execution read ...      *)
CleanerFail(c) ==
  \E r \in cleaner[c].todo :
    LET j == r[1] IN
    /\ cleaner[c].mode \in {"reap", "prune", "orphans"} /\ cleaner[c].pc = "next"
    /\ job[j] # "gone"
    /\ failed' = failed \cup {j}
    /\ claimed' = WithoutRow(j, r[2])
    /\ cleaner' = [cleaner EXCEPT ![c].todo = @ \ {r},
                                  ![c].pc = IF Limited(j) THEN "signal" ELSE "next",
                                  ![c].job = IF Limited(j) THEN j ELSE NoJob]
    /\ UNCHANGED <<job, ready, scheduled, blocked, semaphore, doomed, dispatch,
                   thread, process, registered>>

(* ... then unblock_next_job.                                              *)
CleanerSignal(c) ==
  LET j == cleaner[c].job IN
  /\ cleaner[c].pc = "signal"
  /\ SignalFor(j)
  /\ cleaner' = IF NextAfterSignal(j) = "release"
                  THEN [cleaner EXCEPT ![c].pc = "release"]
                  ELSE [cleaner EXCEPT ![c].pc = "next", ![c].job = NoJob]
  /\ UNCHANGED <<rows, doomed, dispatch, thread, process, registered>>

CleanerRelease(c) ==
  /\ cleaner[c].pc = "release"
  /\ ReleaseOne(KeyOf[cleaner[c].job])
  /\ cleaner' = [cleaner EXCEPT ![c].pc = "next", ![c].job = NoJob]
  /\ UNCHANGED <<job, scheduled, failed, claimed, doomed, dispatch, thread,
                 process, registered>>

(* Mutant: release() only deletes the claimed execution.                   *)
RequeueOnlyDeletes(c) ==
  \E r \in cleaner[c].todo :
    /\ cleaner[c].mode = "release"
    /\ job[r[1]] # "gone"
    /\ claimed' = WithoutRow(r[1], r[2])
    /\ cleaner' = [cleaner EXCEPT ![c].todo = @ \ {r}]
    /\ UNCHANGED <<job, ready, scheduled, blocked, failed, semaphore, doomed,
                   dispatch, thread, process, registered>>

(* release_all: each execution of the snapshot goes back to the ready      *)
(* table, whether or not it is still claimed.                              *)
CleanerRequeue(c) ==
  \E r \in cleaner[c].todo :
    LET j == r[1] IN
    /\ cleaner[c].mode = "release"
    /\ job[j] # "gone"
    /\ ready' = [ready EXCEPT ![j] = IF @ = "none" THEN "own" ELSE @]
    /\ claimed' = WithoutRow(j, r[2])
    /\ cleaner' = [cleaner EXCEPT ![c].todo = @ \ {r}]
    /\ UNCHANGED <<job, scheduled, blocked, failed, semaphore, doomed, dispatch,
                   thread, process, registered>>

(* The failed or the ready row cannot be inserted: the error ends it.      *)
CleanerAborts(c) ==
  /\ cleaner[c].pc = "next"
  /\ \E r \in cleaner[c].todo :
       \/ job[r[1]] = "gone"
       \/ cleaner[c].mode # "release" /\ r[1] \in failed
  /\ cleaner' = [cleaner EXCEPT ![c] = CleanerIdle]
  /\ process' = IF c \in Procs /\ process[c] = "stopping"
                  THEN [process EXCEPT ![c] = "draining"] ELSE process
  /\ UNCHANGED <<rows, semaphore, doomed, dispatch, thread, registered>>

(* The snapshot is done; prune and deregister delete the process row.      *)
CleanerDone(c) ==
  /\ cleaner[c].mode # "idle" /\ cleaner[c].pc = "next" /\ cleaner[c].todo = {}
  /\ registered' = IF cleaner[c].mode \in {"prune", "release"}
                     THEN registered \ {cleaner[c].proc} ELSE registered
  /\ process' = IF c \in Procs /\ process[c] = "stopping"
                  THEN [process EXCEPT ![c] = "draining"] ELSE process
  /\ cleaner' = [cleaner EXCEPT ![c] = CleanerIdle]
  /\ UNCHANGED <<rows, semaphore, doomed, dispatch, thread>>
-----------------------------------------------------------------------------
Init ==
  /\ job = [j \in Jobs |-> "new"]
  /\ ready = [j \in Jobs |-> "none"]
  /\ scheduled = {} /\ blocked = {} /\ failed = {}
  /\ claimed = [j \in Jobs |-> NoThread]
  /\ semaphore = [k \in Keys |-> NoSemaphore]
  /\ doomed = {}
  /\ dispatch = [j \in Jobs |-> DispatchIdle]
  /\ thread = [t \in Threads |-> ThreadIdle]
  /\ process = [p \in Procs |-> "live"]
  /\ registered = Procs
  /\ cleaner = [c \in Cleaners |-> CleanerIdle]

DispatchStep(j) ==
  \/ Schedule(j) \/ LookUp(j) \/ Decrement(j) \/ Create(j)
  \/ DispatchToReady(j) \/ DispatchToBlocked(j)

ThreadStep(t) ==
  \/ Start(t) \/ Raise(t) \/ Finish(t) \/ FinishByDelete(t) \/ FinishRaises(t)
  \/ Fail(t) \/ Signal(t) \/ Release(t)

CleanerStep(c) ==
  \/ CleanerFail(c) \/ CleanerSignal(c) \/ CleanerRelease(c)
  \/ CleanerRequeue(c) \/ CleanerAborts(c) \/ CleanerDone(c)

(* Every step but the deletion of an expired semaphore.                    *)
OtherSteps ==
  \/ \E j \in Jobs :
       \/ Insert(j) \/ DispatchStep(j) \/ ClientCrash(j)
       \/ DispatchDue(j) \/ Retry(j) \/ Discard(j)
  \/ \E k \in Keys : Expire(k) \/ Unblock(k)
  \/ ReadExpired
  \/ \E t \in Threads : ThreadStep(t) \/ \E j \in Jobs : Claim(t, j)
  \/ \E p \in Procs : Shutdown(p) \/ LoseRegistration(p) \/ Crash(p)
  \/ \E s \in Supervisors :
       \/ FailOrphans(s)
       \/ \E p \in Procs : Reap(s, p) \/ Prune(s, p) \/ Deregister(s, p)
  \/ \E c \in Cleaners : CleanerStep(c)

Next == OtherSteps \/ \E k \in Keys : DeleteSemaphore(k)

Spec == Init /\ [][Next]_vars
=============================================================================
