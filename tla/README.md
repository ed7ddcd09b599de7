# A TLA+ model of Steady Queue

Steady Queue is a database-backed task queue for Django. Everything its processes
share is rows of a relational database: there are no messages between them, only
statements and transactions, and the order in which these commit is all that keeps
a job in one place, performs it once and keeps the promise of a concurrency limit.
The processes themselves are a tree: a supervisor that forks workers, dispatchers
and schedulers, talks to them by signals and follows up on their deaths. This
directory models these two parts of the system, what lies between them - dispatchers and
workers that poll the tables, supervisors that share a host - and two processes from the
inside: a worker with its pool, and the scheduler of recurring tasks. It checks them with
TLC on small instances and proves the safety properties, with the assumptions each of
them needs, with TLAPS for instances of any size.

1. [The system](#the-system)
2. [The model](#the-model)
3. [What is checked](#what-is-checked)
4. [What is proved](#what-is-proved)
5. [Where the code and its documentation disagree](#where-the-code-and-its-documentation-disagree)
6. [What is not modelled, and the plan](#what-is-not-modelled-and-the-plan)

Paths are relative to `src/steady_queue/` unless they begin with `README.md`,
`docs/` or `tests/`.

## The system

| Component | State | Operations | Interacts through |
|---|---|---|---|
| **Jobs and executions** (`models/job.py`, `executable.py`, `*_execution.py`) | one row in `jobs`; at most one row in each of the ready, scheduled, blocked, claimed and failed tables | enqueue, schedule, dispatch, claim, perform, finish, fail, release, retry, discard | rows, one-to-one constraints, row locks |
| **Concurrency controls** (`models/semaphore.py`, `concurrency_controls.py`) | one semaphore row per key: value and expiry | wait (lookup, then decrement or create), signal, release one blocked job | called by dispatch, by the end of a job and by maintenance |
| **Dispatcher** (`processes/dispatcher.py`, `models/scheduled_execution.py`, `dispatching.py`) | none of its own | dispatch a batch of due jobs; maintenance: expire semaphores, unblock expired blocked executions | scheduled, blocked and semaphore rows |
| **Worker and pool** (`processes/worker.py`, `pool.py`) | counter of idle threads, running threads, queue of futures | poll: claim and post; perform; shutdown | ready and claimed rows; wake-up pipe |
| **Process registry** (`models/process.py`, `prunable.py`, `executor.py`) | one row per process with its heartbeat and supervisor | register, heartbeat, prune, deregister, fail or release all claims | claimed rows by foreign key |
| **Supervisor** (`processes/supervisor.py`, `signals.py`, `maintenance.py`) | forks, signal queue, timers | fork, reap and replace, prune, fail orphans, terminate | signals, `waitpid`, the registry |
| **Pidfile** (`processes/pidfile.py`) | a file | check, create, delete | the file system |
| **Queue selector** (`queue_selector.py`, `models/pause.py`) | paused queues | choose the queues a worker polls, in order | ready rows |
| **Recurring tasks** (`recurring_schedule.py`, `models/recurring_*.py`, `processes/scheduler.py`) | a timer per task; one row per run | schedule, enqueue once per run | the unique row (task, run) |
| **Timers, pollers, sleep** (`processes/timer.py`, `poller.py`, `interruptible.py`) | events, a pipe | periodic run, interruptible sleep, wake up | threads of one process |
| **Task API, arguments, configuration, admin** | none that other parts read | translate, serialize, validate, display | function calls |

What makes the first seven hard is that they run in different processes, that most
operations are several statements long, and that any process may die between two
of them:

* `Executable.save` inserts a job and prepares its execution in separate
  autocommitted statements; `wait()` reads a semaphore and updates it in another
  statement; `signal` and `release_one` are two transactions;
* a cleaner (a worker that deregisters, or a supervisor) walks a *snapshot* of
  claimed executions while the worker's threads go on;
* the maintenance deletes semaphores it found expired some time ago;
* the dispatcher sends the query for its batch to the database three times, and deletes
  what the third one returns;
* a poll of a worker reads queue names and pauses several times over;
* a heartbeat or a prune that is under way when its timer is stopped goes on, in a
  thread of its own, while the main thread deregisters;
* the pid file is read, probed, deleted and created in four steps, and deleted on
  three different occasions, none of which looks at the pid in it;
* the end of a job is a `finally` that runs in a pool thread which may outlive the
  worker's poll loop and its registration;
* the poll loop of a busy worker sleeps for ten minutes and relies on its pool's
  threads to wake it up through a pipe that is made on first use and closed at the end;
* the callback of a recurring task's timer starts the next timer before it enqueues,
  while the main thread may be cancelling timers and other schedulers enqueue too;
* a fork inherits the stack of the supervisor, so whatever ends a child unwinds
  through `Supervisor.start` or `Supervisor.supervise` *in the child*.

The properties that make the components correct: a job has exactly one execution
row until it is finished and none afterwards; it is never lost; it is performed by
one thread at a time; no more jobs of a key run than its limit; due jobs are dispatched in
order, once, and claimed in the order of the worker's queues, never from a paused one; a semaphore's
value and the jobs that hold its slots add up to the limit; every enqueued job
settles and every blocked job moves on; a worker claims no more than its threads can
take and misses no wake-up; a recurring run is enqueued once, and each schedules the
next; the claims of a dead fork do not stay
claimed; a slot whose process died is filled again; a signal ends the whole tree; one
supervisor runs per host, the pid file names it, and its row ends with it.
`PROJECT.json` lists the hazards, each at the line where it bites, with the
properties that watch it.

## The model

| Module | Contents |
|---|---|
| `JobLifecycle` | the tables, semaphores, pool threads, workers and cleaners; one action per autocommitted statement or committed transaction |
| `JobProperties` | the properties, the inductive invariant `Exclusive`, the fairness |
| `TaskQueue` | what a client is promised: a task waits, is performed, ends, within the limit of its key |
| `JobRefinement` | the status of a job, as it is read from its rows, and that `JobLifecycle` implements `TaskQueue` |
| `MCJobs` | the instances for TLC; one `.cfg` per run |
| `JobProofs` | the type invariant, `Exclusive` and what follows from it, and `NeverLost`, proved |
| `SlotProofs` | `SlotsConserved`, `LimitRespected` and `NoSlotLeaks`, proved |
| `RefinementProofs` | `ImplementsTaskQueue`, proved |
| `ScheduledBatch` | dispatchers and the batches of scheduled jobs they move, one action per reading |
| `QueueSelection` | the queues a worker polls, as functions of its list and of the queues there are |
| `Polling` | `ScheduledBatch` and the polls of workers composed: due, dispatched, claimed, while queues are paused and resumed |
| `PollingProperties`, `MCPolling` | the properties of the composition; the instances for TLC, and what is assumed of the selector, evaluated for short lists |
| `PollingProofs` | its safety properties, proved |
| `SupervisorTree` | a supervisor and its forks: booting, signals, reaping, replacing, the registry, the end of the tree |
| `TreeProperties` | its properties, the inductive invariant `RegistryConsistent`, the fairness |
| `MCTree` | the instances for TLC |
| `TreeProofs` | the type invariant, `RegistryConsistent` and what follows from it, proved |
| `Supervisors` | the supervisors of one host: the pid file, their rows, and the heartbeat and maintenance timers of each, which outlive their stop |
| `SupervisorsProperties`, `MCSupervisors` | its properties, inductive invariants and fairness; the instances for TLC |
| `SupervisorsProofs` | its safety properties, proved |
| `WorkerPool` | one worker: poll loop, pool, counter of available threads, wake-up pipe, shutdown |
| `PoolProperties`, `MCPool` | its properties, inductive invariants and fairness; the instances for TLC |
| `PoolProofs` | its safety properties, proved |
| `RecurringSchedule` | the schedulers of one recurring task: persisting it, their timers and callbacks, the shared record of runs |
| `RecurringProperties`, `MCRecurring` | its properties and fairness; the instances for TLC |
| `RecurringProofs` | its type invariant, `AtMostOncePerRun` and `OneTimerPerTask`, proved |

The modules meet in the tables they share. `JobLifecycle` follows single jobs through the
death of a worker and takes the deaths and the cleaning up as environment;
`SupervisorTree` follows the processes and keeps, of a worker's claimed executions,
only whether there are any. `WorkerPool` refines what `JobLifecycle` takes for granted of a
worker - that it claims when it has a thread to spare - and sees of a job only whether
it is ready, claimed or neither. `RecurringSchedule` ends where a job is enqueued.
`Polling` begins there: it follows jobs through the scheduled and the ready table into a
worker's hands, with the order and the size of batches and the choice of queues, which
`JobLifecycle` leaves open (`DispatchDue` and `Claim` may take any job). `Supervisors`
takes the pid file, the heartbeat and the prune of `SupervisorTree` apart, for several
supervisors, and leaves their forks to it.

### Jobs: state

| Variable | In the program |
|---|---|
| `job` | the row of the job: not inserted yet, live, finished, deleted |
| `ready` | `"none"`, or the ready row; it has the job's own queue, or that of a blocked row, which is blank |
| `scheduled`, `blocked`, `failed` | the jobs with a row in these tables |
| `claimed` | the claimed row, as the thread for which it was created |
| `semaphore` | the row of each key: value, and whether its expiry has passed |
| `doomed` | what the iterator of `expire_semaphores` has read and not yet deleted |
| `dispatch` | how far the caller that prepares a job's execution has come, and whether it is a client, the dispatcher, `retry` or `retry_all` |
| `thread` | what a pool thread does: posted, running, raised, about to signal, about to release |
| `process`, `registered` | the worker process, and whether its row exists |
| `cleaner` | the snapshot that a deregistering worker or a supervisor walks |

### Jobs: actions

* **Enqueueing** `Insert`, `Schedule`, `LookUp`, `Decrement`, `Create`,
  `DispatchToReady`, `DispatchToBlocked`: `Executable.save` →
  `prepare_for_execution` → `dispatch` → `Semaphore.Proxy.wait` → ready or blocked.
  The dispatcher (`DispatchDue`) and the retries (`Retry`) run the same steps, inside
  one transaction, and end by deleting the row they started from (`RemoveOrigin`). Each
  job of a batch is dispatched by itself here; what the three readings of a batch may
  do to the row of *another* job - delete it without dispatching it - is the event
  `lateRow` of `RemoveOrigin`, and `ScheduledBatch` has the readings themselves.
* **Working** `Claim`, `Start`, `Raise`, `Finish`, `FinishByDelete`,
  `FinishRaises`, `Fail`, `Signal`, `Release`: `ReadyExecutionQuerySet.claim`,
  `Pool.post`, `ClaimedExecution.perform` and its `finally`.
* **Maintenance** `Expire`, `ReadExpired`, `DeleteSemaphore`, `Unblock`. A semaphore that was
  read as expired is deleted by its id, whatever has become of it since, as the code does.
* **The end of workers** `Shutdown`, `LoseRegistration`, `Crash`, and the cleaning
  up after them: `Reap`, `Prune`, `Deregister`, `FailOrphans` take a snapshot;
  `CleanerFail`, `CleanerSignal`, `CleanerRelease`, `CleanerRequeue` walk it;
  `CleanerAborts` is an integrity error on the way; `CleanerDone` deletes the
  process row.
* **The rest** `ClientCrash`, `Discard`.

### Supervisor and forks: state

| Variable | In the program |
|---|---|
| `pc`, `signalQueue`, `sent` | where the supervisor's main thread is; its queue of signals; what it was sent |
| `forks` | the keys of `Supervisor.forks` |
| `child` | each fork: how far it has come, its slot, whether it is one of the first forks or a replacement, whether it was given a supervisor, whether it was asked to stop, its exit status |
| `row`, `ownRow` | the `Process` rows of the forks (with or without `supervisor_id`) and of the supervisor |
| `lost` | `Supervisor.process` is `None`, after a heartbeat found no row |
| `claims`, `busy` | the forks whose row has claimed executions; those whose pool performs a job |
| `pidfile` | the file exists |

### Supervisor and forks: actions

* **The supervisor** `SetUpPidfile`, `Register`, `StartProcess`, `Supervise`: `start`,
  `boot`, `start_processes`. `Signal` is the trap of `signals.py`, which raises
  `SystemExit` before `is_supervising`. `HandleTerm`, `ReapTerminated`,
  `AllTerminated`, `ShutdownTimeout`, `HandleQuit`: `process_signal_queue`,
  `terminate_gracefully`, `terminate_immediately`. A dead fork goes through three
  steps: `ReapFork` (`waitpid`, which removes the zombie, and `forks.pop`), `FollowUp`
  (`handle_claimed_jobs_by`) and `StartReplacement` (`start_process`); under
  `terminate_gracefully` through `ReapTerminated` and `FollowUp`. In between, the
  supervisor may be killed, or a query or the fork fails (`LoopRaises`): the fork is then
  reaped and forgotten, and its row and claims are left as they are. The child record keeps
  this position (`"reaped"`, `"handled"`), which in the code is in the local variables of
  the loop. `BreakLoop` and `ShutDown`: the ends of `supervise` and `shutdown`.
  `"interrupted"` is the end by a signal before `is_supervising`, `"leaving"` any later
  one; they differ in what another signal does. `Heartbeat` and `Prune` are the timers.
* **A fork** `ChildRegister`, `ChildReady`, `Claim`, `Finish`, `ChildStops`,
  `ChildRaises`, then `InheritedShutdown` - the supervisor's `shutdown`, run by the
  child on the way out - and `Exit`. `Catches` tells which exceptions reach that
  `shutdown`: the first forks unwind through `except SystemExit` of `start`,
  replacements through the `finally` of `supervise`.
* **The environment** `Kill`, `KillSupervisor`, `TermChild` (somebody stops one fork)
  and the two signals.

### Worker and pool: state

| Variable | In the program |
|---|---|
| `main`, `delay` | where the poll loop is; what `poll` returned: the polling interval or ten minutes |
| `limit`, `relation` | the locals of `ReadyExecutionQuerySet.claim` |
| `batch`, `posting` | the executions claimed and not posted; the one inside `Pool.post` |
| `available` | `Pool.available_threads` |
| `queue`, `thread` | the executor's queue of futures; what each of its threads does |
| `ready`, `claims` | the jobs with a ready row; those claimed by this process |
| `stopped`, `registered` | the flag that `stop` sets; `process` is not `None` |
| `pipe`, `bytes`, `sleepsOn` | the cached `self_pipe`; the pipes with something to read; the one in `select` |
| `waker` | how far a thread's `wake_up` has come: access, creation, write |
| `closed`, `reused`, `stray` | the pipe that was closed; its number belongs to another file; somebody wrote there |

### Worker and pool: actions

* **The loop** `Check`, `ReadIdleThreads`, `ClaimFrom` (one transaction per relation of
  the queue selector), `Claimed`, `PostDecrement`, `PostSubmit`, `PollReturns`, `PollRaises`:
  `Poller.start_loop`, `Worker.poll`, `Pool.post`.
* **The sleep** `Sleep`, `StorePipe`, `Interrupted`, `Drain`, `TimesOut`:
  `interruptible_sleep`, with the creation of the pipe in two steps, as
  `cached_property` has no lock.
* **The end** `ShutPool`, `ShutPipe`, `Deregister`, in the order of `Worker.shutdown`
  and its `super()` chain.
* **Waking up** `Stop` (the handler, run by the main thread between any two of its
  steps), `LoseRegistration` (the heartbeat), and `AccessPipe`, `CachePipe`, `WritePipe` of
  the heartbeat and of pool threads.
* **A pool thread** `Take`, `Perform`, `PerformRaises`, then `Increment` and `CheckIdle`:
  `wrapped_execution` and its `finally`; `OpenFile` is something a task may do.
* **Others** `Arrive`, `TakenByOther`.

### Dispatchers and polls: state

| Variable | In the program |
|---|---|
| `clock` | the last job that is due; jobs are numbers in the order of `in_order` |
| `saved`, `scheduled`, `ready` | the rows in the tables, as committed |
| `dispatcher` | how far `dispatch_next_batch` has come, the time at which its query set was made, the rows it has locked, the jobs it dispatches, those it is to delete |
| `raw`, `paused` | a worker's queue list; the queues with a `Pause` |
| `worker` | how far `claim` has come: the limit, the names still to be looked up in the pauses, the relations still to claim from |
| `claims` | how often a job came into a worker's hands |
| `lately` | for the properties: what was ready, paused and open as a poll began |

### Dispatchers and polls: actions

* **Dispatching** `Count`, `Select`, `Dispatch`, `Match`, `Commit`: `len(job_ids)`, the
  query for the jobs, `dispatch_all`, `successfully_dispatched`, `delete` and the end of the
  transaction. Each of the first, second and fourth evaluates `NextBatch`, which skips the
  rows others have locked and locks what it returns. `Dispatch` ends the
  dispatcher with an `IntegrityError` if a ready row is already there. `Die` rolls back,
  `Restart` is the supervisor's replacement.
* **Polling** `IsAll`, `IsNone`, `ReadNames`, `Filter`, `Claim`: `scoped_relations` reads the
  pauses for `is_all`, names and pauses for `is_none`, the names again for `queue_names`
  and the pauses again for each of them; then each relation is claimed from up to what
  is left of the limit. A `ValueError` of `in_raw_order` ends the poll.
* **Others** `Enqueue` (due or not, by the clock the client saw), `Pause`, `Resume`, `Tick`.

An entry of a queue list is a record of its kind and of the queues it matches, so that
prefixes are sets of queues; `EligibleQueues` is the set of results for all the orders in
which the database may return names.

### Supervisors of a host: state

| Variable | In the program |
|---|---|
| `main`, `found` | where the main thread is, from `check_status` to the `atexit` hook; the pid it has read |
| `file` | the pid file: who created it, and whether the pid is written |
| `row`, `leftover` | the row of a supervisor, by the age of its heartbeat; that of a life that was killed |
| `object` | the attribute `process`: `None`, with its row, or without a primary key after `delete` |
| `beat`, `prune` | where the two timers and their callables are |
| `told` | the stop events |

### Supervisors of a host: actions

* **Starting** `Start`, `Check`, `Probe`, `Unlink`, `Create`, `Write`: `Pidfile.setup`;
  `Register`, `Launch`: the row, the heartbeat, the maintenance.
* **Stopping** `Stop`, `StopPrune`, `StopBeat`, `Deregister`, `Release`, `Delete`,
  `DeletePidfile`, `Exit`: `Supervisor.shutdown` and its `super()` chain. `deregister` reads the
  attribute twice; when the heartbeat clears it in between, an `AttributeError` skips the
  deletion of the pid file, which the hook makes up for.
* **Timers** `BeatTimer`, `BeatBegin`, `BeatRefresh`, `BeatLock`, `BeatSave`, and `PruneTimer`,
  `Prune`: `TimerTask.run` with `Process.heartbeat` and `Process.objects.prune`.
* **The environment** `Kill`, `GrowOld`, `Stall`, `PruneElsewhere`.

### Recurring tasks: state

| Variable | In the program |
|---|---|
| `now` | the number of instants of the crontab that have passed |
| `taskRow`, `recorded` | the task's row; the runs with a `RecurringExecution` |
| `jobs` | how many jobs there are of each run |
| `phase` | how far a scheduler has come in `boot`, whether it runs or has stopped |
| `handle` | its entry in `scheduled_tasks` |
| `call` | what each of its timers waits for or does, for which run |

### Recurring tasks: actions

* **Booting** `Boot`, `PersistDelete`, `PersistCreate`, `Reload`: `schedule_tasks`, whose
  two statements of `persist_tasks` other schedulers can come between.
* **Timers** `ReadDelay`, `StartTimer`, `StoreHandle`: `schedule`, which reads the clock twice
  and starts the timer, and `schedule_task`, which stores its handle afterwards - possibly
  after that of a later timer. `Fire` starts a callback, which schedules in these three
  steps and then enqueues (`Enqueue`, one transaction with the record; `EnqueueFails`).
* **The end** `Unschedule`, `Exit` (the interpreter waits for the timers' threads), `Kill`.
* **The rest** `Tick`, and `ClearJob`: the job of a run is deleted, and its record with it.

### Abstractions

* Time is abstract: a scheduled job may become due, a semaphore may expire and a
  blocked row may be old enough for maintenance at any moment.
* A lock that a transaction holds to its end is modelled by what it excludes.
  `skip_locked` claims are one action. The statements of a dispatch inside a
  transaction still take effect one by one, which admits every interleaving the
  database does and some it may not (a reader that sees a decremented semaphore
  before the commit); the same holds of a prune, except for the lock on the
  process row, which keeps its worker from claiming (`BeingPruned`).
* Queue names and arguments are reduced to what is told apart: which workers poll
  the job's queue, whether the arguments can be decoded. Priorities are left out:
  a claim or a release may take any of the rows it could select.
* A worker of `JobLifecycle` registers once; the replacement of a dead worker is
  another member of `Procs`.
* In `SupervisorTree`, process ids come from `Pids` and are used again when nothing
  is left of the process: no fork, no zombie, no row. A worker's claimed executions
  are all or none. A claim that slips in between the release of a worker's
  executions and the deletion of its row is an orphan there and left to
  `JobLifecycle` (`FailOrphans`). A `shutdown_timeout` of zero is not modelled.
* In `WorkerPool`, a job is performed in one step that removes its claim. The order of the
  executor's queue is not kept. `TimesOut` of the long sleep is possible but never
  relied on. A pipe is named after who made it; what a task does with files is reduced
  to one that gets the number of the closed pipe.
* In `RecurringSchedule`, other tasks are left out: their timers and records are their
  own. A timer never fires early, and the clock is never set back. `Exit` is the end of
  the process after `Unschedule`; the steps of `Runnable` in between are those of
  `SupervisorTree`. `Horizon` bounds the clock.
* In `Polling`, the ready row of a limited job stands for its blocked row as well, since only
  its being dispatched matters there. Rows change at the commit of a transaction and are
  locked before; each statement sees what was committed before it (the default isolation
  of PostgreSQL). A worker whose poll raises polls again, as its replacement would.
* In `Supervisors`, a process that starts again is the same member with another pid, so
  that what it left behind is under the name `NoOne`, which no process has; pids are
  not used again by other programs. `Prune` is one transaction, and does not see rows that a
  heartbeat has locked. A supervisor with `stall` may be pruned by the other one.
* Each of TERM and QUIT reaches the supervisor at most once. A fork is killed only
  while it polls or drains (before, it is like one that raises), and a QUIT that
  reaches a fork already unwinding is ignored.

### The environment

`Hazards` selects the events an instance admits, so that each property can be
checked in the widest environment in which it holds. The actions of the code do not
depend on it, except where noted.

| In `JobLifecycle` | Event |
|---|---|
| `clientCrash` | a client dies between two of its statements |
| `shutdown` | a worker is asked to stop (TERM) |
| `supervisorExit` | a supervisor deregisters, with its workers, alive or not |
| `stall` | a live worker's heartbeat is too old |
| `idleExpiry`, `overrun` | a semaphore expires: when nobody uses it, or at any time |
| `lateRow` | the last reading of a batch of due jobs returns other rows, too, which are deleted without having been dispatched |
| `receiverError` | a receiver of `task_finished` raises after `finished()` committed |
| `retry`, `retryAll`, `discard` | requests from the admin |

`Mortal` (workers that may be killed), `Undecodable` (jobs whose arguments cannot
be deserialized) and `PreserveFinished` complete it. Nothing in the code keeps the
maintenance from deleting a semaphore that was taken into use after it had been read as
expired, so `Spec` does not either. What holds only as long as this does not happen is
claimed of `TimelySpec`, which is `Spec` with one assumption on that step, `DeleteUnused`: a
semaphore that is deleted as an expired one has no slots in use at that moment.

| In `SupervisorTree` | Event |
|---|---|
| `TERM`, `QUIT` | the supervisor gets this signal |
| `kill`, `killSupervisor` | a fork, or the supervisor, is killed |
| `leave` | somebody sends a TERM to one fork |
| `error` | an exception ends the loop of a fork, or of the supervisor while it follows up the end of one (a failing query or fork) |

| In `WorkerPool` | Event |
|---|---|
| `TERM` | the worker is asked to stop |
| `deregistered` | its heartbeat finds no row |
| `error` | a query of the poll fails; `perform` raises, so that the claim stays |
| `opensFiles` | a task that runs on after the shutdown opens a file |

| In `ScheduledBatch` | Event |
|---|---|
| `lateInsert` | a row is committed as scheduled when it is already due |
| `rollback` | a dispatcher dies while another is within a batch |

| In `Supervisors` | Event |
|---|---|
| `stall` | the heartbeat of a living supervisor is too old |
| `otherHost` | a supervisor of another host prunes its row |
| `overlap` | a supervisor starts while another one is starting or stopping |
| `termInCheck` | a signal arrives while the pid file is checked |
| `killInWrite` | a supervisor is killed between the creation of the pid file and the write |

| In `RecurringSchedule` | Event |
|---|---|
| `kill` | a scheduler is killed |
| `clear` | a job of a run is deleted |

`FreshPipe` tells whether the worker has yet to sleep for the first time, `Configured` which
schedulers have the task, `Stoppable` those that may be asked to stop, `Failing` the runs
whose enqueueing may raise.

## What is checked

Every instance of `JobLifecycle` has one key. `MixedKeyOf` gives it to jobs 1 and 2
and leaves job 3 without a limit. Two limited jobs are enough for one to hold the slot while
the other waits, creates the semaphore concurrently, or is released; the third job
runs beside them (`Limits` has three jobs of a key, so that its limit of two can be
exceeded; `Turmoil`, about what cleaners and workers do to a job, needs only one).
Two workers with a thread each are enough for one to perform a job that the other
claims; one supervisor reaps and prunes concurrently with both.

The runs of `JobLifecycle` and `SupervisorTree` set `CHECK_DEADLOCK FALSE`: a system whose
jobs are all finished stops, and so does a tree of processes that has ended. So does
`PoolAwake`, where the claims of a worker that has lost its registration are left to the
cleaners of `JobLifecycle`. The other runs are checked for deadlocks.

Two dispatchers compete for a row whatever their number, and a batch of one leaves other
due rows behind; `RolledBack` and `LostBatch` have batches of one and two. Three queues let a
prefix match two and an exact name one; with a job due at once, one due later and a limited
one a worker finds jobs in the queues that its list names first and last. Two supervisors
are one that serves and one that starts, or one that prunes the other; with two kills both
leave something behind, or one does so twice.

A pool of two threads can be partly busy; with three jobs more are ready than it can
take, and two relations make a claim take its limit from both. The liveness of the pool
(`PoolAwake`) is checked with two jobs, one in each relation, which fill it. Two
schedulers compete for a run; a horizon of two lets a callback be late by a whole
period, while the next timer fires and the one after it exists, and lets a run follow
one that failed. One of the two may be asked to stop, beside one that goes on or is killed.

| Run | Instance | Shows |
|---|---|---|
| `Quiet` | jobs 1, 2, 3; two workers, one mortal; idle expiry; fairness | `NoSlotLeaks`, `ClaimsAreNotStolen`; `ImplementsTaskQueue`, the refinement, which includes the limit; `EveryJobSettles`, even when a worker dies with the slot |
| `Limits` | three jobs of a key with limit 2, three threads; crashes of clients and of a worker, discards, idle expiry, late rows, receivers that raise; `TimelySpec` | `LimitRespected`, `SlotsConserved`: nobody runs without a slot, and no slot is given twice, as long as no semaphore in use is deleted as an expired one (`StaleExpiry.cfg` has the code do so) |
| `Turmoil` | one limited job, two workers that may both die (interchangeable, hence `SYMMETRY`); stalls, shutdowns, crashes, leaving supervisors, `retry_all` | `NeverLost`: cleaning up after a worker that is still alive may run a job twice, but loses none. The two ways in which jobs are lost, `clientCrash` and `lateRow`, are excluded |
| `Deleting` | two limited jobs, one of which cannot be decoded, and a free one; finished jobs are deleted; a mortal worker, overruns, retries | `OneExecution`: a deleted job leaves no row; `Exclusive`, `NoDuplicateExecution`: also after semaphores were deleted under running jobs |
| `Polling` | three jobs, one due at once and one limited, in two of three queues; two dispatchers with batches of one, of which one may be killed; a worker of two threads with one of four lists (`*`, a prefix before and after an exact name, exact names with a useless entry); a queue that may be paused; fairness | `NeitherLostNorTwice`, `DispatchedInOrder`, `FollowsTheList`, `PausedOrForeignUntouched`, `PollingCatchesUp` |
| `Tree` | one worker slot, three pids, every hazard, each at any step of reaping, following up and replacing | `ReapedForksHoldNoClaims`, `RegistryConsistent`; with fairness `ClaimsSettle`, `SlotsRefilled`, `SignalsEndTheTree` |
| `Supervisors` | two supervisors, two kills; stalls and another host that prunes; fairness | `AtMostOneSupervisor`, `FileNamesTheRunning`, `NoRowAfterwards`, `SparesItself`, `LeftoversAreCleared` |
| `Pool` | three jobs, two threads, two relations, a pipe not yet made; a TERM, errors (jobs of a relation are interchangeable, and so are threads) | `CounterExact`, `WithinPool`: no thread leaks from the counter, or is given back twice |
| `PoolAwake` | two jobs, two threads, a pipe already made; a TERM, a lost registration; fairness | `NoLostWakeUp`, `StopInterruptsSleep`, `IdleThreadsAreUsed`, `StopsAtOnce`: nothing waits for the end of the ten-minute sleep, neither a job nor a stop nor the loss of the registration |
| `Recurring` | two schedulers with the task, two instants, the first of which may fail; one scheduler may get a TERM, both may be killed; deleted jobs; fairness | `AtMostOncePerRun`, `OneTimerPerTask`, `ArmedRunsAreEnqueued` |

The exact constants are in the `.cfg` files. `Exclusive` was also checked with client
crashes, overruns, late rows, discards, undecodable jobs and without
preservation of finished jobs, on instances of two jobs; `LimitRespected` fails, as
the documentation does not promise otherwise, once jobs overrun their duration, and against
the documentation under plain `Spec`. In `Quiet` two limited jobs are too few for the
deletion of a semaphore in use to do harm, so that plain `Spec` (with fairness) will do there.

`Tree` has one slot, because the liveness properties of two take too long: the worker,
its replacement and a third fork while the rows of the first two are still there
need three pids. The invariants of `Tree` were also checked, with all hazards, on two
slots (a worker and a dispatcher; 3.7 million states), where one fork's end disturbs
another, and they are proved for any number.

**Fairness.** `FairSpec` assumes weak fairness of the steps of a dispatch (the client
or dispatcher is executing consecutive statements), of claims of each job (poll loops
run for ever, `poller.py`), of pool threads (a task returns or raises in the end),
of the maintenance (a `TimerTask` with a fixed interval), of the passing of
expiry times, of cleaners and of the supervisor's reaping loop. Nothing is assumed
of crashes, prunes, shutdowns, retries and discards: they may never happen, and a
worker that dies with a job is reaped in the end. Weak
fairness of `Claim` per job is justified by the order of the ready table: a claim
takes rows by priority and job id, and an instance has finitely many jobs.

`FairTree` assumes weak fairness of the main threads of the supervisor and of its
forks, of the timers (heartbeat and pruning) and of the end of a task. Signals,
kills, errors and claims may never happen. `ReapFork` is strongly fair: the reap
loop goes on until `waitpid` reports no more children, so a zombie is not passed
over for ever while others die; weak fairness would not do, as the action is
disabled while another fork is being followed up. So is the handling of a signal in the
queue, disabled during a follow-up: `waitpid` reports nothing while the fork just started
runs, so that the reap loop ends, and the next iteration comes to the signal queue.

`Polling!FairSpec` assumes that time passes, and weak fairness of the loops of dispatchers
(with their restarts) and of workers; queues need never be paused, or resumed. The order
of the list is strict, so that a job of the last queue depends on the others running dry:
an instance has finitely many jobs. `FairSupervisors` assumes that the threads of a
process go on, that a supervisor that has ended is started again, and that rows grow old.
Nobody has to stop one: `LeftoversAreCleared` promises a row's end only if some supervisor
serves from some time on.

`FairPool` assumes weak fairness of the main thread, of the heartbeat and of the pool's
threads outside the task. Tasks need not end, and the ten-minute sleep need not time
out: what is shown does not lean on either. `FairRecurring` assumes that time passes and
that the threads of timers go on; kills, stops and errors may never happen.

**Mutants.** For each property of a passing run, `PROJECT.json` names a plausible
bug (a mutated form of a definition, defined beside it under a `Mutant` comment)
under which TLC finds the property violated.

## What is proved

`JobProofs` proves `Spec => []TypeOK` for all constants that satisfy `ConstantsOK`,
in every environment, and for any number of jobs, keys, workers and threads:

* `ExclusiveInvariant`: `Spec => []Exclusive`, assuming `Undisturbed`;
* `JobsAreInOneTable`: `Spec => []OneExecution`, if moreover no client dies and no batch
  deletes a row it did not dispatch (`Hazards \cap {"clientCrash", "lateRow"} = {}`);
* `NoTwoThreadsPerformAJob`: `Spec => []NoDuplicateExecution`;
* `ClaimsStay`: `Spec => ClaimsAreNotStolen`.

`Undisturbed` excludes exactly the events that take a claim from a live worker
(`shutdown`, `supervisorExit`, `stall`), receivers that raise after the commit,
`retry_all`, and a second supervisor. Crashes of workers and of clients, expiry of
semaphores in any form, their deletion while in use, retries and discards are allowed. The counterexamples
[below](#where-the-code-and-its-documentation-disagree) show why the exclusions are
needed.

`OneExecution` is not inductive: that a thread's `finished()` leaves no row behind
depends on the thread still having the claim, which depends on nobody else having
taken it, which depends on what the snapshots of cleaners contain.
`Exclusive` adds these: the rows of a job exclude each other (`RowsExclude`); a job
being dispatched has only the row the dispatch started from (`DispatchOwns`); a
thread that has yet to end its job has its claim (`ThreadOwns`); workers are
registered until they die (`WorkerRuns`); a supervisor's snapshot contains claims of
dead workers, each still to be ended (`SnapshotIsCurrent`). The proof that a step
preserves it goes action by action; frame lemmas (`RowsFrame`, `ThreadsFrame`,
`WorkersFrame`, `SnapshotsFrame`) deal with the parts an action does not touch and
`DispatchAdvances`, `WorkEnds`, `SnapshotShrinks`, `ReleaseKeepsRows` with the
recurring changes.

`NoJobIsLost` proves `Spec => []NeverLost` in every environment but the two in which the code does
lose jobs, `Hazards \cap {"clientCrash", "lateRow"} = {}`: clients that die between their two
inserts, and batches of due jobs that delete a row they did not dispatch (as in the run
`LostBatch`). It holds with shutdowns, stalls, prunes of live workers, deletions of semaphores
in use and errors, that is, where `Exclusive` does not hold and the same job may have several
rows. It needs no exclusion, only that a row is deleted by a step that
inserts another one or ends the job (`AllFound`, one lemma per kind of step), also
when the row a cleaner or a thread has in mind is gone.

`SlotProofs` proves, under `Undisturbed`, `WithinDuration` (no job overruns the duration of
its semaphore) and `LimitsAgree` (jobs of a key have the same limit), again for any number of
everything:

* `SlotsInvariant`: `TimelySpec => []SlotsConserved`;
* `ConcurrencyIsLimited`: `TimelySpec => []LimitRespected`.

They are about `TimelySpec`, not `Spec`, and this is a restriction of their worth: nothing in
the code makes sure that a semaphore which is deleted as an expired one is not in use
(`dispatcher.py:92`), and where it is, both fail without any overrun. `DeleteUnused` asks for
no more than that: that a semaphore read as expired is taken into use and given back before
it is deleted, or comes into use after it, is allowed.

`Slots(k)` is the set of places that hold a slot of the key: jobs that were given
one, threads and cleaners with a signal to send. `SlotsConserved` says that their number and
the semaphore's value make at most the limit, and that a semaphore that is missing
or expired has none. The proof shows for every action that it adds a place and takes one
from the value, moves a slot from one place to another, or gives it back (lemmas on the
cardinality of a set with one element more or less); `Exclusive` is needed to know that a
thread that ends a job moves the slot of this job and of no other. `StaleExpiry` shows
why `TimelySpec` is assumed.

The other half of the account is `SlotsDoNotLeak`: `TimelySpec => []NoSlotLeaks`, if moreover no client
dies and no job is discarded (`SlotsGivenBack`), both of which take their slot along until the
semaphore expires. `Accounted` adds to the invariant that as long as no worker has died, the
cleaners rest, and the value of each semaphore and the slots in use make up at least the
limit. Here each step that takes a slot out of use has to give it back or to pass it on:
the steps of a wait, the end of a job, the release of a blocked one and the signal are
followed one by one (`WaitIsUsed`, `EndIsUsed`, `ReleaseIsUsed`, `SignalIsCounted`).

`RefinementProofs` proves `JobsImplementTaskQueue`: `TimelySpec => ImplementsTaskQueue`, under the
same assumptions as `SlotsInvariant`; the limit is part of the abstract queue, so that it takes
`TimelySpec`, too. `Status` reads the status of a task from three of the rows of a job; an
action that changes one of them changes the status of one job, along an arrow of
`TaskQueue`, and the others stutter. The one step that needs an argument is the claim: the jobs
that are being performed, and the one that is about to be, all hold a slot, so that
there are fewer of them than the limit (`ClaimFindsSlot`).

`PoolProofs` proves, for any number of jobs, threads and relations:

* `PoolTypes`, `PoolCounter`, `PoolBound`: `PoolTypeOK`, `CounterExact` and `WithinPool` in every
  environment. `PoolInv` adds that the threads at work, the futures in the queue and
  the job between `submit`'s two steps are the ones the counter has been lowered for
  (`ThreadsCounted`), that a batch fits what was idle when it was claimed (`BatchFits`),
  and that the places a job can be in are apart (`JobsApart`);
* `WakeUps`, `StopWakesUp`: `NoLostWakeUp` and `StopInterruptsSleep`, assuming `FreshPipe = FALSE`:
  once a worker has slept there is one pipe (`OnePipe`), and whatever should end its sleep - an
  idle thread, a stop, the loss of the registration - has a byte in it, or a thread on its
  way to write one (`WakeUpComes`). `FirstSleep`
  shows why the assumption is needed.

`SupervisorsProofs` proves, for any number of supervisors:

* `SupervisorsTypes`, `RowsEnd`, `PrunersSpareThemselves`: `SupervisorsTypeOK`, `NoRowAfterwards`,
  `SparesItself` in every environment. A row exists only while the attribute refers to it,
  and stays while a heartbeat has it locked (`RowsOwned`): that is why `save` never inserts;
* `OneSupervisor`, `FileIsRight`: `AtMostOneSupervisor` and `FileNamesTheRunning`, assuming
  `OneAtATime`: nobody starts a supervisor while another one starts or stops, or signals one
  during its check. The strengthening says who can be where at the same time (`Apart`) and what the
  file holds in each phase (`FileInPhase`). `TwoStarts` and `TermInCheck` show why
  the assumption is needed.

`TreeProofs` proves, for any number of slots and pids and in every environment:

* `TreeTypeCorrect`: `Spec => []TreeTypeOK`;
* `RegistryInvariant`: `Spec => []RegistryConsistent`;
* `ReapedForksAreHandled`: `Spec => []ReapedForksHoldNoClaims`.

`ReapedForksHoldNoClaims` has two exceptions, which are those of the code: a row that has
lost its supervisor, and the one fork whose follow-up is going on or was cut short by an
error or a kill between `waitpid` and the end of `handle_claimed_jobs_by`
(`supervisor.py:133`, `176`). In the second case the claims go with the deregistration of a
supervisor that leaves, so that there are none when it has exited; those of a killed one wait
for somebody's maintenance. The property is not inductive: `ReapTerminated` asks for a
follow-up only on an exit status above zero, and `handle_claimed_jobs_by` only finds
supervisees of a registered supervisor. `RegistryConsistent` says why this is
enough: a fork that exits with status zero has deregistered, and so has no claims;
one with claims was killed, and its status is 1; a row that refers to a supervisor
refers to one that is registered, so that `lost` never hides a supervised row; and one fork
is followed up at a time, by a supervisor that has not shut down.

`RecurringProofs` proves, for any number of schedulers and any horizon:

* `RecurringTypeCorrect`: `Spec => []RecurringTypeOK`;
* `EnqueuedOnce`: `Spec => []AtMostOncePerRun`, assuming `TasksAreKept`: every
  scheduler has the task. The strengthening, `RecordsAgree`, says that the record of a
  run and its job exist together. `OtherConfiguration.cfg` shows why the assumption is
  needed;
* `OneTimer`: `Spec => []OneTimerPerTask`, in every environment. That a scheduler has no two
  timers depends on the next timer being later than all others (`Chained`): a
  callback runs no earlier than its instant, and starts a timer for a later one.

`PollingProofs` proves, for any number of jobs, queues, dispatchers and workers, any batch
size and number of threads:

* `JobsAreNeitherLostNorTwice`, `BatchesMoveJobs`, `BatchesAreDispatchedInOrder`:
  `NeitherLostNorTwice`, `DispatchingMoves` and `DispatchedInOrder`, assuming `Hazards = {}`: rows are
  added before they fall due, and no dispatcher dies while another one is within its own
  batch, to which the rollback would give rows. (It may die while no other is.)
  `LostBatch` and `RolledBack` show why both are assumed;
* `PollingIsTyped`, `OnlyOpenAndNamedQueuesAreClaimed`: `PollingTypeOK` and
  `PausedOrForeignUntouched` in every environment, assuming `NamesAreYielded`;
* `ListsAreFollowed`: `FollowsTheList`, assuming `NamesAreYielded`, `OrderIsYielded` and `Hazards = {}`.

The inductive invariant of the first three, `BatchInv`, says that the rows locked by a
dispatcher are the first `BatchSize` of those that were due when it looked at the clock and
that no other has locked, however often it reads them (`ReadingsAgree`): another
dispatcher takes rows that are not among them, and those it deletes were its own; a
worker changes nothing of it; a new row is due later. This rests on four lemmas about the first
elements of a set of numbers (`First`): they are below the others, there are enough of them
if there are others, never too many, and they stay the first when others go.

That of the other three, `PollInv`, follows a poll: the queues it has yet to look up are named by the list,
and those it has looked up have not been paused since the poll began. `OrderInv` adds that the queue
of a job that waits since the poll began is ahead of all queues listed later. That
claiming keeps this needs the lemmas again: while the limit is not used up, the queue whose turn
it was is empty. That a job does not come back to the ready table in between comes
from `BatchInv`.

`NamesAreYielded` and `OrderIsYielded` say of the selector's result what the polls rely on: it
contains queues the list names, those with jobs before all that are listed later. For a worker
that polls everything this is proved (`EverythingIsYielded`). For other lists the selector is a
recursion over the list, which the provers cannot follow; TLC evaluates both, for all lists of up to
three entries, exact, prefixes of any sets of the three queues, ignored or `"*"`, and
all sets of queues with jobs (`SelectorOK` in `MCPolling`).

Only model-checked: the liveness properties, which are out of the prover's reach, as is
whatever needs `ENABLED`, and what the selector computes for lists without `"*"`.

## Where the code and its documentation disagree

Two are runs; the findings in `PROJECT.json` quote the documentation.

| Run | What happens |
|---|---|
| `LostBatch` | a job whose row is committed between two readings of a batch, after it has fallen due, loses its scheduled row and gets no ready one: nothing finds it again |
| `NamedQueues` | a promoted job has a blank queue name; a worker of named queues never selects it |

The counterexamples of these configurations show more, and delimit the environments in
which the runs above hold (`tlc -config StaleExpiry.cfg MCJobs.tla`, and so on):

| Configuration | Violated | What happens |
|---|---|---|
| `ChildExit` (`MCTree`) | `PidfileWhileSupervising` | a fork that ends runs `Supervisor.shutdown` and deletes the supervisor's pid file (`supervisor.py:92`), against `README.md:481` |
| `EarlyRun` (`MCRecurring`) | `RunsOnTime` | the clock passes an instant between the two calls of `next_time` (`recurring_schedule.py:71`): a run is skipped, and the next one enqueued a period early, against `README.md:756` |
| `RolledBack` (`MCPolling`) | `DispatchingMoves` | a dispatcher that dies gives its locks back between two readings of another one's batch, which then deletes rows it has not dispatched, as in `LostBatch` |
| `OverlappingQueues` (`MCPolling`) | `PollingCatchesUp` | a list with an exact name that a prefix before it has matched (`["real*", "real_1"]`) raises `ValueError` in every poll that finds such a job beside another (`queue_selector.py:106`) |
| `TwoStarts` (`MCSupervisors`) | `AtMostOneSupervisor` | two supervisors start after one was killed; the second deletes the pid file the first has just created (`pidfile.py:29`), against `README.md:481` |
| `TermInCheck` (`MCSupervisors`) | `FileNamesTheRunning` | a second supervisor that gets a TERM while it checks deletes the pid file of the first (`pidfiled.py:20`, `pidfiled.py:25`) |
| `KillInWrite` (`MCSupervisors`) | `LeftoversAreCleared` | an empty pid file makes every later start fail with a `ValueError` (`pidfile.py:21`) |
| `DuplicateOnShutdown` (`MCJobs`) | `NoDuplicateExecution` | `Worker.shutdown` requeues the jobs its threads are performing (`worker.py:59`); another worker performs them again, against `tests/stress_test.py:12` |
| `StaleExpiry` (`MCJobs`) | `LimitRespected` | a semaphore read as expired is taken and then deleted by id (`dispatcher.py:92`); two jobs of limit 1 run at once, against `README.md:551` |
| `RetryBlocked` (`MCJobs`) | `RetriedIsNotFailed` | `retry_all` of a job that gets blocked leaves its failed execution (`executable.py:36`), against `README.md:649` |
| `DeletingLimited` (`MCJobs`) | `CompletionSucceeds` | without preservation of finished jobs, finishing a limited job raises (`concurrency_controls.py:62`), and the job fails, against `docs/configuration.rst:196` |
| `FirstSleep` (`MCPool`) | `StopInterruptsSleep` | a signal while the main thread makes the pipe of its first sleep makes another pipe (`interruptible.py:41`, a `cached_property` without a lock); the sleep is not interrupted, against `interruptible.py:16` |
| `ClosedPipe` (`MCPool`) | `NoStrayWrites` | a pool thread that outlives the worker's loop writes to the number of the closed pipe, which another file may have got, against `interruptible.py:38` |
| `OtherConfiguration` (`MCRecurring`) | `AtMostOncePerRun` | a scheduler that lacks a task deletes its row and the records of its runs (`recurring_schedule.py:46`); another one enqueues a run again, against `README.md:762` |

What `ChildExit` shows has further effects in the model. The same inherited `shutdown`
deregisters the supervisor and the other forks, whose claimed jobs are requeued while
their threads go on; replacements that refer to the deleted row fail with an
integrity error until the supervisor's next heartbeat sets `process` to `None`; those
started later have no supervisor, so they are not followed up on when they die
(pruning gets their claims, `ClaimsSettle`) and need not end with it
(`SignalsEndTheTree` is about forks that were given a supervisor).

Met while reading, without a run: blocked rows have priority 0, so jobs are unblocked
in the order of their ids (against `README.md:637`); a QUIT that arrives while
`terminate_gracefully` waits is handled only after the wait; `concurrency_group` is
never part of the key (`concurrency.py:22`, against `README.md:548`); the increment tests `value <= limit`
(`semaphore.py:87`), harmless as long as signals and waits are paired
(`SlotsConserved`); a receiver of `task_finished` that raises makes a finished job
also failed (`claimed_execution.py:94`); a client that dies between the insert of a job
and that of its execution leaves a job that nothing finds (`executable.py:128`); an
error of deserialization leaves the claimed row in place for as long as the worker
lives (`claimed_execution.py:81`), against `tests/stress_test.py:10`.

## What is not modelled, and the plan

What the first plan listed is done. Worth doing next:

1. Workers and dispatchers with a `TimerTask` of their own: a worker's heartbeat that clears
   `process` between the claim's `process_id` and its insert, and the maintenance of a
   dispatcher that goes on after its stop. `Supervisors` has this race for a supervisor.
2. `enqueue_all` and the batches of `retry_all`, where some of several jobs are blocked and
   some are not; `JobLifecycle` retries one job at a time.
3. A `shutdown_timeout` of zero in `SupervisorTree`, which `wait_until` takes as no limit.

Not planned: configuration, serialization of arguments, the backend's translation of
the task API, the admin, migrations and database plumbing have no state that the
concurrent parts read, or only display it. `clear_finished_in_batches` and the other
retention helpers have no caller.
