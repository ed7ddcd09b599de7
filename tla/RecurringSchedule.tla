------------------------- MODULE RecurringSchedule -------------------------
(***************************************************************************)
(* The schedulers of one recurring task: the timers by which each          *)
(* scheduler calls itself back for the next run, and the record of runs    *)
(* that they share (steady_queue/recurring_schedule.py,                    *)
(* models/recurring_task.py, models/recurring_execution.py,                *)
(* processes/scheduler.py).                                                *)
(*                                                                         *)
(* The clock counts the instants at which the crontab is due; between two  *)
(* ticks any number of steps happen.  A run is named by its instant.       *)
(* Other tasks have timers and records of their own.                       *)
(***************************************************************************)
EXTENDS Integers

CONSTANTS
  Schedulers,
  Configured, \* the schedulers whose configuration has the task
  Horizon,    \* bound: the clock stops here
  Failing,    \* the runs of which the enqueueing may raise
  Stoppable,  \* the schedulers that may be asked to stop (TERM)
  Hazards     \* the environment events of this instance

Runs == 1..(Horizon + 1)

ASSUME RecurringConstantsOK ==
  /\ Configured \subseteq Schedulers
  /\ Horizon \in Nat
  /\ Failing \subseteq Runs
  /\ Stoppable \subseteq Schedulers
  /\ Hazards \subseteq {"kill", "clear"}

(* A timer is named by the instant at which it is due; 0 stands for the    *)
(* main thread, which makes the first call of schedule_task.               *)
Timers == 0..(Horizon + 1)

VARIABLES
  now,      \* the clock
  taskRow,  \* does the task's row exist?
  recorded, \* the runs with a recurring execution
  jobs,     \* how many jobs there are of each run
  phase,    \* how far each scheduler has come
  handle,   \* its entry in scheduled_tasks: the timer stored last, 0 if none
  call      \* what each of its timers does, or waits for

vars == <<now, taskRow, recorded, jobs, phase, handle, call>>

Idle == [at |-> "none", run |-> 0, next |-> 0]

NoCalls == [d \in Timers |-> Idle]

CallType == [at : {"none", "armed", "called", "delayed", "started", "scheduled"},
             run : Runs \cup {0}, next : Timers]

(* What timer d may be doing: only a callback has a run.                   *)
CallOK(d, c) ==
  /\ IF d = 0 THEN c.at \in {"none", "called", "delayed", "started"}
              ELSE c.at # "none" => c.run \in Runs
  /\ c.at \in {"delayed", "started"} => c.next \in Runs

RecurringTypeOK ==
  /\ now \in 0..Horizon
  /\ taskRow \in BOOLEAN
  /\ recorded \subseteq Runs
  /\ jobs \in [Runs -> Nat]
  /\ phase \in [Schedulers -> {"down", "boot", "pruned", "persisted", "running", "stopped"}]
  /\ handle \in [Schedulers -> Timers]
  /\ call \in [Schedulers -> [Timers -> CallType]]
  /\ \A s \in Schedulers, d \in Timers : CallOK(d, call[s][d])
-----------------------------------------------------------------------------
(***************************************************************************)
(* Booting.                                                                *)
(***************************************************************************)
Boot(s) ==
  /\ phase[s] = "down"
  /\ phase' = [phase EXCEPT ![s] = "boot"]
  /\ UNCHANGED <<now, taskRow, recorded, jobs, handle, call>>

(* persist_tasks deletes the static tasks that are not in this scheduler's *)
(* configuration, and with them the records of their runs, ...             *)
PersistDelete(s) ==
  /\ phase[s] = "boot"
  /\ phase' = [phase EXCEPT ![s] = "pruned"]
  /\ IF s \in Configured THEN UNCHANGED <<taskRow, recorded>>
                         ELSE taskRow' = FALSE /\ recorded' = {}
  /\ UNCHANGED <<now, jobs, handle, call>>

(* ... then creates or updates its own.                                    *)
PersistCreate(s) ==
  /\ phase[s] = "pruned"
  /\ phase' = [phase EXCEPT ![s] = "persisted"]
  /\ taskRow' = (taskRow \/ s \in Configured)
  /\ UNCHANGED <<now, recorded, jobs, handle, call>>

(* reload_tasks: only tasks whose row is still there are scheduled.        *)
Reload(s) ==
  /\ phase[s] = "persisted"
  /\ phase' = [phase EXCEPT ![s] = "running"]
  /\ call' = IF s \in Configured /\ taskRow
               THEN [call EXCEPT ![s][0].at = "called"] ELSE call
  /\ UNCHANGED <<now, taskRow, recorded, jobs, handle>>
-----------------------------------------------------------------------------
(***************************************************************************)
(* Timers.                                                                 *)
(***************************************************************************)
(* Mutant: the present instant counts.                                     *)
ThisTime == now

(* RecurringTask.next_time: the first instant after the present one.       *)
NextTime == now + 1

(* schedule evaluates delay_from_now ...                                   *)
ReadDelay(s, d) ==
  /\ call[s][d].at = "called"
  /\ call' = [call EXCEPT ![s][d].at = "delayed", ![s][d].next = NextTime]
  /\ UNCHANGED <<now, taskRow, recorded, jobs, phase, handle>>

(* ... and next_time again, for the run; the timer starts, ...             *)
StartTimer(s, d) ==
  /\ call[s][d].at = "delayed"
  /\ call' = [call EXCEPT ![s][d].at = "started",
                          ![s][call[s][d].next] =
                             [at |-> "armed", run |-> NextTime, next |-> 0]]
  /\ UNCHANGED <<now, taskRow, recorded, jobs, phase, handle>>

(* ... and schedule_task stores its handle in the place of the last one,   *)
(* which may be that of a later timer, if this one has already fired.      *)
StoreHandle(s, d) ==
  /\ call[s][d].at = "started"
  /\ handle' = [handle EXCEPT ![s] = call[s][d].next]
  /\ call' = [call EXCEPT ![s][d] =
                  IF d = 0 THEN Idle ELSE [@ EXCEPT !.at = "scheduled", !.next = 0]]
  /\ UNCHANGED <<now, taskRow, recorded, jobs, phase>>

(* Mutant: the callback does not schedule the next run.                    *)
EnqueueOnly == "scheduled"

(* The callback schedules the next run first, whatever becomes of this one.*)
CallbackStart == "called"

Fire(s, d) ==
  /\ call[s][d].at = "armed" /\ d <= now
  /\ call' = [call EXCEPT ![s][d].at = CallbackStart]
  /\ UNCHANGED <<now, taskRow, recorded, jobs, phase, handle>>

(* Mutant: the record is not unique.                                       *)
NotUnique(r) == ~taskRow

(* Mutant: only runs later than the last one enqueued are new.             *)
NotTheLatest(r) == ~taskRow \/ \E q \in recorded : r <= q

(* RecurringExecution.AlreadyRecorded: the insert is refused by the unique *)
(* constraint, or since the task is gone.                                  *)
AlreadyRecorded(r) == ~taskRow \/ r \in recorded

(* enqueue_and_record, a transaction that is rolled back when the record   *)
(* is refused.                                                             *)
Enqueue(s, d) ==
  /\ call[s][d].at = "scheduled"
  /\ LET r == call[s][d].run IN
     IF AlreadyRecorded(r) THEN UNCHANGED <<recorded, jobs>>
     ELSE /\ recorded' = recorded \cup {r}
          /\ jobs' = [jobs EXCEPT ![r] = @ + 1]
  /\ call' = [call EXCEPT ![s][d] = Idle]
  /\ UNCHANGED <<now, taskRow, phase, handle>>

(* Another error ends the timer's thread.                                  *)
EnqueueFails(s, d) ==
  /\ call[s][d].at = "scheduled" /\ call[s][d].run \in Failing
  /\ call' = [call EXCEPT ![s][d] = Idle]
  /\ UNCHANGED <<now, taskRow, recorded, jobs, phase, handle>>
-----------------------------------------------------------------------------
(***************************************************************************)
(* The end of a scheduler.                                                 *)
(***************************************************************************)
(* unschedule_tasks cancels the timers in scheduled_tasks, which has no    *)
(* effect on one whose callback has begun, and clears it.                  *)
Unschedule(s) ==
  /\ s \in Stoppable
  /\ phase[s] = "running" /\ call[s][0].at = "none"
  /\ phase' = [phase EXCEPT ![s] = "stopped"]
  /\ call' = IF call[s][handle[s]].at = "armed"
               THEN [call EXCEPT ![s][handle[s]] = Idle] ELSE call
  /\ handle' = [handle EXCEPT ![s] = 0]
  /\ UNCHANGED <<now, taskRow, recorded, jobs>>

(* The interpreter waits for the threads of timers, also of those that a   *)
(* late callback has started.                                              *)
Exit(s) ==
  /\ phase[s] = "stopped" /\ call[s] = NoCalls
  /\ phase' = [phase EXCEPT ![s] = "down"]
  /\ handle' = [handle EXCEPT ![s] = 0]
  /\ UNCHANGED <<now, taskRow, recorded, jobs, call>>

(* The process is killed, perhaps by the supervisor after its timeout.     *)
Kill(s) ==
  /\ "kill" \in Hazards
  /\ phase[s] # "down"
  /\ phase' = [phase EXCEPT ![s] = "down"]
  /\ handle' = [handle EXCEPT ![s] = 0]
  /\ call' = [call EXCEPT ![s] = NoCalls]
  /\ UNCHANGED <<now, taskRow, recorded, jobs>>
-----------------------------------------------------------------------------
(* A job of run r is deleted, and with it the record that refers to it.    *)
ClearJob(r) ==
  /\ "clear" \in Hazards
  /\ jobs[r] > 0
  /\ jobs' = [jobs EXCEPT ![r] = @ - 1]
  /\ recorded' \in {recorded \ {r}} \cup (IF jobs[r] > 1 THEN {recorded} ELSE {})
  /\ UNCHANGED <<now, taskRow, phase, handle, call>>

Tick ==
  /\ now < Horizon
  /\ now' = now + 1
  /\ UNCHANGED <<taskRow, recorded, jobs, phase, handle, call>>

Init ==
  /\ now = 0 /\ taskRow = FALSE /\ recorded = {}
  /\ jobs = [r \in Runs |-> 0]
  /\ phase = [s \in Schedulers |-> "down"]
  /\ handle = [s \in Schedulers |-> 0]
  /\ call = [s \in Schedulers |-> NoCalls]

TimerStep(s, d) ==
  \/ ReadDelay(s, d) \/ StartTimer(s, d) \/ StoreHandle(s, d)
  \/ Fire(s, d) \/ Enqueue(s, d)

BootStep(s) == Boot(s) \/ PersistDelete(s) \/ PersistCreate(s) \/ Reload(s)

Next ==
  \/ Tick
  \/ \E r \in Runs : ClearJob(r)
  \/ \E s \in Schedulers :
       \/ BootStep(s) \/ Unschedule(s) \/ Exit(s) \/ Kill(s)
       \/ \E d \in Timers : TimerStep(s, d) \/ EnqueueFails(s, d)

Spec == Init /\ [][Next]_vars
=============================================================================
