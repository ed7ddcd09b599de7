------------------------ MODULE RecurringProperties ------------------------
(***************************************************************************)
(* What the schedulers of a recurring task must guarantee.                 *)
(***************************************************************************)
EXTENDS RecurringSchedule

(* "To avoid enqueueing duplicate tasks at the same time [...]; the        *)
(* guarantee applies as long as you keep tasks around": there are never    *)
(* two jobs of a run, whichever schedulers call for it, and however late.  *)
AtMostOncePerRun == \A r \in Runs : jobs[r] <= 1

(* "Tasks are enqueued at their corresponding times."                      *)
RunsOnTime == \A r \in Runs : jobs[r] > 0 => r <= now

(* The timers that a scheduler waits for, or is about to start.            *)
Ticking(s) == {d \in Timers : call[s][d].at \in {"armed", "called", "delayed"}}

HasTask(s) == handle[s] # 0 \/ call[s][0].at # "none"

(* "Each task schedules the next one": a scheduler that has loaded the     *)
(* task always has a next call, also when a run could not be enqueued; and *)
(* it never has two, not even when it stops in the middle of a callback.   *)
OneTimerPerTask ==
  \A s \in Schedulers :
    /\ \A d, e \in Ticking(s) : d = e
    /\ phase[s] = "running" /\ HasTask(s) => Ticking(s) # {}

(* The run for which a timer was armed is enqueued when it is due, by this *)
(* scheduler or another, unless its scheduler ends before - also after an  *)
(* earlier run that could not be enqueued.                                 *)
Armed(s, r) == \E d \in 1..Horizon : call[s][d].at = "armed" /\ call[s][d].run = r

ArmedRunsAreEnqueued ==
  \A s \in Schedulers, r \in Runs \ Failing :
    Armed(s, r) ~> (jobs[r] > 0 \/ phase[s] # "running")

(* Time passes and threads go on.                                          *)
FairRecurring ==
  /\ Spec
  /\ WF_vars(Tick)
  /\ \A s \in Schedulers, d \in Timers : WF_vars(TimerStep(s, d))
=============================================================================
