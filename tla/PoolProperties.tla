--------------------------- MODULE PoolProperties ---------------------------
(***************************************************************************)
(* What a worker's loop and pool must guarantee, and the fairness it takes.*)
(***************************************************************************)
EXTENDS WorkerPool

Looping == main \notin {"shutPool", "shutPipe", "deregister", "done"}

Occupied == {t \in Threads : thread[t].at \in {"performing", "ended"}}

(* The counter of available threads is exact at every step of the loop and *)
(* of the threads: nothing that is posted, raises or ends leaks a thread,  *)
(* and none is given back twice.                                           *)
CounterExact ==
  Looping =>
    available = Size - Cardinality(queue) - Cardinality(Occupied)
                     - (IF main = "submit" THEN 1 ELSE 0)

(* "Each worker will fetch this number of tasks from their queue(s), at    *)
(* most": what the worker has claimed and not ended fits its threads, so   *)
(* that no job waits in one worker while another has threads to spare.     *)
WithinPool ==
  Cardinality(batch) + Cardinality(queue) + Cardinality(Performing)
    + (IF posting = NoJob THEN 0 ELSE 1) <= Size

(* No wake-up is lost: while the main thread sleeps for ten minutes with a *)
(* thread available, its pipe has something to read, or the thread that    *)
(* was made available is about to write there.                             *)
NoLostWakeUp ==
  main = "select" /\ delay = "long" /\ available > 0 =>
    \/ sleepsOn \in bytes
    \/ \E t \in Threads : thread[t].at \in {"idle", "waking"}

(* "Sleep for the given duration, but can be interrupted by signals": a    *)
(* worker that was told to stop has something to read in the pipe it       *)
(* sleeps on; one that lost its registration has, or its heartbeat thread  *)
(* is on the way to write there.                                           *)
StopInterruptsSleep ==
  main = "select" =>
    /\ stopped => sleepsOn \in bytes
    /\ ~registered => sleepsOn \in bytes \/ waker[HeartbeatThread].at # "no"

(* The writes of wake_up go to the pipe, or nowhere.                       *)
NoStrayWrites == ~stray

(* A job that stays ready while a thread is available makes the worker     *)
(* claim, without a wait for the end of the long sleep.                    *)
IdleThreadsAreUsed ==
  \A j \in Jobs :
    (j \in ready /\ available > 0) ~> (batch # {} \/ j \notin ready \/ ~Looping)

(* A worker that is asked to stop, or that has lost its registration,      *)
(* leaves its loop without a wait for the end of the long sleep.           *)
StopsAtOnce == IsShuttingDown ~> main = "done"
-----------------------------------------------------------------------------
(***************************************************************************)
(* The inductive invariants behind CounterExact and WithinPool, and behind *)
(* NoLostWakeUp and StopInterruptsSleep.                                   *)
(***************************************************************************)
Posted == IF posting = NoJob THEN 0 ELSE 1

InUse == available + Cardinality(queue) + Cardinality(Occupied) + Posted

(* Every thread is available, or in use for a job posted or performed.     *)
ThreadsCounted ==
  /\ InUse <= Size
  /\ Looping => InUse = Size /\ (posting # NoJob <=> main = "submit")

(* What is claimed, and may yet be, fits the available threads.            *)
BatchFits ==
  /\ Cardinality(batch) + (IF main = "claim" THEN limit ELSE 0) <= available
  /\ Looping /\ batch # {} => main \in {"claim", "post", "submit"}

(* A job is in one place on its way through the pool.                      *)
JobsApart ==
  Looping =>
    /\ claims \cap ready = {}
    /\ batch \cup queue \cup Performed \subseteq claims
    /\ batch \cap (queue \cup Performed) = {} /\ queue \cap Performed = {}
    /\ posting # NoJob => posting \in claims \ (batch \cup queue \cup Performed)
    /\ \A t, u \in Performing : thread[t].job = thread[u].job => t = u

(* A thread that wakes the worker up is calling wake_up, and who has come  *)
(* to the write there has a pipe.                                          *)
WakersWake ==
  /\ \A t \in Threads : thread[t].at = "waking" <=> waker[t].at # "no"
  /\ \A a \in Wakers : waker[a].at \in {"made", "write"} => waker[a].pipe # NoPipe

PoolInv == PoolTypeOK /\ WakersWake /\ ThreadsCounted /\ BatchFits /\ JobsApart

(* With the pipe made before the first sleep, everybody uses that one.     *)
OnePipe ==
  /\ pipe = MainThread
  /\ Looping => closed = NoPipe
  /\ main # "made" /\ (main \in {"select", "drain"} => sleepsOn = MainThread)
  /\ \A a \in Wakers : /\ waker[a].at # "made"
                       /\ waker[a].at = "write" => waker[a].pipe = MainThread

Sleeping == main \in {"sleep", "select"}

WakeUpComes ==
  /\ Sleeping /\ delay = "long" /\ available > 0 =>
       pipe \in bytes \/ \E t \in Threads : thread[t].at \in {"idle", "waking"}
  /\ Looping /\ main \notin {"check", "drain"} =>
       /\ stopped => pipe \in bytes
       /\ ~registered => pipe \in bytes \/ waker[HeartbeatThread].at # "no"

PipeInv == OnePipe /\ WakeUpComes
-----------------------------------------------------------------------------
(* Threads go on, and the short sleep ends.  The long one need not, and    *)
(* neither does a task.                                                    *)
PoolFairness ==
  /\ WF_vars(MainStep)
  /\ WF_vars(WakerStep(HeartbeatThread))
  /\ \A t \in Threads : WF_vars(ThreadStep(t))

FairPool == Spec /\ PoolFairness
=============================================================================
