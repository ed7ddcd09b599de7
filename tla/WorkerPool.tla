----------------------------- MODULE WorkerPool -----------------------------
(***************************************************************************)
(* One worker process: the poll loop of its main thread, its thread pool   *)
(* with the counter of available threads, and the pipe by which pool       *)
(* threads, the heartbeat and signals interrupt the loop's sleep           *)
(* (steady_queue/processes/worker.py, pool.py, poller.py,                  *)
(* interruptible.py).                                                      *)
(*                                                                         *)
(* Members of Jobs are names for jobs that come and go: one that is done   *)
(* may arrive again, as another job.  Other workers take ready jobs too.   *)
(* What becomes of a job's rows in detail is in JobLifecycle.              *)
(***************************************************************************)
EXTENDS Integers, FiniteSets

CONSTANTS
  Jobs,
  Threads,      \* the pool's threads
  Relations,    \* how many relations the queue selector yields
  RelationOf,   \* the one in which a job is found
  FreshPipe,    \* the worker has never slept: its pipe is not made yet
  Hazards       \* the environment events of this instance

(* The actors, besides the pool's threads, that use the pipe.              *)
CONSTANTS MainThread, Handler, HeartbeatThread, NoPipe, NoJob

Wakers == Threads \cup {HeartbeatThread}

Actors == Wakers \cup {MainThread, Handler}

Size == Cardinality(Threads)

ASSUME PoolConstantsOK ==
  /\ IsFiniteSet(Jobs) /\ IsFiniteSet(Threads)
  /\ Relations \in Nat /\ RelationOf \in [Jobs -> 1..Relations]
  /\ FreshPipe \in BOOLEAN
  /\ Hazards \subseteq {"TERM", "deregistered", "error", "opensFiles"}
  /\ MainThread \notin Wakers \cup {Handler} /\ Handler \notin Wakers
  /\ HeartbeatThread \notin Threads /\ NoPipe \notin Actors /\ NoJob \notin Jobs

VARIABLES
  main,       \* where the main thread is
  stopped,    \* it was asked to stop
  registered, \* its process attribute is not None
  limit,      \* in claim: how many executions may still be claimed (0 elsewhere)
  relation,   \* in claim: the relation to look at (1 elsewhere)
  batch,      \* claimed executions not posted yet
  posting,    \* the execution in Pool.post
  delay,      \* what poll returned: "short" (polling_interval) or "long" (10 minutes)
  available,  \* Pool.available_threads
  ready,      \* jobs with a ready execution
  claims,     \* jobs with an execution claimed by this process
  queue,      \* futures submitted and not begun
  thread,     \* what each pool thread does, for which job
  pipe,       \* the cached self_pipe, named after who made it
  bytes,      \* the pipes with something to read
  sleepsOn,   \* the pipe the main thread selects on
  waker,      \* how far a call of wake_up has come, and its pipe
  closed,     \* the pipe that was closed
  reused,     \* the descriptor of the closed pipe's write end is in use again
  stray       \* somebody has written into that

jobVars == <<ready, claims, queue, batch, posting>>
loopVars == <<limit, relation, delay>>
pipeVars == <<pipe, bytes, sleepsOn, waker, closed, reused, stray>>
vars == <<main, stopped, registered, loopVars, available, jobVars, thread, pipeVars>>

NotWaking == [at |-> "no", pipe |-> NoPipe]

FreeThread == [at |-> "free", job |-> NoJob]

PoolTypeOK ==
  /\ main \in {"check", "poll", "claim", "post", "submit", "sleep", "made", "select",
               "drain", "shutPool", "shutPipe", "deregister", "done"}
  /\ stopped \in BOOLEAN /\ registered \in BOOLEAN
  /\ limit \in 0..Size /\ relation \in 1..(Relations + 1)
  /\ delay \in {"short", "long"}
  /\ available \in 0..Size
  /\ ready \subseteq Jobs /\ claims \subseteq Jobs /\ queue \subseteq Jobs
  /\ batch \subseteq Jobs /\ posting \in Jobs \cup {NoJob}
  /\ thread \in [Threads -> [at : {"free", "performing", "ended", "idle", "waking"},
                             job : Jobs \cup {NoJob}]]
  /\ pipe \in Actors \cup {NoPipe} /\ sleepsOn \in Actors \cup {NoPipe}
  /\ bytes \subseteq Actors
  /\ waker \in [Wakers -> [at : {"no", "access", "made", "write"},
                           pipe : Actors \cup {NoPipe}]]
  /\ closed \in Actors \cup {NoPipe}
  /\ reused \in BOOLEAN /\ stray \in BOOLEAN

Performing == {t \in Threads : thread[t].at = "performing"}

Performed == {thread[t].job : t \in Performing}
-----------------------------------------------------------------------------
(***************************************************************************)
(* The jobs of the outside world.                                          *)
(***************************************************************************)
Arrive(j) ==
  /\ j \notin ready \cup claims \cup Performed
  /\ ready' = ready \cup {j}
  /\ UNCHANGED <<main, stopped, registered, loopVars, available, claims, queue, batch,
                 posting, thread, pipeVars>>

TakenByOther(j) ==
  /\ j \in ready
  /\ ready' = ready \ {j}
  /\ UNCHANGED <<main, stopped, registered, loopVars, available, claims, queue, batch,
                 posting, thread, pipeVars>>
-----------------------------------------------------------------------------
(***************************************************************************)
(* The poll loop.                                                          *)
(***************************************************************************)
IsShuttingDown == stopped \/ ~registered

Check ==
  /\ main = "check"
  /\ main' = IF IsShuttingDown THEN "shutPool" ELSE "poll"
  /\ UNCHANGED <<stopped, registered, loopVars, available, jobVars, thread, pipeVars>>

(* claim_executions reads pool.idle_threads, then the process id, without  *)
(* which claim returns nothing.                                            *)
ReadIdleThreads ==
  /\ main = "poll"
  /\ main' = "claim"
  /\ limit' = IF registered THEN available ELSE 0
  /\ UNCHANGED <<stopped, registered, relation, delay, available, jobVars, thread, pipeVars>>

(* Mutant: every relation is claimed from up to the whole limit.           *)
SameLimit(claimed) == limit

(* limit -= len(locked)                                                    *)
LimitAfter(claimed) == limit - Cardinality(claimed)

(* select_and_lock on the next relation.                                   *)
ClaimFrom ==
  /\ main = "claim" /\ relation <= Relations
  /\ LET candidates == {j \in ready : RelationOf[j] = relation} IN
     \E claimed \in SUBSET candidates :
       /\ Cardinality(claimed) <= limit
       /\ claimed = candidates \/ Cardinality(claimed) = limit
       /\ ready' = ready \ claimed
       /\ claims' = claims \cup claimed
       /\ batch' = batch \cup claimed
       /\ limit' = LimitAfter(claimed)
  /\ relation' = relation + 1
  /\ UNCHANGED <<main, stopped, registered, delay, available, queue, posting, thread, pipeVars>>

Claimed ==
  /\ main = "claim" /\ relation > Relations
  /\ main' = "post"
  /\ limit' = 0 /\ relation' = 1
  /\ UNCHANGED <<stopped, registered, delay, available, jobVars, thread, pipeVars>>

(* Pool.post takes a thread off the counter, then submits the execution.   *)
PostDecrement ==
  /\ main = "post"
  /\ \E j \in batch : posting' = j /\ batch' = batch \ {j}
  /\ available' = available - 1
  /\ main' = "submit"
  /\ UNCHANGED <<stopped, registered, loopVars, ready, claims, queue, thread, pipeVars>>

PostSubmit ==
  /\ main = "submit"
  /\ queue' = queue \cup {posting}
  /\ posting' = NoJob
  /\ main' = "post"
  /\ UNCHANGED <<stopped, registered, loopVars, available, ready, claims, batch, thread, pipeVars>>

(* Mutant: the pool counts as idle with two threads to spare only.         *)
IsIdleOffByOne == available > 1

IsIdle == available > 0

PollReturns ==
  /\ main = "post" /\ batch = {}
  /\ delay' = IF IsIdle THEN "short" ELSE "long"
  /\ main' = "sleep"
  /\ UNCHANGED <<stopped, registered, limit, relation, available, jobVars, thread, pipeVars>>

(* A query of the poll fails.                                              *)
PollRaises ==
  /\ "error" \in Hazards
  /\ main \in {"claim", "post", "submit"}
  /\ main' = "shutPool"
  /\ UNCHANGED <<stopped, registered, loopVars, available, jobVars, thread, pipeVars>>
-----------------------------------------------------------------------------
(***************************************************************************)
(* interruptible_sleep.  self_pipe is a cached_property: who finds nothing *)
(* cached makes a pipe, stores it, and uses the one it made.               *)
(***************************************************************************)
Sleep ==
  /\ main = "sleep"
  /\ IF pipe = NoPipe THEN main' = "made" /\ UNCHANGED sleepsOn
                      ELSE main' = "select" /\ sleepsOn' = pipe
  /\ UNCHANGED <<stopped, registered, loopVars, available, jobVars, thread, pipe, bytes,
                 waker, closed, reused, stray>>

StorePipe ==
  /\ main = "made"
  /\ pipe' = MainThread
  /\ sleepsOn' = MainThread
  /\ main' = "select"
  /\ UNCHANGED <<stopped, registered, loopVars, available, jobVars, thread, bytes, waker,
                 closed, reused, stray>>

Interrupted ==
  /\ main = "select" /\ sleepsOn \in bytes
  /\ main' = "drain"
  /\ UNCHANGED <<stopped, registered, loopVars, available, jobVars, thread, pipeVars>>

Awake == main' = "check" /\ delay' = "short" /\ sleepsOn' = NoPipe

(* The pipe that is read is the cached one; reading an empty one blocks.   *)
Drain ==
  /\ main = "drain" /\ pipe \in bytes
  /\ bytes' = bytes \ {pipe}
  /\ Awake
  /\ UNCHANGED <<stopped, registered, limit, relation, available, jobVars, thread, pipe,
                 waker, closed, reused, stray>>

TimesOut(d) ==
  /\ main = "select" /\ delay = d
  /\ Awake
  /\ UNCHANGED <<stopped, registered, limit, relation, available, jobVars, thread, pipe, bytes,
                 waker, closed, reused, stray>>
-----------------------------------------------------------------------------
(***************************************************************************)
(* The end of the loop: Worker.shutdown.                                   *)
(***************************************************************************)
ShutPool ==
  /\ main = "shutPool"
  /\ queue' = {}
  /\ main' = "shutPipe"
  /\ UNCHANGED <<stopped, registered, loopVars, available, ready, claims, batch, posting,
                 thread, pipeVars>>

ShutPipe ==
  /\ main = "shutPipe"
  /\ closed' = pipe
  /\ main' = "deregister"
  /\ UNCHANGED <<stopped, registered, loopVars, available, jobVars, thread, pipe, bytes,
                 sleepsOn, waker, reused, stray>>

(* The process's claimed executions go back to the ready table.            *)
Deregister ==
  /\ main = "deregister"
  /\ main' = "done"
  /\ IF registered THEN ready' = ready \cup claims /\ claims' = {}
                   ELSE UNCHANGED <<ready, claims>>
  /\ UNCHANGED <<stopped, registered, loopVars, available, queue, batch, posting, thread,
                 pipeVars>>
-----------------------------------------------------------------------------
(***************************************************************************)
(* Waking the main thread up.                                              *)
(***************************************************************************)
(* os.write to the pipe p.  Once p is closed the write fails, which is     *)
(* ignored - unless the number denotes another file by then.               *)
WriteTo(p) ==
  IF p = closed THEN stray' = (stray \/ reused) /\ UNCHANGED bytes
                ELSE bytes' = bytes \cup {p} /\ UNCHANGED stray

(* Mutant: the handler sets the flag and does not interrupt the sleep.     *)
SilentInterrupt == UNCHANGED <<pipe, bytes, stray>>

(* wake_up in a signal handler, which the main thread runs in one go.      *)
InterruptFromHandler ==
  LET p == IF pipe = NoPipe THEN Handler ELSE pipe IN pipe' = p /\ WriteTo(p)

(* TERM or INT: Runnable.stop in the handler.                              *)
Stop ==
  /\ "TERM" \in Hazards
  /\ ~stopped /\ main # "done"
  /\ stopped' = TRUE
  /\ InterruptFromHandler
  /\ UNCHANGED <<main, registered, loopVars, available, jobVars, thread, sleepsOn, waker,
                 closed, reused>>

(* The heartbeat finds that the process is not registered any more.        *)
LoseRegistration ==
  /\ "deregistered" \in Hazards
  /\ registered /\ main \notin {"deregister", "done"}
  /\ registered' = FALSE
  /\ waker' = [waker EXCEPT ![HeartbeatThread].at = "access"]
  /\ UNCHANGED <<main, stopped, loopVars, available, jobVars, thread, pipe, bytes,
                 sleepsOn, closed, reused, stray>>

AccessPipe(a) ==
  /\ waker[a].at = "access"
  /\ waker' = [waker EXCEPT ![a] = IF pipe = NoPipe THEN [at |-> "made", pipe |-> a]
                                                    ELSE [at |-> "write", pipe |-> pipe]]
  /\ UNCHANGED <<main, stopped, registered, loopVars, available, jobVars, thread, pipe,
                 bytes, sleepsOn, closed, reused, stray>>

CachePipe(a) ==
  /\ waker[a].at = "made"
  /\ pipe' = a
  /\ waker' = [waker EXCEPT ![a].at = "write"]
  /\ UNCHANGED <<main, stopped, registered, loopVars, available, jobVars, thread, bytes,
                 sleepsOn, closed, reused, stray>>

WritePipe(a) ==
  /\ waker[a].at = "write"
  /\ WriteTo(waker[a].pipe)
  /\ waker' = [waker EXCEPT ![a] = NotWaking]
  /\ thread' = IF a \in Threads THEN [thread EXCEPT ![a] = FreeThread] ELSE thread
  /\ UNCHANGED <<main, stopped, registered, loopVars, available, jobVars, pipe, sleepsOn,
                 closed, reused>>
-----------------------------------------------------------------------------
(***************************************************************************)
(* A pool thread: wrapped_execution.                                       *)
(***************************************************************************)
Take(t, j) ==
  /\ thread[t] = FreeThread /\ j \in queue
  /\ queue' = queue \ {j}
  /\ thread' = [thread EXCEPT ![t] = [at |-> "performing", job |-> j]]
  /\ UNCHANGED <<main, stopped, registered, loopVars, available, ready, claims, batch,
                 posting, pipeVars>>

(* perform deletes the claimed execution ...                               *)
Perform(t) ==
  /\ t \in Performing
  /\ claims' = claims \ {thread[t].job}
  /\ thread' = [thread EXCEPT ![t].at = "ended"]
  /\ UNCHANGED <<main, stopped, registered, loopVars, available, ready, queue, batch,
                 posting, pipeVars>>

(* Mutant: only a perform that returns gives its thread back.              *)
AfterError(j) == FreeThread

(* The finally of wrapped_execution is next.                               *)
Ended(j) == [at |-> "ended", job |-> j]

(* ... or raises, and leaves it: no connection, undecodable arguments.     *)
PerformRaises(t) ==
  /\ "error" \in Hazards
  /\ t \in Performing
  /\ thread' = [thread EXCEPT ![t] = Ended(thread[t].job)]
  /\ UNCHANGED <<main, stopped, registered, loopVars, available, jobVars, pipeVars>>

Increment(t) ==
  /\ thread[t].at = "ended"
  /\ available' = available + 1
  /\ thread' = [thread EXCEPT ![t] = [at |-> "idle", job |-> NoJob]]
  /\ UNCHANGED <<main, stopped, registered, loopVars, jobVars, pipeVars>>

(* Mutant: the worker is woken up only when all threads are idle.          *)
AllIdle == available = Size

WorthWaking == IsIdle

(* Under the mutex: on_idle, if the pool is idle.                          *)
CheckIdle(t) ==
  /\ thread[t].at = "idle"
  /\ \A u \in Threads : thread[u].at # "waking"
  /\ IF WorthWaking
       THEN /\ thread' = [thread EXCEPT ![t].at = "waking"]
            /\ waker' = [waker EXCEPT ![t].at = "access"]
       ELSE /\ thread' = [thread EXCEPT ![t] = FreeThread]
            /\ UNCHANGED waker
  /\ UNCHANGED <<main, stopped, registered, loopVars, available, jobVars, pipe, bytes,
                 sleepsOn, closed, reused, stray>>

(* A job that runs on after the shutdown opens a file, which gets the      *)
(* number of the closed pipe.                                              *)
OpenFile(t) ==
  /\ "opensFiles" \in Hazards
  /\ t \in Performing /\ closed # NoPipe /\ ~reused
  /\ reused' = TRUE
  /\ UNCHANGED <<main, stopped, registered, loopVars, available, jobVars, thread, pipe,
                 bytes, sleepsOn, waker, closed, stray>>
-----------------------------------------------------------------------------
Init ==
  /\ main = "check" /\ stopped = FALSE /\ registered = TRUE
  /\ limit = 0 /\ relation = 1 /\ delay = "short"
  /\ available = Size
  /\ ready = {} /\ claims = {} /\ queue = {} /\ batch = {} /\ posting = NoJob
  /\ thread = [t \in Threads |-> FreeThread]
  /\ pipe = IF FreshPipe THEN NoPipe ELSE MainThread
  /\ bytes = {} /\ sleepsOn = NoPipe
  /\ waker = [a \in Wakers |-> NotWaking]
  /\ closed = NoPipe /\ reused = FALSE /\ stray = FALSE

MainStep ==
  \/ Check \/ ReadIdleThreads \/ ClaimFrom \/ Claimed \/ PostDecrement \/ PostSubmit
  \/ PollReturns \/ Sleep \/ StorePipe \/ Interrupted \/ Drain \/ TimesOut("short")
  \/ ShutPool \/ ShutPipe \/ Deregister

WakerStep(a) == AccessPipe(a) \/ CachePipe(a) \/ WritePipe(a)

ThreadStep(t) ==
  \/ \E j \in Jobs : Take(t, j)
  \/ Increment(t) \/ CheckIdle(t) \/ WakerStep(t)

Next ==
  \/ MainStep \/ TimesOut("long") \/ PollRaises
  \/ Stop \/ LoseRegistration \/ WakerStep(HeartbeatThread)
  \/ \E j \in Jobs : Arrive(j) \/ TakenByOther(j)
  \/ \E t \in Threads : ThreadStep(t) \/ Perform(t) \/ PerformRaises(t) \/ OpenFile(t)

Spec == Init /\ [][Next]_vars
=============================================================================
