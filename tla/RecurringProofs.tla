-------------------------- MODULE RecurringProofs --------------------------
(***************************************************************************)
(* Proofs about the schedulers of a recurring task, for any number of      *)
(* schedulers and any horizon.                                             *)
(***************************************************************************)
EXTENDS RecurringProperties, TLAPS

(* What the guarantee of the documentation assumes: every scheduler has    *)
(* the task, so that none deletes its row.                                 *)
TasksAreKept == Configured = Schedulers
-----------------------------------------------------------------------------
(***************************************************************************)
(* Types.                                                                  *)
(***************************************************************************)
Calls == [Schedulers -> [Timers -> CallType]]

(* A step that changes one call of one scheduler.                          *)
LEMMA ChangedCall ==
  ASSUME RecurringTypeOK, NEW s \in Schedulers, NEW d \in Timers, NEW c \in CallType,
         CallOK(d, c), call' = [call EXCEPT ![s][d] = c]
  PROVE  /\ call' \in Calls
         /\ \A u \in Schedulers, e \in Timers : CallOK(e, call'[u][e])
<1>1. /\ call \in Calls
      /\ \A u \in Schedulers, e \in Timers : CallOK(e, call[u][e])
  BY DEF RecurringTypeOK, Calls
<1>2. /\ call' \in Calls
      /\ \A u \in Schedulers, e \in Timers :
           call'[u][e] = IF u = s /\ e = d THEN c ELSE call[u][e]
  BY <1>1 DEF Calls
<1> QED
  BY <1>1, <1>2

LEMMA IdleIsACall == Idle \in CallType /\ \A d \in Timers : CallOK(d, Idle)
  BY RecurringConstantsOK DEF Idle, CallType, CallOK, Timers

LEMMA NoCallsAreCalls == NoCalls \in [Timers -> CallType]
  BY IdleIsACall DEF NoCalls

LEMMA TypeInit == Init => RecurringTypeOK
<1> SUFFICES ASSUME Init PROVE RecurringTypeOK
  OBVIOUS
<1>1. /\ call \in Calls
      /\ \A s \in Schedulers, d \in Timers : CallOK(d, call[s][d])
  BY NoCallsAreCalls, IdleIsACall DEF Init, NoCalls, Calls
<1>2. now \in 0..Horizon /\ handle \in [Schedulers -> Timers]
  BY RecurringConstantsOK DEF Init, Timers
<1>3. jobs \in [Runs -> Nat] /\ recorded \subseteq Runs
  BY DEF Init
<1>4. phase \in [Schedulers -> {"down", "boot", "pruned", "persisted", "running", "stopped"}]
  BY DEF Init
<1> QED
  BY <1>1, <1>2, <1>3, <1>4 DEF Init, RecurringTypeOK, Calls

LEMMA TypeStep == RecurringTypeOK /\ [Next]_vars => RecurringTypeOK'
<1> SUFFICES ASSUME RecurringTypeOK, [Next]_vars PROVE RecurringTypeOK'
  OBVIOUS
<1>c. /\ call \in Calls
      /\ \A s \in Schedulers, d \in Timers : CallOK(d, call[s][d])
  BY DEF RecurringTypeOK, Calls
<1>t. ASSUME NEW s \in Schedulers, NEW d \in Timers
      PROVE  /\ call[s][d] \in CallType /\ call[s][d].next \in Timers
             /\ CallOK(d, call[s][d])
  BY DEF RecurringTypeOK, CallType
<1> DEFINE RestOK ==
      /\ now \in 0..Horizon
      /\ taskRow \in BOOLEAN
      /\ recorded \subseteq Runs
      /\ jobs \in [Runs -> Nat]
      /\ phase \in [Schedulers -> {"down", "boot", "pruned", "persisted", "running", "stopped"}]
      /\ handle \in [Schedulers -> Timers]
      CallsOK ==
      /\ call \in Calls
      /\ \A s \in Schedulers, d \in Timers : CallOK(d, call[s][d])
<1>q. SUFFICES RestOK' /\ CallsOK'
  BY DEF RecurringTypeOK, Calls
<1>n. /\ NextTime \in Runs /\ NextTime \in Timers /\ 0 \in Timers /\ Runs \subseteq Timers
      /\ Horizon \in Nat /\ now \in Nat
  BY RecurringConstantsOK DEF RecurringTypeOK, NextTime, Runs, Timers
<1>1. CASE Tick
  <2>1. CallsOK'
    BY <1>1, <1>c DEF Tick
  <2> QED
    BY <1>1, <2>1, <1>n DEF Tick, RecurringTypeOK
<1>2. ASSUME NEW r \in Runs, ClearJob(r) PROVE RestOK' /\ CallsOK'
  <2>1. CallsOK'
    BY <1>2, <1>c DEF ClearJob
  <2> QED
    BY <1>2, <2>1 DEF ClearJob, RecurringTypeOK
<1>3. ASSUME NEW s \in Schedulers, BootStep(s) PROVE RestOK' /\ CallsOK'
  <2>1. RestOK'
    BY <1>3 DEF BootStep, Boot, PersistDelete, PersistCreate, Reload, RecurringTypeOK
  <2>2. CASE UNCHANGED call
    BY <2>1, <2>2, <1>c
  <2>3. CASE Reload(s) /\ call' # call
    <3> DEFINE c == [call[s][0] EXCEPT !.at = "called"]
    <3>1. call' = [call EXCEPT ![s][0] = c]
      BY <2>3 DEF Reload
    <3>2. c \in CallType /\ c.at = "called"
      BY <1>t, <1>n DEF CallType
    <3>3. CallOK(0, c)
      BY <3>2 DEF CallOK
    <3> HIDE DEF c
    <3> QED
      BY <2>1, <3>1, <3>2, <3>3, <1>n, ChangedCall
  <2> QED
    BY <1>3, <2>2, <2>3 DEF BootStep, Boot, PersistDelete, PersistCreate
<1>4. ASSUME NEW s \in Schedulers, Unschedule(s) \/ Exit(s) \/ Kill(s)
      PROVE  RestOK' /\ CallsOK'
  <2>1. RestOK'
    <3>1. UNCHANGED <<now, taskRow, recorded, jobs>>
      BY <1>4 DEF Unschedule, Exit, Kill
    <3>2. handle' = [handle EXCEPT ![s] = 0]
      BY <1>4 DEF Unschedule, Exit, Kill
    <3>3. \/ phase' = [phase EXCEPT ![s] = "stopped"]
          \/ phase' = [phase EXCEPT ![s] = "down"]
      BY <1>4 DEF Unschedule, Exit, Kill
    <3> QED
      BY <3>1, <3>2, <3>3, <1>n DEF RecurringTypeOK
  <2>2. CASE UNCHANGED call
    BY <2>1, <2>2, <1>c
  <2>3. CASE Unschedule(s) /\ call' # call
    <3>1. handle[s] \in Timers
      BY DEF RecurringTypeOK
    <3>2. call' = [call EXCEPT ![s][handle[s]] = Idle]
      BY <2>3 DEF Unschedule
    <3> QED
      BY <2>1, <3>1, <3>2, IdleIsACall, ChangedCall
  <2>4. CASE Kill(s)
    <3>1. call' = [call EXCEPT ![s] = NoCalls]
      BY <2>4 DEF Kill
    <3>2. call' \in Calls
      BY <3>1, <1>c, NoCallsAreCalls DEF Calls
    <3>3. \A u \in Schedulers, e \in Timers : call'[u][e] = IF u = s THEN Idle ELSE call[u][e]
      BY <3>1, <1>c DEF Calls, NoCalls
    <3> QED
      BY <2>1, <3>2, <3>3, <1>c, IdleIsACall
  <2> QED
    BY <1>4, <2>2, <2>3, <2>4 DEF Exit
<1>5. ASSUME NEW s \in Schedulers, NEW d \in Timers, TimerStep(s, d) \/ EnqueueFails(s, d)
      PROVE  RestOK' /\ CallsOK'
  <2>1. CASE ReadDelay(s, d)
    <3> DEFINE c == [call[s][d] EXCEPT !.at = "delayed", !.next = NextTime]
    <3>1. call' = [call EXCEPT ![s][d] = c]
      BY <2>1 DEF ReadDelay
    <3>2. c \in CallType /\ CallOK(d, c)
      <4>1. call[s][d].at = "called"
        BY <2>1 DEF ReadDelay
      <4>2. /\ c \in CallType /\ c.at = "delayed"
            /\ c.run = call[s][d].run /\ c.next = NextTime
        <5>1. call[s][d] \in CallType /\ NextTime \in Timers
          BY <1>t, <1>n
        <5> HIDE DEF NextTime
        <5> QED
          BY <5>1 DEF CallType
      <4> QED
        BY <4>1, <4>2, <1>t, <1>n DEF CallOK
    <3> HIDE DEF c
    <3>3. RestOK'
      BY <2>1 DEF ReadDelay, RecurringTypeOK
    <3> QED
      BY <3>1, <3>2, <3>3, ChangedCall
  <2>2. CASE StartTimer(s, d)
    <3> DEFINE due == call[s][d].next
               c == [call[s][d] EXCEPT !.at = "started"]
               new == [at |-> "armed", run |-> NextTime, next |-> 0]
    <3>1. call' = [[call EXCEPT ![s][d] = c] EXCEPT ![s][due] = new]
      BY <2>2, <1>c DEF StartTimer, Calls
    <3>2. c \in CallType /\ CallOK(d, c)
      <4>1. call[s][d].at = "delayed"
        BY <2>2 DEF StartTimer
      <4>2. /\ c \in CallType /\ c.at = "started"
            /\ c.run = call[s][d].run /\ c.next = call[s][d].next
        BY <1>t DEF CallType
      <4> QED
        BY <4>1, <4>2, <1>t DEF CallOK
    <3>3. due \in Runs /\ due \in Timers /\ due # 0
      BY <2>2, <1>t, <1>n DEF StartTimer, CallOK, Runs
    <3>4. new \in CallType /\ CallOK(due, new)
      BY <3>3, <1>n DEF CallType, CallOK
    <3>5. RestOK'
      BY <2>2, <3>3 DEF StartTimer, RecurringTypeOK
    <3> HIDE DEF c, new, due
    <3>6. /\ call' \in Calls
          /\ \A u \in Schedulers, e \in Timers :
               call'[u][e] = IF u = s /\ e = due THEN new
                             ELSE IF u = s /\ e = d THEN c ELSE call[u][e]
      BY <3>1, <3>2, <3>3, <3>4, <1>c DEF Calls
    <3> QED
      BY <3>2, <3>4, <3>5, <3>6, <1>c
  <2>5. CASE StoreHandle(s, d)
    <3> DEFINE c == IF d = 0 THEN Idle ELSE [call[s][d] EXCEPT !.at = "scheduled", !.next = 0]
    <3>1. call' = [call EXCEPT ![s][d] = c]
      BY <2>5 DEF StoreHandle
    <3>2. c \in CallType /\ CallOK(d, c)
      <4>1. call[s][d].at = "started"
        BY <2>5 DEF StoreHandle
      <4>2. d # 0 => c \in CallType /\ c.at = "scheduled" /\ c.run = call[s][d].run
        <5>1. call[s][d] \in CallType /\ 0 \in Timers
          BY <1>t, <1>n
        <5> SUFFICES ASSUME d # 0
                     PROVE  LET k == [call[s][d] EXCEPT !.at = "scheduled", !.next = 0]
                            IN  k \in CallType /\ k.at = "scheduled" /\ k.run = call[s][d].run
          OBVIOUS
        <5> QED
          BY <5>1 DEF CallType
      <4> QED
        BY <4>1, <4>2, <1>t, IdleIsACall DEF CallOK
    <3>3. RestOK'
      BY <2>5, <1>t DEF StoreHandle, RecurringTypeOK
    <3> HIDE DEF c
    <3> QED
      BY <3>1, <3>2, <3>3, ChangedCall
  <2>3. CASE Fire(s, d)
    <3> DEFINE c == [call[s][d] EXCEPT !.at = "called"]
    <3>1. call' = [call EXCEPT ![s][d] = c]
      BY <2>3 DEF Fire, CallbackStart
    <3>2. c \in CallType /\ CallOK(d, c)
      <4>1. call[s][d].at = "armed"
        BY <2>3 DEF Fire
      <4>2. c \in CallType /\ c.at = "called" /\ c.run = call[s][d].run
        BY <1>t DEF CallType
      <4> QED
        BY <4>1, <4>2, <1>t DEF CallOK
    <3> HIDE DEF c
    <3>3. RestOK'
      BY <2>3 DEF Fire, RecurringTypeOK
    <3> QED
      BY <3>1, <3>2, <3>3, ChangedCall
  <2>4. CASE Enqueue(s, d) \/ EnqueueFails(s, d)
    <3>1. call' = [call EXCEPT ![s][d] = Idle]
      BY <2>4 DEF Enqueue, EnqueueFails
    <3>2. call[s][d].run \in Runs
      BY <2>4, <1>c, <1>t DEF CallOK, Enqueue, EnqueueFails
    <3>3. recorded' \subseteq Runs /\ jobs' \in [Runs -> Nat]
      BY <2>4, <3>2 DEF Enqueue, EnqueueFails, RecurringTypeOK
    <3>4. RestOK'
      BY <2>4, <3>3 DEF Enqueue, EnqueueFails, RecurringTypeOK
    <3> QED
      BY <3>1, <3>4, IdleIsACall, ChangedCall
  <2> QED
    BY <1>5, <2>1, <2>2, <2>3, <2>4, <2>5 DEF TimerStep
<1>6. CASE UNCHANGED vars
  BY <1>6, <1>c DEF vars, RecurringTypeOK
<1> QED
  BY <1>1, <1>2, <1>3, <1>4, <1>5, <1>6 DEF Next

(* Every variable keeps its type, and the run of a timer is an instant.    *)
THEOREM RecurringTypeCorrect == Spec => []RecurringTypeOK
  BY TypeInit, TypeStep, PTL DEF Spec
-----------------------------------------------------------------------------
(***************************************************************************)
(* Each run is enqueued at most once.                                      *)
(***************************************************************************)
(* The strengthening: the records and the jobs agree.                      *)
RecordsAgree == \A r \in Runs : jobs[r] = IF r \in recorded THEN 1 ELSE 0

LEMMA RecordsStep ==
  ASSUME TasksAreKept, RecurringTypeOK, RecordsAgree, [Next]_vars
  PROVE  RecordsAgree'
<1> USE DEF RecordsAgree
<1>1. ASSUME NEW s \in Schedulers, NEW d \in Timers, Enqueue(s, d)
      PROVE  RecordsAgree'
  <2>1. CASE AlreadyRecorded(call[s][d].run)
    BY <1>1, <2>1 DEF Enqueue
  <2>2. CASE ~AlreadyRecorded(call[s][d].run)
    BY <1>1, <2>2 DEF Enqueue, AlreadyRecorded, RecurringTypeOK
  <2> QED
    BY <2>1, <2>2
<1>2. ASSUME NEW s \in Schedulers, PersistDelete(s) PROVE RecordsAgree'
  BY <1>2, TasksAreKept DEF PersistDelete, TasksAreKept
<1>3. ASSUME NEW r \in Runs, ClearJob(r) PROVE RecordsAgree'
  BY <1>3 DEF ClearJob, RecurringTypeOK
<1>4. CASE UNCHANGED <<recorded, jobs>>
  BY <1>4
<1>5. CASE Tick \/ UNCHANGED vars
  BY <1>4, <1>5 DEF Tick, vars
<1>6. ASSUME NEW s \in Schedulers, BootStep(s) \/ Unschedule(s) \/ Exit(s) \/ Kill(s)
      PROVE  RecordsAgree'
  <2>1. CASE BootStep(s)
    BY <1>2, <1>4, <2>1 DEF BootStep, Boot, PersistCreate, Reload
  <2>2. CASE Unschedule(s) \/ Exit(s) \/ Kill(s)
    BY <1>4, <2>2 DEF Unschedule, Exit, Kill
  <2> QED
    BY <1>6, <2>1, <2>2
<1>7. ASSUME NEW s \in Schedulers, NEW d \in Timers, TimerStep(s, d) \/ EnqueueFails(s, d)
      PROVE  RecordsAgree'
  <2>1. CASE ReadDelay(s, d) \/ StartTimer(s, d) \/ StoreHandle(s, d)
    BY <1>4, <2>1 DEF ReadDelay, StartTimer, StoreHandle
  <2>2. CASE Fire(s, d) \/ EnqueueFails(s, d)
    BY <1>4, <2>2 DEF Fire, EnqueueFails
  <2> QED
    BY <1>1, <1>7, <2>1, <2>2 DEF TimerStep
<1> QED
  BY <1>3, <1>5, <1>6, <1>7 DEF Next

(* Whatever schedulers call for a run, however late, and however often     *)
(* they are killed and started again, it is enqueued once.                 *)
THEOREM EnqueuedOnce == ASSUME TasksAreKept PROVE Spec => []AtMostOncePerRun
<1>1. Init => RecordsAgree
  BY DEF Init, RecordsAgree
<1>2. RecurringTypeOK /\ RecordsAgree /\ [Next]_vars => RecordsAgree'
  BY RecordsStep, TasksAreKept
<1>3. RecordsAgree => AtMostOncePerRun
  BY DEF RecordsAgree, AtMostOncePerRun
<1> QED
  BY <1>1, <1>2, <1>3, RecurringTypeCorrect, PTL DEF Spec
-----------------------------------------------------------------------------
(***************************************************************************)
(* The chain of timers of a scheduler.                                     *)
(***************************************************************************)
(* A callback runs when its time has come, and starts a timer for later.   *)
(* That is why no timer is due after the one that ticks, and why the name  *)
(* of the next one is free.  A second ticking timer is then excluded.      *)
(* A scheduler whose timers have anything to do has one that ticks.        *)
Loaded(s) == handle[s] # 0 \/ \E d \in Timers : call[s][d].at # "none"

Chained(s) ==
  /\ \A d \in Timers :
       /\ call[s][d].at \in {"called", "delayed", "started", "scheduled"} => d <= now
       /\ call[s][d].at = "delayed" => d < call[s][d].next
  /\ \A d \in Ticking(s), e \in Timers : call[s][e].at # "none" => e <= d
  /\ phase[s] = "running" /\ Loaded(s) => Ticking(s) # {}
  /\ phase[s] \notin {"running", "stopped"} => call[s] = NoCalls /\ handle[s] = 0

Chain == \A s \in Schedulers : Chained(s)

LEMMA Numbers ==
  /\ Timers \subseteq Nat /\ Runs \subseteq Timers /\ 0 \in Timers
  /\ RecurringTypeOK => now \in Nat
  BY RecurringConstantsOK DEF Timers, Runs, RecurringTypeOK

LEMMA ChainIsOneTimer ==
  ASSUME RecurringTypeOK, Chain PROVE OneTimerPerTask
<1>1. ASSUME NEW s \in Schedulers, NEW d \in Ticking(s), NEW e \in Ticking(s)
      PROVE  d = e
  <2>1. /\ d \in Nat /\ d \in Timers /\ call[s][d].at # "none"
        /\ e \in Nat /\ e \in Timers /\ call[s][e].at # "none"
    BY Numbers DEF Ticking
  <2>2. d <= e /\ e <= d
    BY <2>1 DEF Chain, Chained
  <2> QED
    BY <2>1, <2>2
<1> QED
  BY <1>1, Numbers DEF OneTimerPerTask, Chain, Chained, HasTask, Loaded

(* A scheduler without a timer is in order, if it has not loaded the task. *)
LEMMA Unloaded ==
  ASSUME NEW s \in Schedulers, call[s] = NoCalls, handle[s] = 0
  PROVE  Chained(s)
<1>1. \A d \in Timers : call[s][d].at = "none"
  BY DEF NoCalls, Idle
<1>2. Ticking(s) = {}
  BY <1>1 DEF Ticking
<1>3. ~Loaded(s)
  BY <1>1 DEF Loaded
<1> QED
  BY <1>1, <1>2, <1>3 DEF Chained

(* The steps of others, and of the clock.                                  *)
LEMMA ChainFrame ==
  ASSUME RecurringTypeOK, NEW s \in Schedulers, Chained(s), now' \in Nat, now <= now',
         call'[s] = call[s], phase'[s] = phase[s], handle'[s] = handle[s]
  PROVE  Chained(s)'
<1>1. Ticking(s)' = Ticking(s) /\ Loaded(s)' = Loaded(s)
  BY DEF Ticking, Loaded
<1>2. ASSUME NEW d \in Timers, d <= now PROVE d <= now'
  BY <1>2, Numbers
<1> QED
  BY <1>1, <1>2 DEF Chained

(* A scheduler boots, or ends.                                             *)
LEMMA ChainPhases ==
  ASSUME RecurringTypeOK, NEW s \in Schedulers, Chained(s),
         BootStep(s) \/ Unschedule(s) \/ Exit(s) \/ Kill(s)
  PROVE  Chained(s)'
<1>c. call[s] \in [Timers -> CallType] /\ s \in DOMAIN call /\ s \in DOMAIN phase
      /\ s \in DOMAIN handle
  BY DEF RecurringTypeOK
<1>1. CASE Boot(s) \/ PersistDelete(s) \/ PersistCreate(s)
  <2>1. call[s] = NoCalls /\ handle[s] = 0
    BY <1>1 DEF Boot, PersistDelete, PersistCreate, Chained
  <2>2. call'[s] = NoCalls /\ handle'[s] = 0
    BY <1>1, <2>1 DEF Boot, PersistDelete, PersistCreate
  <2>3. \A d \in Timers : call'[s][d].at = "none"
    BY <2>2 DEF NoCalls, Idle
  <2> QED
    BY <2>2, <2>3, Numbers DEF Chained, Ticking, Loaded
<1>2. CASE Reload(s)
  <2>1. call[s] = NoCalls /\ handle'[s] = 0 /\ phase'[s] = "running" /\ now' = now
    BY <1>2, <1>c DEF Reload, Chained
  <2>2. CASE call' = call
    <3>1. \A d \in Timers : call'[s][d].at = "none"
      BY <2>1, <2>2 DEF NoCalls, Idle
    <3> QED
      BY <2>1, <2>2, <3>1, Numbers DEF Chained, Ticking, Loaded
  <2>3. CASE call' = [call EXCEPT ![s][0].at = "called"]
    <3>1. \A d \in Timers : call'[s][d].at = IF d = 0 THEN "called" ELSE "none"
      BY <2>1, <2>3, <1>c DEF NoCalls, Idle
    <3>2. Ticking(s)' = {0}
      BY <3>1, Numbers DEF Ticking
    <3>3. 0 <= now
      BY Numbers
    <3> QED
      BY <2>1, <3>1, <3>2, <3>3, Numbers DEF Chained
  <2> QED
    BY <1>2, <2>2, <2>3 DEF Reload
<1>3. CASE Unschedule(s)
  <2>1. phase'[s] = "stopped" /\ now' = now
    BY <1>3, <1>c DEF Unschedule
  <2>2. \A d \in Timers : call'[s][d] = call[s][d] \/ call'[s][d].at = "none"
    BY <1>3, <1>c DEF Unschedule, Idle, RecurringTypeOK
  <2> QED
    BY <2>1, <2>2 DEF Chained, Ticking
<1>4. CASE Exit(s) \/ Kill(s)
  <2>1. call'[s] = NoCalls /\ handle'[s] = 0
    BY <1>4, <1>c DEF Exit, Kill
  <2>2. \A d \in Timers : call'[s][d].at = "none"
    BY <2>1 DEF NoCalls, Idle
  <2> QED
    BY <2>1, <2>2, Numbers DEF Chained, Ticking, Loaded
<1> QED
  BY <1>1, <1>2, <1>3, <1>4 DEF BootStep

(* A timer, or a callback, takes a step.                                   *)
LEMMA ChainTimers ==
  ASSUME RecurringTypeOK, NEW s \in Schedulers, NEW d \in Timers, Chained(s),
         TimerStep(s, d) \/ EnqueueFails(s, d)
  PROVE  Chained(s)'
<1>c. /\ call \in [Schedulers -> [Timers -> CallType]] /\ call[s] \in [Timers -> CallType]
      /\ handle \in [Schedulers -> Timers]
      /\ \A e \in Timers : CallOK(e, call[s][e])
  BY DEF RecurringTypeOK
<1>p. phase' = phase /\ now' = now
  BY DEF TimerStep, ReadDelay, StartTimer, StoreHandle, Fire, Enqueue, EnqueueFails
<1>r. phase[s] \in {"running", "stopped"}
  <2>1. call[s][d].at # "none"
    BY DEF TimerStep, ReadDelay, StartTimer, StoreHandle, Fire, Enqueue, EnqueueFails
  <2> QED
    BY <2>1 DEF Chained, NoCalls, Idle
(* A ticking timer that goes on ticking.                                   *)
<1>k. ASSUME \A e \in Timers : e # d => call'[s][e] = call[s][e],
             d \in Ticking(s), call'[s][d].at \in {"called", "delayed"}, d <= now,
             call'[s][d].at = "delayed" => d < call'[s][d].next, handle' = handle
      PROVE  Chained(s)'
  <2>1. Ticking(s)' = Ticking(s)
    BY <1>k DEF Ticking
  <2>2. \A e \in Timers : call'[s][e].at # "none" => call[s][e].at # "none"
    BY <1>k DEF Ticking
  <2>3. \A e \in Timers :
          /\ call'[s][e].at \in {"called", "delayed", "started", "scheduled"} => e <= now
          /\ call'[s][e].at = "delayed" => e < call'[s][e].next
    BY <1>k DEF Chained
  <2> QED
    BY <1>k, <1>p, <1>r, <2>1, <2>2, <2>3 DEF Chained
<1>1. CASE ReadDelay(s, d)
  <2>1. /\ \A e \in Timers : e # d => call'[s][e] = call[s][e]
        /\ call[s][d].at = "called" /\ call'[s][d].at = "delayed"
        /\ call'[s][d].next = now + 1
        /\ handle' = handle
    BY <1>1, <1>c DEF ReadDelay, NextTime
  <2>2. d <= now /\ d < now + 1
    BY <2>1, Numbers DEF Chained
  <2> QED
    BY <1>k, <2>1, <2>2 DEF Ticking
<1>2. CASE StartTimer(s, d)
  <2> DEFINE due == call[s][d].next
  <2>1. /\ call[s][d].at = "delayed" /\ d \in Ticking(s)
        /\ due \in Timers /\ due # 0 /\ d < due
    BY <1>2, <1>c DEF StartTimer, CallOK, Chained, Ticking, Runs, Timers
  <2>2. /\ \A e \in Timers : e # d /\ e # due => call'[s][e] = call[s][e]
        /\ call'[s][due].at = "armed"
        /\ call'[s][d].at = "started"
    <3>1. d # due
      BY <2>1, Numbers
    <3> DEFINE c == [call[s][d] EXCEPT !.at = "started"]
               new == [at |-> "armed", run |-> NextTime, next |-> 0]
    <3>3. call' = [[call EXCEPT ![s][d] = c] EXCEPT ![s][due] = new]
      BY <1>2, <1>c DEF StartTimer
    <3>4. c.at = "started" /\ new.at = "armed"
      BY <1>c DEF CallType
    <3> HIDE DEF c, new
    <3>5. \A e \in Timers :
            call'[s][e] = IF e = due THEN new ELSE IF e = d THEN c ELSE call[s][e]
      BY <1>c, <2>1, <3>3
    <3> QED
      BY <2>1, <3>1, <3>4, <3>5
  <2> HIDE DEF due
  <2>3. \A e \in Timers : call[s][e].at # "none" => e <= d
    BY <2>1 DEF Chained
  <2>4. \A e \in Ticking(s) : e = d
    BY <2>1, <2>3, Numbers DEF Chained, Ticking
  <2>5. Ticking(s)' = {due}
    BY <2>1, <2>2, <2>4 DEF Ticking
  <2>6. \A e \in Timers : call'[s][e].at # "none" => e <= due
    BY <2>1, <2>2, <2>3, Numbers
  <2>7. d <= now
    BY <2>1 DEF Chained
  <2> QED
    BY <1>p, <1>r, <2>1, <2>2, <2>5, <2>6, <2>7 DEF Chained
<1>5. CASE StoreHandle(s, d)
  <2>1. /\ \A e \in Timers : e # d => call'[s][e] = call[s][e]
        /\ call[s][d].at = "started" /\ call'[s][d].at \in {"none", "scheduled"}
    <3> DEFINE c == IF d = 0 THEN Idle ELSE [call[s][d] EXCEPT !.at = "scheduled", !.next = 0]
    <3>1. call' = [call EXCEPT ![s][d] = c] /\ call[s][d].at = "started"
      BY <1>5 DEF StoreHandle
    <3>2. c.at \in {"none", "scheduled"}
      BY <1>c DEF Idle, CallType
    <3> HIDE DEF c
    <3> QED
      BY <1>c, <3>1, <3>2
  <2>2. Ticking(s)' = Ticking(s)
    BY <2>1 DEF Ticking
  <2>3. Loaded(s) /\ d <= now
    BY <2>1 DEF Loaded, Chained
  <2> QED
    BY <1>p, <1>r, <2>1, <2>2, <2>3 DEF Chained
<1>3. CASE Fire(s, d)
  <2>1. /\ \A e \in Timers : e # d => call'[s][e] = call[s][e]
        /\ call[s][d].at = "armed" /\ call'[s][d].at = "called" /\ d <= now
        /\ handle' = handle
    BY <1>3, <1>c DEF Fire, CallbackStart
  <2> QED
    BY <1>k, <2>1 DEF Ticking
<1>4. CASE Enqueue(s, d) \/ EnqueueFails(s, d)
  <2>1. /\ \A e \in Timers : e # d => call'[s][e] = call[s][e]
        /\ call[s][d].at = "scheduled" /\ call'[s][d].at = "none"
        /\ handle' = handle
    BY <1>4, <1>c DEF Enqueue, EnqueueFails, Idle
  <2>2. Ticking(s)' = Ticking(s)
    BY <2>1 DEF Ticking
  <2>3. Loaded(s)' => Loaded(s)
    BY <2>1 DEF Loaded
  <2> QED
    BY <1>p, <1>r, <2>1, <2>2, <2>3 DEF Chained
<1> QED
  BY <1>1, <1>2, <1>3, <1>4, <1>5 DEF TimerStep

LEMMA ChainStep ==
  ASSUME RecurringTypeOK, RecurringTypeOK', Chain, [Next]_vars PROVE Chain'
<1> SUFFICES ASSUME NEW s \in Schedulers PROVE Chained(s)'
  BY DEF Chain
<1>1. Chained(s) /\ now' \in Nat
  BY Numbers DEF Chain, RecurringTypeOK
<1>2. CASE BootStep(s) \/ Unschedule(s) \/ Exit(s) \/ Kill(s)
  BY <1>1, <1>2, ChainPhases
<1>3. CASE \E d \in Timers : TimerStep(s, d) \/ EnqueueFails(s, d)
  BY <1>1, <1>3, ChainTimers
<1>4. CASE Tick \/ (\E r \in Runs : ClearJob(r)) \/ UNCHANGED vars
  <2>1. UNCHANGED <<call, phase, handle>> /\ now <= now'
    BY <1>4, Numbers DEF Tick, ClearJob, vars
  <2> QED
    BY <1>1, <2>1, ChainFrame
<1>5. ASSUME NEW u \in Schedulers, u # s,
             \/ BootStep(u) \/ Unschedule(u) \/ Exit(u) \/ Kill(u)
             \/ \E d \in Timers : TimerStep(u, d) \/ EnqueueFails(u, d)
      PROVE  Chained(s)'
  <2>1. call'[s] = call[s] /\ phase'[s] = phase[s] /\ handle'[s] = handle[s] /\ now' = now
    <3>1. CASE BootStep(u)
      BY <1>5, <3>1 DEF BootStep, Boot, PersistDelete, PersistCreate, Reload, RecurringTypeOK
    <3>2. CASE Unschedule(u)
      BY <1>5, <3>2 DEF Unschedule, RecurringTypeOK
    <3>3. CASE Exit(u) \/ Kill(u)
      BY <1>5, <3>3 DEF Exit, Kill, RecurringTypeOK
    <3>4. ASSUME NEW d \in Timers,
                 ReadDelay(u, d) \/ StartTimer(u, d) \/ StoreHandle(u, d)
          PROVE  UNCHANGED <<call[s], phase[s], handle[s], now>>
      BY <1>5, <3>4 DEF ReadDelay, StartTimer, StoreHandle, RecurringTypeOK
    <3>5. ASSUME NEW d \in Timers, Fire(u, d) \/ Enqueue(u, d) \/ EnqueueFails(u, d)
          PROVE  UNCHANGED <<call[s], phase[s], handle[s], now>>
      BY <1>5, <3>5 DEF Fire, Enqueue, EnqueueFails, RecurringTypeOK
    <3> QED
      BY <1>5, <3>1, <3>2, <3>3, <3>4, <3>5 DEF TimerStep
  <2> QED
    BY <1>1, <2>1, Numbers, ChainFrame
<1> QED
  BY <1>2, <1>3, <1>4, <1>5 DEF Next

(* A scheduler that has loaded the task always has exactly one next call,  *)
(* in every environment.                                                   *)
THEOREM OneTimer == Spec => []OneTimerPerTask
<1>1. Init => Chain
  BY Unloaded DEF Init, Chain
<1>2. RecurringTypeOK /\ RecurringTypeOK' /\ Chain /\ [Next]_vars => Chain'
  BY ChainStep
<1>3. RecurringTypeOK /\ Chain => OneTimerPerTask
  BY ChainIsOneTimer
<1> QED
  BY <1>1, <1>2, <1>3, RecurringTypeCorrect, PTL DEF Spec
=============================================================================
