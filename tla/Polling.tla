------------------------------ MODULE Polling ------------------------------
(***************************************************************************)
(* Dispatchers and workers together: scheduled jobs fall due, dispatchers  *)
(* move them to the ready table (ScheduledBatch), and workers claim them   *)
(* from the queues their selector yields (QueueSelection), while queues    *)
(* are paused and resumed (ready_execution.py, queue_selector.py,          *)
(* models/queue.py).                                                       *)
(*                                                                         *)
(* A claim is one transaction and one step.  What a worker's threads do    *)
(* with the claimed jobs is in WorkerPool, what becomes of their rows in   *)
(* JobLifecycle.                                                           *)
(***************************************************************************)
EXTENDS ScheduledBatch, QueueSelection

CONSTANTS
  Queues,
  QueueOf,     \* QueueOf[j]: the queue_name of j
  Pausable,    \* the queues an operator may pause
  Workers,
  PoolSize,    \* threads of a worker
  RawQueues    \* RawQueues[w]: the queue lists w may be configured with

ASSUME PollingConstantsOK ==
  /\ IsFiniteSet(Queues) /\ QueueOf \in [Jobs -> Queues] /\ Pausable \subseteq Queues
  /\ PoolSize \in Nat \ {0}
  /\ \A w \in Workers :
       RawQueues[w] \subseteq Seq([kind : {"exact", "prefix", "all", "ignored"},
                                   names : SUBSET Queues])

VARIABLES
  raw,      \* the queue list of each worker
  paused,   \* the queues with a row in pauses
  worker,   \* where each worker is in claim
  claims,   \* how often each job has been claimed
  lately    \* what each worker's poll began with: see PollRecord

pollVars == <<raw, paused, worker, claims, lately>>
vars == <<batchVars, pollVars>>

(* "queues" are those eligible and not yet looked up in pauses, and        *)
(* "relations" the sets of queues still to claim from, in order.           *)
Resting == [at |-> "rest", limit |-> 0, queues |-> <<>>, relations |-> <<>>]

(* For the properties: the jobs that were ready when a poll began, and the *)
(* queues that have been paused ever since, or have not been at all.       *)
PollRecord == [ready : SUBSET Jobs, paused : SUBSET Queues, open : SUBSET Queues]

NoPoll == [ready |-> {}, paused |-> {}, open |-> {}]

PollingTypeOK ==
  /\ BatchTypeOK
  /\ \A w \in Workers : raw[w] \in RawQueues[w]
  /\ paused \subseteq Queues
  /\ worker \in [Workers ->
       [at : {"rest", "none", "names", "filter", "claim"}, limit : 0..PoolSize,
        queues : Seq(Queues),
        relations : Seq(SUBSET Queues)]]
  /\ claims \in [Jobs -> Nat]
  /\ lately \in [Workers -> PollRecord]

Init ==
  /\ BatchInit
  /\ raw \in {choice \in [Workers -> UNION {RawQueues[w] : w \in Workers}] :
                \A w \in Workers : choice[w] \in RawQueues[w]}
  /\ paused = {}
  /\ worker = [w \in Workers |-> Resting]
  /\ claims = [j \in Jobs |-> 0]
  /\ lately = [w \in Workers |-> NoPoll]
-----------------------------------------------------------------------------
Present == {QueueOf[j] : j \in ready}

(* Queue.pause and Queue.resume, with the note the properties take of them *)
(* during a poll.                                                          *)
Pause(q) ==
  /\ q \in Pausable \ paused
  /\ paused' = paused \cup {q}
  /\ lately' = [w \in Workers |-> [lately[w] EXCEPT !.open = @ \ {q}]]
  /\ UNCHANGED <<batchVars, raw, worker, claims>>

Resume(q) ==
  /\ q \in paused
  /\ paused' = paused \ {q}
  /\ lately' = [w \in Workers |-> [lately[w] EXCEPT !.paused = @ \ {q}]]
  /\ UNCHANGED <<batchVars, raw, worker, claims>>

(* Worker.claim_executions with the number of idle threads (a call with 0  *)
(* takes nothing and is left out), and QueueSelector.is_all: "*" is listed *)
(* and there are no pauses.                                                *)
IsAll(w) ==
  /\ worker[w].at = "rest"
  /\ \E idle_threads \in 1..PoolSize :
       worker' = [worker EXCEPT ![w] =
         IF IncludeAllQueues(raw[w]) /\ paused = {}
           THEN [Resting EXCEPT !.at = "claim", !.limit = idle_threads,
                                !.relations = <<Queues>>]
           ELSE [Resting EXCEPT !.at = "none", !.limit = idle_threads]]
  /\ lately' = [lately EXCEPT ![w] =
       [ready |-> ready, paused |-> paused, open |-> Queues \ paused]]
  /\ UNCHANGED <<batchVars, raw, paused, claims>>

EndOfPoll(w) ==
  /\ worker' = [worker EXCEPT ![w] = Resting]
  /\ lately' = [lately EXCEPT ![w] = NoPoll]

(* Mutant: any paused queue will do.                                       *)
SomePaused(names) == ToSet(names) \cap paused # {}

AllPaused(names) == ToSet(names) \subseteq paused

(* QueueSelector.is_none reads the names and the pauses for themselves.  A *)
(* ValueError ends the worker; the supervisor's replacement polls anew.    *)
IsNone(w) ==
  /\ worker[w].at = "none"
  /\ \E eligible \in EligibleQueues(raw[w], Present) :
       IF eligible.raised \/ AllPaused(eligible.taken)
         THEN EndOfPoll(w)
         ELSE /\ worker' = [worker EXCEPT ![w].at = "names"]
              /\ UNCHANGED lately
  /\ UNCHANGED <<batchVars, raw, paused, claims>>

(* QueueSelector.queue_names reads the names again.                        *)
ReadNames(w) ==
  /\ worker[w].at = "names"
  /\ \E eligible \in EligibleQueues(raw[w], Present) :
       IF eligible.raised \/ eligible.taken = <<>>
         THEN EndOfPoll(w)
         ELSE /\ worker' = [worker EXCEPT ![w].at = "filter",
                                          ![w].queues = eligible.taken]
              /\ UNCHANGED lately
  /\ UNCHANGED <<batchVars, raw, paused, claims>>

(* Mutant: the pauses are forgotten.                                       *)
FilterNothing(w) ==
  /\ worker[w].at = "filter"
  /\ LET left == Tail(worker[w].queues)
     IN  worker' = [worker EXCEPT
           ![w].at = IF left = <<>> THEN "claim" ELSE "filter",
           ![w].queues = left,
           ![w].relations = Append(@, {Head(worker[w].queues)})]
  /\ UNCHANGED <<batchVars, raw, paused, claims, lately>>

(* Mutant: the queues are put in front of those looked up before.          *)
FilterBackwards(w) ==
  /\ worker[w].at = "filter"
  /\ LET q == Head(worker[w].queues)
         left == Tail(worker[w].queues)
         kept == (IF q \in paused THEN <<>> ELSE <<{q}>>) \o worker[w].relations
     IN  IF left = <<>> /\ kept = <<>>
           THEN EndOfPoll(w)
           ELSE /\ worker' = [worker EXCEPT
                     ![w].at = IF left = <<>> THEN "claim" ELSE "filter",
                     ![w].queues = left,
                     ![w].relations = kept]
                /\ UNCHANGED lately
  /\ UNCHANGED <<batchVars, raw, paused, claims>>

(* The pauses are read for each name.                                      *)
Filter(w) ==
  /\ worker[w].at = "filter"
  /\ LET q == Head(worker[w].queues)
         left == Tail(worker[w].queues)
         kept == worker[w].relations \o (IF q \in paused THEN <<>> ELSE <<{q}>>)
     IN  IF left = <<>> /\ kept = <<>>
           THEN EndOfPoll(w)
           ELSE /\ worker' = [worker EXCEPT
                     ![w].at = IF left = <<>> THEN "claim" ELSE "filter",
                     ![w].queues = left,
                     ![w].relations = kept]
                /\ UNCHANGED lately
  /\ UNCHANGED <<batchVars, raw, paused, claims>>

(* Mutant: off by one.                                                     *)
SelectedAndOneMore(queues, limit) ==
  LET found == {j \in ready : QueueOf[j] \in queues}
  IN  {j \in found : Cardinality({i \in found : i < j}) <= limit}

(* select_and_lock: the first rows of the relation, at most as many as may *)
(* still be claimed, are exchanged for claimed executions.                 *)
Selected(queues, limit) ==
  LET found == {j \in ready : QueueOf[j] \in queues}
  IN  {j \in found : Cardinality({i \in found : i < j}) < limit}

(* One turn of the loop of claim; once the limit is used up the turns left *)
(* take nothing.                                                           *)
Claim(w) ==
  /\ worker[w].at = "claim"
  /\ LET locked == Selected(Head(worker[w].relations), worker[w].limit)
         limit == worker[w].limit - Cardinality(locked)
     IN  /\ ready' = ready \ locked
         /\ claims' = [j \in Jobs |-> claims[j] + (IF j \in locked THEN 1 ELSE 0)]
         /\ IF limit = 0 \/ Len(worker[w].relations) = 1
              THEN EndOfPoll(w)
              ELSE /\ worker' = [worker EXCEPT ![w].relations = Tail(@), ![w].limit = limit]
                   /\ UNCHANGED lately
  /\ UNCHANGED <<clock, saved, scheduled, dispatcher, kills, raw, paused>>

Poll(w) ==
  IsAll(w) \/ IsNone(w) \/ ReadNames(w) \/ Filter(w) \/ Claim(w)

Next ==
  \/ BatchNext /\ UNCHANGED pollVars
  \/ \E q \in Queues : Pause(q) \/ Resume(q)
  \/ \E w \in Workers : Poll(w)

Spec == Init /\ [][Next]_vars

(* Time passes, and dispatchers and workers are loops that go on.          *)
FairSpec ==
  /\ Spec
  /\ WF_vars(Tick /\ UNCHANGED pollVars)
  /\ \A d \in Dispatchers : WF_vars(Dispatching(d) /\ UNCHANGED pollVars)
  /\ \A w \in Workers : WF_vars(Poll(w))
=============================================================================
