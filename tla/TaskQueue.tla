----------------------------- MODULE TaskQueue -----------------------------
(***************************************************************************)
(* What a client of Steady Queue is promised, without tables, semaphores,  *)
(* workers or supervisors: a task that is enqueued waits, is performed     *)
(* once, and ends finished or failed; no more tasks of a key are performed *)
(* at a time than its limit; a failed task may be retried, and one that is *)
(* not performed may be discarded.                                         *)
(*                                                                         *)
(* JobLifecycle implements this (JobRefinement): a job is being performed  *)
(* from its claim until the worker, or whoever cleans up after it, has     *)
(* recorded how it ended.                                                  *)
(***************************************************************************)
EXTENDS Integers, FiniteSets

CONSTANTS Tasks, NoKey, KeyOf, LimitOf

VARIABLE status

Statuses == {"absent", "waiting", "performing", "finished", "failed", "gone"}

Performing(k) == {t \in Tasks : status[t] = "performing" /\ KeyOf[t] = k}

Becomes(t, s) == status' = [status EXCEPT ![t] = s]

Init == status = [t \in Tasks |-> "absent"]

Enqueue(t) == status[t] = "absent" /\ Becomes(t, "waiting")

Perform(t) ==
  /\ status[t] = "waiting"
  /\ KeyOf[t] # NoKey => Cardinality(Performing(KeyOf[t])) < LimitOf[t]
  /\ Becomes(t, "performing")

(* "gone" when finished jobs are not preserved.                            *)
End(t) ==
  /\ status[t] = "performing"
  /\ \E s \in {"finished", "failed", "gone"} : Becomes(t, s)

Retry(t) == status[t] = "failed" /\ Becomes(t, "waiting")

Discard(t) == status[t] \in {"waiting", "failed"} /\ Becomes(t, "gone")

Next == \E t \in Tasks : Enqueue(t) \/ Perform(t) \/ End(t) \/ Retry(t) \/ Discard(t)

Spec == Init /\ [][Next]_status
=============================================================================
