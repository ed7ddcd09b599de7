--------------------------- MODULE JobRefinement ---------------------------
(***************************************************************************)
(* The rows of a job read as the status of a task: how JobLifecycle        *)
(* implements TaskQueue.                                                   *)
(***************************************************************************)
EXTENDS JobProperties

StatusOf(j) ==
  CASE job[j] = "new" -> "absent"
    [] job[j] \in {"finished", "gone"} -> job[j]
    [] job[j] = "live" /\ claimed[j] # NoThread -> "performing"
    [] job[j] = "live" /\ claimed[j] = NoThread /\ j \in failed -> "failed"
    [] OTHER -> "waiting"

Status == [j \in Jobs |-> StatusOf(j)]

Queue == INSTANCE TaskQueue WITH Tasks <- Jobs, status <- Status

(* Steady Queue is a task queue: with undisturbed workers, whatever client *)
(* crashes, worker deaths, expiries, retries and discards there are, each  *)
(* committed statement either is a step of TaskQueue or shows nothing to a *)
(* client (job.py, claimed_execution.py, semaphore.py), unless a semaphore *)
(* is deleted under the job that holds it (TimelySpec).                    *)
ImplementsTaskQueue == Queue!Spec
=============================================================================
