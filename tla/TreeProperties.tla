--------------------------- MODULE TreeProperties ---------------------------
(***************************************************************************)
(* What a supervisor and its forks must guarantee, and the fairness it     *)
(* takes.                                                                  *)
(***************************************************************************)
EXTENDS SupervisorTree

(* "If a worker is terminated in any other way [...], tasks in progress    *)
(* will be marked as failed": once the supervisor has reaped a fork, no    *)
(* claimed execution waits for it but                                      *)
(*   - those of a row that has lost its supervisor: handle_claimed_jobs_by *)
(*     looks among supervisees;                                            *)
(*   - those of the one fork whose exit the supervisor is just following   *)
(*     up, or was when it failed (it is leaving, and deregisters the row)  *)
(*     or was killed.                                                      *)
BeingFollowedUp(p) ==
  child[p].pc = "reaped" /\ pc \in {"supervising", "waiting", "leaving", "killed"}

ReapedForksHoldNoClaims ==
  \A p \in claims : child[p].pc = "none" \/ Reaped(p) =>
    \/ row[p] = "alone"
    \/ BeingFollowedUp(p) /\ \A q \in Pids : Reaped(q) => q = p

(* The inductive invariant behind it.  A row refers to a supervisor's row  *)
(* that exists, claimed executions to a row that exists; and their fork is *)
(* polling, or was killed, or was reaped with a row that the supervisor    *)
(* does not find.  One fork is followed up at a time, by a supervisor that *)
(* reaps or that was cut off as it did; one that shut down left no row.    *)
RegistryConsistent ==
  /\ pc \in {"start", "boot"} => ~lost
  /\ lost => ~ownRow
  /\ pc = "exited" => ~ownRow
  /\ \A p \in Pids : row[p] = "supervised" => ownRow
  /\ \A p, q \in Pids : Reaped(p) /\ Reaped(q) => p = q
  /\ Following => pc \in {"supervising", "waiting", "leaving", "exited", "killed"}
  /\ \A p \in claims :
       /\ row[p] # "none"
       /\ \/ child[p].pc = "polling"
          \/ child[p].pc \in {"zombie", "reaped"} /\ child[p].exit = 1
          \/ child[p].pc \in {"handled", "none"} /\ row[p] = "alone"

(* The claimed executions of a fork that has died do not stay claimed      *)
(* while the supervisor is supervising: the reaping or the pruning gets    *)
(* them, even when the supervisor has lost its own registration.           *)
ClaimsSettle ==
  \A p \in Pids :
    (p \in claims /\ Dead(p)) ~> (p \notin claims \/ pc \notin {"forking", "supervising"})

(* "The supervisor runs workers and dispatchers according to the           *)
(* configuration and starts them when needed": a slot without a running    *)
(* process gets one again.                                                 *)
Polling(s) == \E p \in forks : child[p].slot = s /\ child[p].pc = "polling"

SlotsRefilled ==
  \A s \in Slots : (pc = "supervising") ~> (Polling(s) \/ pc # "supervising")

(* TERM and QUIT end the tree: the supervisor exits, and so does every     *)
(* fork that it started while it was registered, even one that got its     *)
(* signals before it had handlers for them.                                *)
SignalsEndTheTree ==
  /\ (signalQueue # <<>>) ~> Ended
  /\ \A p \in Pids : (Ended /\ child[p].supervised) ~> Dead(p)

(* The pid file serves "to prevent running more than one supervisor in the *)
(* same host, or [...] for a health check".                                *)
PidfileWhileSupervising == pc = "supervising" => pidfile
-----------------------------------------------------------------------------
(* The main thread of every process that is alive goes on, timers fire,    *)
(* tasks end, and nobody has to send a signal or die.  The loop that reaps *)
(* goes on until there is no dead fork left, so that none is passed over   *)
(* for ever; nor does it go on for ever itself: waitpid returns nothing    *)
(* while the fork just started runs, and the next iteration comes to the   *)
(* signal queue.                                                           *)
TreeFairness ==
  /\ WF_vars(MainStep)
  /\ SF_vars(HandleTerm \/ HandleQuit)
  /\ WF_vars(Heartbeat)
  /\ \A p \in Pids :
       /\ SF_vars(ReapFork(p)) /\ WF_vars(Prune(p))
       /\ WF_vars(ChildStep(p)) /\ WF_vars(Finish(p))

FairTree == Spec /\ TreeFairness
=============================================================================
