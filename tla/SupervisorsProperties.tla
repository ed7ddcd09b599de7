----------------------- MODULE SupervisorsProperties -----------------------
(***************************************************************************)
(* What the supervisors of a host must guarantee, and the fairness it      *)
(* takes.                                                                  *)
(***************************************************************************)
EXTENDS Supervisors

Active == {"register"} \cup Registered

(* The pid file serves "to prevent running more than one supervisor in the *)
(* same host": no two have passed its check and not deleted it again       *)
(* (pidfile.py, setup; pidfiled.py, shutdown).                             *)
AtMostOneSupervisor ==
  \A s, u \in Supervisors : main[s] \in Active /\ main[u] \in Active => s = u

(* "[...] or in case you want to use it for a health check": the file      *)
(* names the supervisor that runs, and a supervisor that has ended in      *)
(* order, whatever became of its row meanwhile, leaves no file behind.     *)
FileNamesTheRunning ==
  /\ \A s \in Supervisors : main[s] \in Active => file = FileOf(s)
  /\ \A s \in Supervisors : main[s] = "off" => file.by # s

(* Once a supervisor has deregistered no row of it comes back: a heartbeat *)
(* that was on its way when the timer was stopped finds out that the row   *)
(* is gone before save() would insert another (process.py, heartbeat).     *)
NoRowAfterwards ==
  \A s \in Supervisors : row[s] # "none" => main[s] \in Registered

(* A supervisor that prunes never deletes its own row, stale as it may be, *)
(* even while its heartbeat or its main thread changes the process         *)
(* attribute that prune_dead_processes excludes (maintenance.py).          *)
SparesItself ==
  [][\A s \in Supervisors :
       prune[s] = "begin" /\ prune'[s] = "wait" => row'[s] = row[s]]_vars

(* What a killed supervisor leaves is cleared away: the row is pruned by   *)
(* any supervisor that goes on serving, and the pid file, which names a    *)
(* process that is no more, does not keep the next one from starting.      *)
LeftoversAreCleared ==
  /\ \A s, u \in Supervisors :
       <>[](main[u] = "serve") => (leftover[s] # "none" ~> leftover[s] = "none")
  /\ file.exists /\ file.by = NoOne ~> ~(file.exists /\ file.by = NoOne)

-----------------------------------------------------------------------------
(***************************************************************************)
(* The inductive invariants behind SupervisorsTypeOK, NoRowAfterwards and  *)
(* SparesItself, and behind AtMostOneSupervisor and FileNamesTheRunning.   *)
(***************************************************************************)
(* A supervisor that is not registered yet has no timers.                  *)
TimersOff ==
  \A s \in Supervisors : main[s] \in {"off", "register"} \cup Starting =>
    beat[s] = "off" /\ prune[s] = "off"

(* A row belongs to a process attribute, and stays while it is locked.     *)
RowsOwned ==
  \A s \in Supervisors :
    /\ row[s] # "none" => main[s] \in Registered /\ object[s] = "row"
    /\ beat[s] = "locked" => row[s] # "none"

RowsInv == SupervisorsTypeOK /\ TimersOff /\ RowsOwned

(* Who has left the check behind, and not ended, is alone - but for those  *)
(* that come to check on a supervisor that serves.                         *)
Apart ==
  \A s, u \in Supervisors : s # u =>
    /\ main[s] = "serve" => main[u] \in {"off", "check", "probe"}
    /\ main[s] \in {"check", "probe"} => main[u] \in {"off", "serve"}
    /\ main[s] \notin {"off", "check", "probe", "serve"} => main[u] = "off"

(* What the pid file holds in each phase.                                  *)
FileInPhase ==
  /\ ~file.exists => file = NoFile
  /\ \A s \in Supervisors :
       /\ main[s] \in {"off", "check", "probe", "unlink", "create"} => file.by # s
       /\ main[s] = "probe" => found[s] = file.by
       /\ main[s] = "unlink" => file.by = NoOne
       /\ main[s] = "create" => file = NoFile
       /\ main[s] = "write" => file = [by |-> s, written |-> FALSE, exists |-> TRUE]
       /\ main[s] \in Active => file = FileOf(s)

FileInv == Apart /\ FileInPhase

-----------------------------------------------------------------------------
(* The threads of a process go on, a supervisor is started again, rows     *)
(* grow old.  Nobody has to stop a supervisor.                             *)
SupervisorsFairness ==
  \A s \in Supervisors :
    /\ WF_vars(Start(s)) /\ WF_vars(MainStep(s))
    /\ WF_vars(Beat(s)) /\ WF_vars(PruneTimer(s)) /\ WF_vars(Prune(s))
    /\ WF_vars(GrowOld(s))

FairSupervisors == Spec /\ SupervisorsFairness
=============================================================================
