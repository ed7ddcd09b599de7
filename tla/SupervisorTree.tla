--------------------------- MODULE SupervisorTree ---------------------------
(***************************************************************************)
(* A supervisor and the processes it forks: booting, signals, reaping and  *)
(* replacing forks, the process registry, and the end of the tree          *)
(* (steady_queue/processes).                                               *)
(*                                                                         *)
(* A fork inherits the supervisor's stack: whatever ends the child - the   *)
(* sys.exit(0) after instance.start(), or an exception - unwinds through   *)
(* Supervisor.start or Supervisor.supervise in the child, and these run    *)
(* Supervisor.shutdown there.                                              *)
(*                                                                         *)
(* Time is abstract: heartbeats, timeouts and polls happen at any moment.  *)
(* What a worker's death does to single jobs is in JobLifecycle; here a    *)
(* worker's claimed executions are all or none.                            *)
(***************************************************************************)
EXTENDS Integers, FiniteSets, Sequences

CONSTANTS
  Slots,    \* configured_processes
  Workers,  \* those of them that are workers, the others claim nothing
  Pids,     \* process ids; one is used again when nothing is left of its process
  Hazards   \* the environment events of this instance

AllHazards == {"TERM", "QUIT", "kill", "killSupervisor", "leave", "error"}

NoSlot == "none"

ASSUME TreeConstantsOK ==
  /\ Workers \subseteq Slots
  /\ NoSlot \notin Slots
  /\ Hazards \subseteq AllHazards

VARIABLES
  pc,          \* where the supervisor's main thread is
  signalQueue, \* its signal_queue
  sent,        \* the signals it was sent: each at most once
  forks,       \* the pids in Supervisor.forks
  child,       \* each forked process
  row,         \* the row of each fork: "none", "supervised" or "alone" (supervisor_id NULL)
  ownRow,      \* does the supervisor's row exist?
  lost,        \* the supervisor's process attribute is None
  claims,      \* the forks whose row has claimed executions
  busy,        \* the forks whose pool threads perform a job
  pidfile      \* does the pid file exist?

vars == <<pc, signalQueue, sent, forks, child, row, ownRow, lost, claims, busy, pidfile>>

(* A fork is "reaped" when waitpid has returned it and it has been popped  *)
(* from forks, and "handled" when its claimed executions have been seen    *)
(* to: the local variables of the loop that reaps.  There it stays when    *)
(* the loop is cut off.                                                    *)
ChildPcs == {"none", "forked", "registered", "polling", "ended", "draining", "zombie",
             "reaped", "handled"}

(* Those whose exit status is settled.                                     *)
ExitKnown == {"draining", "zombie", "reaped", "handled"}

NoChild == [pc |-> "none", slot |-> NoSlot, initial |-> FALSE, supervised |-> FALSE,
            stopped |-> FALSE, exit |-> 0]

(* exit is the exit status; while the child unwinds, -1 is an exception    *)
(* other than SystemExit.                                                  *)
ChildType ==
  [pc : ChildPcs, slot : Slots \cup {NoSlot}, initial : BOOLEAN, supervised : BOOLEAN,
   stopped : BOOLEAN, exit : {-1, 0, 1}]

TreeTypeOK ==
  /\ pc \in {"start", "boot", "forking", "supervising", "waiting", "stopped",
             "interrupted", "leaving", "exited", "killed"}
  /\ signalQueue \in Seq({"TERM", "QUIT"})
  /\ sent \subseteq {"TERM", "QUIT"}
  /\ forks \subseteq Pids
  /\ child \in [Pids -> ChildType]
  /\ \A p \in Pids : child[p].pc \in ExitKnown => child[p].exit \in {0, 1}
  /\ row \in [Pids -> {"none", "supervised", "alone"}]
  /\ ownRow \in BOOLEAN /\ lost \in BOOLEAN /\ pidfile \in BOOLEAN
  /\ claims \subseteq Pids /\ busy \subseteq Pids

Ended == pc \in {"exited", "killed"}

Reaped(p) == child[p].pc \in {"reaped", "handled"}

Dead(p) == child[p].pc \in {"none", "zombie"} \/ Reaped(p)

(* The main thread is in the middle of reap_and_replace_terminated_forks   *)
(* or reap_terminated_forks.                                               *)
Following == \E p \in Pids : Reaped(p)
-----------------------------------------------------------------------------
(***************************************************************************)
(* The registry.                                                           *)
(***************************************************************************)
(* Mutant: the rows are deleted, their claimed executions stay.            *)
DeregisterWithoutRelease ==
  /\ ownRow' = FALSE
  /\ row' = [p \in Pids |-> IF row[p] = "supervised" THEN "none" ELSE row[p]]
  /\ UNCHANGED claims

(* Process.deregister of the supervisor's row: its supervisees are listed, *)
(* then it is deleted, then they are, and their claimed executions go back *)
(* to the ready table.  A fork that registers after the listing keeps its  *)
(* row, whose supervisor becomes NULL.  (A claim between the release of a  *)
(* live worker's executions and its DELETE is an orphan from then on, not  *)
(* among these claims: JobLifecycle has it.)                               *)
DeregisterTree ==
  \E late \in SUBSET {p \in Pids : child[p].pc = "registered" /\ row[p] = "supervised"} :
    LET listed == {p \in Pids : row[p] = "supervised"} \ late IN
    /\ ownRow' = FALSE
    /\ row' = [p \in Pids |-> IF p \in listed THEN "none"
                              ELSE IF p \in late THEN "alone" ELSE row[p]]
    /\ claims' = claims \ listed

(* Mutant: the exit of a fork is not followed up.                          *)
NoClaimsHandled(p) == UNCHANGED claims

(* handle_claimed_jobs_by: fails the claimed executions of p's row, found  *)
(* among the supervisees of the supervisor's own.                          *)
HandleClaimedJobsBy(p) ==
  claims' = IF ~lost /\ row[p] = "supervised" THEN claims \ {p} ELSE claims

(***************************************************************************)
(* Starting forks.                                                         *)
(***************************************************************************)
Unused == {p \in Pids : child[p].pc = "none" /\ row[p] = "none" /\ p \notin forks}

FreePid == CHOOSE p \in Unused : TRUE

(* Mutant: the instance gets a supervisor that is no longer registered.    *)
RemembersSupervisor(s) ==
  [NoChild EXCEPT !.pc = "forked", !.slot = s, !.initial = pc = "forking",
                  !.supervised = TRUE]

(* start_process in the child: instance.supervisor is the supervisor's     *)
(* process attribute of that moment.                                       *)
NewFork(s) ==
  [NoChild EXCEPT !.pc = "forked", !.slot = s, !.initial = pc = "forking",
                  !.supervised = ~lost]
-----------------------------------------------------------------------------
(***************************************************************************)
(* Signals to the forks.                                                   *)
(***************************************************************************)
(* What becomes of p when it gets sig.  Until Runnable.boot has installed  *)
(* the fork's own handlers it has the supervisor's trap: in an initial     *)
(* fork is_supervising is still False and the trap raises SystemExit; in a *)
(* replacement it only appends to the child's copy of signal_queue.  After *)
(* the inherited shutdown the default action applies.                      *)
Signalled(p, sig) ==
  CASE child[p].pc \in {"forked", "registered"} /\ child[p].initial ->
         [child[p] EXCEPT !.pc = "ended", !.exit = 1]
    [] child[p].pc = "polling" /\ sig = "TERM" -> [child[p] EXCEPT !.stopped = TRUE]
    [] child[p].pc = "polling" /\ sig = "QUIT" -> [child[p] EXCEPT !.pc = "ended", !.exit = 1]
    [] child[p].pc = "draining" -> [child[p] EXCEPT !.pc = "zombie", !.exit = 1]
    [] OTHER -> child[p]

(* signal_processes(self.forks.keys(), sig).  A fork that QUIT takes out   *)
(* of its poll loop deregisters in the finally of start_loop.              *)
SignalForks(sig) ==
  LET after == [p \in Pids |-> IF p \in forks THEN Signalled(p, sig) ELSE child[p]]
      quit == {p \in Pids : child[p].pc = "polling" /\ after[p].pc = "ended"}
  IN  /\ child' = after
      /\ row' = [p \in Pids |-> IF p \in quit THEN "none" ELSE row[p]]
      /\ claims' = claims \ quit
      /\ busy' = {p \in busy : after[p].pc # "zombie"}
-----------------------------------------------------------------------------
(***************************************************************************)
(* The supervisor.                                                         *)
(***************************************************************************)
SetUpPidfile ==
  /\ pc = "start"
  /\ pc' = "boot"
  /\ pidfile' = TRUE
  /\ UNCHANGED <<signalQueue, sent, forks, child, row, ownRow, lost, claims, busy>>

Register ==
  /\ pc = "boot"
  /\ pc' = "forking"
  /\ ownRow' = TRUE
  /\ UNCHANGED <<signalQueue, sent, forks, child, row, lost, claims, busy, pidfile>>

(* start_processes forks one process for each slot ...                     *)
StartProcess(s) ==
  /\ pc = "forking"
  /\ s \notin {child[p].slot : p \in forks}
  /\ Unused # {}
  /\ forks' = forks \cup {FreePid}
  /\ child' = [child EXCEPT ![FreePid] = NewFork(s)]
  /\ UNCHANGED <<pc, signalQueue, sent, row, ownRow, lost, claims, busy, pidfile>>

(* ... then the maintenance task and the loop start.                       *)
Supervise ==
  /\ pc = "forking"
  /\ {child[p].slot : p \in forks} = Slots
  /\ pc' = "supervising"
  /\ UNCHANGED <<signalQueue, sent, forks, child, row, ownRow, lost, claims, busy, pidfile>>

(* A signal arrives.  Before is_supervising the trap raises SystemExit and *)
(* the supervisor shuts down without a word to its forks; one that comes   *)
(* then meets the default action.  Afterwards the trap fills the queue,    *)
(* also when nobody is going to read it any more.                          *)
Signal(sig) ==
  /\ sig \in Hazards \ sent
  /\ sent' = sent \cup {sig}
  /\ \/ /\ pc \in {"boot", "forking"}
        /\ pc' = "interrupted"
        /\ UNCHANGED signalQueue
     \/ /\ pc = "interrupted"
        /\ pc' = "killed"
        /\ UNCHANGED signalQueue
     \/ /\ pc \in {"supervising", "waiting", "stopped", "leaving"}
        /\ signalQueue' = Append(signalQueue, sig)
        /\ UNCHANGED pc
  /\ UNCHANGED <<forks, child, row, ownRow, lost, claims, busy, pidfile>>

(* The main thread is at process_signal_queue: before the reaping of an    *)
(* iteration, or in its loop, which goes on until the queue is empty.      *)
AtSignalQueue == pc \in {"supervising", "stopped"} /\ ~Following

(* TERM is terminate_gracefully ...                                        *)
HandleTerm ==
  /\ AtSignalQueue
  /\ signalQueue # <<>> /\ Head(signalQueue) = "TERM"
  /\ signalQueue' = Tail(signalQueue)
  /\ SignalForks("TERM")
  /\ pc' = "waiting"
  /\ UNCHANGED <<sent, forks, ownRow, lost, pidfile>>

(* ... which reaps while it waits for the forks, for shutdown_timeout: an  *)
(* exit status of 0 needs no follow-up ...                                 *)
ReapTerminated(p) ==
  /\ pc = "waiting" /\ ~Following
  /\ p \in forks /\ child[p].pc = "zombie"
  /\ forks' = forks \ {p}
  /\ child' = [child EXCEPT ![p] = IF child[p].exit = 0 THEN NoChild
                                   ELSE [child[p] EXCEPT !.pc = "reaped"]]
  /\ UNCHANGED <<pc, signalQueue, sent, row, ownRow, lost, claims, busy, pidfile>>

AllTerminated ==
  /\ pc = "waiting" /\ ~Following /\ forks = {}
  /\ pc' = "stopped"
  /\ UNCHANGED <<signalQueue, sent, forks, child, row, ownRow, lost, claims, busy, pidfile>>

(* ... and sends QUIT to those that are left, which it reaps no more.      *)
ShutdownTimeout ==
  /\ pc = "waiting" /\ ~Following /\ forks # {}
  /\ SignalForks("QUIT")
  /\ pc' = "stopped"
  /\ UNCHANGED <<signalQueue, sent, forks, ownRow, lost, pidfile>>

(* QUIT is terminate_immediately.                                          *)
HandleQuit ==
  /\ AtSignalQueue
  /\ signalQueue # <<>> /\ Head(signalQueue) = "QUIT"
  /\ signalQueue' = Tail(signalQueue)
  /\ SignalForks("QUIT")
  /\ pc' = "stopped"
  /\ UNCHANGED <<sent, forks, ownRow, lost, pidfile>>

(* reap_and_replace_terminated_forks and replace_fork: a dead fork of any  *)
(* exit status is taken out of the process table and of forks, ...         *)
ReapFork(p) ==
  /\ pc = "supervising" /\ ~Following
  /\ p \in forks /\ child[p].pc = "zombie"
  /\ forks' = forks \ {p}
  /\ child' = [child EXCEPT ![p].pc = "reaped"]
  /\ UNCHANGED <<pc, signalQueue, sent, row, ownRow, lost, claims, busy, pidfile>>

(* ... then its claimed executions fail, which is all there is to do while *)
(* the supervisor terminates ...                                           *)
FollowUp(p) ==
  /\ pc \in {"supervising", "waiting"}
  /\ child[p].pc = "reaped"
  /\ HandleClaimedJobsBy(p)
  /\ child' = [child EXCEPT ![p] = IF pc = "waiting" THEN NoChild
                                   ELSE [child[p] EXCEPT !.pc = "handled"]]
  /\ UNCHANGED <<pc, signalQueue, sent, forks, row, ownRow, lost, busy, pidfile>>

(* ... and the process of its slot is started again.                       *)
StartReplacement(p) ==
  /\ pc = "supervising"
  /\ child[p].pc = "handled"
  /\ Unused # {}
  /\ forks' = forks \cup {FreePid}
  /\ child' = [child EXCEPT ![p] = NoChild, ![FreePid] = NewFork(child[p].slot)]
  /\ UNCHANGED <<pc, signalQueue, sent, row, ownRow, lost, claims, busy, pidfile>>

(* A query or the fork of the follow-up fails (or the heartbeat takes the  *)
(* process attribute away under handle_claimed_jobs_by).  It goes through  *)
(* the finally of supervise, out of terminate_gracefully too; the fork is  *)
(* reaped and forgotten.                                                   *)
LoopRaises ==
  /\ "error" \in Hazards
  /\ pc \in {"supervising", "waiting"} /\ Following
  /\ pc' = "leaving"
  /\ UNCHANGED <<signalQueue, sent, forks, child, row, ownRow, lost, claims, busy, pidfile>>

(* process_signal_queue has found the queue empty, and the loop breaks at  *)
(* its next is_stopped: a signal that arrives on the way (Signal) is read  *)
(* no more.                                                                *)
BreakLoop ==
  /\ pc = "stopped" /\ signalQueue = <<>>
  /\ pc' = "leaving"
  /\ UNCHANGED <<signalQueue, sent, forks, child, row, ownRow, lost, claims, busy, pidfile>>

(* Supervisor.shutdown in the supervisor itself.                           *)
ShutDown ==
  /\ pc \in {"interrupted", "leaving"}
  /\ pc' = "exited"
  /\ IF ownRow /\ ~lost THEN DeregisterTree ELSE UNCHANGED <<row, ownRow, claims>>
  /\ pidfile' = FALSE
  /\ UNCHANGED <<signalQueue, sent, forks, child, lost, busy>>

(* The heartbeat finds no row: process becomes None.                       *)
Heartbeat ==
  /\ pc \in {"forking", "supervising", "waiting", "stopped", "interrupted", "leaving"}
  /\ ~ownRow /\ ~lost
  /\ lost' = TRUE
  /\ UNCHANGED <<pc, signalQueue, sent, forks, child, row, ownRow, claims, busy, pidfile>>

(* Mutant: only supervised processes are pruned.                           *)
PrunableSupervisee(p) == row[p] = "supervised" /\ Dead(p)

(* No heartbeat for process_alive_threshold.                               *)
Prunable(p) == row[p] # "none" /\ Dead(p)

(* prune_dead_processes, in the maintenance thread.                        *)
Prune(p) ==
  /\ pc \in {"supervising", "waiting", "stopped"}
  /\ Prunable(p)
  /\ row' = [row EXCEPT ![p] = "none"]
  /\ claims' = claims \ {p}
  /\ UNCHANGED <<pc, signalQueue, sent, forks, child, ownRow, lost, busy, pidfile>>

KillSupervisor ==
  /\ "killSupervisor" \in Hazards
  /\ pc \in {"forking", "supervising", "waiting", "stopped", "interrupted", "leaving"}
  /\ pc' = "killed"
  /\ UNCHANGED <<signalQueue, sent, forks, child, row, ownRow, lost, claims, busy, pidfile>>
-----------------------------------------------------------------------------
(***************************************************************************)
(* A fork.                                                                 *)
(***************************************************************************)
(* Registrable.boot: the INSERT refers to the supervisor's row, and fails  *)
(* when that is gone.                                                      *)
ChildRegister(p) ==
  /\ child[p].pc = "forked"
  /\ IF child[p].supervised /\ ~ownRow
       THEN /\ child' = [child EXCEPT ![p].pc = "ended", ![p].exit = -1]
            /\ UNCHANGED row
       ELSE /\ child' = [child EXCEPT ![p].pc = "registered"]
            /\ row' = [row EXCEPT ![p] = IF child[p].supervised THEN "supervised" ELSE "alone"]
  /\ UNCHANGED <<pc, signalQueue, sent, forks, ownRow, lost, claims, busy, pidfile>>

(* register_signal_handlers, and the poll loop.                            *)
ChildReady(p) ==
  /\ child[p].pc = "registered"
  /\ child' = [child EXCEPT ![p].pc = "polling"]
  /\ UNCHANGED <<pc, signalQueue, sent, forks, row, ownRow, lost, claims, busy, pidfile>>

(* A poll of a worker claims a job and posts it to the pool ...            *)
Claim(p) ==
  /\ child[p].pc = "polling" /\ child[p].slot \in Workers
  /\ ~child[p].stopped
  /\ row[p] # "none" /\ p \notin busy
  /\ claims' = claims \cup {p}
  /\ busy' = busy \cup {p}
  /\ UNCHANGED <<pc, signalQueue, sent, forks, child, row, ownRow, lost, pidfile>>

(* ... whose thread performs it to the end.                                *)
Finish(p) ==
  /\ p \in busy
  /\ busy' = busy \ {p}
  /\ claims' = claims \ {p}
  /\ UNCHANGED <<pc, signalQueue, sent, forks, child, row, ownRow, lost, pidfile>>

(* Mutant: a fork does not notice the end of its supervisor.               *)
NeverGoesAway(p) == FALSE

(* os.getppid() is not the supervisor's pid any more.                      *)
SupervisorWentAway(p) == child[p].supervised /\ Ended

IsShuttingDown(p) == child[p].stopped \/ SupervisorWentAway(p) \/ row[p] = "none"

(* The poll loop ends: its finally stops the pool and deregisters, and     *)
(* sys.exit(0), or the exception that ended it, goes on.                   *)
EndLoop(p, exit) ==
  /\ child[p].pc = "polling"
  /\ child' = [child EXCEPT ![p].pc = "ended", ![p].exit = exit]
  /\ row' = [row EXCEPT ![p] = "none"]
  /\ claims' = claims \ {p}
  /\ UNCHANGED <<pc, signalQueue, sent, forks, ownRow, lost, busy, pidfile>>

ChildStops(p) == IsShuttingDown(p) /\ EndLoop(p, 0)

ChildRaises(p) == "error" \in Hazards /\ EndLoop(p, -1)

(* Somebody sends a TERM to this fork.                                     *)
TermChild(p) ==
  /\ "leave" \in Hazards
  /\ child[p].pc = "polling" /\ ~child[p].stopped
  /\ child' = [child EXCEPT ![p].stopped = TRUE]
  /\ UNCHANGED <<pc, signalQueue, sent, forks, row, ownRow, lost, claims, busy, pidfile>>

(* An initial fork unwinds through the "except SystemExit" of start(), and *)
(* returns; a replacement through the finally of supervise().              *)
Catches(c) == ~c.initial \/ c.exit # -1

(* Mutant: the kind of exception leaks into the exit status.               *)
RawStatus(c) == c.exit

ExitStatus(c) ==
  IF c.exit = -1 THEN 1 ELSE IF c.initial THEN 0 ELSE c.exit

(* Supervisor.shutdown in the child, with the process attribute that the   *)
(* supervisor had at the fork, and without a look at the pid in the file.  *)
InheritedShutdown(p) ==
  /\ child[p].pc = "ended"
  /\ IF Catches(child[p]) /\ child[p].supervised
       THEN DeregisterTree ELSE UNCHANGED <<row, ownRow, claims>>
  /\ pidfile' = (pidfile /\ ~Catches(child[p]))
  /\ child' = [child EXCEPT ![p].pc = "draining", ![p].exit = ExitStatus(child[p])]
  /\ UNCHANGED <<pc, signalQueue, sent, forks, lost, busy>>

(* The interpreter joins the pool's threads before it exits.               *)
Exit(p) ==
  /\ child[p].pc = "draining" /\ p \notin busy
  /\ child' = [child EXCEPT ![p].pc = "zombie"]
  /\ UNCHANGED <<pc, signalQueue, sent, forks, row, ownRow, lost, claims, busy, pidfile>>

Kill(p) ==
  /\ "kill" \in Hazards
  /\ child[p].pc \in {"polling", "draining"}
  /\ child' = [child EXCEPT ![p].pc = "zombie", ![p].exit = 1]
  /\ busy' = busy \ {p}
  /\ UNCHANGED <<pc, signalQueue, sent, forks, row, ownRow, lost, claims, pidfile>>
-----------------------------------------------------------------------------
Init ==
  /\ pc = "start"
  /\ signalQueue = <<>> /\ sent = {}
  /\ forks = {}
  /\ child = [p \in Pids |-> NoChild]
  /\ row = [p \in Pids |-> "none"]
  /\ ownRow = FALSE /\ lost = FALSE /\ pidfile = FALSE
  /\ claims = {} /\ busy = {}

MainStep ==
  \/ SetUpPidfile \/ Register \/ Supervise \/ \E s \in Slots : StartProcess(s)
  \/ HandleTerm \/ HandleQuit \/ AllTerminated \/ ShutdownTimeout
  \/ \E p \in Pids : ReapTerminated(p) \/ FollowUp(p) \/ StartReplacement(p)
  \/ BreakLoop \/ ShutDown

ChildStep(p) ==
  \/ ChildRegister(p) \/ ChildReady(p) \/ ChildStops(p) \/ InheritedShutdown(p)
  \/ Exit(p)

Next ==
  \/ MainStep \/ Heartbeat \/ LoopRaises \/ KillSupervisor
  \/ \E sig \in {"TERM", "QUIT"} : Signal(sig)
  \/ \E p \in Pids :
       \/ ReapFork(p) \/ Prune(p)
       \/ ChildStep(p) \/ ChildRaises(p) \/ TermChild(p) \/ Kill(p)
       \/ Claim(p) \/ Finish(p)

Spec == Init /\ [][Next]_vars
=============================================================================
