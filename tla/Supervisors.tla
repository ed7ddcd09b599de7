----------------------------- MODULE Supervisors -----------------------------
(***************************************************************************)
(* The supervisors of one host: the pid file that is to keep a second one  *)
(* from starting, their rows in processes, and the two timer threads of    *)
(* each, which send heartbeats and prune the processes that send none      *)
(* (steady_queue/processes: pidfile.py, pidfiled.py, registrable.py,       *)
(* maintenance.py, timer.py; models/process.py, prunable.py).              *)
(*                                                                         *)
(* A timer's callable runs in a thread of its own, and stop() waits for    *)
(* it no longer than a fifth of a second: the main thread goes on to       *)
(* deregister while a heartbeat or a prune may still be on its way.        *)
(*                                                                         *)
(* A supervisor that starts again has another pid; what its last life left *)
(* behind is named after NoOne (the pid file) or is a leftover (the row).  *)
(***************************************************************************)
EXTENDS Integers, FiniteSets

CONSTANTS
  Supervisors,
  NoOne,       \* a pid that no process has
  MaxKills,    \* bound: how many supervisors are killed
  Hazards      \* the environment events of this instance

ASSUME SupervisorsConstantsOK ==
  /\ IsFiniteSet(Supervisors)
  /\ NoOne \notin Supervisors
  /\ MaxKills \in Nat
  /\ Hazards \subseteq {"stall", "otherHost", "overlap", "termInCheck", "killInWrite"}

VARIABLES
  main,     \* where the main thread of each supervisor is
  found,    \* the pid it has read from the pid file
  file,     \* the pid file: who created it, and whether the pid is written
  row,      \* the row of each supervisor: "none", or by the age of its heartbeat
  leftover, \* the row of an earlier life that was killed
  object,   \* its process attribute: "none", "row", or "deleted" without a pk
  beat,     \* where its heartbeat timer is
  prune,    \* where its maintenance timer is
  told,     \* the timers whose stop event is set
  kills

vars == <<main, found, file, row, leftover, object, beat, prune, told, kills>>

NoFile == [by |-> NoOne, written |-> FALSE, exists |-> FALSE]

FileOf(p) == [by |-> p, written |-> TRUE, exists |-> TRUE]

Starting == {"check", "probe", "unlink", "create", "write"}

Registered == {"boot", "serve", "stopPrune", "stopBeat", "deregister", "release", "delete"}

Stopping == {"stopPrune", "stopBeat", "deregister", "release", "delete", "unpid", "exit"}

SupervisorsTypeOK ==
  /\ main \in [Supervisors -> {"off", "register", "unpid", "exit"} \cup Starting \cup Registered]
  /\ found \in [Supervisors -> Supervisors \cup {NoOne}]
  /\ file \in [by : Supervisors \cup {NoOne}, written : BOOLEAN, exists : BOOLEAN]
  /\ row \in [Supervisors -> {"none", "fresh", "stale"}]
  /\ leftover \in [Supervisors -> {"none", "fresh", "stale"}]
  /\ object \in [Supervisors -> {"none", "row", "deleted"}]
  /\ beat \in [Supervisors -> {"off", "wait", "begin", "refresh", "lock", "locked"}]
  /\ prune \in [Supervisors -> {"off", "wait", "begin"}]
  /\ told \subseteq Supervisors \X {"beat", "prune"}
  /\ kills \in 0..MaxKills
  /\ \A s \in Supervisors : main[s] = "off" => beat[s] = "off" /\ prune[s] = "off"

(* A pid file may have been left by a supervisor that was killed.          *)
Init ==
  /\ main = [s \in Supervisors |-> "off"]
  /\ found = [s \in Supervisors |-> NoOne]
  /\ file \in {NoFile, FileOf(NoOne)}
  /\ row = [s \in Supervisors |-> "none"]
  /\ leftover = [s \in Supervisors |-> "none"]
  /\ object = [s \in Supervisors |-> "none"]
  /\ beat = [s \in Supervisors |-> "off"]
  /\ prune = [s \in Supervisors |-> "off"]
  /\ told = {}
  /\ kills = 0

registry == <<row, leftover, object>>
timers == <<beat, prune, told>>

GoTo(s, pc) == main' = [main EXCEPT ![s] = pc]
-----------------------------------------------------------------------------
(***************************************************************************)
(* Pidfile.setup, in the boot of a supervisor.  Without "overlap" nobody   *)
(* starts a supervisor while another is starting or stopping.              *)
(***************************************************************************)
Alone(s, phases) ==
  "overlap" \in Hazards \/ \A u \in Supervisors \ {s} : main[u] \notin phases

Start(s) ==
  /\ main[s] = "off"
  /\ Alone(s, Starting \cup Stopping \cup {"register", "boot"})
  /\ GoTo(s, "check")
  /\ UNCHANGED <<found, file, registry, timers, kills>>

(* The start fails with an exception: RuntimeError, already running, or a  *)
(* ValueError, int("").  There is no atexit hook yet.                      *)
StartFails(s) == GoTo(s, "off") /\ found' = [found EXCEPT ![s] = NoOne]

(* check_status reads the file ...                                         *)
Check(s) ==
  /\ main[s] = "check"
  /\ CASE ~file.exists -> GoTo(s, "create") /\ UNCHANGED found
       [] file.exists /\ ~file.written -> StartFails(s)
       [] file.exists /\ file.written -> GoTo(s, "probe") /\ found' = [found EXCEPT ![s] = file.by]
  /\ UNCHANGED <<file, registry, timers, kills>>

(* Mutant: a file is always taken to be stale.                             *)
NeverAlive(p) == FALSE

(* os.kill(existing_pid, 0) raises no ProcessLookupError.                  *)
Alive(p) == p # NoOne

(* ... and sends signal 0 to the process it names.                         *)
Probe(s) ==
  /\ main[s] = "probe"
  /\ IF Alive(found[s]) THEN StartFails(s) ELSE GoTo(s, "unlink") /\ UNCHANGED found
  /\ UNCHANGED <<file, registry, timers, kills>>

(* The file is deleted, whoever has it by now.                             *)
Unlink(s) ==
  /\ main[s] = "unlink"
  /\ GoTo(s, "create")
  /\ file' = NoFile
  /\ UNCHANGED <<found, registry, timers, kills>>

(* write_file: open(path, "x") fails when there is a file, and the check   *)
(* is made again ...                                                       *)
Create(s) ==
  /\ main[s] = "create"
  /\ IF file.exists
       THEN GoTo(s, "check") /\ UNCHANGED file
       ELSE /\ GoTo(s, "write")
            /\ file' = [by |-> s, written |-> FALSE, exists |-> TRUE]
  /\ UNCHANGED <<found, registry, timers, kills>>

(* ... then the pid goes into the file that was opened, which may not be   *)
(* the one that has the name now.                                          *)
Write(s) ==
  /\ main[s] = "write"
  /\ GoTo(s, "register")
  /\ found' = [found EXCEPT ![s] = NoOne]
  /\ file' = IF file.by = s THEN FileOf(s) ELSE file
  /\ UNCHANGED <<registry, timers, kills>>
-----------------------------------------------------------------------------
(***************************************************************************)
(* Registrable.boot, start and shutdown.                                   *)
(***************************************************************************)
(* register, and launch_heartbeat.                                         *)
Register(s) ==
  /\ main[s] = "register"
  /\ GoTo(s, "boot")
  /\ row' = [row EXCEPT ![s] = "fresh"]
  /\ object' = [object EXCEPT ![s] = "row"]
  /\ beat' = [beat EXCEPT ![s] = "wait"]
  /\ UNCHANGED <<found, file, leftover, prune, told, kills>>

(* The forks are started (SupervisorTree), and launch_maintenance_task.    *)
Launch(s) ==
  /\ main[s] = "boot"
  /\ GoTo(s, "serve")
  /\ prune' = [prune EXCEPT ![s] = "wait"]
  /\ UNCHANGED <<found, file, registry, beat, told, kills>>

(* A signal ends the loop, or, as SystemExit, the boot.  The pidfile       *)
(* attribute is set before the file is checked, so that a shutdown deletes *)
(* the file even then: "termInCheck".                                      *)
Stop(s) ==
  /\ Alone(s, Starting)
  /\ \/ main[s] \in {"register", "boot", "serve"} /\ GoTo(s, "stopPrune")
     \/ main[s] \in Starting /\ "termInCheck" \in Hazards /\ GoTo(s, "unpid")
  /\ found' = [found EXCEPT ![s] = NoOne]
  /\ UNCHANGED <<file, registry, timers, kills>>

(* stop_maintenance_task and stop_heartbeat set the stop events.           *)
StopPrune(s) ==
  /\ main[s] = "stopPrune"
  /\ GoTo(s, "stopBeat")
  /\ told' = told \cup {<<s, "prune">>}
  /\ UNCHANGED <<found, file, registry, beat, prune, kills>>

StopBeat(s) ==
  /\ main[s] = "stopBeat"
  /\ GoTo(s, "deregister")
  /\ told' = told \cup {<<s, "beat">>}
  /\ UNCHANGED <<found, file, registry, beat, prune, kills>>

(* deregister tests whether there is a process ...                         *)
Deregister(s) ==
  /\ main[s] = "deregister"
  /\ GoTo(s, IF object[s] = "none" THEN "unpid" ELSE "release")
  /\ UNCHANGED <<found, file, registry, timers, kills>>

(* ... and reads the attribute again.  When the heartbeat has cleared it   *)
(* in between, AttributeError ends the shutdown, with the pid file left to *)
(* the atexit hook.                                                        *)
Release(s) ==
  /\ main[s] = "release"
  /\ GoTo(s, IF object[s] = "none" THEN "exit" ELSE "delete")
  /\ UNCHANGED <<found, file, registry, timers, kills>>

(* Process.delete waits for a heartbeat that has locked the row, and takes *)
(* the primary key off the object.                                         *)
Delete(s) ==
  /\ main[s] = "delete" /\ beat[s] # "locked"
  /\ GoTo(s, "unpid")
  /\ row' = [row EXCEPT ![s] = "none"]
  /\ object' = [object EXCEPT ![s] = IF @ = "none" THEN @ ELSE "deleted"]
  /\ UNCHANGED <<found, file, leftover, timers, kills>>

(* delete_pidfile, without a look at the pid in it.                        *)
DeletePidfile(s) ==
  /\ main[s] = "unpid"
  /\ GoTo(s, "exit")
  /\ file' = NoFile
  /\ UNCHANGED <<found, registry, timers, kills>>

(* Mutant: the timers are no daemon threads.                               *)
EndOfMainThread(s) ==
  /\ GoTo(s, "off")
  /\ found' = [u \in Supervisors |-> IF u = s \/ found[u] = s THEN NoOne ELSE found[u]]
  /\ object' = [object EXCEPT ![s] = "none"]
  /\ UNCHANGED timers

(* The process ends: its daemon threads with it.                           *)
End(s) ==
  /\ GoTo(s, "off")
  /\ found' = [u \in Supervisors |-> IF u = s \/ found[u] = s THEN NoOne ELSE found[u]]
  /\ object' = [object EXCEPT ![s] = "none"]
  /\ beat' = [beat EXCEPT ![s] = "off"]
  /\ prune' = [prune EXCEPT ![s] = "off"]
  /\ told' = told \ ({s} \X {"beat", "prune"})

(* Mutant: the file is left to the next start.                             *)
NoHook == UNCHANGED file

(* set_at_exit_hook: once more, delete.                                    *)
AtExitHook == file' = NoFile

Exit(s) ==
  /\ main[s] = "exit"
  /\ AtExitHook
  /\ End(s)
  /\ UNCHANGED <<row, leftover, kills>>

Kill(s) ==
  /\ kills < MaxKills
  /\ main[s] # "off" /\ (main[s] # "write" \/ "killInWrite" \in Hazards)
  /\ kills' = kills + 1
  /\ file' = IF file.by = s THEN [file EXCEPT !.by = NoOne] ELSE file
  /\ leftover' = [leftover EXCEPT ![s] = IF row[s] = "none" THEN @ ELSE row[s]]
  /\ row' = [row EXCEPT ![s] = "none"]
  /\ End(s)
-----------------------------------------------------------------------------
(***************************************************************************)
(* The heartbeat timer.                                                    *)
(***************************************************************************)
Told(s, timer) == <<s, timer>> \in told

(* The wait of TimerTask.run ends, with the event or with the interval.    *)
BeatTimer(s) ==
  /\ beat[s] = "wait"
  /\ beat' = [beat EXCEPT ![s] = IF Told(s, "beat") THEN "off" ELSE "begin"]
  /\ UNCHANGED <<main, found, file, registry, prune, told, kills>>

(* Registrable.heartbeat does nothing without a process.                   *)
BeatBegin(s) ==
  /\ beat[s] = "begin"
  /\ beat' = [beat EXCEPT ![s] = IF object[s] = "none" THEN "wait" ELSE "refresh"]
  /\ UNCHANGED <<main, found, file, registry, prune, told, kills>>

Found(s) == row[s] # "none" /\ object[s] = "row"

(* Process.DoesNotExist: process = None, and wake_up.                      *)
BeatLost(s) ==
  /\ object' = [object EXCEPT ![s] = "none"]
  /\ beat' = [beat EXCEPT ![s] = "wait"]

(* refresh_from_db ...                                                     *)
BeatRefresh(s) ==
  /\ beat[s] = "refresh"
  /\ IF Found(s) THEN beat' = [beat EXCEPT ![s] = "lock"] /\ UNCHANGED object
                 ELSE BeatLost(s)
  /\ UNCHANGED <<main, found, file, row, leftover, prune, told, kills>>

(* Mutant: no lock, the row is saved as it was read.                       *)
BeatNoLock(s) ==
  /\ beat[s] = "lock"
  /\ beat' = [beat EXCEPT ![s] = "locked"]
  /\ UNCHANGED <<main, found, file, registry, prune, told, kills>>

(* ... and again with SELECT FOR UPDATE ...                                *)
BeatLock(s) ==
  /\ beat[s] = "lock"
  /\ IF Found(s) THEN beat' = [beat EXCEPT ![s] = "locked"] /\ UNCHANGED object
                 ELSE BeatLost(s)
  /\ UNCHANGED <<main, found, file, row, leftover, prune, told, kills>>

(* ... before save(), which would insert a row if it found none.           *)
BeatSave(s) ==
  /\ beat[s] = "locked"
  /\ beat' = [beat EXCEPT ![s] = "wait"]
  /\ row' = [row EXCEPT ![s] = "fresh"]
  /\ UNCHANGED <<main, found, file, leftover, object, prune, told, kills>>

Beat(s) == BeatTimer(s) \/ BeatBegin(s) \/ BeatRefresh(s) \/ BeatLock(s) \/ BeatSave(s)

(***************************************************************************)
(* The maintenance timer.                                                  *)
(***************************************************************************)
(* process_alive_threshold passes since the last heartbeat of a row ...    *)
GrowOld(s) ==
  /\ leftover[s] = "fresh"
  /\ leftover' = [leftover EXCEPT ![s] = "stale"]
  /\ UNCHANGED <<main, found, file, row, object, timers, kills>>

(* ... which a process that is alive only lets happen when it stalls.      *)
Stall(s) ==
  /\ "stall" \in Hazards
  /\ row[s] = "fresh"
  /\ row' = [row EXCEPT ![s] = "stale"]
  /\ UNCHANGED <<main, found, file, leftover, object, timers, kills>>

(* A supervisor of another host prunes the row of this one.                *)
PruneElsewhere(s) ==
  /\ "otherHost" \in Hazards
  /\ row[s] = "stale" /\ beat[s] # "locked"
  /\ row' = [row EXCEPT ![s] = "none"]
  /\ UNCHANGED <<main, found, file, leftover, object, timers, kills>>

PruneTimer(s) ==
  /\ prune[s] = "wait"
  /\ prune' = [prune EXCEPT ![s] = IF Told(s, "prune") THEN "off" ELSE "begin"]
  /\ UNCHANGED <<main, found, file, registry, beat, told, kills>>

(* Mutant: nothing is excluded.                                            *)
PrunableByAnyone(s) == {u \in Supervisors : row[u] = "stale" /\ beat[u] # "locked"}

(* The stale rows, but for those that are locked (skip_locked) and the     *)
(* supervisor's own.                                                       *)
Prunable(s) ==
  {u \in Supervisors : /\ row[u] = "stale" /\ beat[u] # "locked"
                       /\ u = s => object[s] # "row"}

(* Mutant: the processes of the dead are left alone.                       *)
PruneLiving(s) ==
  /\ prune[s] = "begin"
  /\ prune' = [prune EXCEPT ![s] = "wait"]
  /\ row' = [u \in Supervisors |-> IF u \in Prunable(s) THEN "none" ELSE row[u]]
  /\ UNCHANGED <<main, found, file, leftover, object, beat, told, kills>>

(* prune_dead_processes, in one transaction.                               *)
Prune(s) ==
  /\ prune[s] = "begin"
  /\ prune' = [prune EXCEPT ![s] = "wait"]
  /\ row' = [u \in Supervisors |-> IF u \in Prunable(s) THEN "none" ELSE row[u]]
  /\ leftover' = [u \in Supervisors |-> IF leftover[u] = "stale" THEN "none" ELSE leftover[u]]
  /\ UNCHANGED <<main, found, file, object, beat, told, kills>>
-----------------------------------------------------------------------------
MainStep(s) ==
  \/ Check(s) \/ Probe(s) \/ Unlink(s) \/ Create(s) \/ Write(s) \/ Register(s) \/ Launch(s)
  \/ StopPrune(s) \/ StopBeat(s) \/ Deregister(s) \/ Release(s) \/ Delete(s)
  \/ DeletePidfile(s) \/ Exit(s)

Next ==
  \E s \in Supervisors :
    \/ Start(s) \/ MainStep(s) \/ Stop(s) \/ Kill(s)
    \/ Beat(s) \/ GrowOld(s) \/ Stall(s) \/ PruneElsewhere(s) \/ PruneTimer(s) \/ Prune(s)

Spec == Init /\ [][Next]_vars
=============================================================================
