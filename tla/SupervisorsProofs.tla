-------------------------- MODULE SupervisorsProofs --------------------------
(***************************************************************************)
(* The rows of the supervisors of a host, and their pid file, for every    *)
(* number of supervisors and of kills.                                     *)
(***************************************************************************)
EXTENDS SupervisorsProperties, TLAPS

(* Nobody starts a supervisor while another is starting or stopping, and   *)
(* no signal comes while one checks the pid file.                          *)
OneAtATime == Hazards \cap {"overlap", "termInCheck"} = {}

(***************************************************************************)
(* The rows and timers.                                                    *)
(***************************************************************************)
LEMMA FileTypes ==
  /\ NoFile \in [by : Supervisors \cup {NoOne}, written : BOOLEAN, exists : BOOLEAN]
  /\ \A s \in Supervisors :
       /\ FileOf(s) \in [by : Supervisors \cup {NoOne}, written : BOOLEAN, exists : BOOLEAN]
       /\ [by |-> s, written |-> FALSE, exists |-> TRUE] \in
            [by : Supervisors \cup {NoOne}, written : BOOLEAN, exists : BOOLEAN]
  /\ FileOf(NoOne) \in [by : Supervisors \cup {NoOne}, written : BOOLEAN, exists : BOOLEAN]
BY DEF NoFile, FileOf

(* The three outcomes of check_status.                                     *)
LEMMA CheckOutcomes ==
  ASSUME SupervisorsTypeOK, NEW s \in Supervisors, Check(s)
  PROVE  \/ ~file.exists /\ GoTo(s, "create") /\ UNCHANGED found
         \/ StartFails(s)
         \/ file.exists /\ GoTo(s, "probe") /\ found' = [found EXCEPT ![s] = file.by]
<1>1. file.exists \in BOOLEAN /\ file.written \in BOOLEAN
  BY DEF SupervisorsTypeOK
<1>2. CASE ~file.exists
  BY <1>2 DEF Check
<1>3. CASE file.exists /\ ~file.written
  BY <1>3 DEF Check
<1>4. CASE file.exists /\ file.written
  BY <1>4 DEF Check
<1>5. QED
  BY <1>1, <1>2, <1>3, <1>4

(* Every step but those of timers keeps to its own process.                *)
LEMMA MainTypes ==
  ASSUME SupervisorsTypeOK, TimersOff, NEW s \in Supervisors,
         Start(s) \/ MainStep(s) \/ Stop(s) \/ Kill(s)
  PROVE  SupervisorsTypeOK'
<1> USE SupervisorsConstantsOK
<1>1. CASE Start(s) \/ Check(s) \/ Probe(s) \/ Unlink(s) \/ Create(s) \/ Write(s)
  <2>1. /\ main[s] \in {"off"} \cup Starting
        /\ UNCHANGED <<registry, timers, kills>>
    BY <1>1 DEF Start, Check, Probe, Unlink, Create, Write, Starting
  <2>2. \E pc \in {"off", "check", "create", "probe", "unlink", "write", "register"} :
          main' = [main EXCEPT ![s] = pc]
    BY <1>1, CheckOutcomes
    DEF Start, Probe, Unlink, Create, Write, StartFails, GoTo
  <2>3. main' \in [Supervisors ->
                     {"off", "register", "unpid", "exit"} \cup Starting \cup Registered]
    BY <2>2 DEF SupervisorsTypeOK, Starting
  <2>4. found' = found \/ \E pid \in Supervisors \cup {NoOne} : found' = [found EXCEPT ![s] = pid]
    <3>1. file.by \in Supervisors \cup {NoOne}
      BY DEF SupervisorsTypeOK
    <3>2. QED
      BY <1>1, <3>1, CheckOutcomes DEF Start, Probe, Unlink, Create, Write, StartFails
  <2>5. found' \in [Supervisors -> Supervisors \cup {NoOne}]
    BY <2>4 DEF SupervisorsTypeOK
  <2>6. file' \in [by : Supervisors \cup {NoOne}, written : BOOLEAN, exists : BOOLEAN]
    <3>1. file' \in {file, NoFile, FileOf(s), [by |-> s, written |-> FALSE, exists |-> TRUE]}
      BY <1>1 DEF Start, Check, Probe, Unlink, Create, Write
    <3>2. file \in [by : Supervisors \cup {NoOne}, written : BOOLEAN, exists : BOOLEAN]
      BY DEF SupervisorsTypeOK
    <3>3. QED
      BY <3>1, <3>2, FileTypes
  <2>7. beat[s] = "off" /\ prune[s] = "off"
    BY <2>1 DEF TimersOff
  <2>8. \A u \in Supervisors \ {s} : main'[u] = main[u]
    BY <2>2 DEF SupervisorsTypeOK
  <2>9. QED
    BY <2>1, <2>3, <2>5, <2>6, <2>7, <2>8 DEF SupervisorsTypeOK, registry, timers
<1>2. CASE Register(s) \/ Launch(s) \/ Stop(s)
  <2>1. /\ main' \in [Supervisors ->
                        {"off", "register", "unpid", "exit"} \cup Starting \cup Registered]
        /\ main'[s] # "off" /\ \A u \in Supervisors \ {s} : main'[u] = main[u]
    BY <1>2 DEF SupervisorsTypeOK, Register, Launch, Stop, GoTo, Registered
  <2>2. /\ row' \in [Supervisors -> {"none", "fresh", "stale"}]
        /\ object' \in [Supervisors -> {"none", "row", "deleted"}]
    BY <1>2 DEF SupervisorsTypeOK, Register, Launch, Stop, registry
  <2>3. /\ beat' \in [Supervisors -> {"off", "wait", "begin", "refresh", "lock", "locked"}]
        /\ prune' \in [Supervisors -> {"off", "wait", "begin"}]
        /\ \A u \in Supervisors \ {s} : beat'[u] = beat[u] /\ prune'[u] = prune[u]
    BY <1>2 DEF SupervisorsTypeOK, Register, Launch, Stop, timers
  <2>4. found' \in [Supervisors -> Supervisors \cup {NoOne}]
    BY <1>2 DEF SupervisorsTypeOK, Register, Launch, Stop
  <2>5. UNCHANGED <<file, leftover, told, kills>>
    BY <1>2 DEF Register, Launch, Stop, registry, timers
  <2>6. QED
    BY <2>1, <2>2, <2>3, <2>4, <2>5 DEF SupervisorsTypeOK
<1>3. CASE StopPrune(s) \/ StopBeat(s) \/ Deregister(s) \/ Release(s) \/ Delete(s)
           \/ DeletePidfile(s)
  <2>1. /\ main' \in [Supervisors ->
                        {"off", "register", "unpid", "exit"} \cup Starting \cup Registered]
        /\ main'[s] # "off" /\ \A u \in Supervisors \ {s} : main'[u] = main[u]
    BY <1>3 DEF SupervisorsTypeOK, StopPrune, StopBeat, Deregister, Release, Delete,
                DeletePidfile, GoTo, Registered
  <2>2. /\ row' \in [Supervisors -> {"none", "fresh", "stale"}]
        /\ object' \in [Supervisors -> {"none", "row", "deleted"}]
    BY <1>3 DEF SupervisorsTypeOK, StopPrune, StopBeat, Deregister, Release, Delete,
                DeletePidfile, registry
  <2>3. told' \subseteq Supervisors \X {"beat", "prune"}
    BY <1>3 DEF SupervisorsTypeOK, StopPrune, StopBeat, Deregister, Release, Delete,
                DeletePidfile, timers
  <2>4. file' \in [by : Supervisors \cup {NoOne}, written : BOOLEAN, exists : BOOLEAN]
    BY <1>3, FileTypes
    DEF SupervisorsTypeOK, StopPrune, StopBeat, Deregister, Release, Delete, DeletePidfile
  <2>5. UNCHANGED <<found, leftover, beat, prune, kills>>
    BY <1>3 DEF StopPrune, StopBeat, Deregister, Release, Delete, DeletePidfile, registry, timers
  <2>6. QED
    BY <2>1, <2>2, <2>3, <2>4, <2>5 DEF SupervisorsTypeOK
<1>4. CASE Exit(s) \/ Kill(s)
  <2>0. End(s)
    BY <1>4 DEF Exit, Kill
  <2>1. /\ main' \in [Supervisors ->
                        {"off", "register", "unpid", "exit"} \cup Starting \cup Registered]
        /\ \A u \in Supervisors \ {s} : main'[u] = main[u]
    BY <2>0 DEF SupervisorsTypeOK, End, GoTo
  <2>2. /\ row' \in [Supervisors -> {"none", "fresh", "stale"}]
        /\ leftover' \in [Supervisors -> {"none", "fresh", "stale"}]
    BY <1>4 DEF SupervisorsTypeOK, Exit, Kill
  <2>3. /\ object' \in [Supervisors -> {"none", "row", "deleted"}]
        /\ found' \in [Supervisors -> Supervisors \cup {NoOne}]
        /\ told' \subseteq Supervisors \X {"beat", "prune"}
    BY <2>0 DEF SupervisorsTypeOK, End
  <2>4. /\ beat' \in [Supervisors -> {"off", "wait", "begin", "refresh", "lock", "locked"}]
        /\ prune' \in [Supervisors -> {"off", "wait", "begin"}]
        /\ beat'[s] = "off" /\ prune'[s] = "off"
        /\ \A u \in Supervisors \ {s} : beat'[u] = beat[u] /\ prune'[u] = prune[u]
    BY <2>0 DEF SupervisorsTypeOK, End
  <2>5. file' \in [by : Supervisors \cup {NoOne}, written : BOOLEAN, exists : BOOLEAN]
    <3>1. CASE Exit(s)
      BY <3>1, FileTypes DEF Exit, AtExitHook
    <3>2. CASE Kill(s)
      BY <3>2 DEF SupervisorsTypeOK, Kill
    <3>3. QED
      BY <1>4, <3>1, <3>2
  <2>6. kills' \in 0..MaxKills
    BY <1>4 DEF SupervisorsTypeOK, Exit, Kill
  <2>7. QED
    BY <2>1, <2>2, <2>3, <2>4, <2>5, <2>6 DEF SupervisorsTypeOK
<1>5. QED
  BY <1>1, <1>2, <1>3, <1>4 DEF MainStep

LEMMA TimerTypes ==
  ASSUME SupervisorsTypeOK, TimersOff, RowsOwned, NEW s \in Supervisors,
         Beat(s) \/ GrowOld(s) \/ Stall(s) \/ PruneElsewhere(s) \/ PruneTimer(s) \/ Prune(s)
  PROVE  SupervisorsTypeOK'
<1> USE SupervisorsConstantsOK
<1>1. UNCHANGED <<main, found, file, told, kills>>
  BY DEF Beat, BeatTimer, BeatBegin, BeatRefresh, BeatLock, BeatSave, GrowOld, Stall,
         PruneElsewhere, PruneTimer, Prune, timers
<1>2. /\ row' \in [Supervisors -> {"none", "fresh", "stale"}]
      /\ leftover' \in [Supervisors -> {"none", "fresh", "stale"}]
  BY DEF SupervisorsTypeOK, Beat, BeatTimer, BeatBegin, BeatRefresh, BeatLock, BeatSave,
         GrowOld, Stall, PruneElsewhere, PruneTimer, Prune, registry
<1>3. object' \in [Supervisors -> {"none", "row", "deleted"}]
  BY DEF SupervisorsTypeOK, Beat, BeatTimer, BeatBegin, BeatRefresh, BeatLock, BeatLost,
         BeatSave, GrowOld, Stall, PruneElsewhere, PruneTimer, Prune, registry
<1>4. /\ beat' \in [Supervisors -> {"off", "wait", "begin", "refresh", "lock", "locked"}]
      /\ \A u \in Supervisors : beat[u] = "off" => beat'[u] = "off"
  BY DEF SupervisorsTypeOK, Beat, BeatTimer, BeatBegin, BeatRefresh, BeatLock, BeatLost,
         BeatSave, GrowOld, Stall, PruneElsewhere, PruneTimer, Prune, timers
<1>5. /\ prune' \in [Supervisors -> {"off", "wait", "begin"}]
      /\ \A u \in Supervisors : prune[u] = "off" => prune'[u] = "off"
  BY DEF SupervisorsTypeOK, Beat, BeatTimer, BeatBegin, BeatRefresh, BeatLock, BeatSave,
         GrowOld, Stall, PruneElsewhere, PruneTimer, Prune, timers
<1>6. QED
  BY <1>1, <1>2, <1>3, <1>4, <1>5 DEF SupervisorsTypeOK

LEMMA TimersStayOff ==
  ASSUME SupervisorsTypeOK, TimersOff, [Next]_vars
  PROVE  TimersOff'
<1>1. CASE UNCHANGED vars
  BY <1>1 DEF TimersOff, vars, timers
<1>2. ASSUME NEW s \in Supervisors,
             Beat(s) \/ GrowOld(s) \/ Stall(s) \/ PruneElsewhere(s) \/ PruneTimer(s) \/ Prune(s)
      PROVE  TimersOff'
  <2>1. UNCHANGED main
    BY <1>2 DEF Beat, BeatTimer, BeatBegin, BeatRefresh, BeatLock, BeatSave, GrowOld, Stall,
                PruneElsewhere, PruneTimer, Prune
  <2>2. \A u \in Supervisors : /\ beat[u] = "off" => beat'[u] = "off"
                               /\ prune[u] = "off" => prune'[u] = "off"
    BY <1>2
    DEF SupervisorsTypeOK, Beat, BeatTimer, BeatBegin, BeatRefresh, BeatLock, BeatLost,
        BeatSave, GrowOld, Stall, PruneElsewhere, PruneTimer, Prune, timers
  <2>3. QED
    BY <2>1, <2>2 DEF TimersOff
<1>3. ASSUME NEW s \in Supervisors, Start(s) \/ MainStep(s) \/ Stop(s) \/ Kill(s)
      PROVE  TimersOff'
  <2>1. CASE Start(s) \/ Check(s) \/ Probe(s) \/ Unlink(s) \/ Create(s) \/ Write(s)
    <3>1. main[s] \in {"off"} \cup Starting /\ UNCHANGED timers
      BY <2>1 DEF Start, Check, Probe, Unlink, Create, Write, Starting
    <3>2. \A u \in Supervisors \ {s} : main'[u] = main[u]
      BY <2>1, CheckOutcomes
      DEF SupervisorsTypeOK, Start, Probe, Unlink, Create, Write, StartFails, GoTo
    <3>3. QED
      BY <3>1, <3>2 DEF TimersOff, timers
  <2>2. CASE Register(s) \/ Launch(s)
    BY <2>2 DEF SupervisorsTypeOK, TimersOff, Register, Launch, GoTo, Starting
  <2>3. CASE Stop(s) \/ StopPrune(s) \/ StopBeat(s) \/ Deregister(s) \/ Release(s) \/ Delete(s)
             \/ DeletePidfile(s)
    BY <2>3 DEF SupervisorsTypeOK, TimersOff, Stop, StopPrune, StopBeat, Deregister, Release,
                Delete, DeletePidfile, GoTo, Starting, timers
  <2>4. CASE Exit(s) \/ Kill(s)
    BY <2>4 DEF SupervisorsTypeOK, TimersOff, Exit, Kill, End, GoTo
  <2>5. QED
    BY <1>3, <2>1, <2>2, <2>3, <2>4 DEF MainStep
<1>4. QED
  BY <1>1, <1>2, <1>3 DEF Next

(* A row that is there belongs to a process that knows it, and a heartbeat *)
(* holds the row it saves.                                                 *)
LEMMA RowsStayOwned ==
  ASSUME RowsInv, [Next]_vars
  PROVE  RowsOwned'
<1> USE DEF RowsInv
<1>1. CASE UNCHANGED vars
  BY <1>1 DEF RowsOwned, vars, registry, timers
<1>2. ASSUME NEW s \in Supervisors, Start(s) \/ MainStep(s) \/ Stop(s) \/ Kill(s)
      PROVE  RowsOwned'
  <2>1. CASE Start(s) \/ Check(s) \/ Probe(s) \/ Unlink(s) \/ Create(s) \/ Write(s)
    <3>1. main[s] \notin Registered /\ UNCHANGED <<registry, timers>>
      BY <2>1 DEF Start, Check, Probe, Unlink, Create, Write, Registered
    <3>2. \A u \in Supervisors \ {s} : main'[u] = main[u]
      BY <2>1, CheckOutcomes
      DEF SupervisorsTypeOK, Start, Probe, Unlink, Create, Write, StartFails, GoTo
    <3>3. QED
      BY <3>1, <3>2 DEF RowsOwned, registry, timers
  <2>2. CASE Register(s) \/ Launch(s)
    BY <2>2 DEF SupervisorsTypeOK, RowsOwned, TimersOff, Register, Launch, GoTo, Registered,
                registry
  <2>3. CASE Stop(s)
    BY <2>3 DEF SupervisorsTypeOK, RowsOwned, Stop, GoTo, Registered, Starting, registry, timers
  <2>4. CASE StopPrune(s) \/ StopBeat(s) \/ Deregister(s) \/ Release(s) \/ DeletePidfile(s)
    BY <2>4 DEF SupervisorsTypeOK, RowsOwned, StopPrune, StopBeat, Deregister, Release,
                DeletePidfile, GoTo, Registered, registry, timers
  <2>5. CASE Delete(s)
    BY <2>5 DEF SupervisorsTypeOK, RowsOwned, Delete, GoTo, timers
  <2>6. CASE Exit(s)
    BY <2>6 DEF SupervisorsTypeOK, RowsOwned, Exit, End, GoTo, Registered
  <2>7. CASE Kill(s)
    BY <2>7 DEF SupervisorsTypeOK, RowsOwned, Kill, End, GoTo
  <2>8. QED
    BY <1>2, <2>1, <2>2, <2>3, <2>4, <2>5, <2>6, <2>7 DEF MainStep
<1>3. ASSUME NEW s \in Supervisors, Beat(s)
      PROVE  RowsOwned'
  <2>1. CASE BeatTimer(s) \/ BeatBegin(s)
    BY <2>1 DEF SupervisorsTypeOK, RowsOwned, BeatTimer, BeatBegin, registry
  <2>2. CASE BeatRefresh(s) \/ BeatLock(s)
    BY <2>2 DEF SupervisorsTypeOK, RowsOwned, BeatRefresh, BeatLock, BeatLost, Found
  <2>3. CASE BeatSave(s)
    BY <2>3 DEF SupervisorsTypeOK, RowsOwned, BeatSave
  <2>4. QED
    BY <1>3, <2>1, <2>2, <2>3 DEF Beat
<1>4. ASSUME NEW s \in Supervisors,
             GrowOld(s) \/ Stall(s) \/ PruneElsewhere(s) \/ PruneTimer(s) \/ Prune(s)
      PROVE  RowsOwned'
  BY <1>4 DEF SupervisorsTypeOK, RowsOwned, GrowOld, Stall, PruneElsewhere, PruneTimer, Prune,
              Prunable, registry, timers
<1>5. QED
  BY <1>1, <1>2, <1>3, <1>4 DEF Next

LEMMA RowsInvariant == Spec => []RowsInv
<1>1. Init => RowsInv
  <2> SUFFICES ASSUME Init
               PROVE  RowsInv
    OBVIOUS
  <2>1. SupervisorsTypeOK
    <3>1. file \in [by : Supervisors \cup {NoOne}, written : BOOLEAN, exists : BOOLEAN]
      BY FileTypes DEF Init
    <3>2. QED
      BY <3>1, SupervisorsConstantsOK DEF Init, SupervisorsTypeOK
  <2>2. TimersOff /\ RowsOwned
    BY DEF Init, TimersOff, RowsOwned
  <2>3. QED
    BY <2>1, <2>2 DEF RowsInv
<1>2. RowsInv /\ [Next]_vars => RowsInv'
  <2> SUFFICES ASSUME RowsInv, [Next]_vars
               PROVE  RowsInv'
    OBVIOUS
  <2>1. SupervisorsTypeOK'
    <3>1. CASE UNCHANGED vars
      BY <3>1 DEF RowsInv, SupervisorsTypeOK, vars, registry, timers
    <3>2. QED
      BY <3>1, MainTypes, TimerTypes DEF RowsInv, Next
  <2>2. QED
    BY <2>1, TimersStayOff, RowsStayOwned DEF RowsInv
<1>3. QED
  BY <1>1, <1>2, PTL DEF Spec
-----------------------------------------------------------------------------
(* In every environment: a supervisor of which the row is gone has not got *)
(* it back by a late heartbeat (Process.heartbeat, Registrable.shutdown).  *)
THEOREM RowsEnd == Spec => []NoRowAfterwards
<1>1. RowsInv => NoRowAfterwards
  BY DEF RowsInv, RowsOwned, NoRowAfterwards
<1>2. QED
  BY <1>1, RowsInvariant, PTL

(* The variables keep to their types, and a supervisor that has ended has  *)
(* no threads.                                                             *)
THEOREM SupervisorsTypes == Spec => []SupervisorsTypeOK
BY RowsInvariant, PTL DEF RowsInv

(* prune_dead_processes spares the supervisor's own row, also when its     *)
(* heartbeat or its shutdown changes the attribute it excludes.            *)
THEOREM PrunersSpareThemselves == Spec => SparesItself
<1> DEFINE Spares == \A s \in Supervisors :
                       prune[s] = "begin" /\ prune'[s] = "wait" => row'[s] = row[s]
<1>1. RowsInv /\ [Next]_vars => Spares
  <2> SUFFICES ASSUME RowsInv, [Next]_vars, NEW s \in Supervisors,
                      prune[s] = "begin", prune'[s] = "wait"
               PROVE  row'[s] = row[s]
    BY DEF Spares
  <2>1. ASSUME NEW u \in Supervisors, Prune(u)
        PROVE  row'[s] = row[s]
    <3>1. u = s
      BY <2>1 DEF RowsInv, SupervisorsTypeOK, Prune
    <3>2. s \notin Prunable(s)
      BY DEF RowsInv, RowsOwned, Prunable
    <3>3. QED
      BY <2>1, <3>1, <3>2 DEF Prune
  <2>2. ASSUME NEW u \in Supervisors, Exit(u) \/ Kill(u) \/ Register(u) \/ Delete(u)
        PROVE  row'[s] = row[s]
    <3>1. u # s \/ Delete(u)
      BY <2>2 DEF RowsInv, SupervisorsTypeOK, TimersOff, Exit, Kill, Register, End
    <3>2. CASE Delete(u)
      BY <3>2 DEF Delete, timers
    <3>3. QED
      BY <2>2, <3>1, <3>2 DEF RowsInv, SupervisorsTypeOK, Exit, Kill, Register
  <2>3. ASSUME NEW u \in Supervisors,
               \/ Beat(u) \/ GrowOld(u) \/ Stall(u) \/ PruneElsewhere(u) \/ PruneTimer(u)
               \/ Start(u) \/ Stop(u) \/ Check(u) \/ Probe(u) \/ Unlink(u) \/ Create(u)
               \/ Write(u) \/ Launch(u) \/ StopPrune(u) \/ StopBeat(u) \/ Deregister(u)
               \/ Release(u) \/ DeletePidfile(u)
        PROVE  row'[s] = row[s]
    BY <2>3
    DEF RowsInv, SupervisorsTypeOK, Beat, BeatTimer, BeatBegin, BeatRefresh, BeatLock, BeatSave,
        GrowOld, Stall, PruneElsewhere, PruneTimer, Start, Stop, Check, Probe, Unlink, Create,
        Write, Launch, StopPrune, StopBeat, Deregister, Release, DeletePidfile, registry, timers
  <2>4. CASE UNCHANGED vars
    BY <2>4 DEF vars, registry
  <2>5. QED
    BY <2>1, <2>2, <2>3, <2>4 DEF Next, MainStep
<1>2. QED
  BY <1>1, RowsInvariant, PTL DEF Spec, SparesItself, Spares
-----------------------------------------------------------------------------
(***************************************************************************)
(* The pid file, when supervisors are started and stopped one at a time.   *)
(***************************************************************************)
(* The steps that neither start nor end anything.                          *)
LEMMA TimersLeaveTheFile ==
  ASSUME NEW s \in Supervisors,
         Beat(s) \/ GrowOld(s) \/ Stall(s) \/ PruneElsewhere(s) \/ PruneTimer(s) \/ Prune(s)
  PROVE  UNCHANGED <<main, found, file>>
BY DEF Beat, BeatTimer, BeatBegin, BeatRefresh, BeatLock, BeatSave, GrowOld, Stall,
       PruneElsewhere, PruneTimer, Prune

(* The phase pc to which a step of s takes it, and what is still known of  *)
(* the step.                                                               *)
StepTo(s, pc) ==
  \/ Start(s) /\ main[s] = "off" /\ pc = "check"
  \/ Check(s) /\ main[s] = "check" /\ pc \in {"off", "create", "probe"}
  \/ Probe(s) /\ main[s] = "probe" /\ pc \in {"off", "unlink"}
  \/ Unlink(s) /\ main[s] = "unlink" /\ pc = "create"
  \/ Create(s) /\ main[s] = "create" /\ pc \in {"check", "write"}
  \/ Write(s) /\ main[s] = "write" /\ pc = "register"
  \/ /\ main[s] \in Active /\ pc \in (Active \ {"register"}) \cup {"unpid", "exit"}
     /\ pc = "serve" => main[s] = "boot"
     /\ main[s] = "serve" => Stop(s)
     /\ file' = file /\ \A u \in Supervisors \ {s} : found'[u] = found[u]
  \/ DeletePidfile(s) /\ main[s] = "unpid" /\ pc = "exit"
  \/ Exit(s) /\ main[s] = "exit" /\ pc = "off"
  \/ Kill(s) /\ pc = "off"

LEMMA NextPhases ==
  ASSUME OneAtATime, SupervisorsTypeOK, NEW s \in Supervisors,
         Start(s) \/ MainStep(s) \/ Stop(s) \/ Kill(s)
  PROVE  \E pc : main' = [main EXCEPT ![s] = pc] /\ StepTo(s, pc)
<1> USE DEF StepTo
<1>1. CASE Start(s)
  BY <1>1 DEF Start, GoTo
<1>2. CASE Check(s)
  BY <1>2, CheckOutcomes DEF Check, StartFails, GoTo
<1>3. CASE Probe(s) \/ Unlink(s) \/ Create(s) \/ Write(s)
  BY <1>3 DEF Probe, Unlink, Create, Write, StartFails, GoTo
<1>4. CASE Register(s) \/ Launch(s)
  BY <1>4 DEF Register, Launch, GoTo, Active, Registered
<1>5. CASE Stop(s)
  BY <1>5 DEF Stop, GoTo, Active, Registered, OneAtATime, SupervisorsTypeOK
<1>6. CASE StopPrune(s) \/ StopBeat(s) \/ Deregister(s) \/ Release(s) \/ Delete(s)
  BY <1>6
  DEF StopPrune, StopBeat, Deregister, Release, Delete, GoTo, Active, Registered
<1>7. CASE DeletePidfile(s)
  BY <1>7 DEF DeletePidfile, GoTo
<1>8. CASE Exit(s) \/ Kill(s)
  BY <1>8 DEF Exit, Kill, End, GoTo
<1>9. QED
  BY <1>1, <1>2, <1>3, <1>4, <1>5, <1>6, <1>7, <1>8 DEF MainStep

(* Everybody else is off while somebody creates the file, has it and goes  *)
(* through its shutdown, but for those who check on a running supervisor.  *)
LEMMA StayApart ==
  ASSUME OneAtATime, SupervisorsTypeOK, FileInv, [Next]_vars
  PROVE  Apart'
<1> USE DEF FileInv
<1>1. CASE UNCHANGED main
  BY <1>1 DEF Apart
<1>2. ASSUME NEW s \in Supervisors, Start(s) \/ MainStep(s) \/ Stop(s) \/ Kill(s)
      PROVE  Apart'
  <2>1. PICK pc : main' = [main EXCEPT ![s] = pc] /\ StepTo(s, pc)
    BY <1>2, NextPhases
  <2>2. /\ main'[s] = pc
        /\ \A u \in Supervisors \ {s} : main'[u] = main[u]
    BY <2>1 DEF SupervisorsTypeOK
  <2>3. CASE pc = "off"
    BY <2>2, <2>3 DEF Apart
  <2>4. CASE Start(s) /\ pc = "check"
    <3>1. \A u \in Supervisors \ {s} : main[u] \in {"off", "serve"}
      BY <2>4
      DEF Start, Alone, OneAtATime, SupervisorsTypeOK, Starting, Stopping, Registered
    <3>2. QED
      BY <2>2, <2>4, <3>1 DEF Apart
  <2>5. CASE main[s] = "serve" /\ Stop(s)
    <3>1. \A u \in Supervisors \ {s} : main[u] = "off"
      BY <2>5 DEF Stop, Alone, OneAtATime, Starting, Apart
    <3>2. QED
      BY <2>2, <3>1 DEF Apart
  <2>6. CASE main[s] \notin {"off", "check", "probe", "serve"}
    BY <2>2, <2>6 DEF Apart
  <2>7. CASE Check(s) /\ pc \in {"create", "probe"}
    <3>1. pc = "create" => ~file.exists
      BY <2>2, <2>7, CheckOutcomes DEF StartFails, GoTo, SupervisorsTypeOK
    <3>2. pc = "create" => \A u \in Supervisors : main[u] # "serve"
      BY <3>1 DEF FileInPhase, FileOf, Active, Registered
    <3>3. QED
      BY <2>1, <2>2, <2>7, <3>2 DEF Apart, Check
  <2>8. CASE Probe(s) /\ pc = "unlink"
    <3>1. file.by = NoOne
      BY <2>2, <2>8 DEF Probe, Alive, StartFails, GoTo, FileInPhase, SupervisorsTypeOK
    <3>2. \A u \in Supervisors : main[u] # "serve"
      BY <3>1, SupervisorsConstantsOK DEF FileInPhase, FileOf, Active, Registered
    <3>3. QED
      BY <2>2, <2>8, <3>2 DEF Apart, Probe
  <2>9. QED
    BY <2>1, <2>3, <2>4, <2>5, <2>6, <2>7, <2>8 DEF StepTo, Active, Registered
<1>3. QED
  BY <1>1, <1>2, TimersLeaveTheFile DEF Next, vars

(* The file is that of the supervisor that has it.                         *)
LEMMA FileStays ==
  ASSUME OneAtATime, SupervisorsTypeOK, FileInv, [Next]_vars
  PROVE  FileInPhase'
<1> USE DEF FileInv
<1>1. CASE UNCHANGED <<main, found, file>>
  BY <1>1 DEF FileInPhase
<1>2. ASSUME NEW s \in Supervisors, Start(s) \/ MainStep(s) \/ Stop(s) \/ Kill(s)
      PROVE  FileInPhase'
  <2>1. PICK pc : main' = [main EXCEPT ![s] = pc] /\ StepTo(s, pc)
    BY <1>2, NextPhases
  <2>2. /\ main'[s] = pc
        /\ \A u \in Supervisors \ {s} : main'[u] = main[u]
    BY <2>1 DEF SupervisorsTypeOK
  <2>3. CASE Start(s)
    BY <2>2, <2>3 DEF Start, FileInPhase, SupervisorsTypeOK, GoTo, Active, Registered
  <2>4. CASE Check(s)
    <3>1. file' = file /\ main[s] = "check"
      BY <2>4 DEF Check
    <3>2. /\ pc = "create" => ~file.exists
          /\ pc = "probe" => found'[s] = file.by
          /\ pc \in {"off", "create", "probe"}
      BY <2>2, <2>4, CheckOutcomes DEF StartFails, GoTo, SupervisorsTypeOK
    <3>3. \A u \in Supervisors \ {s} : found'[u] = found[u]
      BY <2>4, CheckOutcomes DEF StartFails, SupervisorsTypeOK
    <3>4. QED
      BY <2>2, <3>1, <3>2, <3>3 DEF FileInPhase, Active, Registered
  <2>5. CASE Probe(s)
    <3>1. file' = file /\ main[s] = "probe" /\ pc \in {"off", "unlink"}
      BY <2>2, <2>5 DEF Probe, StartFails, GoTo, SupervisorsTypeOK
    <3>2. pc = "unlink" => file.by = NoOne
      BY <2>2, <2>5, <3>1 DEF Probe, Alive, StartFails, GoTo, FileInPhase, SupervisorsTypeOK
    <3>3. \A u \in Supervisors \ {s} : found'[u] = found[u]
      BY <2>5 DEF Probe, StartFails, SupervisorsTypeOK
    <3>4. QED
      BY <2>2, <3>1, <3>2, <3>3 DEF FileInPhase, Active, Registered
  <2>6. CASE Unlink(s)
    <3>1. file' = NoFile /\ found' = found /\ main[s] = "unlink" /\ pc = "create"
      BY <2>2, <2>6 DEF Unlink, GoTo, SupervisorsTypeOK
    <3>2. \A u \in Supervisors \ {s} : main[u] = "off"
      BY <3>1 DEF Apart
    <3>3. QED
      BY <2>2, <3>1, <3>2, SupervisorsConstantsOK DEF FileInPhase, NoFile, Active, Registered
  <2>7. CASE Create(s)
    <3>1. /\ file' = [by |-> s, written |-> FALSE, exists |-> TRUE]
          /\ found' = found /\ main[s] = "create" /\ pc = "write"
      BY <2>2, <2>7 DEF Create, GoTo, SupervisorsTypeOK, FileInPhase, NoFile
    <3>2. \A u \in Supervisors \ {s} : main[u] = "off"
      BY <3>1 DEF Apart
    <3>3. QED
      BY <2>2, <3>1, <3>2 DEF FileInPhase, Active, Registered
  <2>8. CASE Write(s)
    <3>1. file' = FileOf(s) /\ main[s] = "write" /\ pc = "register"
      BY <2>2, <2>8 DEF Write, GoTo, SupervisorsTypeOK, FileInPhase
    <3>2. \A u \in Supervisors \ {s} : main[u] = "off"
      BY <3>1 DEF Apart
    <3>3. QED
      BY <2>2, <3>1, <3>2 DEF FileInPhase, FileOf, Active, Registered
  <2>9. CASE /\ main[s] \in Active /\ pc \in (Active \ {"register"}) \cup {"unpid", "exit"}
             /\ file' = file /\ \A u \in Supervisors \ {s} : found'[u] = found[u]
    BY <2>2, <2>9 DEF FileInPhase, Active, Registered
  <2>10. CASE DeletePidfile(s) \/ Exit(s)
    <3>1. file' = NoFile /\ main[s] \in {"unpid", "exit"} /\ pc \in {"exit", "off"}
      BY <2>2, <2>10 DEF DeletePidfile, Exit, AtExitHook, End, GoTo, SupervisorsTypeOK
    <3>2. \A u \in Supervisors \ {s} : main[u] = "off"
      BY <3>1 DEF Apart
    <3>3. QED
      BY <2>2, <3>1, <3>2, SupervisorsConstantsOK DEF FileInPhase, NoFile, Active, Registered
  <2>11. CASE Kill(s)
    <3>1. /\ pc = "off" /\ main[s] # "off"
          /\ file' = IF file.by = s THEN [file EXCEPT !.by = NoOne] ELSE file
          /\ \A u \in Supervisors \ {s} :
               found'[u] = IF found[u] = s THEN NoOne ELSE found[u]
      BY <2>2, <2>11 DEF Kill, End, GoTo, SupervisorsTypeOK
    <3>2. CASE file.by = s
      <4>1. file'.by = NoOne /\ file'.exists = file.exists
        BY <3>1, <3>2 DEF SupervisorsTypeOK
      <4>2. file.exists
        BY <3>2, SupervisorsConstantsOK DEF FileInPhase, NoFile
      <4>3. \A u \in Supervisors \ {s} : main[u] \in {"off", "check", "probe"}
        <5>1. main[s] \notin {"check", "probe", "unlink", "create"}
          BY <3>2 DEF FileInPhase
        <5>2. QED
          BY <3>1, <5>1 DEF Apart
      <4>4. QED
        BY <2>2, <3>1, <3>2, <4>1, <4>2, <4>3, SupervisorsConstantsOK
        DEF FileInPhase, Active, Registered
    <3>3. CASE file.by # s
      BY <2>2, <3>1, <3>3 DEF FileInPhase, Active, Registered
    <3>4. QED
      BY <3>2, <3>3
  <2>12. QED
    BY <2>1, <2>3, <2>4, <2>5, <2>6, <2>7, <2>8, <2>9, <2>10, <2>11 DEF StepTo
<1>3. QED
  BY <1>1, <1>2, TimersLeaveTheFile DEF Next, vars

LEMMA FileInvariant ==
  ASSUME OneAtATime
  PROVE  Spec => []FileInv
<1>1. Init => FileInv
  BY SupervisorsConstantsOK
  DEF Init, FileInv, Apart, FileInPhase, NoFile, FileOf, Active, Registered
<1>2. RowsInv /\ FileInv /\ [Next]_vars => FileInv'
  BY StayApart, FileStays DEF FileInv, RowsInv
<1>3. QED
  BY <1>1, <1>2, RowsInvariant, PTL DEF Spec

(* The pid file keeps a second supervisor from running, whatever is killed *)
(* when, and however many try.                                             *)
THEOREM OneSupervisor ==
  ASSUME OneAtATime
  PROVE  Spec => []AtMostOneSupervisor
<1>1. FileInv => AtMostOneSupervisor
  BY DEF FileInv, Apart, AtMostOneSupervisor, Active, Registered
<1>2. QED
  BY <1>1, FileInvariant, PTL

(* While a supervisor runs the pid file is its own, and it leaves none.    *)
THEOREM FileIsRight ==
  ASSUME OneAtATime
  PROVE  Spec => []FileNamesTheRunning
<1>1. FileInv => FileNamesTheRunning
  BY DEF FileInv, FileInPhase, FileNamesTheRunning
<1>2. QED
  BY <1>1, FileInvariant, PTL
=============================================================================
