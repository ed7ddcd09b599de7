----------------------------- MODULE TreeProofs -----------------------------
(***************************************************************************)
(* Theorems about SupervisorTree, for any processes, pids and hazards.     *)
(***************************************************************************)
EXTENDS TreeProperties, TLAPS

-----------------------------------------------------------------------------
(* A pid is free only when nothing is left of its process.                 *)
LEMMA FreePidIsUnused == Unused # {} => FreePid \in Unused
BY DEF FreePid

(* The records that the actions store are well-typed.                      *)
LEMMA ChildRecords ==
  /\ NoChild \in ChildType
  /\ \A s \in Slots : lost \in BOOLEAN => NewFork(s) \in ChildType
  /\ \A c \in ChildType :
       /\ ExitStatus(c) \in {0, 1}
       /\ \A state \in ChildPcs : [c EXCEPT !.pc = state] \in ChildType
       /\ \A state \in ChildPcs, e \in {-1, 0, 1} :
            [c EXCEPT !.pc = state, !.exit = e] \in ChildType
       /\ [c EXCEPT !.stopped = TRUE] \in ChildType
<1>1. NoChild \in ChildType
  BY DEF NoChild, ChildType, ChildPcs
<1>2. ASSUME NEW s \in Slots, lost \in BOOLEAN PROVE NewFork(s) \in ChildType
  BY <1>2 DEF NewFork, NoChild, ChildType, ChildPcs
<1>3. ASSUME NEW c \in ChildType
      PROVE  /\ ExitStatus(c) \in {0, 1}
             /\ \A state \in ChildPcs : [c EXCEPT !.pc = state] \in ChildType
             /\ \A state \in ChildPcs, e \in {-1, 0, 1} :
                  [c EXCEPT !.pc = state, !.exit = e] \in ChildType
             /\ [c EXCEPT !.stopped = TRUE] \in ChildType
  <2>1. ExitStatus(c) \in {0, 1}
    <3>1. CASE c.exit = -1
      BY <3>1 DEF ExitStatus
    <3>2. CASE c.exit # -1
      BY <3>2 DEF ExitStatus, ChildType
    <3>3. QED
      BY <3>1, <3>2
  <2>2. QED
    BY <2>1 DEF ChildType
<1>4. QED
  BY <1>1, <1>2, <1>3

(* What a signal makes of a fork.                                          *)
LEMMA SignalledTypes ==
  ASSUME NEW sig, TreeTypeOK, NEW p \in Pids
  PROVE  /\ Signalled(p, sig) \in ChildType
         /\ Signalled(p, sig).pc \in ExitKnown => Signalled(p, sig).exit \in {0, 1}
<1>1. child[p] \in ChildType /\ (child[p].pc \in ExitKnown => child[p].exit \in {0, 1})
  BY DEF TreeTypeOK
<1>2. PICK c \in ChildType : c = child[p]
  BY <1>1
<1>3. /\ [c EXCEPT !.pc = "ended", !.exit = 1] \in ChildType
      /\ [c EXCEPT !.pc = "zombie", !.exit = 1] \in ChildType
      /\ [c EXCEPT !.stopped = TRUE] \in ChildType
  BY ChildRecords DEF ChildPcs
<1>4. /\ [c EXCEPT !.pc = "ended", !.exit = 1].pc = "ended"
      /\ [c EXCEPT !.pc = "zombie", !.exit = 1].exit = 1
      /\ [c EXCEPT !.stopped = TRUE].pc = c.pc
  BY DEF ChildType
<1>5. \/ Signalled(p, sig) = c
      \/ Signalled(p, sig) = [c EXCEPT !.pc = "ended", !.exit = 1]
      \/ Signalled(p, sig) = [c EXCEPT !.pc = "zombie", !.exit = 1]
      \/ c.pc = "polling" /\ Signalled(p, sig) = [c EXCEPT !.stopped = TRUE]
  BY <1>2 DEF Signalled
<1>6. CASE c.pc = "polling" /\ Signalled(p, sig) = [c EXCEPT !.stopped = TRUE]
  BY <1>3, <1>4, <1>6 DEF ExitKnown
<1>7. CASE \/ Signalled(p, sig) = [c EXCEPT !.pc = "ended", !.exit = 1]
           \/ Signalled(p, sig) = [c EXCEPT !.pc = "zombie", !.exit = 1]
  BY <1>3, <1>4, <1>7 DEF ExitKnown
<1>8. CASE Signalled(p, sig) = c
  BY <1>1, <1>2, <1>8
<1>9. QED
  BY <1>5, <1>6, <1>7, <1>8

LEMMA SignalForksTypes ==
  ASSUME NEW sig, TreeTypeOK, SignalForks(sig)
  PROVE  /\ child' \in [Pids -> ChildType]
         /\ \A p \in Pids : child'[p].pc \in ExitKnown => child'[p].exit \in {0, 1}
         /\ row' \in [Pids -> {"none", "supervised", "alone"}]
         /\ claims' \subseteq Pids /\ busy' \subseteq Pids
<1>1. \A p \in Pids : child'[p] = IF p \in forks THEN Signalled(p, sig) ELSE child[p]
  BY DEF SignalForks
<1>2. child' \in [Pids -> ChildType]
  BY SignalledTypes DEF SignalForks, TreeTypeOK
<1>3. \A p \in Pids : child'[p].pc \in ExitKnown => child'[p].exit \in {0, 1}
  BY <1>1, SignalledTypes DEF TreeTypeOK
<1>4. row' \in [Pids -> {"none", "supervised", "alone"}]
  BY DEF SignalForks, TreeTypeOK
<1>5. claims' \subseteq Pids /\ busy' \subseteq Pids
  BY DEF SignalForks, TreeTypeOK
<1>6. QED
  BY <1>2, <1>3, <1>4, <1>5

LEMMA DeregisterTypes ==
  ASSUME TreeTypeOK, DeregisterTree
  PROVE  /\ row' \in [Pids -> {"none", "supervised", "alone"}]
         /\ claims' \subseteq Pids /\ ownRow' \in BOOLEAN
<1>1. PICK late \in SUBSET Pids :
        /\ row' = [p \in Pids |->
                     IF p \in {q \in Pids : row[q] = "supervised"} \ late THEN "none"
                     ELSE IF p \in late THEN "alone" ELSE row[p]]
        /\ claims' = claims \ ({q \in Pids : row[q] = "supervised"} \ late)
        /\ ownRow' = FALSE
  BY DEF DeregisterTree
<1>2. QED
  BY <1>1 DEF TreeTypeOK
-----------------------------------------------------------------------------
(* Every reachable state is well-typed; in particular no exit status is    *)
(* that of an exception.                                                   *)
THEOREM TreeTypeCorrect == Spec => []TreeTypeOK
<1> USE TreeConstantsOK DEF ExitKnown
<1>1. Init => TreeTypeOK
  <2>1. Init => signalQueue \in Seq({"TERM", "QUIT"})
    BY DEF Init
  <2>2. Init => \A p \in Pids : child[p].pc = "none"
    BY DEF Init, NoChild
  <2>3. QED
    BY <2>1, <2>2, ChildRecords DEF Init, TreeTypeOK
<1>2. TreeTypeOK /\ [Next]_vars => TreeTypeOK'
  <2> SUFFICES ASSUME TreeTypeOK, [Next]_vars
               PROVE  TreeTypeOK'
    OBVIOUS
  <2> USE DEF TreeTypeOK
  <2>1. ASSUME \/ SetUpPidfile \/ Register \/ Supervise \/ AllTerminated \/ LoopRaises
               \/ BreakLoop \/ Heartbeat \/ KillSupervisor
        PROVE  TreeTypeOK'
    BY <2>1 DEF SetUpPidfile, Register, Supervise, AllTerminated, LoopRaises, BreakLoop,
                Heartbeat, KillSupervisor
  <2>2. ASSUME NEW s \in Slots, StartProcess(s) PROVE TreeTypeOK'
    <3>1. FreePid \in Pids /\ NewFork(s) \in ChildType /\ NewFork(s).pc = "forked"
      BY <2>2, FreePidIsUnused, ChildRecords DEF StartProcess, Unused, NewFork, NoChild
    <3>2. child' = [child EXCEPT ![FreePid] = NewFork(s)] /\ forks' = forks \cup {FreePid}
      BY <2>2 DEF StartProcess
    <3>3. child' \in [Pids -> ChildType]
      BY <3>1, <3>2
    <3>4. \A p \in Pids : child'[p].pc \in ExitKnown => child'[p].exit \in {0, 1}
      BY <3>1, <3>2
    <3>5. QED
      BY <2>2, <3>1, <3>2, <3>3, <3>4 DEF StartProcess
  <2>3. ASSUME NEW sig \in {"TERM", "QUIT"}, Signal(sig) PROVE TreeTypeOK'
    <3>1. signalQueue' \in Seq({"TERM", "QUIT"})
      BY <2>3 DEF Signal
    <3>2. QED
      BY <2>3, <3>1 DEF Signal
  <2>4. ASSUME HandleTerm \/ HandleQuit PROVE TreeTypeOK'
    <3>1. PICK sig : SignalForks(sig)
      BY <2>4 DEF HandleTerm, HandleQuit
    <3>2. signalQueue' \in Seq({"TERM", "QUIT"})
      <4>1. signalQueue # <<>> /\ signalQueue' = Tail(signalQueue)
        BY <2>4 DEF HandleTerm, HandleQuit
      <4>2. QED
        BY <4>1
    <3>3. /\ child' \in [Pids -> ChildType]
          /\ \A p \in Pids : child'[p].pc \in ExitKnown => child'[p].exit \in {0, 1}
          /\ row' \in [Pids -> {"none", "supervised", "alone"}]
          /\ claims' \subseteq Pids /\ busy' \subseteq Pids
      BY <3>1, SignalForksTypes
    <3>4. QED
      BY <2>4, <3>2, <3>3 DEF HandleTerm, HandleQuit
  <2>5. ASSUME ShutdownTimeout PROVE TreeTypeOK'
    <3>1. /\ child' \in [Pids -> ChildType]
          /\ \A p \in Pids : child'[p].pc \in ExitKnown => child'[p].exit \in {0, 1}
          /\ row' \in [Pids -> {"none", "supervised", "alone"}]
          /\ claims' \subseteq Pids /\ busy' \subseteq Pids
      BY <2>5, SignalForksTypes DEF ShutdownTimeout
    <3>2. QED
      BY <2>5, <3>1 DEF ShutdownTimeout
  <2>6. ASSUME NEW p \in Pids, ReapFork(p) \/ ReapTerminated(p) \/ FollowUp(p)
        PROVE  TreeTypeOK'
    <3>1. PICK c \in ChildType : c = child[p] /\ c.pc \in ExitKnown
      BY <2>6 DEF ReapFork, ReapTerminated, FollowUp
    <3>2. PICK d \in ChildType : /\ child' = [child EXCEPT ![p] = d]
                                 /\ d.pc \in ExitKnown => d.exit \in {0, 1}
      <4>1. /\ [c EXCEPT !.pc = "reaped"] \in ChildType
            /\ [c EXCEPT !.pc = "handled"] \in ChildType
            /\ NoChild \in ChildType
        BY ChildRecords DEF ChildPcs
      <4>2. /\ [c EXCEPT !.pc = "reaped"].exit = c.exit
            /\ [c EXCEPT !.pc = "handled"].exit = c.exit
            /\ NoChild.pc = "none"
        BY DEF ChildType, NoChild
      <4>3. c.exit \in {0, 1}
        BY <3>1
      <4>4. \/ child' = [child EXCEPT ![p] = NoChild]
            \/ child' = [child EXCEPT ![p] = [c EXCEPT !.pc = "reaped"]]
            \/ child' = [child EXCEPT ![p] = [c EXCEPT !.pc = "handled"]]
        BY <2>6, <3>1 DEF ReapFork, ReapTerminated, FollowUp
      <4>5. QED
        BY <4>1, <4>2, <4>3, <4>4
    <3>3. child' \in [Pids -> ChildType]
      BY <3>2
    <3>4. \A q \in Pids : child'[q].pc \in ExitKnown => child'[q].exit \in {0, 1}
      BY <3>2
    <3>5. forks' \subseteq Pids /\ claims' \subseteq Pids
      BY <2>6 DEF ReapFork, ReapTerminated, FollowUp, HandleClaimedJobsBy
    <3>6. QED
      BY <2>6, <3>3, <3>4, <3>5 DEF ReapFork, ReapTerminated, FollowUp
  <2>7. ASSUME NEW p \in Pids, StartReplacement(p) PROVE TreeTypeOK'
    <3>1. FreePid \in Pids
      BY <2>7, FreePidIsUnused DEF StartReplacement, Unused
    <3>2. PICK f : f = NewFork(child[p].slot)
      OBVIOUS
    <3>3. f \in [pc : {"forked"}, slot : Slots \cup {NoSlot}, initial : BOOLEAN,
                 supervised : BOOLEAN, stopped : BOOLEAN, exit : {-1, 0, 1}]
      BY <3>2 DEF NewFork, NoChild, ChildType
    <3>4. f \in ChildType /\ f.pc = "forked"
      BY <3>3 DEF ChildType, ChildPcs
    <3>5. child' = [child EXCEPT ![p] = NoChild, ![FreePid] = f]
      BY <2>7, <3>2 DEF StartReplacement
    <3>6. child' \in [Pids -> ChildType]
      BY <3>1, <3>4, <3>5, ChildRecords
    <3>7. \A q \in Pids : child'[q].pc \in ExitKnown => child'[q].exit \in {0, 1}
      BY <3>1, <3>4, <3>5 DEF NoChild
    <3>8. QED
      BY <2>7, <3>1, <3>6, <3>7 DEF StartReplacement
  <2>8. ASSUME ShutDown PROVE TreeTypeOK'
    BY <2>8, DeregisterTypes DEF ShutDown
  <2>9. ASSUME NEW p \in Pids, Prune(p) \/ Claim(p) \/ Finish(p) PROVE TreeTypeOK'
    BY <2>9 DEF Prune, Claim, Finish
  <2>10. ASSUME NEW p \in Pids, ChildRegister(p) PROVE TreeTypeOK'
    <3>1. PICK c \in ChildType : /\ child' = [child EXCEPT ![p] = c]
                                 /\ c.pc \notin ExitKnown
      <4>1. /\ [child[p] EXCEPT !.pc = "ended", !.exit = -1] \in ChildType
            /\ [child[p] EXCEPT !.pc = "registered"] \in ChildType
        BY ChildRecords DEF ChildPcs
      <4>2. /\ [child[p] EXCEPT !.pc = "ended", !.exit = -1].pc \notin ExitKnown
            /\ [child[p] EXCEPT !.pc = "registered"].pc \notin ExitKnown
        BY DEF ChildType
      <4>3. \/ child' = [child EXCEPT ![p] = [child[p] EXCEPT !.pc = "ended", !.exit = -1]]
            \/ child' = [child EXCEPT ![p] = [child[p] EXCEPT !.pc = "registered"]]
        BY <2>10 DEF ChildRegister
      <4>4. QED
        BY <4>1, <4>2, <4>3
    <3>2. row' \in [Pids -> {"none", "supervised", "alone"}]
      BY <2>10 DEF ChildRegister
    <3>3. QED
      BY <2>10, <3>1, <3>2 DEF ChildRegister
  <2>11. ASSUME NEW p \in Pids, \/ ChildReady(p) \/ Exit(p) \/ TermChild(p) \/ Kill(p)
                                \/ ChildStops(p) \/ ChildRaises(p) \/ InheritedShutdown(p)
         PROVE  /\ child' \in [Pids -> ChildType]
                /\ \A q \in Pids : child'[q].pc \in ExitKnown => child'[q].exit \in {0, 1}
    <3>1. PICK c \in ChildType : c = child[p]
      OBVIOUS
    <3>2. /\ \A state \in ChildPcs : [c EXCEPT !.pc = state] \in ChildType
          /\ \A state \in ChildPcs, e \in {-1, 0, 1} :
               [c EXCEPT !.pc = state, !.exit = e] \in ChildType
          /\ [c EXCEPT !.stopped = TRUE] \in ChildType
          /\ ExitStatus(c) \in {-1, 0, 1}
      BY ChildRecords
    <3>3. \/ child' = [child EXCEPT ![p] = [c EXCEPT !.pc = "polling"]]
          \/ c.pc = "draining" /\ child' = [child EXCEPT ![p] = [c EXCEPT !.pc = "zombie"]]
          \/ c.pc = "polling" /\ child' = [child EXCEPT ![p] = [c EXCEPT !.stopped = TRUE]]
          \/ child' = [child EXCEPT ![p] = [c EXCEPT !.pc = "zombie", !.exit = 1]]
          \/ child' = [child EXCEPT ![p] = [c EXCEPT !.pc = "ended", !.exit = 0]]
          \/ child' = [child EXCEPT ![p] = [c EXCEPT !.pc = "ended", !.exit = -1]]
          \/ child' = [child EXCEPT ![p] = [c EXCEPT !.pc = "draining", !.exit = ExitStatus(c)]]
      BY <2>11, <3>1 DEF ChildReady, Exit, TermChild, Kill, ChildStops, ChildRaises, EndLoop,
                         InheritedShutdown
    <3>4. c.pc \in ExitKnown => c.exit \in {0, 1}
      BY <3>1
    <3>5. PICK d \in ChildType : /\ child' = [child EXCEPT ![p] = d]
                                 /\ d.pc \in ExitKnown => d.exit \in {0, 1}
      <4>1. ExitStatus(c) \in {0, 1}
        BY ChildRecords
      <4>2. /\ [c EXCEPT !.pc = "polling"].pc = "polling"
            /\ [c EXCEPT !.pc = "zombie"].exit = c.exit
            /\ [c EXCEPT !.stopped = TRUE].pc = c.pc
            /\ [c EXCEPT !.pc = "zombie", !.exit = 1].exit = 1
            /\ [c EXCEPT !.pc = "ended", !.exit = 0].pc = "ended"
            /\ [c EXCEPT !.pc = "ended", !.exit = -1].pc = "ended"
            /\ [c EXCEPT !.pc = "draining", !.exit = ExitStatus(c)].exit = ExitStatus(c)
        BY DEF ChildType
      <4>3. "polling" \in ChildPcs /\ "zombie" \in ChildPcs /\ "ended" \in ChildPcs
              /\ "draining" \in ChildPcs
        BY DEF ChildPcs
      <4>4. QED
        BY <3>2, <3>3, <3>4, <4>1, <4>2, <4>3
    <3>6. QED
      BY <3>5
  <2>12. ASSUME NEW p \in Pids, \/ ChildReady(p) \/ Exit(p) \/ TermChild(p) \/ Kill(p)
                                \/ ChildStops(p) \/ ChildRaises(p)
         PROVE  TreeTypeOK'
    <3>1. CASE ChildReady(p) \/ Exit(p) \/ TermChild(p)
      BY <2>11, <3>1 DEF ChildReady, Exit, TermChild
    <3>2. CASE Kill(p)
      BY <2>11, <3>2 DEF Kill
    <3>3. CASE ChildStops(p) \/ ChildRaises(p)
      BY <2>11, <3>3 DEF ChildStops, ChildRaises, EndLoop
    <3>4. QED
      BY <2>12, <3>1, <3>2, <3>3
  <2>13. ASSUME NEW p \in Pids, InheritedShutdown(p) PROVE TreeTypeOK'
    <3>1. /\ row' \in [Pids -> {"none", "supervised", "alone"}]
          /\ claims' \subseteq Pids /\ ownRow' \in BOOLEAN
      BY <2>13, DeregisterTypes DEF InheritedShutdown
    <3>2. pidfile' \in BOOLEAN
      BY <2>13 DEF InheritedShutdown
    <3>3. QED
      BY <2>11, <2>13, <3>1, <3>2 DEF InheritedShutdown
  <2>14. CASE UNCHANGED vars
    BY <2>14 DEF vars
  <2>15. QED
    BY <2>1, <2>2, <2>3, <2>4, <2>5, <2>6, <2>7, <2>8, <2>9, <2>10, <2>12, <2>13, <2>14
       DEF Next, MainStep, ChildStep
<1>3. QED
  BY <1>1, <1>2, PTL DEF Spec
-----------------------------------------------------------------------------
(* What RegistryConsistent says of the follow-ups.                         *)
OneFollowUp ==
  /\ \A p, q \in Pids : Reaped(p) /\ Reaped(q) => p = q
  /\ Following => pc \in {"supervising", "waiting", "leaving", "exited", "killed"}

(* It is kept as long as no fork is reaped ...                             *)
LEMMA NoFurtherFollowUp ==
  ASSUME OneFollowUp, \A p \in Pids : Reaped(p)' => Reaped(p),
         Following => pc' = pc \/ pc' \in {"leaving", "exited", "killed"}
  PROVE  OneFollowUp'
BY DEF OneFollowUp, Following

(* ... and when one is that is the only one.                               *)
LEMMA FirstFollowUp ==
  ASSUME NEW p \in Pids, OneFollowUp, ~Following \/ Reaped(p), pc' = pc,
         pc \in {"supervising", "waiting"},
         \A q \in Pids \ {p} : child'[q] = child[q]
  PROVE  OneFollowUp'
<1>1. \A q \in Pids : Reaped(q) => q = p
  BY DEF OneFollowUp, Following
<1>2. \A q \in Pids \ {p} : Reaped(q)' <=> Reaped(q)
  BY DEF Reaped
<1>3. QED
  BY <1>1, <1>2 DEF OneFollowUp, Following

LEMMA OneFollowUpHolds == RegistryConsistent => OneFollowUp
BY DEF RegistryConsistent, OneFollowUp

(* Signals take the claimed executions only of forks that they end.        *)
LEMMA SignalForksConsistent ==
  ASSUME NEW sig, TreeTypeOK, RegistryConsistent, SignalForks(sig), ~Following,
         pc' \notin {"start", "boot", "exited"}, UNCHANGED <<lost, ownRow>>
  PROVE  RegistryConsistent'
<1>1. ASSUME NEW p \in Pids, row'[p] = "supervised" PROVE ownRow'
  BY <1>1 DEF SignalForks, RegistryConsistent, TreeTypeOK
<1>2. ASSUME NEW p \in claims'
      PROVE  /\ row'[p] # "none"
             /\ \/ child'[p].pc = "polling"
                \/ child'[p].pc \in {"zombie", "reaped"} /\ child'[p].exit = 1
                \/ child'[p].pc \in {"handled", "none"} /\ row'[p] = "alone"
  <2>1. /\ p \in Pids /\ p \in claims /\ child[p] \in ChildType
        /\ ~(child[p].pc = "polling" /\ child'[p].pc = "ended")
        /\ row'[p] = row[p]
        /\ child'[p] = IF p \in forks THEN Signalled(p, sig) ELSE child[p]
    BY <1>2 DEF SignalForks, TreeTypeOK
  <2>2. CASE child[p].pc = "polling"
    <3>1. Signalled(p, sig) \in {child[p], [child[p] EXCEPT !.stopped = TRUE],
                                [child[p] EXCEPT !.pc = "ended", !.exit = 1]}
      BY <2>2 DEF Signalled
    <3>2. [child[p] EXCEPT !.pc = "ended", !.exit = 1].pc = "ended"
      BY <2>1 DEF ChildType
    <3>3. [child[p] EXCEPT !.stopped = TRUE].pc = "polling"
      BY <2>1, <2>2 DEF ChildType
    <3>4. child'[p].pc = "polling"
      BY <2>1, <2>2, <3>1, <3>2, <3>3
    <3>5. QED
      BY <1>2, <2>1, <3>4 DEF RegistryConsistent
  <2>3. CASE child[p].pc \in {"zombie", "none", "reaped", "handled"}
    <3>1. Signalled(p, sig) = child[p]
      BY <2>3 DEF Signalled
    <3>2. QED
      BY <2>1, <2>3, <3>1 DEF RegistryConsistent
  <2>4. QED
    BY <2>1, <2>2, <2>3 DEF RegistryConsistent
<1>3. ASSUME NEW p \in Pids PROVE ~Reaped(p)'
  <2>1. child[p].pc \notin {"reaped", "handled"} /\ child[p] \in ChildType
    BY DEF Following, Reaped, TreeTypeOK
  <2>2. PICK c \in ChildType : c = child[p]
    BY <2>1
  <2>3. child'[p] \in {c, [c EXCEPT !.pc = "ended", !.exit = 1],
                       [c EXCEPT !.stopped = TRUE], [c EXCEPT !.pc = "zombie", !.exit = 1]}
    BY <2>2 DEF SignalForks, Signalled
  <2>4. /\ [c EXCEPT !.pc = "ended", !.exit = 1].pc = "ended"
        /\ [c EXCEPT !.stopped = TRUE].pc = c.pc
        /\ [c EXCEPT !.pc = "zombie", !.exit = 1].pc = "zombie"
    BY DEF ChildType
  <2>5. child'[p].pc \notin {"reaped", "handled"}
    BY <2>1, <2>2, <2>3, <2>4
  <2>6. QED
    BY <2>5 DEF Reaped
<1>4. QED
  BY <1>1, <1>2, <1>3 DEF RegistryConsistent, Following

(* Deregistering a tree leaves no row that refers to it.                   *)
LEMMA DeregisterConsistent ==
  ASSUME TreeTypeOK, RegistryConsistent, DeregisterTree
  PROVE  /\ ~ownRow'
         /\ \A p \in Pids : row'[p] # "supervised"
         /\ claims' \subseteq claims
         /\ \A p \in claims' : row'[p] = row[p]
<1>1. PICK late \in SUBSET {p \in Pids : child[p].pc = "registered" /\ row[p] = "supervised"} :
        /\ ownRow' = FALSE
        /\ row' = [p \in Pids |->
                     IF p \in {q \in Pids : row[q] = "supervised"} \ late THEN "none"
                     ELSE IF p \in late THEN "alone" ELSE row[p]]
        /\ claims' = claims \ ({q \in Pids : row[q] = "supervised"} \ late)
  BY DEF DeregisterTree
<1>2. \A p \in claims : p \in Pids /\ p \notin late
  BY <1>1 DEF RegistryConsistent, TreeTypeOK
<1>3. QED
  BY <1>1, <1>2 DEF TreeTypeOK

(* Claimed executions belong to rows that exist, of forks that are polling *)
(* or were killed, or that the supervisor has yet to follow up or cannot   *)
(* find any more; and it follows up one fork at a time.                    *)
THEOREM RegistryInvariant == Spec => []RegistryConsistent
<1> USE TreeConstantsOK
<1>1. Init => RegistryConsistent
  BY DEF Init, RegistryConsistent, Following, Reaped, NoChild
<1>2. TreeTypeOK /\ RegistryConsistent /\ [Next]_vars => RegistryConsistent'
  <2> SUFFICES ASSUME TreeTypeOK, RegistryConsistent, [Next]_vars
               PROVE  RegistryConsistent'
    OBVIOUS
  <2>0. OneFollowUp
    BY OneFollowUpHolds
  <2>1. ASSUME \/ SetUpPidfile \/ Register \/ Supervise \/ AllTerminated \/ LoopRaises
               \/ BreakLoop \/ Heartbeat \/ KillSupervisor
               \/ \E sig \in {"TERM", "QUIT"} : Signal(sig)
        PROVE  RegistryConsistent'
    <3>1. \A p \in Pids : Reaped(p)' <=> Reaped(p)
      BY <2>1 DEF SetUpPidfile, Register, Supervise, AllTerminated, LoopRaises, BreakLoop,
                  Heartbeat, KillSupervisor, Signal, Reaped
    <3>2. Following => pc' = pc \/ pc' \in {"leaving", "exited", "killed"}
      BY <2>0, <2>1 DEF OneFollowUp, SetUpPidfile, Register, Supervise, AllTerminated,
                        LoopRaises, BreakLoop, Heartbeat, KillSupervisor, Signal
    <3>3. OneFollowUp'
      BY <2>0, <3>1, <3>2, NoFurtherFollowUp
    <3>4. QED
      BY <2>1, <3>3 DEF OneFollowUp, RegistryConsistent, SetUpPidfile, Register, Supervise,
                        AllTerminated, LoopRaises, BreakLoop, Heartbeat, KillSupervisor, Signal
  <2>2. ASSUME NEW s \in Slots, StartProcess(s) PROVE RegistryConsistent'
    <3>1. FreePid \in Pids /\ row[FreePid] = "none"
      BY <2>2, FreePidIsUnused DEF StartProcess, Unused
    <3>2. FreePid \notin claims
      BY <3>1 DEF RegistryConsistent
    <3>3. /\ child'[FreePid].pc = "forked"
          /\ \A q \in Pids \ {FreePid} : child'[q] = child[q]
      BY <2>2, <3>1 DEF StartProcess, NewFork, NoChild, TreeTypeOK
    <3>4. OneFollowUp'
      <4>1. \A q \in Pids : Reaped(q)' => Reaped(q)
        BY <3>3 DEF Reaped
      <4>2. pc' = pc
        BY <2>2 DEF StartProcess
      <4>3. QED
        BY <2>0, <4>1, <4>2, NoFurtherFollowUp
    <3>5. QED
      BY <2>2, <3>1, <3>2, <3>3, <3>4
         DEF StartProcess, RegistryConsistent, OneFollowUp, TreeTypeOK
  <2>3. ASSUME HandleTerm \/ HandleQuit \/ ShutdownTimeout PROVE RegistryConsistent'
    <3>1. PICK sig : SignalForks(sig)
      BY <2>3 DEF HandleTerm, HandleQuit, ShutdownTimeout
    <3>2. /\ pc' \notin {"start", "boot", "exited"} /\ ~Following
          /\ UNCHANGED <<lost, ownRow>>
      BY <2>3 DEF HandleTerm, HandleQuit, ShutdownTimeout, AtSignalQueue
    <3>3. QED
      BY <3>1, <3>2, SignalForksConsistent
  <2>4. ASSUME NEW p \in Pids, ReapFork(p) \/ ReapTerminated(p) PROVE RegistryConsistent'
    <3>1. /\ UNCHANGED <<pc, row, ownRow, lost, claims>> /\ ~Following
          /\ pc \in {"supervising", "waiting"}
          /\ \A q \in Pids \ {p} : child'[q] = child[q]
      BY <2>4 DEF ReapFork, ReapTerminated, TreeTypeOK
    <3>2. OneFollowUp'
      BY <2>0, <3>1, FirstFollowUp
    <3>3. PICK c \in ChildType : c = child[p] /\ c.pc = "zombie"
      BY <2>4 DEF ReapFork, ReapTerminated, TreeTypeOK
    <3>4. \/ child'[p] = [c EXCEPT !.pc = "reaped"]
          \/ c.exit = 0
      BY <2>4, <3>3 DEF ReapFork, ReapTerminated, TreeTypeOK
    <3>5. /\ [c EXCEPT !.pc = "reaped"].pc = "reaped"
          /\ [c EXCEPT !.pc = "reaped"].exit = c.exit
      BY DEF ChildType
    <3>6. ASSUME p \in claims PROVE child'[p].pc = "reaped" /\ child'[p].exit = 1
      <4>1. c.exit = 1
        BY <3>3, <3>6 DEF RegistryConsistent
      <4>2. child'[p] = [c EXCEPT !.pc = "reaped"]
        BY <3>4, <4>1
      <4>3. QED
        BY <3>5, <4>1, <4>2
    <3>7. QED
      BY <3>1, <3>2, <3>6 DEF RegistryConsistent, OneFollowUp, TreeTypeOK
  <2>5. ASSUME NEW p \in Pids, FollowUp(p) PROVE RegistryConsistent'
    <3>1. /\ UNCHANGED <<pc, row, ownRow, lost>> /\ Reaped(p)
          /\ pc \in {"supervising", "waiting"}
          /\ \A q \in Pids \ {p} : child'[q] = child[q]
          /\ claims' \subseteq claims
      BY <2>5 DEF FollowUp, HandleClaimedJobsBy, Reaped, TreeTypeOK
    <3>2. OneFollowUp'
      BY <2>0, <3>1, FirstFollowUp
    <3>3. p \in claims' => row[p] = "alone"
      BY <2>5 DEF FollowUp, HandleClaimedJobsBy, RegistryConsistent, TreeTypeOK
    <3>4. PICK c \in ChildType : c = child[p]
      BY DEF TreeTypeOK
    <3>5. child'[p] = NoChild \/ child'[p] = [c EXCEPT !.pc = "handled"]
      BY <2>5, <3>4 DEF FollowUp, TreeTypeOK
    <3>6. NoChild.pc = "none" /\ [c EXCEPT !.pc = "handled"].pc = "handled"
      BY DEF NoChild, ChildType
    <3>7. child'[p].pc \in {"handled", "none"}
      BY <3>5, <3>6
    <3>8. QED
      BY <3>1, <3>2, <3>3, <3>7 DEF RegistryConsistent, OneFollowUp, TreeTypeOK
  <2>6. ASSUME NEW p \in Pids, StartReplacement(p) PROVE RegistryConsistent'
    <3>1. FreePid \in Pids /\ row[FreePid] = "none" /\ child[FreePid].pc = "none"
      BY <2>6, FreePidIsUnused DEF StartReplacement, Unused
    <3>2. FreePid \notin claims /\ FreePid # p
      BY <2>6, <3>1 DEF RegistryConsistent, StartReplacement
    <3>3. /\ child'[p].pc = "none" /\ child'[FreePid].pc = "forked"
          /\ \A q \in Pids \ {p, FreePid} : child'[q] = child[q]
      BY <2>6, <3>1, <3>2 DEF StartReplacement, NewFork, NoChild, TreeTypeOK
    <3>4. UNCHANGED <<pc, row, ownRow, lost, claims>>
      BY <2>6 DEF StartReplacement
    <3>5. p \in claims => row[p] = "alone"
      BY <2>6 DEF StartReplacement, RegistryConsistent
    <3>6. OneFollowUp'
      <4>1. \A q \in Pids : Reaped(q)' => Reaped(q)
        BY <3>3 DEF Reaped
      <4>2. QED
        BY <2>0, <3>4, <4>1, NoFurtherFollowUp
    <3>7. QED
      BY <3>2, <3>3, <3>4, <3>5, <3>6 DEF RegistryConsistent, OneFollowUp, TreeTypeOK
  <2>7. ASSUME ShutDown PROVE RegistryConsistent'
    <3>1. UNCHANGED <<child, lost>> /\ pc' = "exited"
      BY <2>7 DEF ShutDown
    <3>2. OneFollowUp'
      <4>1. \A q \in Pids : Reaped(q)' => Reaped(q)
        BY <3>1 DEF Reaped
      <4>2. QED
        BY <2>0, <3>1, <4>1, NoFurtherFollowUp
    <3>3. CASE ownRow /\ ~lost
      BY <2>7, <3>1, <3>2, <3>3, DeregisterConsistent
         DEF ShutDown, RegistryConsistent, OneFollowUp, TreeTypeOK
    <3>4. CASE ~(ownRow /\ ~lost)
      BY <2>7, <3>1, <3>2, <3>4 DEF ShutDown, RegistryConsistent, OneFollowUp, TreeTypeOK
    <3>5. QED
      BY <3>3, <3>4
  <2>8. ASSUME NEW p \in Pids, InheritedShutdown(p) PROVE RegistryConsistent'
    <3>1. /\ p \notin claims
          /\ \A q \in Pids \ {p} : child'[q] = child[q]
      BY <2>8 DEF InheritedShutdown, RegistryConsistent, TreeTypeOK
    <3>2. \/ UNCHANGED <<row, ownRow, claims>>
          \/ /\ ~ownRow' /\ claims' \subseteq claims
             /\ \A q \in Pids : row'[q] # "supervised"
             /\ \A q \in claims' : row'[q] = row[q]
      BY <2>8, DeregisterConsistent DEF InheritedShutdown
    <3>3. UNCHANGED <<pc, lost>>
      BY <2>8 DEF InheritedShutdown
    <3>4. OneFollowUp'
      <4>1. PICK c \in ChildType : c = child[p]
        BY DEF TreeTypeOK
      <4>2. child'[p] = [c EXCEPT !.pc = "draining", !.exit = ExitStatus(c)]
        BY <2>8, <4>1 DEF InheritedShutdown, TreeTypeOK
      <4>3. [c EXCEPT !.pc = "draining", !.exit = ExitStatus(c)].pc = "draining"
        BY DEF ChildType
      <4>4. \A q \in Pids : Reaped(q)' => Reaped(q)
        BY <3>1, <4>2, <4>3 DEF Reaped
      <4>5. QED
        BY <2>0, <3>3, <4>4, NoFurtherFollowUp
    <3>5. QED
      BY <3>1, <3>2, <3>3, <3>4 DEF RegistryConsistent, OneFollowUp, TreeTypeOK
  <2>9. ASSUME NEW p \in Pids, Prune(p) \/ Claim(p) \/ Finish(p) PROVE RegistryConsistent'
    <3>1. UNCHANGED <<pc, child, ownRow, lost>>
      BY <2>9 DEF Prune, Claim, Finish
    <3>2. OneFollowUp'
      <4>1. \A q \in Pids : Reaped(q)' => Reaped(q)
        BY <3>1 DEF Reaped
      <4>2. QED
        BY <2>0, <3>1, <4>1, NoFurtherFollowUp
    <3>3. QED
      BY <2>9, <3>1, <3>2
         DEF Prune, Claim, Finish, RegistryConsistent, OneFollowUp, TreeTypeOK
  <2>10. ASSUME NEW p \in Pids, \/ ChildRegister(p) \/ ChildReady(p) \/ Exit(p) \/ TermChild(p)
                                \/ Kill(p) \/ ChildStops(p) \/ ChildRaises(p)
         PROVE  /\ OneFollowUp'
                /\ UNCHANGED <<pc, ownRow, lost>>
                /\ \A q \in Pids \ {p} : child'[q] = child[q]
    <3>1. UNCHANGED <<pc, ownRow, lost>> /\ \A q \in Pids \ {p} : child'[q] = child[q]
      BY <2>10 DEF ChildRegister, ChildReady, Exit, TermChild, Kill, ChildStops, ChildRaises,
                   EndLoop, TreeTypeOK
    <3>2. PICK c \in ChildType : c = child[p]
      BY DEF TreeTypeOK
    <3>3. \/ child'[p] = [c EXCEPT !.pc = "ended", !.exit = -1]
          \/ child'[p] = [c EXCEPT !.pc = "ended", !.exit = 0]
          \/ child'[p] = [c EXCEPT !.pc = "registered"]
          \/ child'[p] = [c EXCEPT !.pc = "polling"]
          \/ child'[p] = [c EXCEPT !.pc = "zombie"]
          \/ child'[p] = [c EXCEPT !.pc = "zombie", !.exit = 1]
          \/ child'[p] = [c EXCEPT !.stopped = TRUE]
      BY <2>10, <3>2 DEF ChildRegister, ChildReady, Exit, TermChild, Kill, ChildStops,
                         ChildRaises, EndLoop, TreeTypeOK
    <3>4. /\ [c EXCEPT !.pc = "ended", !.exit = -1].pc = "ended"
          /\ [c EXCEPT !.pc = "ended", !.exit = 0].pc = "ended"
          /\ [c EXCEPT !.pc = "registered"].pc = "registered"
          /\ [c EXCEPT !.pc = "polling"].pc = "polling"
          /\ [c EXCEPT !.pc = "zombie"].pc = "zombie"
          /\ [c EXCEPT !.pc = "zombie", !.exit = 1].pc = "zombie"
          /\ [c EXCEPT !.stopped = TRUE].pc = c.pc
      BY DEF ChildType
    <3>6. child'[p].pc \in {"ended", "registered", "polling", "zombie", c.pc}
      BY <3>3, <3>4
    <3>7. \A q \in Pids : Reaped(q)' => Reaped(q)
      BY <3>1, <3>2, <3>6 DEF Reaped
    <3>8. QED
      BY <2>0, <3>1, <3>7, NoFurtherFollowUp
  <2>11. ASSUME NEW p \in Pids, ChildRegister(p) PROVE RegistryConsistent'
    <3>1. p \notin claims
      BY <2>11 DEF ChildRegister, RegistryConsistent
    <3>2. QED
      BY <2>10, <2>11, <3>1 DEF ChildRegister, RegistryConsistent, OneFollowUp, TreeTypeOK
  <2>12. ASSUME NEW p \in Pids, ChildReady(p) \/ Exit(p) \/ TermChild(p) \/ Kill(p)
         PROVE  RegistryConsistent'
    <3>1. UNCHANGED <<pc, row, ownRow, lost, claims>> /\ \A q \in Pids \ {p} : child'[q] = child[q]
      BY <2>12 DEF ChildReady, Exit, TermChild, Kill, TreeTypeOK
    <3>2. PICK c \in ChildType : c = child[p]
      BY DEF TreeTypeOK
    <3>3. \/ c.pc \in {"registered", "draining"}
          \/ c.pc = "polling" /\ child'[p] = [c EXCEPT !.stopped = TRUE]
          \/ child'[p] = [c EXCEPT !.pc = "zombie", !.exit = 1]
      BY <2>12, <3>2 DEF ChildReady, Exit, TermChild, Kill, TreeTypeOK
    <3>4. /\ [c EXCEPT !.stopped = TRUE].pc = c.pc
          /\ [c EXCEPT !.pc = "zombie", !.exit = 1].pc = "zombie"
          /\ [c EXCEPT !.pc = "zombie", !.exit = 1].exit = 1
      BY DEF ChildType
    <3>5. ASSUME p \in claims
          PROVE  child'[p].pc = "polling" \/ (child'[p].pc = "zombie" /\ child'[p].exit = 1)
      BY <3>2, <3>3, <3>4, <3>5 DEF RegistryConsistent
    <3>6. OneFollowUp'
      BY <2>10, <2>12
    <3>7. QED
      BY <3>1, <3>5, <3>6 DEF RegistryConsistent, OneFollowUp, TreeTypeOK
  <2>13. ASSUME NEW p \in Pids, ChildStops(p) \/ ChildRaises(p) PROVE RegistryConsistent'
    <3>1. OneFollowUp'
      BY <2>10, <2>13
    <3>2. QED
      BY <2>13, <3>1 DEF ChildStops, ChildRaises, EndLoop, RegistryConsistent, OneFollowUp,
                         TreeTypeOK
  <2>14. CASE UNCHANGED vars
    BY <2>14 DEF vars, RegistryConsistent, Following, Reaped
  <2>15. QED
    BY <2>1, <2>2, <2>3, <2>4, <2>5, <2>6, <2>7, <2>8, <2>9, <2>11, <2>12, <2>13, <2>14
       DEF Next, MainStep, ChildStep
<1>3. QED
  BY <1>1, <1>2, TreeTypeCorrect, PTL DEF Spec

(* The supervisor leaves claimed executions to a fork it has reaped only   *)
(* where it does not find the row, and to at most one fork in the midst of *)
(* its follow-up; they are gone when a supervisor that failed there has    *)
(* shut down.                                                              *)
THEOREM ReapedForksAreHandled == Spec => []ReapedForksHoldNoClaims
<1>1. TreeTypeOK /\ RegistryConsistent => ReapedForksHoldNoClaims
  <2> SUFFICES ASSUME TreeTypeOK, RegistryConsistent, NEW p \in claims,
                      child[p].pc = "none" \/ Reaped(p), row[p] # "alone"
               PROVE  BeingFollowedUp(p) /\ \A q \in Pids : Reaped(q) => q = p
    BY DEF ReapedForksHoldNoClaims
  <2>1. p \in Pids /\ child[p].pc = "reaped" /\ row[p] = "supervised"
    BY DEF RegistryConsistent, TreeTypeOK, Reaped
  <2>2. ownRow /\ pc # "exited" /\ Following /\ Reaped(p)
    BY <2>1 DEF RegistryConsistent, Reaped, Following
  <2>3. QED
    BY <2>1, <2>2 DEF RegistryConsistent, BeingFollowedUp
<1>2. QED
  BY <1>1, TreeTypeCorrect, RegistryInvariant, PTL
=============================================================================
