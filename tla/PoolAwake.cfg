SPECIFICATION FairPool
CONSTANTS
  j1 = j1  j2 = j2  j3 = j3  t1 = t1  t2 = t2
  MainThread = main  Handler = handler  HeartbeatThread = heartbeat
  NoPipe = NoPipe  NoJob = NoJob
  Jobs = {j1, j3}
  Threads = {t1, t2}
  Relations = 2
  RelationOf <- TwoRelations
  FreshPipe = FALSE
  Hazards = {"TERM", "deregistered"}
INVARIANTS NoLostWakeUp StopInterruptsSleep
PROPERTIES IdleThreadsAreUsed StopsAtOnce
CHECK_DEADLOCK FALSE
