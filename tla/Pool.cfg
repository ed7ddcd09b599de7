SPECIFICATION Spec
CONSTANTS
  j1 = j1  j2 = j2  j3 = j3  t1 = t1  t2 = t2
  MainThread = main  Handler = handler  HeartbeatThread = heartbeat
  NoPipe = NoPipe  NoJob = NoJob
  Jobs = {j1, j2, j3}
  Threads = {t1, t2}
  Relations = 2
  RelationOf <- TwoRelations
  FreshPipe = TRUE
  Hazards = {"TERM", "error", "opensFiles"}
INVARIANTS PoolTypeOK CounterExact WithinPool
SYMMETRY Interchangeable
