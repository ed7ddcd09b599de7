SPECIFICATION Spec
CONSTANTS
  d1 = d1 d2 = d2 w1 = w1
  real_1 = real_1 real_2 = real_2 background = background
  Jobs = {1, 2, 3} Immediate = {} Limited = {3}
  Dispatchers = {d1} BatchSize = 2 MaxKills = 0 Hazards = {"lateInsert"}
  Queues = {real_1, real_2, background} QueueOf <- TwoOfBackground
  Pausable = {} Workers = {w1} PoolSize = 2 RawQueues <- Everything
PROPERTY DispatchingMoves
