SPECIFICATION FairSpec
CONSTANTS
  d1 = d1 d2 = d2 w1 = w1
  real_1 = real_1 real_2 = real_2 background = background
  Jobs = {1, 2, 3} Immediate = {1} Limited = {3}
  Dispatchers = {d1, d2} BatchSize = 1 MaxKills = 1 Hazards = {}
  Queues = {real_1, real_2, background} QueueOf <- TwoOfBackground
  Pausable = {real_1} Workers = {w1} PoolSize = 2 RawQueues <- Lists
INVARIANTS PollingTypeOK NeitherLostNorTwice
PROPERTIES DispatchedInOrder FollowsTheList PausedOrForeignUntouched PollingCatchesUp
