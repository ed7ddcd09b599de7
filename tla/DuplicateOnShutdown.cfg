SPECIFICATION Spec
CONSTANTS
  k1 = k1  p1 = p1  p2 = p2  t1 = t1  t2 = t2  t3 = t3  s1 = s1
  NoKey = NoKey  NoJob = NoJob  NoThread = NoThread  NoProc = NoProc
  Jobs = {3}
  Keys = {k1}
  KeyOf <- MixedKeyOf
  LimitOf <- Limit1
  Procs = {p1, p2}
  Threads = {t1, t2}
  ProcOf <- FirstToP1
  Supervisors = {s1}
  Polls <- PollEverything
  Wildcard = {p1, p2}
  Mortal = {}
  Undecodable = {}
  PreserveFinished = TRUE
  Hazards = {"shutdown"}
INVARIANTS NoDuplicateExecution
CHECK_DEADLOCK FALSE
