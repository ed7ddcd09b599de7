SPECIFICATION FairSupervisors
CONSTANTS
  s1 = s1 s2 = s2 NoOne = NoOne
  Supervisors = {s1, s2}
  MaxKills = 2
  Hazards = {"stall", "otherHost"}
INVARIANTS SupervisorsTypeOK AtMostOneSupervisor FileNamesTheRunning NoRowAfterwards
PROPERTIES SparesItself LeftoversAreCleared
