SPECIFICATION Spec
CONSTANTS
  s1 = s1 s2 = s2 NoOne = NoOne
  Supervisors = {s1, s2}
  MaxKills = 1
  Hazards = {"overlap"}
INVARIANT AtMostOneSupervisor
