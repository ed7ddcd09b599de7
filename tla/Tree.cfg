SPECIFICATION FairTree
CONSTANTS
  Slots = {"worker"}
  Workers = {"worker"}
  Pids = {1, 2, 3}
  Hazards = {"TERM", "QUIT", "kill", "killSupervisor", "leave", "error"}
INVARIANTS TreeTypeOK ReapedForksHoldNoClaims RegistryConsistent
PROPERTIES ClaimsSettle SlotsRefilled SignalsEndTheTree
CHECK_DEADLOCK FALSE
