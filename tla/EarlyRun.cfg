SPECIFICATION Spec
CONSTANTS
  Schedulers = {"s1"}
  Configured = {"s1"}
  Horizon = 3
  Failing = {}
  Stoppable = {"s1"}
  Hazards = {}
INVARIANTS RunsOnTime
