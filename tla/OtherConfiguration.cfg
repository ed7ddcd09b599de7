SPECIFICATION Spec
CONSTANTS
  Schedulers = {"s1", "s2"}
  Configured = {"s1"}
  Horizon = 3
  Failing = {}
  Stoppable = {}
  Hazards = {"kill"}
INVARIANTS AtMostOncePerRun
