SPECIFICATION FairRecurring
CONSTANTS
  Schedulers = {"s1", "s2"}
  Configured = {"s1", "s2"}
  Horizon = 2
  Failing = {1}
  Stoppable = {"s2"}
  Hazards = {"kill", "clear"}
INVARIANTS RecurringTypeOK AtMostOncePerRun OneTimerPerTask
PROPERTIES ArmedRunsAreEnqueued
