SPECIFICATION Spec
CONSTANTS
  Slots = {"worker", "dispatcher"}
  Workers = {"worker"}
  Pids = {1, 2, 3}
  Hazards = {"leave"}
INVARIANTS PidfileWhileSupervising
CHECK_DEADLOCK FALSE
