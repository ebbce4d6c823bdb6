SPECIFICATION Spec
CONSTANTS
  Controls <- AllControls
  Slot = {s1}
  TaskId = {"t1"}
  GrantId = {"g1", "g2"}
  Request <- TwinCalls
  TaskReq <- TwinTasks
  TTL = 4
  Second = 2
  Revocable = {}
  Harness = FALSE
  MaxTime = 2
  MaxRuns = 3
  MaxRestarts = 0
INVARIANTS SessionCaveatsHold
CHECK_DEADLOCK FALSE
