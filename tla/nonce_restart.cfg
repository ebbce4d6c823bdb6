SPECIFICATION Spec
CONSTANTS
  Controls <- AllControls
  Slot = {s1}
  TaskId = {"t1"}
  GrantId = {"g1"}
  Request <- CapCalls
  TaskReq <- CapTasks
  TTL = 4
  Second = 1
  Revocable = {"g1"}
  Harness = FALSE
  MaxTime = 0
  MaxRuns = 3
  MaxRestarts = 1
INVARIANTS SingleUseAcrossRestarts
CHECK_DEADLOCK FALSE
