SPECIFICATION Spec
CONSTANTS
  Controls <- AllControls
  Slot = {s1, s2}
  TaskId = {"t1"}
  GrantId = {"g1"}
  Request <- CapCalls
  TaskReq <- CapTasks
  TTL = 4
  Second = 1
  Revocable = {}
  Harness = FALSE
  MaxTime = 0
  MaxRuns = 3
  MaxRestarts = 0
INVARIANTS SessionCaveatsHold
CHECK_DEADLOCK FALSE
