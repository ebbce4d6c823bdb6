SPECIFICATION Spec
CONSTANTS
  Controls <- AllControls
  Slot = {s1}
  TaskId = {"t1", "t2"}
  GrantId = {"g1", "g2", "g3"}
  Request <- SessionCalls
  TaskReq <- SessionTasks
  TTL = 2
  Second = 2
  Revocable = {"g2"}
  Harness = FALSE
  MaxTime = 3
  MaxRuns = 4
  MaxRestarts = 0
INVARIANTS SessionCaveatsHold UsableWhenIssued ExecutionsAreCounted 
CHECK_DEADLOCK FALSE
