SPECIFICATION Spec
CONSTANTS
  Controls <- AllControls
  Slot = {s1}
  TaskId = {"t1","t2"}
  GrantId = {"g1", "g2"}
  Request <- RestartCalls
  TaskReq <- ChargeTasks
  TTL = 4
  Second = 1
  Revocable = {"g1"}
  Harness = FALSE
  MaxTime = 0
  MaxRuns = 3
  MaxRestarts = 1
INVARIANTS SingleUse  AuditTrail
PROPERTIES ImplementsAuthority CallsReturn 
CHECK_DEADLOCK FALSE
