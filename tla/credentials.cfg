SPECIFICATION Spec
CONSTANTS
  Controls <- AllControls
  Slot = {s1, s2}
  TaskId = {"t1", "t2"}
  GrantId = {"g1"}
  Request <- ReissueCalls
  TaskReq <- ReissueTasks
  TTL = 4
  Second = 1
  Revocable = {"g1"}
  Harness = TRUE
  MaxTime = 0
  MaxRuns = 2
  MaxRestarts = 0
SYMMETRY Slots
INVARIANTS SingleUse RevocationStopsCalls ExecWithinGrant
PROPERTIES ImplementsAuthority
CHECK_DEADLOCK FALSE
