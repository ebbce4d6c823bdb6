SPECIFICATION Spec
CONSTANTS
  Controls <- AllControls
  Slot = {s1, s2}
  TaskId = {"t1"}
  GrantId = {"g1", "g2"}
  Request <- MixedCalls
  TaskReq <- MixedTasks
  TTL = 4
  Second = 1
  Revocable = {"g1"}
  Harness = FALSE
  MaxTime = 0
  MaxRuns = 3
  MaxRestarts = 0
SYMMETRY Slots
INVARIANTS TypeOK CapOvershootBounded  AuditTrail
PROPERTIES ImplementsAuthority
CHECK_DEADLOCK FALSE
