SPECIFICATION Spec
CONSTANTS
  Writer = {w1}
  MaxAppends = 4
  MaxFailures = 0
  MaxRestarts = 1
INVARIANTS PersistedChainVerifies
CHECK_DEADLOCK FALSE
