SPECIFICATION Spec
CONSTANTS
  Writer = {w1, w2, w3}
  MaxAppends = 4
  MaxFailures = 1
  MaxRestarts = 1
INVARIANTS VerifyFindsTampering RowsMatchLog StoredChainVerifies
PROPERTIES RowsAppendOnly 
CHECK_DEADLOCK FALSE
