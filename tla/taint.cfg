SPECIFICATION Spec
CONSTANTS
  Controls <- AllControls
  Grants <- AllGrants
  Rows <- TheRows
  Files <- TheFiles
  Page <- ThePages
  Mailbox <- TheMailboxes
  Account <- TheAccounts
  DocLabel = {"doc", "email"}
  MaxCalls = 4
INVARIANTS TypeOK TaintIsKept OutsideNeverActs SecretsLeaveOnlyListed 
CHECK_DEADLOCK FALSE
