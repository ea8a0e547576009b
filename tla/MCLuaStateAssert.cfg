CONSTANTS
  Threads = {t1, t2}
  IsServer = FALSE
  MaxDepth = 3
  MaxRequests = 1
SPECIFICATION Spec
INVARIANTS
  AssertPendingDelete
