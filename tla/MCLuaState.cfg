CONSTANTS
  Threads = {t1, t2, t3}
  IsServer = TRUE
  MaxDepth = 4
  MaxRequests = 3
SPECIFICATION FairSpec
INVARIANTS
  TypeOK
  RefsArePins
  AssertNoRefs
  BootstrapsRun
  CallbacksAwaitReset
PROPERTIES
  PinnedVMStays
  PendingSettles
