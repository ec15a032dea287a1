\* Any write may fail and any request be lost; one crash.
CONSTANTS
  a = a
  b = b
  None = None
  Node = {a, b}
  Id = {i1, i2}
  DelegateWork = "delegate_work"
  Capability = {"delegate_work"}
  QueueCapacity = 2
  Setting <- AnyWorkerMode
  Addable <- RequesterPeers
  Draft <- WildDraft
  Decision <- AnyDecision
  Grantable <- WorkerGrants
  MaxSends = 1
  MaxDecisions = 1
  MaxCrashes = 1
  Lossy = TRUE
  Resends = FALSE
  StorageFails = TRUE
SPECIFICATION FairSpec
INVARIANTS
  DeliveredIsRecorded
  ExecutionIsAuthorized
PROPERTIES
  CallIsAnswered
CHECK_DEADLOCK FALSE
