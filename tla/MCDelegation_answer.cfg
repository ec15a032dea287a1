\* Reliable transport; the daemons may be restarted once.
CONSTANTS
  a = a
  b = b
  None = None
  Node = {a, b}
  Id = {i1, i2, i3}
  DelegateWork = "delegate_work"
  Capability = {"delegate_work"}
  QueueCapacity = 2
  Setting <- WorkerModes
  Addable <- BothPeers
  Draft <- RequestDraft
  Decision <- AnyDecision
  Grantable <- WorkerGrants
  MaxSends = 1
  MaxDecisions = 1
  MaxCrashes = 1
  Lossy = FALSE
  Resends = FALSE
  StorageFails = FALSE
SPECIFICATION FairSpec
PROPERTIES
  DecisionReachesRequester
CHECK_DEADLOCK FALSE
