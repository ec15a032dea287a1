\* A delegated request that names no capability.
CONSTANTS
  a = a
  b = b
  None = None
  Node = {a, b}
  Id = {i1, i2, i3}
  DelegateWork = "delegate_work"
  Capability = {"delegate_work"}
  QueueCapacity = 2
  Setting <- WorkerModes
  Addable <- BothPeers
  Draft <- UnlabelledDraft
  Decision <- AnyDecision
  Grantable <- WorkerGrants
  MaxSends = 1
  MaxDecisions = 1
  MaxCrashes = 0
  Lossy = FALSE
  Resends = FALSE
  StorageFails = FALSE
SPECIFICATION Spec
INVARIANTS
  GrantIsHeld
CHECK_DEADLOCK FALSE
