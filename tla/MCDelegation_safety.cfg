\* Crashes, losses and repeated envelopes; storage does not fail.
CONSTANTS
  a = a
  b = b
  None = None
  Node = {a, b}
  Id = {i1, i2, i3}
  DelegateWork = "delegate_work"
  Capability = {"delegate_work"}
  QueueCapacity = 2
  Setting <- WorkerModes
  Addable <- BothPeers
  Draft <- MixedDraft
  Decision <- AnyDecision
  Grantable <- WorkerGrants
  MaxSends = 1
  MaxDecisions = 3
  MaxCrashes = 1
  Lossy = TRUE
  Resends = TRUE
  StorageFails = FALSE
SPECIFICATION Spec
SYMMETRY IdSymmetry
INVARIANTS
  TypeOK
  DeliveredIsRecorded
  ExecutionIsAuthorized
  ResultIsSolicited
  AnswerIsNotBlocked
  OneAnswer
  AnswerMatchesDecision
PROPERTIES
  StatusIsFinal
  NoRunAfterDenial
  ImplementsDelegatedWork
CHECK_DEADLOCK FALSE
