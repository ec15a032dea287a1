\* Two peers, two requests, two messages and an inbox page of one; three changes at the daemon, one start.
CONSTANTS
  Peer = {p1, p2}
  Request = {r1, r2}
  Message = {m1, m2}
  None = None
  InboxLimit = 1
  PendingLimit = 2
  MaxChanges = 3
  MaxStarts = 1
SPECIFICATION Spec
INVARIANTS
  TypeOK
  DialogIsAboutSelection
  SeenBeforeDecided
PROPERTIES
  AlertsAreNews
CHECK_DEADLOCK FALSE
