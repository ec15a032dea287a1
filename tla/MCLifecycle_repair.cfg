\* A setup with and one without the launch agent and a detached start, in any
\* order, on a new home or on a running node.
CONSTANTS
  Daemon = {d1, d2, d3}
  Setup = {setup, plain}
  Launching = {setup}
  Detach = {detach}
  Edit = {}
  None = None
  Torn = Torn
  Old = Old
  MaxFaults = 1
SPECIFICATION FairSpec
CHECK_DEADLOCK FALSE
INVARIANTS
  TypeOK
  SetupTakesEffect
  DetachSparesHealthy
PROPERTIES
  IdentityIsFinal
  RepairWorks
