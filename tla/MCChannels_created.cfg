\* Two daemons that create the same name.
CONSTANTS
  a = a
  b = b
  c = c
  t = t
  None = None
  Node = {a, b}
  Topic = {t}
  Caller = {c1, c2}
  Interest <- NoInterest
  Link <- Pair
  MaxProfiles = 1
  MaxCalls = 2
  MaxBroadcasts = 0
  MaxExpiries = 1
  MaxCrashes = 0
SPECIFICATION Spec
INVARIANTS
  CreatedIsReserved
