\* Three daemons in a line, one name, two calls, profiles that overtake each other.
CONSTANTS
  a = a
  b = b
  c = c
  t = t
  None = None
  Node = {a, b, c}
  Topic = {t}
  Caller = {c1}
  Interest <- OneInterest
  Link <- Line
  MaxProfiles = 2
  MaxCalls = 2
  MaxBroadcasts = 0
  MaxExpiries = 0
  MaxCrashes = 1
SPECIFICATION Spec
INVARIANTS
  TypeOK
  ReuseIsOwn
  ClaimIsTrue
  LinkIsTrue
PROPERTIES
  OwnerKeepsChannel
  ImplementsRegistry
