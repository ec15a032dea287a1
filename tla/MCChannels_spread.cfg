\* Two daemons, one of them interested in the name; a call, a broadcast, a peer that expires, a crash; fair.
CONSTANTS
  a = a
  b = b
  c = c
  t = t
  None = None
  Node = {a, b}
  Topic = {t}
  Caller = {c1}
  Interest <- OneInterest
  Link <- Pair
  MaxProfiles = 1
  MaxCalls = 1
  MaxBroadcasts = 1
  MaxExpiries = 1
  MaxCrashes = 1
SPECIFICATION FairSpec
INVARIANTS
  BroadcastIsForMember
PROPERTIES
  ChannelSpreads
