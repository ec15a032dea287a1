\* A channel that another call fills while a fetch is answered.
CONSTANTS
  a = a
  b = b
  c = c
  small = small
  big = big
  None = None
  Exchange = Exchange
  Node = {a, b}
  Artifact = {small, big}
  Label = {Exchange}
  Peer <- Pair
  Grant <- Mutual
  Offers <- TwoFiles
  Held <- SmallBefore
  Asks <- OneAsk
  Pushes <- NoPush
  TooBig = {}
  Capacity = 1
  MaxFetches = 1
  MaxFaults = 0
SPECIFICATION FairSpec
CHECK_DEADLOCK FALSE
PROPERTIES
  FetchIsServed
