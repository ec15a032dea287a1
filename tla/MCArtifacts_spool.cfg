\* Three daemons, a small file that may travel from a to b to c and a large one that may not; a crash or a failed write or read anywhere; fair.
CONSTANTS
  a = a
  b = b
  c = c
  small = small
  big = big
  None = None
  Exchange = Exchange
  Node = {a, b, c}
  Artifact = {small, big}
  Label = {Exchange}
  Peer <- Known
  Grant <- Mutual
  Offers <- TwoFiles
  Held <- BigBefore
  Asks <- ChainAsks
  Pushes <- OnePush
  TooBig = {big}
  Capacity = 4
  MaxFetches = 2
  MaxFaults = 1
SPECIFICATION FairSpec
CHECK_DEADLOCK FALSE
INVARIANTS
  TypeOK
  DamageIsContained
  
  OfferedIsHeld
PROPERTIES
  FetchIsServed
