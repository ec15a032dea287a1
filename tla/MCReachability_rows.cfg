\* A daemon and a peer: three events of three addresses, an add_peer, a restart, two profiles in flight; fair.
CONSTANTS
  wan = wan
  lan = lan
  local = local
  wan_place = wan_place
  lan_place = lan_place
  local_place = local_place
  typed = typed
  None = None
  Observer = {o1}
  Address = {wan, lan, local}
  Place = {wan_place, lan_place, local_place, typed}
  Endpoint <- PlacesOf
  Loopback = {local_place}
  Home = local_place
  Default <- LocalDefault
  Manual = {typed}
  MaxInFlight = 2
  MaxEvents = 3
  MaxManual = 1
  MaxRestarts = 1
SPECIFICATION FairSpec
INVARIANTS
  TypeOK
  PublicIsListed
  RowHasOneSource
PROPERTIES
  RowsConverge
