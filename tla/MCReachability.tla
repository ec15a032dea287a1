--------------------------- MODULE MCReachability ---------------------------
(***************************************************************************)
(* An instance of Reachability: a daemon with the default configuration    *)
(* (advertise_host 127.0.0.1), which may find a public address and one of  *)
(* the network it is on.                                                   *)
(***************************************************************************)
EXTENDS Reachability

CONSTANTS wan, lan, local, wan_place, lan_place, local_place, typed

PlacesOf == [a \in {wan, lan, local} |->
  CASE a = wan -> wan_place [] a = lan -> lan_place [] a = local -> local_place]

LocalDefault == <<local>>
=============================================================================
