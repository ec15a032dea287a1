---------------------------- MODULE Reachability ----------------------------
(***************************************************************************)
(* How a daemon learns its own addresses, and how the rows others keep of  *)
(* it follow.                                                              *)
(*                                                                         *)
(* The swarm loop gathers listen, external and UPnP addresses from libp2p  *)
(* events in one structure (ReachabilityRuntime) that HTTP handlers read   *)
(* under a lock, and puts the external ones into every profile.  A peer    *)
(* that stores a profile keeps one place of them in the row it has of the  *)
(* daemon; its operator may write the same row with add_peer.  Profiles    *)
(* are lost and overtake each other; the structure does not survive the    *)
(* daemon, the rows do.                                                    *)
(***************************************************************************)
EXTENDS FiniteSets, Naturals, SequencesExt

CONSTANTS
  Observer,     \* the peers of the daemon
  Address,      \* multiaddresses of the daemon
  Place,        \* <<host, port>>; several addresses may share one (TCP, QUIC)
  Endpoint,     \* the place of an address
  Loopback,     \* places on a loopback host
  Home,         \* <<advertise_host, p2p_port>>
  Default,      \* advertised_multiaddrs, as far as an observer can parse them
  Manual,       \* the places an operator may type
  None,         \* no address, no row
  MaxInFlight,  \* bound: profiles on their way to an observer
  MaxEvents,    \* bound: reachability events of libp2p
  MaxManual,    \* bound: calls of add_peer
  MaxRestarts   \* bound: times the daemon dies and is started again

ASSUME ReachabilityAssumption ==
  /\ Endpoint \in [Address -> Place]
  /\ Loopback \subseteq Place /\ Home \in Place /\ Manual \subseteq Place
  /\ Default \in Seq(Address)
  /\ {MaxInFlight, MaxEvents, MaxManual, MaxRestarts} \subseteq Nat

\* MeshProfileRecord, as far as addresses go, on its way to an observer.
Profile == [to: Observer, addrs: Seq(Address)]

\* The row of the daemon in an observer's peers table: where it is, whether a
\* profile or the operator wrote it, whether it has a label and notes, and how
\* long ago last_seen_at is ("never" when an operator wrote the row).
Row == [place: Place, discovered: BOOLEAN, labelled: BOOLEAN,
        seen: {"never", "active", "quiet", "gone"}]

ASSUME NoneAssumption == None \notin Address /\ None \notin Row

VARIABLES
  \* ReachabilityRuntime, in the daemon's memory
  nat,       \* nat_status
  public,    \* public_address
  listens,   \* listen_addrs
  external,  \* external_addrs
  mapped,    \* upnp_mapped_addrs
  loop,      \* the address AutoNAT reported, between the two writes it leads to
  \* the network
  profiles,
  \* SQLite of the observers
  row,
  \* history
  advertised,  \* places profiles were sent with
  \* counters for the bounds
  events, manuals, restarts

runtime == <<nat, public, listens, external, mapped, loop>>
directory == <<profiles, row, advertised>>
count == <<events, manuals, restarts>>
vars == <<runtime, directory, count>>

-----------------------------------------------------------------------------
\* Helpers

\* Fault: the entry is appended even if it is there.
PushAny(s, a) == Append(s, a)

\* push_unique
PushUnique(s, a) == IF Contains(s, a) THEN s ELSE Append(s, a)

\* retain(|entry| entry != a); an entry occurs at most once (ListsAreSets).
Retained(s, a) == RemoveFirst(s, a)

FirstOf(s) == IF s = <<>> THEN None ELSE Head(s)

\* Fault: the address stays the public one when it is removed.
PublicAsBefore(a, left) == public

\* What public_address becomes when a leaves the external addresses.
PublicWithout(a, left) == IF public = a THEN FirstOf(left) ELSE public

\* Fault: the first address, whatever its host.
FirstAddr(addrs) == Endpoint[Head(addrs)]

\* pick_best_addr: the first place that is not on a loopback host, else the
\* first one.
PickBestAddr(addrs) ==
  LET i == SelectInSeq(addrs, LAMBDA a : Endpoint[a] \notin Loopback)
  IN  Endpoint[addrs[IF i = 0 THEN 1 ELSE i]]

\* local_profile_record, listen_addrs
Advertised == IF external = <<>> THEN Default ELSE external

\* discovered_peer_from_profile: peer.host and peer.port unless an address
\* gives better ones.
PlaceOf(addrs) == IF addrs = <<>> THEN Home ELSE PickBestAddr(addrs)

InFlight(o) == {p \in profiles : p.to = o}

-----------------------------------------------------------------------------
\* A daemon that starts knows no address and nobody knows it.

Init ==
  /\ nat = "unknown" /\ public = None /\ loop = None
  /\ listens = <<>> /\ external = <<>> /\ mapped = <<>>
  /\ profiles = {}
  /\ row = [o \in Observer |-> None]
  /\ advertised = {}
  /\ events = 0 /\ manuals = 0 /\ restarts = 0

-----------------------------------------------------------------------------
\* Events of libp2p, handled by the swarm loop one at a time

Event ==
  /\ loop = None
  /\ events < MaxEvents
  /\ events' = events + 1
  /\ UNCHANGED <<directory, manuals, restarts>>

\* Fault: a status without an address clears the address.
SetNatStatusAlways(status, a) == nat' = status /\ public' = a

\* set_nat_status
SetNatStatus(status, a) ==
  /\ nat' = status
  /\ public' = IF a = None THEN public ELSE a

\* NatStatus::Public: the status is set under one lock, the address recorded
\* under the next (RecordReported).
NatPublic(a) ==
  /\ Event
  /\ SetNatStatus("public", a)
  /\ loop' = a
  /\ UNCHANGED <<listens, external, mapped>>

RecordReported ==
  /\ loop # None
  /\ external' = PushUnique(external, loop)
  /\ public' = loop
  /\ loop' = None
  /\ UNCHANGED <<nat, listens, mapped, directory, count>>

\* NatStatus::Private and Unknown; libp2p reports a status that changed.
NatNotPublic(status) ==
  /\ Event
  /\ nat # status
  /\ SetNatStatus(status, None)
  /\ UNCHANGED <<listens, external, mapped, loop>>

\* NewListenAddr
RecordListenAddr(a) ==
  /\ Event
  /\ listens' = PushUnique(listens, a)
  /\ UNCHANGED <<nat, public, external, mapped, loop>>

\* ExternalAddrConfirmed
RecordExternalAddr(a) ==
  /\ Event
  /\ external' = PushUnique(external, a)
  /\ public' = a
  /\ UNCHANGED <<nat, listens, mapped, loop>>

\* ExternalAddrExpired; what UPnP mapped stays listed as mapped.
RemoveExternalAddr(a) ==
  /\ Event
  /\ external' = Retained(external, a)
  /\ public' = PublicWithout(a, external')
  /\ UNCHANGED <<nat, listens, mapped, loop>>

\* upnp::Event::NewExternalAddr
RecordUpnpAddr(a) ==
  /\ Event
  /\ mapped' = PushUnique(mapped, a)
  /\ external' = PushUnique(external, a)
  /\ public' = a
  /\ UNCHANGED <<nat, listens, loop>>

\* upnp::Event::ExpiredExternalAddr
RemoveUpnpAddr(a) ==
  /\ Event
  /\ mapped' = Retained(mapped, a)
  /\ external' = Retained(external, a)
  /\ public' = PublicWithout(a, external')
  /\ UNCHANGED <<nat, listens, loop>>

\* The daemon dies and comes back; only the rows of its peers remain.
Restart ==
  /\ restarts < MaxRestarts
  /\ restarts' = restarts + 1
  /\ nat' = "unknown" /\ public' = None /\ loop' = None
  /\ listens' = <<>> /\ external' = <<>> /\ mapped' = <<>>
  /\ UNCHANGED <<directory, events, manuals>>

-----------------------------------------------------------------------------
\* Profiles

\* A profile sent to the observers in Os that the network has room for.
Send(Os) ==
  LET reached == {o \in Os : Cardinality(InFlight(o)) < MaxInFlight}
  IN  /\ loop = None
      /\ reached # {}
      /\ profiles' = profiles \cup {[to |-> o, addrs |-> Advertised] : o \in reached}
      /\ advertised' = advertised \cup {PlaceOf(Advertised)}
      /\ UNCHANGED <<runtime, row, count>>

\* announce_profile, over gossip
Announce == Send(Observer)

\* MeshDirectRequest::Profile
ServeProfile(o) == Send({o})

\* Fault: the new row keeps the label and the discovered flag of the old one.
MergedRow(o, new) ==
  IF row[o] = None THEN new
  ELSE [new EXCEPT !.labelled = row[o].labelled, !.discovered = row[o].discovered]

\* upsert_peer: the statement replaces every column but created_at.
UpsertedRow(o, new) == new

\* upsert_profile: the row of the daemon is written anew.
ReceiveProfile(p) ==
  /\ row' = [row EXCEPT ![p.to] =
       UpsertedRow(p.to, [place |-> PlaceOf(p.addrs), discovered |-> TRUE,
                          labelled |-> FALSE, seen |-> "active"])]
  /\ profiles' = profiles \ {p}
  /\ UNCHANGED <<runtime, advertised, count>>

\* The profile, or the observer that was about to store it, is lost.
LoseProfile(p) ==
  /\ profiles' = profiles \ {p}
  /\ UNCHANGED <<runtime, row, advertised, count>>

-----------------------------------------------------------------------------
\* The peer directory of an observer

\* add_peer: what the operator typed, and nothing a profile told before.
AddPeer(o, place, labelled) ==
  /\ manuals < MaxManual
  /\ manuals' = manuals + 1
  /\ row' = [row EXCEPT ![o] =
       UpsertedRow(o, [place |-> place, discovered |-> FALSE,
                       labelled |-> labelled, seen |-> "never"])]
  /\ UNCHANGED <<runtime, profiles, advertised, events, restarts>>

\* present_peer: time passes the active, then the visible window; a row without
\* last_seen_at does not age.
Age(o) ==
  /\ row[o] # None
  /\ row[o].seen \in {"active", "quiet"}
  /\ row' = [row EXCEPT ![o].seen = IF @ = "active" THEN "quiet" ELSE "gone"]
  /\ UNCHANGED <<runtime, profiles, advertised, count>>

-----------------------------------------------------------------------------
AutoNat ==
  \/ \E a \in Address : NatPublic(a)
  \/ RecordReported
  \/ \E status \in {"private", "unknown"} : NatNotPublic(status)

Upnp == \E a \in Address : RecordUpnpAddr(a) \/ RemoveUpnpAddr(a)

Addresses ==
  \E a \in Address : RecordListenAddr(a) \/ RecordExternalAddr(a) \/ RemoveExternalAddr(a)

Exchange ==
  \/ Announce
  \/ \E o \in Observer : ServeProfile(o)
  \/ \E p \in profiles : ReceiveProfile(p) \/ LoseProfile(p)

Directory ==
  \E o \in Observer :
    \/ \E place \in Manual, labelled \in BOOLEAN : AddPeer(o, place, labelled)
    \/ Age(o)

Next == AutoNat \/ Upnp \/ Addresses \/ Restart \/ Exchange \/ Directory

Spec == Init /\ [][Next]_vars

\* The loop announces a profile periodically and finishes an event it handles;
\* profiles get lost, but not all of them.
Fairness ==
  /\ WF_vars(RecordReported)
  /\ WF_vars(Announce)
  /\ \A o \in Observer : SF_vars(\E p \in InFlight(o) : ReceiveProfile(p))

FairSpec == Spec /\ Fairness

-----------------------------------------------------------------------------
\* Properties

\* The variables have their types, and no list has an address twice.
TypeOK ==
  /\ nat \in {"unknown", "public", "private"}
  /\ public \in Address \cup {None} /\ loop \in Address \cup {None}
  /\ \A s \in {listens, external, mapped} : s \in Seq(Address) /\ IsInjective(s)
  /\ profiles \subseteq Profile
  /\ row \in [Observer -> Row \cup {None}]
  /\ advertised \subseteq Place
  /\ {events, manuals, restarts} \subseteq Nat

\* Whoever reads the status is told a public address that is among the
\* external ones, and is told one as soon as there are any: through mappings
\* and addresses that come and expire in any order, and whatever AutoNAT says.
\* The one exception is a reader between AutoNAT's two writes (loop).
PublicIsListed ==
  /\ public # None => public \in ToSet(external) \cup {loop}
  /\ external # <<>> => public # None

\* A row is either what a profile said, and then none of it is what an
\* operator wrote, or what an operator wrote, and then none of it is what a
\* profile said: no row sends messages to one's place under the other's name.
RowHasOneSource ==
  \A o \in Observer : row[o] # None =>
    IF row[o].discovered
    THEN row[o].place \in advertised /\ ~row[o].labelled /\ row[o].seen # "never"
    ELSE row[o].place \in Manual /\ row[o].seen = "never"

\* Once the addresses of the daemon settle, every peer has in its row a place
\* the daemon advertises, on a loopback host only if it advertises no other,
\* and lists it as active again and again; whatever old profiles still arrive
\* and whatever the operator typed.
RowsConverge ==
  LET Told == {Endpoint[a] : a \in ToSet(Advertised)}
  IN  \A o \in Observer :
        /\ <>[](/\ row[o] # None
                /\ row[o].place \in Told
                /\ row[o].place \in Loopback => Told \subseteq Loopback)
        /\ []<>(row[o] # None /\ row[o].seen = "active")
=============================================================================
