------------------------ MODULE Reachability_proofs -------------------------
(***************************************************************************)
(* Theorems about Reachability, for any observers, addresses and places.   *)
(*                                                                         *)
(* TypeOK with PublicIsListed is inductive: AutoNAT's second write needs   *)
(* that its first one made the address public, and an address that leaves  *)
(* the list must have been there once only, or it would stay.              *)
(***************************************************************************)
EXTENDS Reachability, ListFacts

-----------------------------------------------------------------------------
\* Lists

\* push_unique adds the address, and never twice.
LEMMA PushUniqueFacts ==
  ASSUME NEW s \in Seq(Address), IsInjective(s), NEW a \in Address
  PROVE  /\ PushUnique(s, a) \in Seq(Address)
         /\ IsInjective(PushUnique(s, a))
         /\ ToSet(PushUnique(s, a)) = ToSet(s) \cup {a}
         /\ PushUnique(s, a) # <<>>
<1>1. CASE Contains(s, a)
  BY <1>1 DEF PushUnique, Contains, ToSet
<1>2. CASE ~Contains(s, a)
  BY <1>2 DEF PushUnique, Contains, ToSet, IsInjective
<1>3. QED
  BY <1>1, <1>2

\* Removing an address takes it off the list and leaves the others.
LEMMA RetainedFacts ==
  ASSUME NEW s \in Seq(Address), IsInjective(s), NEW a \in Address
  PROVE  /\ Retained(s, a) \in Seq(Address)
         /\ IsInjective(Retained(s, a))
         /\ ToSet(Retained(s, a)) = ToSet(s) \ {a}
BY RemoveFirstFacts DEF Retained

\* pick_best_addr gives the place of one of the addresses.
LEMMA PlaceOfFacts ==
  ASSUME ReachabilityAssumption, NEW addrs \in Seq(Address)
  PROVE  PlaceOf(addrs) \in Place
<1>1. CASE addrs = <<>>
  BY <1>1 DEF PlaceOf, ReachabilityAssumption
<1>2. CASE addrs # <<>>
  <2> DEFINE I == {i \in 1..Len(addrs) : Endpoint[addrs[i]] \notin Loopback}
             k == IF I # {} THEN Min(I) ELSE 0
  <2>1. k \in 0..Len(addrs)
    <3>1. I \subseteq Nat
      OBVIOUS
    <3>2. I # {} => Min(I) \in I
      <4> HIDE DEF I
      <4>1. QED
        BY <3>1, MinOfNat
    <3>3. QED
      BY <3>2
  <2>2. SelectInSeq(addrs, LAMBDA a : Endpoint[a] \notin Loopback) = k
    BY DEF SelectInSeq
  <2>3. PickBestAddr(addrs) = Endpoint[addrs[IF k = 0 THEN 1 ELSE k]]
    BY <2>2 DEF PickBestAddr
  <2>4. addrs[IF k = 0 THEN 1 ELSE k] \in Address
    BY <1>2, <2>1
  <2>5. QED
    BY <1>2, <2>3, <2>4 DEF PlaceOf, ReachabilityAssumption
<1>3. QED
  BY <1>1, <1>2

-----------------------------------------------------------------------------
\* Types and the public address

IInv == TypeOK /\ PublicIsListed

LEMMA InitIInv == Init => IInv
BY DEF Init, IInv, TypeOK, PublicIsListed, ToSet, IsInjective

\* The first of a list is in the list.
LEMMA FirstFacts ==
  ASSUME NEW s \in Seq(Address)
  PROVE  /\ FirstOf(s) \in Address \cup {None}
         /\ FirstOf(s) # None => FirstOf(s) \in ToSet(s)
         /\ s # <<>> => FirstOf(s) # None
BY NoneAssumption DEF FirstOf, ToSet

\* What an address that leaves the external list does to the public one.
LEMMA RemovalKeepsPublic ==
  ASSUME TypeOK, PublicIsListed, loop = None, NEW a \in Address,
         external' = Retained(external, a),
         public' = PublicWithout(a, external'),
         loop' = None
  PROVE  /\ external' \in Seq(Address) /\ IsInjective(external')
         /\ public' \in Address \cup {None}
         /\ PublicIsListed'
<1>1. external \in Seq(Address) /\ IsInjective(external) /\ public \in Address \cup {None}
  BY DEF TypeOK
<1>2. /\ external' \in Seq(Address) /\ IsInjective(external')
      /\ ToSet(external') = ToSet(external) \ {a}
  BY <1>1, RetainedFacts
<1>3. CASE public = a
  <2>1. public' = FirstOf(external')
    BY <1>3 DEF PublicWithout
  <2>2. QED
    BY <1>2, <2>1, FirstFacts DEF PublicIsListed
<1>4. CASE public # a
  <2>1. public' = public
    BY <1>4 DEF PublicWithout
  <2>2. external' # <<>> => external # <<>>
    <3>1. external' # <<>> => ToSet(external') # {}
      BY <1>2 DEF ToSet
    <3>2. external = <<>> => ToSet(external) = {}
      BY DEF ToSet
    <3>3. QED
      BY <1>2, <3>1, <3>2
  <2>3. public' # None => public' \in ToSet(external')
    BY <1>2, <1>4, <2>1 DEF PublicIsListed
  <2>4. QED
    BY <1>1, <1>2, <2>1, <2>2, <2>3 DEF PublicIsListed
<1>5. QED
  BY <1>3, <1>4

\* What an address that joins the external list and is made public does.
LEMMA AdditionKeepsPublic ==
  ASSUME TypeOK, NEW a \in Address,
         external' = PushUnique(external, a), public' = a
  PROVE  /\ external' \in Seq(Address) /\ IsInjective(external')
         /\ public' \in Address \cup {None}
         /\ PublicIsListed'
<1>1. external \in Seq(Address) /\ IsInjective(external)
  BY DEF TypeOK
<1>2. /\ external' \in Seq(Address) /\ IsInjective(external')
      /\ ToSet(external') = ToSet(external) \cup {a}
  BY <1>1, PushUniqueFacts
<1>3. QED
  BY <1>2, NoneAssumption DEF PublicIsListed

\* Profiles carry addresses, and rows places.
LEMMA SendType ==
  ASSUME ReachabilityAssumption, TypeOK, NEW Os \in SUBSET Observer, Send(Os)
  PROVE  profiles' \subseteq Profile /\ advertised' \subseteq Place
<1>1. Advertised \in Seq(Address)
  BY DEF TypeOK, Advertised, ReachabilityAssumption
<1>2. PlaceOf(Advertised) \in Place
  BY <1>1, PlaceOfFacts
<1>3. \A o \in Os : [to |-> o, addrs |-> Advertised] \in Profile
  BY <1>1 DEF Profile
<1>4. QED
  BY <1>2, <1>3 DEF Send, TypeOK

LEMMA NextIInv == ReachabilityAssumption /\ IInv /\ [Next]_vars => IInv'
<1> SUFFICES ASSUME ReachabilityAssumption, IInv, [Next]_vars
             PROVE  IInv'
  OBVIOUS
<1> USE DEF IInv
<1>1. ASSUME NEW a \in Address, NatPublic(a)
      PROVE  IInv'
  BY <1>1, NoneAssumption DEF NatPublic, Event, SetNatStatus, directory, TypeOK, PublicIsListed
<1>2. CASE RecordReported
  <2>1. loop \in Address
    BY <1>2 DEF RecordReported, TypeOK
  <2>2. /\ external' \in Seq(Address) /\ IsInjective(external')
        /\ public' \in Address \cup {None} /\ PublicIsListed'
    BY <1>2, <2>1, AdditionKeepsPublic DEF RecordReported
  <2>3. QED
    BY <1>2, <2>2 DEF RecordReported, directory, count, TypeOK
<1>3. ASSUME NEW status \in {"private", "unknown"}, NatNotPublic(status)
      PROVE  IInv'
  BY <1>3 DEF NatNotPublic, Event, SetNatStatus, directory, TypeOK, PublicIsListed
<1>4. ASSUME NEW a \in Address, RecordUpnpAddr(a)
      PROVE  IInv'
  <2>1. /\ external' \in Seq(Address) /\ IsInjective(external')
        /\ public' \in Address \cup {None} /\ PublicIsListed'
    BY <1>4, AdditionKeepsPublic DEF RecordUpnpAddr
  <2>2. mapped' \in Seq(Address) /\ IsInjective(mapped')
    BY <1>4, PushUniqueFacts DEF RecordUpnpAddr, TypeOK
  <2>3. QED
    BY <1>4, <2>1, <2>2 DEF RecordUpnpAddr, Event, directory, TypeOK
<1>5. ASSUME NEW a \in Address, RemoveUpnpAddr(a)
      PROVE  IInv'
  <2>1. /\ external' \in Seq(Address) /\ IsInjective(external')
        /\ public' \in Address \cup {None} /\ PublicIsListed'
    BY <1>5, RemovalKeepsPublic DEF RemoveUpnpAddr, Event
  <2>2. mapped' \in Seq(Address) /\ IsInjective(mapped')
    BY <1>5, RetainedFacts DEF RemoveUpnpAddr, TypeOK
  <2>3. QED
    BY <1>5, <2>1, <2>2 DEF RemoveUpnpAddr, Event, directory, TypeOK
<1>6. ASSUME NEW a \in Address, RecordListenAddr(a)
      PROVE  IInv'
  <2>1. listens' \in Seq(Address) /\ IsInjective(listens')
    BY <1>6, PushUniqueFacts DEF RecordListenAddr, TypeOK
  <2>2. QED
    BY <1>6, <2>1 DEF RecordListenAddr, Event, directory, TypeOK, PublicIsListed
<1>7. ASSUME NEW a \in Address, RecordExternalAddr(a)
      PROVE  IInv'
  <2>1. /\ external' \in Seq(Address) /\ IsInjective(external')
        /\ public' \in Address \cup {None} /\ PublicIsListed'
    BY <1>7, AdditionKeepsPublic DEF RecordExternalAddr
  <2>2. QED
    BY <1>7, <2>1 DEF RecordExternalAddr, Event, directory, TypeOK
<1>8. ASSUME NEW a \in Address, RemoveExternalAddr(a)
      PROVE  IInv'
  <2>1. /\ external' \in Seq(Address) /\ IsInjective(external')
        /\ public' \in Address \cup {None} /\ PublicIsListed'
    BY <1>8, RemovalKeepsPublic DEF RemoveExternalAddr, Event
  <2>2. QED
    BY <1>8, <2>1 DEF RemoveExternalAddr, Event, directory, TypeOK
<1>9. CASE Restart
  BY <1>9 DEF Restart, directory, TypeOK, PublicIsListed, ToSet, IsInjective
<1>10. ASSUME NEW Os \in SUBSET Observer, Send(Os)
       PROVE  IInv'
  <2>1. profiles' \subseteq Profile /\ advertised' \subseteq Place
    BY <1>10, SendType
  <2>2. QED
    BY <1>10, <2>1 DEF Send, runtime, count, TypeOK, PublicIsListed
<1>11. ASSUME NEW p \in profiles, ReceiveProfile(p)
       PROVE  IInv'
  <2>1. p.to \in Observer /\ p.addrs \in Seq(Address)
    BY DEF TypeOK, Profile
  <2>2. PlaceOf(p.addrs) \in Place
    BY <2>1, PlaceOfFacts
  <2>3. row' \in [Observer -> Row \cup {None}]
    BY <1>11, <2>1, <2>2 DEF ReceiveProfile, UpsertedRow, TypeOK, Row
  <2>4. QED
    BY <1>11, <2>3 DEF ReceiveProfile, runtime, count, TypeOK, PublicIsListed
<1>12. ASSUME NEW p \in profiles, LoseProfile(p)
       PROVE  IInv'
  BY <1>12 DEF LoseProfile, runtime, count, TypeOK, PublicIsListed
<1>13. ASSUME NEW o \in Observer, NEW place \in Manual, NEW labelled \in BOOLEAN,
              AddPeer(o, place, labelled)
       PROVE  IInv'
  <2>1. row' \in [Observer -> Row \cup {None}]
    BY <1>13 DEF AddPeer, UpsertedRow, TypeOK, Row, ReachabilityAssumption
  <2>2. QED
    BY <1>13, <2>1 DEF AddPeer, runtime, TypeOK, PublicIsListed
<1>14. ASSUME NEW o \in Observer, Age(o)
       PROVE  IInv'
  <2>1. row' \in [Observer -> Row \cup {None}]
    BY <1>14 DEF Age, TypeOK, Row
  <2>2. QED
    BY <1>14, <2>1 DEF Age, runtime, count, TypeOK, PublicIsListed
<1>15. CASE UNCHANGED vars
  BY <1>15 DEF vars, runtime, directory, count, TypeOK, PublicIsListed
<1>16. QED
  BY <1>1, <1>2, <1>3, <1>4, <1>5, <1>6, <1>7, <1>8, <1>9, <1>10, <1>11, <1>12, <1>13,
     <1>14, <1>15
  DEF Next, AutoNat, Upnp, Addresses, Exchange, Announce, ServeProfile, Directory

\* Every variable keeps its type, and no list gets an address twice, whatever
\* libp2p reports in whatever order.
THEOREM TypeCorrect == Spec => []TypeOK
<1>1. Spec => []IInv
  BY InitIInv, NextIInv, ReachabilityAssumption, PTL DEF Spec
<1>2. IInv => TypeOK
  BY DEF IInv
<1>3. QED
  BY <1>1, <1>2, PTL

\* The public address told is one of the external ones, and there is one as
\* soon as there are any.
THEOREM PublicIsAlwaysListed == Spec => []PublicIsListed
<1>1. Spec => []IInv
  BY InitIInv, NextIInv, ReachabilityAssumption, PTL DEF Spec
<1>2. IInv => PublicIsListed
  BY DEF IInv
<1>3. QED
  BY <1>1, <1>2, PTL

-----------------------------------------------------------------------------
\* Rows: whatever is on its way was advertised when it was sent.

ProfilesAreAdvertised == \A p \in profiles : PlaceOf(p.addrs) \in advertised

LEMMA NextRows ==
  ASSUME ReachabilityAssumption, IInv, ProfilesAreAdvertised, RowHasOneSource, [Next]_vars
  PROVE  ProfilesAreAdvertised' /\ RowHasOneSource'
<1> USE DEF IInv
<1>1. CASE UNCHANGED <<profiles, row, advertised>>
  BY <1>1 DEF ProfilesAreAdvertised, RowHasOneSource
<1>2. ASSUME NEW Os \in SUBSET Observer, Send(Os)
      PROVE  ProfilesAreAdvertised' /\ RowHasOneSource'
  <2>1. advertised \subseteq advertised' /\ PlaceOf(Advertised) \in advertised'
    BY <1>2 DEF Send
  <2>2. \A p \in profiles' : p \in profiles \/ p.addrs = Advertised
    BY <1>2 DEF Send
  <2>3. ProfilesAreAdvertised'
    BY <2>1, <2>2 DEF ProfilesAreAdvertised
  <2>4. QED
    BY <1>2, <2>1, <2>3 DEF Send, RowHasOneSource
<1>3. ASSUME NEW p \in profiles, ReceiveProfile(p)
      PROVE  ProfilesAreAdvertised' /\ RowHasOneSource'
  <2>1. PlaceOf(p.addrs) \in advertised
    BY DEF ProfilesAreAdvertised
  <2>2. \A o \in Observer :
          row'[o] = row[o] \/ row'[o] = [place |-> PlaceOf(p.addrs), discovered |-> TRUE,
                                         labelled |-> FALSE, seen |-> "active"]
    BY <1>3 DEF ReceiveProfile, UpsertedRow, TypeOK
  <2>3. RowHasOneSource'
    <3> SUFFICES ASSUME NEW o \in Observer, row'[o] # None
                 PROVE  IF row'[o].discovered
                        THEN row'[o].place \in advertised' /\ ~row'[o].labelled /\ row'[o].seen # "never"
                        ELSE row'[o].place \in Manual /\ row'[o].seen = "never"
      BY DEF RowHasOneSource
    <3>1. CASE row'[o] = row[o]
      BY <1>3, <3>1 DEF ReceiveProfile, RowHasOneSource
    <3>2. CASE row'[o] = [place |-> PlaceOf(p.addrs), discovered |-> TRUE,
                          labelled |-> FALSE, seen |-> "active"]
      BY <1>3, <2>1, <3>2 DEF ReceiveProfile
    <3>3. QED
      BY <2>2, <3>1, <3>2
  <2>4. ProfilesAreAdvertised'
    BY <1>3 DEF ReceiveProfile, ProfilesAreAdvertised
  <2>5. QED
    BY <2>3, <2>4
<1>4. ASSUME NEW p \in profiles, LoseProfile(p)
      PROVE  ProfilesAreAdvertised' /\ RowHasOneSource'
  BY <1>4 DEF LoseProfile, ProfilesAreAdvertised, RowHasOneSource
<1>5. ASSUME NEW o \in Observer, NEW place \in Manual, NEW labelled \in BOOLEAN,
             AddPeer(o, place, labelled)
      PROVE  ProfilesAreAdvertised' /\ RowHasOneSource'
  <2>1. \A q \in Observer :
          row'[q] = row[q] \/ row'[q] = [place |-> place, discovered |-> FALSE,
                                         labelled |-> labelled, seen |-> "never"]
    BY <1>5 DEF AddPeer, UpsertedRow, TypeOK
  <2>2. RowHasOneSource'
    <3> SUFFICES ASSUME NEW q \in Observer, row'[q] # None
                 PROVE  IF row'[q].discovered
                        THEN row'[q].place \in advertised' /\ ~row'[q].labelled /\ row'[q].seen # "never"
                        ELSE row'[q].place \in Manual /\ row'[q].seen = "never"
      BY DEF RowHasOneSource
    <3>1. CASE row'[q] = row[q]
      BY <1>5, <3>1 DEF AddPeer, RowHasOneSource
    <3>2. CASE row'[q] = [place |-> place, discovered |-> FALSE,
                          labelled |-> labelled, seen |-> "never"]
      BY <3>2
    <3>3. QED
      BY <2>1, <3>1, <3>2
  <2>3. QED
    BY <1>5, <2>2 DEF AddPeer, ProfilesAreAdvertised
<1>6. ASSUME NEW o \in Observer, Age(o)
      PROVE  ProfilesAreAdvertised' /\ RowHasOneSource'
  <2>1. /\ row[o] \in Row /\ row[o].seen # "never"
        /\ row'[o] \in Row /\ row'[o].seen # "never"
        /\ row'[o].place = row[o].place /\ row'[o].discovered = row[o].discovered
        /\ row'[o].labelled = row[o].labelled
        /\ \A q \in Observer : q # o => row'[q] = row[q]
    BY <1>6 DEF Age, TypeOK, Row
  <2>2. RowHasOneSource'
    BY <1>6, <2>1 DEF Age, RowHasOneSource
  <2>3. QED
    BY <1>6, <2>2 DEF Age, ProfilesAreAdvertised
<1>7. QED
  BY <1>1, <1>2, <1>3, <1>4, <1>5, <1>6
  DEF Next, AutoNat, Upnp, Addresses, Exchange, Announce, ServeProfile, Directory,
      NatPublic, RecordReported, NatNotPublic, RecordUpnpAddr, RemoveUpnpAddr,
      RecordListenAddr, RecordExternalAddr, RemoveExternalAddr, Restart, Event, vars, directory

\* A row is what a profile told or what an operator wrote, never a mixture.
THEOREM RowsHaveOneSource == Spec => []RowHasOneSource
<1> DEFINE RInv == IInv /\ ProfilesAreAdvertised /\ RowHasOneSource
<1>1. Init => RInv
  BY InitIInv DEF Init, ProfilesAreAdvertised, RowHasOneSource
<1>2. RInv /\ [Next]_vars => RInv'
  BY NextIInv, NextRows, ReachabilityAssumption
<1>3. QED
  BY <1>1, <1>2, PTL DEF Spec
=============================================================================
