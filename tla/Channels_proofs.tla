-------------------------- MODULE Channels_proofs ---------------------------
(***************************************************************************)
(* What Channels promises for any number of daemons, names, calls and      *)
(* faults.                                                                 *)
(*                                                                         *)
(* The argument: a daemon only ever publishes its own channels and         *)
(* memberships, and neither is ever given up, so a profile that was true   *)
(* when it was sent is true whenever it arrives, however late and in       *)
(* whatever order (ProfilesAreTrue).  A registry is written from profiles  *)
(* and from the daemon's own calls only.  For the same reason what a call  *)
(* has seen or done stays so until it answers (CallsAreSound).             *)
(***************************************************************************)
EXTENDS Channels, TLAPS

-----------------------------------------------------------------------------
\* The inductive invariant

\* What a profile says is so, and it is not about its reader.
Truthful(p) ==
  /\ p.from # p.to
  /\ p.owned \subseteq Owned(p.from)
  /\ p.subs \subseteq subs[p.from]

ProfilesAreTrue ==
  /\ \A p \in profiles : Truthful(p)
  /\ \A n \in Node : loop[n] # None => /\ Truthful(loop[n].profile)
                                      /\ loop[n].profile.to = n

IInv == TypeOK /\ ProfilesAreTrue /\ ClaimIsTrue /\ LinkIsTrue

\* A daemon gives up neither a channel nor a membership.
Kept ==
  /\ \A n \in Node, t \in Topic : channels[n][t] = n => channels'[n][t] = n
  /\ \A n \in Node : subs[n] \subseteq subs'[n]

-----------------------------------------------------------------------------
\* Types

\* The profiles a daemon publishes are profiles (local_profile_record).
LEMMA ProfileType ==
  ASSUME TypeOK, NEW n \in Node, NEW m \in Node
  PROVE  LocalProfile(n, m) \in Profile
  BY DEF LocalProfile, Profile, Owned, TypeOK

\* Publishing adds profiles of one daemon only, to others (announce_profile).
LEMMA Published ==
  ASSUME TypeOK, NEW n \in Node, Publish(n)
  PROVE  /\ profiles' \subseteq Profile
         /\ \A p \in profiles' \ profiles :
              \E m \in Node : p = LocalProfile(n, m) /\ n # m
<1>1. PICK S \in SUBSET Audience(n) : profiles' = profiles \cup {LocalProfile(n, m) : m \in S}
  BY DEF Publish
<1>2. \A m \in S : m \in Node /\ n # m
  BY ChannelsAssumption DEF Audience
<1>3. \A m \in S : LocalProfile(n, m) \in Profile
  BY <1>2, ProfileType
<1> QED
  BY <1>1, <1>2, <1>3 DEF TypeOK

\* The registry written from a profile is a registry (replace_owned_channels).
LEMMA ReplacedType ==
  ASSUME TypeOK, NEW n \in Node, NEW p \in Node, NEW owned \in SUBSET Topic
  PROVE  ReplacedOwned(n, p, owned) \in [Topic -> Node \cup {None}]
  BY DEF ReplacedOwned, TypeOK

\* A call in progress is a call.
LEMMA CallType ==
  ASSUME TypeOK, NEW c \in Caller, NEW stage, At(c, stage)
  PROVE  call[c] \in Call /\ call[c].node \in Node /\ call[c].topic \in Topic
  BY DEF TypeOK, At, Call

\* A handler in progress is a handler.
LEMMA HandlerType ==
  ASSUME TypeOK, NEW n \in Node, loop[n] # None
  PROVE  /\ loop[n] \in Handler
         /\ loop[n].profile \in Profile
         /\ loop[n].profile.from \in Node
         /\ loop[n].profile.subs \in SUBSET Topic
         /\ loop[n].profile.owned \in SUBSET Topic
<1>1. loop[n] \in Handler
  BY DEF TypeOK
<1> QED
  BY <1>1 DEF Handler, Profile

\* No step takes a variable out of its type.
LEMMA TypeStep ==
  ASSUME TypeOK, [Next]_vars
  PROVE  TypeOK'
<1> USE ChannelsAssumption
<1>1. ASSUME NEW c \in Caller, NEW n \in Node, NEW t \in Topic, CreateChannel(c, n, t)
      PROVE  TypeOK'
  <2>1. (IF Listed(n, t) THEN channels[n][t] ELSE None) \in Node \cup {None}
    BY DEF TypeOK
  <2>2. call' \in [Caller -> Call \cup {None}]
    BY <1>1, <2>1 DEF TypeOK, CreateChannel, Proceed, Call
  <2> QED
    BY <1>1, <2>2 DEF TypeOK, CreateChannel, store, network, history
<1>2. ASSUME NEW c \in Caller, GetChannel(c)
      PROVE  TypeOK'
  <2>1. call[c] \in Call
    BY <1>2, CallType DEF GetChannel
  <2>2. call' \in [Caller -> Call \cup {None}]
    BY <1>2, <2>1 DEF TypeOK, GetChannel, Proceed, Call
  <2> QED
    BY <1>2, <2>2 DEF TypeOK, GetChannel, store, network, history, count
<1>3. ASSUME NEW c \in Caller, StoreChannel(c)
      PROVE  TypeOK'
  <2>1. call[c] \in Call /\ call[c].node \in Node /\ call[c].topic \in Topic
    BY <1>3, CallType DEF StoreChannel
  <2>2. call' \in [Caller -> Call \cup {None}]
    BY <1>3, <2>1 DEF TypeOK, StoreChannel, Proceed, Call
  <2>3. channels' \in [Node -> [Topic -> Node \cup {None}]]
    BY <1>3, <2>1 DEF TypeOK, StoreChannel
  <2> QED
    BY <1>3, <2>2, <2>3 DEF TypeOK, StoreChannel, network, history, count
<1>4. ASSUME NEW c \in Caller, NEW n \in Node, NEW t \in Topic, SubscribeTopic(c, n, t)
      PROVE  TypeOK'
  <2>1. call' \in [Caller -> Call \cup {None}]
    BY <1>4 DEF TypeOK, SubscribeTopic, Proceed, Call
  <2> QED
    BY <1>4, <2>1 DEF TypeOK, SubscribeTopic, store, network, history
<1>5. ASSUME NEW c \in Caller, HandleSubscribe(c)
      PROVE  TypeOK'
  <2>1. call[c] \in Call /\ call[c].node \in Node /\ call[c].topic \in Topic
    BY <1>5, CallType DEF HandleSubscribe
  <2>2. call' \in [Caller -> Call \cup {None}]
    BY <1>5, <2>1 DEF TypeOK, HandleSubscribe, Proceed, Call
  <2>3. subs' \in [Node -> SUBSET Topic] /\ joined' \in [Node -> SUBSET Topic]
    BY <1>5, <2>1 DEF TypeOK, HandleSubscribe
  <2> QED
    BY <1>5, <2>2, <2>3 DEF TypeOK, HandleSubscribe, network, history, count
<1>6. ASSUME NEW c \in Caller, FinishSubscribe(c)
      PROVE  TypeOK'
  <2>1. call[c] \in Call /\ call[c].node \in Node
    BY <1>6, CallType DEF FinishSubscribe
  <2>2. call' \in [Caller -> Call \cup {None}]
    BY <1>6, <2>1 DEF TypeOK, FinishSubscribe, Proceed, Call
  <2>3. profiles' \subseteq Profile
    BY <1>6, <2>1, Published DEF FinishSubscribe
  <2> QED
    BY <1>6, <2>2, <2>3 DEF TypeOK, FinishSubscribe, store, history, count
<1>7. ASSUME NEW c \in Caller, Answer(c)
      PROVE  TypeOK'
  <2>1. call[c] \in Call /\ call[c].node \in Node /\ call[c].topic \in Topic
    BY <1>7, CallType DEF Answer
  <2>2. call' \in [Caller -> Call \cup {None}]
    BY <1>7 DEF TypeOK, Answer, Proceed
  <2>3. answered' \subseteq Node \X Topic \X BOOLEAN
    BY <1>7, <2>1 DEF TypeOK, Answer, Call
  <2> QED
    BY <1>7, <2>2, <2>3 DEF TypeOK, Answer, store, network, count
<1>8. ASSUME NEW n \in Node, AnnounceProfile(n)
      PROVE  TypeOK'
  <2>1. profiles' \subseteq Profile
    BY <1>8, Published DEF AnnounceProfile
  <2> QED
    BY <1>8, <2>1 DEF TypeOK, AnnounceProfile, store, process, history, count
<1>9. ASSUME NEW n \in Node, NEW m \in Node, ServeProfile(n, m)
      PROVE  TypeOK'
  <2>1. profiles' \subseteq Profile
    BY <1>9, ProfileType DEF TypeOK, ServeProfile
  <2> QED
    BY <1>9, <2>1 DEF TypeOK, ServeProfile, store, process, history, count
<1>10. ASSUME NEW p \in profiles, ReceiveProfile(p)
      PROVE  TypeOK'
  <2>1. p \in Profile /\ p.from \in Node /\ p.to \in Node
    BY DEF TypeOK, Profile
  <2>2. fresh' \in [Node -> SUBSET Node]
    BY <1>10, <2>1 DEF TypeOK, ReceiveProfile
  <2>3. [at |-> "topics", profile |-> p] \in Handler
    BY <2>1 DEF Handler
  <2>4. loop' \in [Node -> Handler \cup {None}]
    BY <1>10, <2>3 DEF TypeOK, ReceiveProfile
  <2> QED
    BY <1>10, <2>2, <2>4 DEF TypeOK, ReceiveProfile, history, count
<1>11. ASSUME NEW n \in Node, ReplaceTopics(n)
      PROVE  TypeOK'
  <2>1. /\ loop[n] \in Handler
        /\ loop[n].profile.from \in Node
        /\ loop[n].profile.subs \in SUBSET Topic
    BY <1>11, HandlerType DEF ReplaceTopics
  <2>2. loop' \in [Node -> Handler \cup {None}]
    BY <1>11, <2>1 DEF TypeOK, ReplaceTopics, Handler
  <2>3. {l \in links[n] : l[1] # loop[n].profile.from}
          \cup ({loop[n].profile.from} \X loop[n].profile.subs) \subseteq Node \X Topic
    BY <2>1 DEF TypeOK
  <2>4. links' \in [Node -> SUBSET (Node \X Topic)]
    BY <1>11, <2>3 DEF TypeOK, ReplaceTopics
  <2> QED
    BY <1>11, <2>2, <2>4 DEF TypeOK, ReplaceTopics, network, history, count
<1>12. ASSUME NEW n \in Node, ReplaceChannels(n)
      PROVE  TypeOK'
  <2>1. /\ loop[n].profile.from \in Node
        /\ loop[n].profile.owned \in SUBSET Topic
    BY <1>12, HandlerType DEF ReplaceChannels
  <2>2. loop' \in [Node -> Handler \cup {None}]
    BY <1>12 DEF TypeOK, ReplaceChannels
  <2>3. channels' \in [Node -> [Topic -> Node \cup {None}]]
    BY <1>12, <2>1, ReplacedType DEF TypeOK, ReplaceChannels
  <2> QED
    BY <1>12, <2>2, <2>3 DEF TypeOK, ReplaceChannels, network, history, count
<1>13. ASSUME NEW n \in Node, NEW t \in Topic, Broadcast(n, t)
      PROVE  TypeOK'
  <2>1. chatter' \subseteq Chatter
    <3>1. Members(n, t) \subseteq Node
      BY DEF Members
    <3> QED
      BY <1>13, <3>1 DEF TypeOK, Broadcast, Chatter
  <2> QED
    BY <1>13, <2>1 DEF TypeOK, Broadcast, store, process, history
<1>14. ASSUME NEW b \in chatter, HearBroadcast(b)
      PROVE  TypeOK'
  <2>1. b.to \in Node /\ b.topic \in Topic
    BY DEF TypeOK, Chatter
  <2>2. chatter' \subseteq Chatter /\ heard' \subseteq Node \X Topic
    BY <1>14, <2>1 DEF TypeOK, HearBroadcast
  <2> QED
    BY <1>14, <2>2 DEF TypeOK, HearBroadcast, store, process, count
<1>15. ASSUME NEW n \in Node, NEW p \in Node, PeerExpires(n, p)
      PROVE  TypeOK'
  <2>1. fresh' \in [Node -> SUBSET Node]
    BY <1>15 DEF TypeOK, PeerExpires
  <2> QED
    BY <1>15, <2>1 DEF TypeOK, PeerExpires, process, network, history
<1>16. ASSUME NEW n \in Node, Crash(n)
      PROVE  TypeOK'
  <2>1. call' \in [Caller -> Call \cup {None}]
    BY <1>16 DEF TypeOK, Crash
  <2>2. loop' \in [Node -> Handler \cup {None}]
    BY <1>16 DEF TypeOK, Crash
  <2>3. joined' \in [Node -> SUBSET Topic] /\ alive' \in [Node -> BOOLEAN]
    BY <1>16 DEF TypeOK, Crash
  <2> QED
    BY <1>16, <2>1, <2>2, <2>3 DEF TypeOK, Crash, store, history
<1>17. ASSUME NEW n \in Node, Restart(n)
      PROVE  TypeOK'
  <2>1. joined' \in [Node -> SUBSET Topic] /\ alive' \in [Node -> BOOLEAN]
    BY <1>17 DEF TypeOK, Restart
  <2> QED
    BY <1>17, <2>1 DEF TypeOK, Restart, store, network, history, count
<1>18. CASE UNCHANGED vars
  BY <1>18 DEF TypeOK, vars, store, process, network, history, count
<1> QED
  BY <1>1, <1>2, <1>3, <1>4, <1>5, <1>6, <1>7, <1>8, <1>9, <1>10, <1>11, <1>12,
     <1>13, <1>14, <1>15, <1>16, <1>17, <1>18
     DEF Next, StartCall, ContinueCall, HandleProfile

-----------------------------------------------------------------------------
\* Nothing is given up

\* A row written from the profile of p was true, or is as p says.
LEMMA ReplacedRow ==
  ASSUME NEW n, NEW p, NEW owned, NEW t \in Topic
  PROVE  /\ ReplacedOwned(n, p, owned)[t] \in {channels[n][t], p, None}
         /\ channels[n][t] \notin {None, p} => ReplacedOwned(n, p, owned)[t] = channels[n][t]
         /\ ReplacedOwned(n, p, owned)[t] = p /\ channels[n][t] \in {None, p} /\ p # None => t \in owned
  BY DEF ReplacedOwned

\* The steps that write none of the tables keep them, whatever else they do.
LEMMA Keeping ==
  ASSUME UNCHANGED <<channels, subs>>
  PROVE  Kept
  BY DEF Kept

\* No step of any daemon gives up a channel or a membership (upsert_channel and
\* upsert_subscription add; replace_owned_channels deletes rows of its sender only).
LEMMA KeptStep ==
  ASSUME IInv, [Next]_vars
  PROVE  Kept
<1> USE DEF IInv
<1>1. ASSUME NEW c \in Caller, StoreChannel(c)
      PROVE  Kept
  <2>1. call[c] \in Call /\ call[c].node \in Node /\ call[c].topic \in Topic
    BY <1>1, CallType DEF StoreChannel
  <2>2. \A n \in Node, t \in Topic : channels[n][t] = n => channels'[n][t] = n
    BY <1>1, <2>1, NoneAssumption, ChannelsAssumption DEF StoreChannel, TypeOK
  <2> QED
    BY <1>1, <2>2 DEF Kept, StoreChannel
<1>2. ASSUME NEW c \in Caller, HandleSubscribe(c)
      PROVE  Kept
  <2>1. call[c] \in Call /\ call[c].node \in Node /\ call[c].topic \in Topic
    BY <1>2, CallType DEF HandleSubscribe
  <2> QED
    BY <1>2, <2>1 DEF Kept, HandleSubscribe, TypeOK
<1>3. ASSUME NEW n \in Node, ReplaceChannels(n)
      PROVE  Kept
  <2> DEFINE p == loop[n].profile
  <2>1. p.from \in Node /\ p.from # n
    BY <1>3, HandlerType DEF ReplaceChannels, ProfilesAreTrue, Truthful
  <2>2. n # None
    BY ChannelsAssumption
  <2>3. \A t \in Topic : channels[n][t] = n => ReplacedOwned(n, p.from, p.owned)[t] = n
    BY <2>1, <2>2, ReplacedRow
  <2>4. \A m \in Node, t \in Topic : channels[m][t] = m => channels'[m][t] = m
    BY <1>3, <2>3 DEF ReplaceChannels, TypeOK
  <2> QED
    BY <1>3, <2>4 DEF Kept, ReplaceChannels
<1>4. ASSUME NEW c \in Caller,
             StartCall(c) \/ GetChannel(c) \/ FinishSubscribe(c) \/ Answer(c)
      PROVE  Kept
  BY <1>4, Keeping DEF StartCall, CreateChannel, SubscribeTopic, GetChannel, FinishSubscribe, Answer, store
<1>5. ASSUME NEW n \in Node,
             AnnounceProfile(n) \/ (\E m \in Node : ServeProfile(n, m)) \/ ReplaceTopics(n)
      PROVE  Kept
  BY <1>5, Keeping DEF AnnounceProfile, ServeProfile, ReplaceTopics, store
<1>6. ASSUME NEW n \in Node,
             (\E t \in Topic : Broadcast(n, t)) \/ (\E p \in Node : PeerExpires(n, p))
             \/ Crash(n) \/ Restart(n)
      PROVE  Kept
  BY <1>6, Keeping DEF Broadcast, PeerExpires, Crash, Restart, store
<1>7. ASSUME (\E p \in profiles : ReceiveProfile(p)) \/ (\E b \in chatter : HearBroadcast(b))
      PROVE  Kept
  BY <1>7, Keeping DEF ReceiveProfile, HearBroadcast, store
<1>8. CASE UNCHANGED vars
  BY <1>8, Keeping DEF vars, store
<1> QED
  BY <1>1, <1>2, <1>3, <1>4, <1>5, <1>6, <1>7, <1>8
     DEF Next, ContinueCall, HandleProfile

\* What is true stays true.
LEMMA TruthStays ==
  ASSUME Kept, NEW p \in Profile, Truthful(p)
  PROVE  Truthful(p)'
  BY DEF Kept, Truthful, Owned, Profile

-----------------------------------------------------------------------------
\* Profiles on their way

\* The profile a daemon publishes is true at that moment (local_profile_record).
LEMMA LocalIsTrue ==
  ASSUME NEW n \in Node, NEW m \in Node, n # m
  PROVE  Truthful(LocalProfile(n, m))
  BY DEF Truthful, LocalProfile

\* Every profile sent or being applied stays true.
LEMMA ProfilesStep ==
  ASSUME IInv, [Next]_vars, Kept
  PROVE  ProfilesAreTrue'
<1> USE DEF IInv
<1>1. \A p \in Profile : Truthful(p) => Truthful(p)'
  BY TruthStays
<1>2. profiles \subseteq Profile
  BY DEF TypeOK
<1>3. ASSUME profiles' \subseteq profiles, loop' = loop
      PROVE  ProfilesAreTrue'
  BY <1>1, <1>2, <1>3, HandlerType DEF ProfilesAreTrue
<1>4. ASSUME NEW n \in Node, Publish(n), loop' = loop
      PROVE  ProfilesAreTrue'
  <2>1. \A p \in profiles' \ profiles : Truthful(p)
    BY <1>4, Published, LocalIsTrue
  <2>2. \A p \in profiles' : Truthful(p)'
    BY <1>1, <1>2, <1>4, <2>1, Published DEF ProfilesAreTrue
  <2> QED
    BY <1>1, <1>4, <2>2, HandlerType DEF ProfilesAreTrue
<1>5. ASSUME NEW c \in Caller, StartCall(c) \/ ContinueCall(c)
      PROVE  ProfilesAreTrue'
  <2>1. CASE FinishSubscribe(c)
    <3>1. call[c].node \in Node
      BY <2>1, CallType DEF FinishSubscribe
    <3> QED
      BY <1>4, <2>1, <3>1 DEF FinishSubscribe
  <2>2. CASE ~FinishSubscribe(c)
    BY <1>3, <1>5, <2>2 DEF StartCall, ContinueCall, CreateChannel, SubscribeTopic, GetChannel,
       StoreChannel, HandleSubscribe, Answer, network
  <2> QED
    BY <2>1, <2>2
<1>6. ASSUME NEW n \in Node, AnnounceProfile(n)
      PROVE  ProfilesAreTrue'
  BY <1>4, <1>6 DEF AnnounceProfile, process
<1>7. ASSUME NEW n \in Node, NEW m \in Node, ServeProfile(n, m)
      PROVE  ProfilesAreTrue'
  <2>1. n # m /\ Truthful(LocalProfile(n, m)) /\ LocalProfile(n, m) \in Profile
    BY <1>7, LocalIsTrue, ProfileType, ChannelsAssumption DEF ServeProfile, Audience
  <2>2. \A p \in profiles' : Truthful(p)'
    BY <1>1, <1>2, <1>7, <2>1 DEF ServeProfile, ProfilesAreTrue
  <2> QED
    BY <1>1, <1>7, <2>2, HandlerType DEF ServeProfile, process, ProfilesAreTrue
<1>8. ASSUME NEW p \in profiles, ReceiveProfile(p)
      PROVE  ProfilesAreTrue'
  <2>1. \A q \in profiles' : Truthful(q)'
    BY <1>1, <1>2, <1>8 DEF ReceiveProfile, ProfilesAreTrue
  <2>2. p \in Profile /\ Truthful(p)'
    BY <1>1, <1>2 DEF ProfilesAreTrue
  <2>3. ASSUME NEW n \in Node, loop'[n] # None
        PROVE  Truthful(loop[n].profile)' /\ loop'[n].profile.to = n
    <3>1. CASE n = p.to
      BY <1>8, <2>2, <3>1 DEF ReceiveProfile, TypeOK
    <3>2. CASE n # p.to
      <4>1. loop'[n] = loop[n]
        BY <1>8, <3>2 DEF ReceiveProfile, TypeOK
      <4> QED
        BY <1>1, <2>3, <4>1, HandlerType DEF ProfilesAreTrue
    <3> QED
      BY <3>1, <3>2
  <2> QED
    BY <2>1, <2>3 DEF ProfilesAreTrue
<1>9. ASSUME NEW n \in Node, ReplaceTopics(n) \/ ReplaceChannels(n) \/ Crash(n)
      PROVE  ProfilesAreTrue'
  <2>1. profiles' \subseteq profiles
    BY <1>9 DEF ReplaceTopics, ReplaceChannels, Crash, network
  <2>2. ASSUME NEW m \in Node, loop'[m] # None
        PROVE  loop[m] # None /\ loop'[m].profile = loop[m].profile
    <3>1. CASE ReplaceTopics(n)
      BY <2>2, <3>1, HandlerType DEF ReplaceTopics, TypeOK, Handler
    <3>2. CASE ReplaceChannels(n) \/ Crash(n)
      BY <2>2, <3>2 DEF ReplaceChannels, Crash, TypeOK
    <3> QED
      BY <1>9, <3>1, <3>2
  <2>3. ASSUME NEW m \in Node, loop'[m] # None
        PROVE  Truthful(loop[m].profile)' /\ loop'[m].profile.to = m
    BY <1>1, <2>2, <2>3, HandlerType DEF ProfilesAreTrue
  <2> QED
    BY <1>1, <1>2, <2>1, <2>3 DEF ProfilesAreTrue
<1>10. ASSUME NEW n \in Node,
              (\E t \in Topic : Broadcast(n, t)) \/ (\E p \in Node : PeerExpires(n, p))
              \/ Restart(n)
       PROVE  ProfilesAreTrue'
  BY <1>3, <1>10 DEF Broadcast, PeerExpires, Restart, process, network
<1>11. ASSUME NEW b \in chatter, HearBroadcast(b)
       PROVE  ProfilesAreTrue'
  BY <1>3, <1>11 DEF HearBroadcast, process
<1>12. CASE UNCHANGED vars
  BY <1>3, <1>12 DEF vars, process, network
<1> QED
  BY <1>5, <1>6, <1>7, <1>8, <1>9, <1>10, <1>11, <1>12
     DEF Next, HandleProfile

-----------------------------------------------------------------------------
\* The registries

\* A row that names a peer was written from a true profile of it, or was there.
LEMMA ClaimStep ==
  ASSUME IInv, [Next]_vars, Kept
  PROVE  ClaimIsTrue'
<1> USE DEF IInv
<1>1. SUFFICES ASSUME NEW n \in Node, NEW t \in Topic, channels'[n][t] # None
               PROVE  channels'[channels'[n][t]][t] = channels'[n][t]
  BY DEF ClaimIsTrue
<1>2. ASSUME channels'[n][t] = channels[n][t]
      PROVE  channels'[channels'[n][t]][t] = channels'[n][t]
  BY <1>1, <1>2 DEF ClaimIsTrue, Kept, TypeOK
<1>3. ASSUME NEW c \in Caller, StoreChannel(c)
      PROVE  channels'[channels'[n][t]][t] = channels'[n][t]
  <2>1. call[c] \in Call /\ call[c].node \in Node /\ call[c].topic \in Topic
    BY <1>3, CallType DEF StoreChannel
  <2>2. channels'[n][t] \in {channels[n][t], n}
    BY <1>3, <2>1 DEF StoreChannel, TypeOK
  <2> QED
    BY <1>2, <2>2
<1>4. ASSUME NEW m \in Node, ReplaceChannels(m)
      PROVE  channels'[channels'[n][t]][t] = channels'[n][t]
  <2> DEFINE p == loop[m].profile
  <2>1. /\ p.from \in Node /\ p.from # m /\ p.from # None
        /\ p.owned \in SUBSET Topic /\ p.owned \subseteq Owned(p.from)
    BY <1>4, HandlerType, ChannelsAssumption DEF ReplaceChannels, ProfilesAreTrue, Truthful
  <2>2. CASE n # m
    BY <1>2, <1>4, <2>2 DEF ReplaceChannels, TypeOK
  <2>3. CASE n = m
    <3>1. channels'[n][t] = ReplacedOwned(n, p.from, p.owned)[t]
      BY <1>4, <2>3 DEF ReplaceChannels, TypeOK
    <3>2. CASE channels'[n][t] = channels[n][t]
      BY <1>2, <3>2
    <3>3. CASE channels'[n][t] # channels[n][t]
      <4>1. channels'[n][t] = p.from /\ t \in p.owned
        BY <1>1, <2>1, <3>1, <3>3, ReplacedRow
      <4>2. channels[p.from][t] = p.from
        BY <2>1, <4>1 DEF Owned
      <4> QED
        BY <2>1, <4>1, <4>2 DEF Kept
    <3> QED
      BY <3>2, <3>3
  <2> QED
    BY <2>2, <2>3
<1>5. ASSUME channels' = channels
      PROVE  channels'[channels'[n][t]][t] = channels'[n][t]
  BY <1>2, <1>5
<1>6. (\E c \in Caller : StoreChannel(c)) \/ (\E m \in Node : ReplaceChannels(m))
      \/ channels' = channels
  BY DEF Next, StartCall, ContinueCall, HandleProfile, vars, store, CreateChannel, SubscribeTopic,
     GetChannel, HandleSubscribe, FinishSubscribe, Answer, AnnounceProfile, ServeProfile,
     ReceiveProfile, ReplaceTopics, Broadcast, HearBroadcast, PeerExpires, Crash, Restart
<1> QED
  BY <1>3, <1>4, <1>5, <1>6

\* A membership that is counted was announced, and memberships are not given up.
LEMMA LinkStep ==
  ASSUME IInv, [Next]_vars, Kept
  PROVE  LinkIsTrue'
<1> USE DEF IInv
<1>1. ASSUME links' = links
      PROVE  LinkIsTrue'
  BY <1>1 DEF LinkIsTrue, Kept, TypeOK
<1>2. ASSUME NEW m \in Node, ReplaceTopics(m)
      PROVE  LinkIsTrue'
  <2> DEFINE p == loop[m].profile
  <2>1. p.from \in Node /\ p.subs \subseteq subs[p.from]
    BY <1>2, HandlerType DEF ReplaceTopics, ProfilesAreTrue, Truthful
  <2>2. ASSUME NEW n \in Node, NEW l \in links'[n]
        PROVE  l \in links[n] \/ (l[1] = p.from /\ l[2] \in p.subs)
    BY <1>2, <2>2 DEF ReplaceTopics, TypeOK
  <2>3. ASSUME NEW n \in Node, NEW l \in links'[n]
        PROVE  l[2] \in subs'[l[1]]
    <3>1. CASE l \in links[n]
      <4>1. l[1] \in Node /\ l[2] \in subs[l[1]]
        BY <3>1 DEF LinkIsTrue, TypeOK
      <4> QED
        BY <4>1 DEF Kept
    <3>2. CASE l[1] = p.from /\ l[2] \in p.subs
      BY <2>1, <3>2 DEF Kept
    <3> QED
      BY <2>2, <2>3, <3>1, <3>2
  <2> QED
    BY <2>3 DEF LinkIsTrue
<1>3. (\E m \in Node : ReplaceTopics(m)) \/ links' = links
  BY DEF Next, StartCall, ContinueCall, HandleProfile, vars, store, CreateChannel, SubscribeTopic,
     GetChannel, StoreChannel, HandleSubscribe, FinishSubscribe, Answer, AnnounceProfile,
     ServeProfile, ReceiveProfile, ReplaceChannels, Broadcast, HearBroadcast, PeerExpires,
     Crash, Restart
<1> QED
  BY <1>1, <1>2, <1>3

-----------------------------------------------------------------------------
\* The theorems

\* The initial state satisfies the invariant.
LEMMA InitIInv ==
  ASSUME Init
  PROVE  IInv
<1>1. TypeOK
  BY DEF Init, TypeOK
<1>2. ProfilesAreTrue /\ ClaimIsTrue /\ LinkIsTrue
  BY DEF Init, ProfilesAreTrue, ClaimIsTrue, LinkIsTrue
<1> QED
  BY <1>1, <1>2 DEF IInv

\* Every step preserves it.
LEMMA IInvStep ==
  ASSUME IInv, [Next]_vars
  PROVE  IInv'
<1>1. Kept
  BY KeptStep
<1>2. TypeOK'
  BY TypeStep DEF IInv
<1> QED
  BY <1>1, <1>2, ProfilesStep, ClaimStep, LinkStep DEF IInv

\* The invariant holds in every reachable state.
THEOREM Invariance == Spec => []IInv
<1>1. Init => IInv
  BY InitIInv
<1>2. IInv /\ [Next]_vars => IInv'
  BY IInvStep
<1> QED
  BY <1>1, <1>2, PTL DEF Spec

\* The variables keep their types, for any daemons, names and faults.
THEOREM TypeCorrect == Spec => []TypeOK
<1>1. IInv => TypeOK
  BY DEF IInv
<1> QED
  BY <1>1, Invariance, PTL

\* A registry attributes a name only to a daemon that owns it in its own table
\* (replace_owned_channels, local_profile_record).
THEOREM ClaimsAreTrue == Spec => []ClaimIsTrue
<1>1. IInv => ClaimIsTrue
  BY DEF IInv
<1> QED
  BY <1>1, Invariance, PTL

\* A registry counts as a member only a daemon that has subscribed
\* (replace_peer_topics, upsert_subscription).
THEOREM LinksAreTrue == Spec => []LinkIsTrue
<1>1. IInv => LinkIsTrue
  BY DEF IInv
<1> QED
  BY <1>1, Invariance, PTL

\* No profile and no call takes a channel from its owner.
THEOREM OwnersKeepTheirChannels == Spec => OwnerKeepsChannel
<1>1. IInv /\ [Next]_vars =>
        [\A n \in Node, t \in Topic : channels[n][t] = n => channels'[n][t] = n]_channels
  BY KeptStep DEF Kept
<1> QED
  BY <1>1, Invariance, PTL DEF Spec, OwnerKeepsChannel

-----------------------------------------------------------------------------
\* Broadcasts and calls

\* gossipsub has joined what the operator subscribed to or listed (build_swarm,
\* SwarmCommand::Subscribe).
JoinedIsWanted ==
  \A n \in Node : \A t \in joined[n] : t \in subs[n] \/ <<n, t>> \in Interest

\* The direct fallback addresses subscribers only.
DirectIsForMember ==
  \A b \in chatter : b.via = "direct" => b.topic \in subs[b.to]

\* What a call has seen of its channel, or done with it, still holds while the
\* call waits: the owner list_topics showed, and the membership it stored.
Relied(k) ==
  /\ k.at = "get" /\ k.seen = k.node => channels[k.node][k.topic] = k.node
  /\ k.at \in {"subscribe", "announce", "list"} /\ k.created = FALSE
       => channels[k.node][k.topic] = k.node
  /\ k.at \in {"announce", "list"} => k.topic \in subs[k.node]

CallsAreSound == \A c \in Caller : call[c] # None => Relied(call[c])

MemberInv == JoinedIsWanted /\ DirectIsForMember /\ BroadcastIsForMember

ReuseInv == CallsAreSound /\ ReuseIsOwn

\* Memberships are kept, so what is written from one stays right.
LEMMA MemberKept ==
  ASSUME TypeOK, MemberInv, Kept, joined' = joined, chatter' \subseteq chatter, heard' = heard
  PROVE  MemberInv'
<1>1. JoinedIsWanted'
  BY DEF MemberInv, JoinedIsWanted, Kept, TypeOK
<1>2. DirectIsForMember'
  BY DEF MemberInv, DirectIsForMember, Kept, TypeOK, Chatter
<1>3. BroadcastIsForMember'
  BY DEF MemberInv, BroadcastIsForMember, Kept, TypeOK
<1> QED
  BY <1>1, <1>2, <1>3 DEF MemberInv

\* Every step preserves MemberInv.
LEMMA MemberStep ==
  ASSUME IInv, MemberInv, [Next]_vars
  PROVE  MemberInv'
<1> USE DEF IInv
<1>k. Kept
  BY KeptStep
<1>1. ASSUME NEW c \in Caller, HandleSubscribe(c)
      PROVE  MemberInv'
  <2>1. call[c].node \in Node /\ call[c].topic \in Topic
    BY <1>1, CallType DEF HandleSubscribe
  <2>2. ASSUME NEW n \in Node, NEW t \in joined'[n]
        PROVE  t \in subs'[n] \/ <<n, t>> \in Interest
    <3>1. CASE n = call[c].node /\ t = call[c].topic
      BY <1>1, <2>1, <3>1 DEF HandleSubscribe, TypeOK
    <3>2. CASE t \in joined[n]
      BY <1>k, <3>2 DEF MemberInv, JoinedIsWanted, Kept
    <3>3. t \in joined[n] \/ (n = call[c].node /\ t = call[c].topic)
      BY <1>1, <2>1, <2>2 DEF HandleSubscribe, TypeOK
    <3> QED
      BY <3>1, <3>2, <3>3
  <2>3. JoinedIsWanted'
    BY <2>2 DEF JoinedIsWanted
  <2>4. chatter' = chatter /\ heard' = heard
    BY <1>1 DEF HandleSubscribe, network, history
  <2>5. DirectIsForMember'
    BY <1>k, <2>4 DEF MemberInv, DirectIsForMember, Kept, TypeOK, Chatter
  <2>6. BroadcastIsForMember'
    BY <1>k, <2>4 DEF MemberInv, BroadcastIsForMember, Kept, TypeOK
  <2> QED
    BY <2>3, <2>5, <2>6 DEF MemberInv
<1>2. ASSUME NEW n \in Node, NEW t \in Topic, Broadcast(n, t)
      PROVE  MemberInv'
  <2>1. subs' = subs /\ joined' = joined /\ heard' = heard
    BY <1>2 DEF Broadcast, store, process, history
  <2>2. \A m \in Members(n, t) : t \in subs[m]
    BY DEF Members, LinkIsTrue
  <2>3. ASSUME NEW b \in chatter', b.via = "direct"
        PROVE  b.topic \in subs'[b.to]
    <3>1. CASE b \in chatter
      BY <2>1, <2>3, <3>1 DEF MemberInv, DirectIsForMember
    <3>2. CASE b \notin chatter
      <4>1. PICK m \in Members(n, t) : b = [to |-> m, topic |-> t, via |-> "direct"]
        BY <1>2, <2>3, <3>2 DEF Broadcast
      <4> QED
        BY <2>1, <2>2, <4>1
    <3> QED
      BY <3>1, <3>2
  <2> QED
    BY <2>1, <2>3 DEF MemberInv, JoinedIsWanted, DirectIsForMember, BroadcastIsForMember
<1>3. ASSUME NEW b \in chatter, HearBroadcast(b)
      PROVE  MemberInv'
  <2>1. subs' = subs /\ joined' = joined /\ chatter' \subseteq chatter
    BY <1>3 DEF HearBroadcast, store, process
  <2>2. b.to \in Node /\ b.topic \in Topic /\ b.via \in {"gossip", "direct"}
    BY DEF TypeOK, Chatter
  <2>3. ASSUME NEW h \in heard'
        PROVE  h[2] \in subs[h[1]] \/ h \in Interest
    <3>1. CASE h \in heard
      BY <3>1 DEF MemberInv, BroadcastIsForMember
    <3>2. CASE h \notin heard
      <4>1. h = <<b.to, b.topic>> /\ (b.via = "direct" \/ b.topic \in joined[b.to])
        BY <1>3, <2>3, <3>2 DEF HearBroadcast
      <4> QED
        BY <2>2, <4>1 DEF MemberInv, DirectIsForMember, JoinedIsWanted
    <3> QED
      BY <3>1, <3>2
  <2> QED
    BY <2>1, <2>3 DEF MemberInv, JoinedIsWanted, DirectIsForMember, BroadcastIsForMember
<1>4. ASSUME NEW n \in Node, Crash(n) \/ Restart(n)
      PROVE  MemberInv'
  <2>1. subs' = subs /\ heard' = heard /\ chatter' \subseteq chatter
    BY <1>4 DEF Crash, Restart, store, network, history
  <2>2. ASSUME NEW m \in Node, NEW t \in joined'[m]
        PROVE  t \in joined[m] \/ <<m, t>> \in Interest
    <3>1. CASE Crash(n)
      BY <2>2, <3>1 DEF Crash, TypeOK
    <3>2. CASE Restart(n)
      BY <2>2, <3>2 DEF Restart, TypeOK
    <3> QED
      BY <1>4, <3>1, <3>2
  <2> QED
    BY <2>1, <2>2 DEF MemberInv, JoinedIsWanted, DirectIsForMember, BroadcastIsForMember
<1>5. ASSUME joined' = joined, chatter' = chatter, heard' = heard
      PROVE  MemberInv'
  BY <1>k, <1>5, MemberKept
<1>6. ASSUME NEW c \in Caller, StartCall(c) \/ ContinueCall(c)
      PROVE  MemberInv'
  BY <1>1, <1>5, <1>6 DEF StartCall, ContinueCall, CreateChannel, SubscribeTopic, GetChannel,
     StoreChannel, FinishSubscribe, Answer, network, history
<1>7. ASSUME NEW n \in Node,
             \/ AnnounceProfile(n) \/ ReplaceTopics(n) \/ ReplaceChannels(n)
             \/ \E m \in Node : ServeProfile(n, m) \/ PeerExpires(n, m)
      PROVE  MemberInv'
  BY <1>5, <1>7 DEF AnnounceProfile, ReplaceTopics, ReplaceChannels, ServeProfile, PeerExpires,
     process, network, history
<1>8. ASSUME NEW p \in profiles, ReceiveProfile(p)
      PROVE  MemberInv'
  BY <1>5, <1>8 DEF ReceiveProfile, history
<1>9. CASE UNCHANGED vars
  BY <1>5, <1>9 DEF vars, process, network, history
<1> QED
  BY <1>2, <1>3, <1>4, <1>6, <1>7, <1>8, <1>9 DEF Next, HandleProfile

\* A call that a step leaves as it is keeps what it relies on.
LEMMA CallKept ==
  ASSUME TypeOK, Kept, CallsAreSound, NEW c \in Caller, call'[c] = call[c], call[c] # None
  PROVE  Relied(call[c])'
<1>1. call[c] \in Call /\ call[c].node \in Node /\ call[c].topic \in Topic
  BY DEF TypeOK, Call
<1>2. Relied(call[c])
  BY DEF CallsAreSound
<1> QED
  BY <1>1, <1>2 DEF Kept, Relied

\* What was answered stays right.
LEMMA AnsweredKept ==
  ASSUME TypeOK, Kept, ReuseIsOwn, answered' = answered
  PROVE  ReuseIsOwn'
  BY DEF ReuseIsOwn, Kept, TypeOK

\* It is enough to look at the one call that moves.
LEMMA OneCallMoves ==
  ASSUME TypeOK, Kept, CallsAreSound, NEW c \in Caller, NEW next, Proceed(c, next),
         next # None => Relied(call[c])'
  PROVE  CallsAreSound'
<1>1. SUFFICES ASSUME NEW d \in Caller, call'[d] # None
               PROVE  Relied(call[d])'
  BY DEF CallsAreSound
<1>2. CASE d = c
  BY <1>1, <1>2 DEF Proceed, TypeOK
<1>3. CASE d # c
  <2>1. call'[d] = call[d]
    BY <1>3 DEF Proceed, TypeOK
  <2> QED
    BY <1>1, <2>1, CallKept
<1> QED
  BY <1>2, <1>3

\* Every step preserves ReuseInv (create_channel, between its queries).
LEMMA ReuseStep ==
  ASSUME IInv, ReuseInv, [Next]_vars
  PROVE  ReuseInv'
<1> USE DEF IInv, ReuseInv
<1>k. Kept
  BY KeptStep
<1>1. ASSUME NEW c \in Caller, NEW n \in Node, NEW t \in Topic, CreateChannel(c, n, t)
      PROVE  ReuseInv'
  <2> DEFINE k == [node |-> n, topic |-> t, created |-> FALSE, at |-> "get",
                   seen |-> IF Listed(n, t) THEN channels[n][t] ELSE None]
  <2>1. Proceed(c, k) /\ channels' = channels /\ answered' = answered
    BY <1>1 DEF CreateChannel, store, history
  <2>2. call'[c] = k
    BY <2>1 DEF Proceed, TypeOK
  <2>3. k.seen = n => channels[n][t] = n
    BY ChannelsAssumption
  <2>4. k.node = n /\ k.topic = t /\ k.at = "get"
    OBVIOUS
  <2> HIDE DEF k
  <2>5. Relied(call[c])'
    BY <2>1, <2>2, <2>3, <2>4 DEF Relied
  <2> QED
    BY <1>k, <2>1, <2>5, OneCallMoves, AnsweredKept
<1>2. ASSUME NEW c \in Caller, NEW n \in Node, NEW t \in Topic, SubscribeTopic(c, n, t)
      PROVE  ReuseInv'
  <2> DEFINE k == [node |-> n, topic |-> t, created |-> None, at |-> "subscribe", seen |-> None]
  <2>1. Proceed(c, k) /\ answered' = answered
    BY <1>2 DEF SubscribeTopic, history
  <2>2. call'[c] = k
    BY <2>1 DEF Proceed, TypeOK
  <2>3. k.at = "subscribe" /\ k.created # FALSE
    BY NoneAssumption
  <2> HIDE DEF k
  <2>4. Relied(call[c])'
    BY <2>2, <2>3 DEF Relied
  <2> QED
    BY <1>k, <2>1, <2>4, OneCallMoves, AnsweredKept
<1>3. ASSUME NEW c \in Caller, GetChannel(c)
      PROVE  ReuseInv'
  <2> DEFINE k == call[c]
             next == CASE k.seen \notin {k.node, None} -> None
                       [] k.seen = k.node \/ channels[k.node][k.topic] = k.node ->
                            [k EXCEPT !.at = "subscribe"]
                       [] OTHER -> [k EXCEPT !.at = "store"]
  <2>1. k \in Call /\ k.node \in Node /\ k.at = "get" /\ Relied(k)
    BY <1>3, CallType DEF GetChannel, At, CallsAreSound
  <2>2. Proceed(c, next) /\ answered' = answered /\ channels' = channels
    BY <1>3 DEF GetChannel, store, history
  <2>3. call'[c] = next
    BY <2>2 DEF Proceed, TypeOK
  <2>4. ASSUME next # None
        PROVE  /\ next.node = k.node /\ next.topic = k.topic
               /\ next.at = "store" \/ (next.at = "subscribe" /\ channels[k.node][k.topic] = k.node)
    BY <2>1, <2>4 DEF Relied, Call
  <2> HIDE DEF next, k
  <2>5. next # None => Relied(call[c])'
    BY <2>2, <2>3, <2>4 DEF Relied
  <2> QED
    BY <1>k, <2>2, <2>5, OneCallMoves, AnsweredKept
<1>4. ASSUME NEW c \in Caller, StoreChannel(c)
      PROVE  ReuseInv'
  <2> DEFINE next == [call[c] EXCEPT !.at = "subscribe", !.created = TRUE]
  <2>1. Proceed(c, next) /\ answered' = answered
    BY <1>4 DEF StoreChannel, history
  <2>2. call'[c] = next
    BY <2>1 DEF Proceed, TypeOK
  <2>3. next.at = "subscribe" /\ next.created # FALSE
    BY <1>4, CallType DEF StoreChannel, Call
  <2> HIDE DEF next
  <2>4. Relied(call[c])'
    BY <2>2, <2>3 DEF Relied
  <2> QED
    BY <1>k, <2>1, <2>4, OneCallMoves, AnsweredKept
<1>5. ASSUME NEW c \in Caller, HandleSubscribe(c)
      PROVE  ReuseInv'
  <2> DEFINE k == call[c]
             next == [k EXCEPT !.at = "announce"]
  <2>1. /\ k \in Call /\ k.node \in Node /\ k.topic \in Topic
        /\ k.at = "subscribe" /\ Relied(k)
    BY <1>5, CallType DEF HandleSubscribe, At, CallsAreSound
  <2>2. Proceed(c, next) /\ answered' = answered /\ channels' = channels
    BY <1>5 DEF HandleSubscribe, history
  <2>3. call'[c] = next
    BY <2>2 DEF Proceed, TypeOK
  <2>4. k.topic \in subs'[k.node]
    BY <1>5, <2>1 DEF HandleSubscribe, TypeOK
  <2>5. /\ next.node = k.node /\ next.topic = k.topic /\ next.created = k.created
        /\ next.at = "announce"
    BY <2>1 DEF Call
  <2> HIDE DEF next, k
  <2>6. Relied(call[c])'
    BY <2>1, <2>2, <2>3, <2>4, <2>5 DEF Relied
  <2> QED
    BY <1>k, <2>2, <2>6, OneCallMoves, AnsweredKept
<1>6. ASSUME NEW c \in Caller, FinishSubscribe(c)
      PROVE  ReuseInv'
  <2> DEFINE k == call[c]
             next == [k EXCEPT !.at = "list"]
  <2>1. k \in Call /\ k.at = "announce" /\ Relied(k)
    BY <1>6, CallType DEF FinishSubscribe, At, CallsAreSound
  <2>2. Proceed(c, next) /\ answered' = answered /\ channels' = channels /\ subs' = subs
    BY <1>6 DEF FinishSubscribe, store, history
  <2>3. call'[c] = next
    BY <2>2 DEF Proceed, TypeOK
  <2>4. next.node = k.node /\ next.topic = k.topic /\ next.created = k.created /\ next.at = "list"
    BY <2>1 DEF Call
  <2> HIDE DEF next, k
  <2>5. Relied(call[c])'
    BY <2>1, <2>2, <2>3, <2>4 DEF Relied
  <2> QED
    BY <1>k, <2>2, <2>5, OneCallMoves, AnsweredKept
<1>7. ASSUME NEW c \in Caller, Answer(c)
      PROVE  ReuseInv'
  <2>1. /\ call[c] \in Call /\ call[c].node \in Node /\ call[c].topic \in Topic
        /\ call[c].at = "list" /\ Relied(call[c])
    BY <1>7, CallType DEF Answer, At, CallsAreSound
  <2>2. Proceed(c, None) /\ channels' = channels /\ subs' = subs
    BY <1>7 DEF Answer, store
  <2>3. ASSUME NEW n \in Node, NEW t \in Topic, <<n, t, FALSE>> \in answered'
        PROVE  channels[n][t] = n /\ t \in subs[n]
    <3>1. CASE <<n, t, FALSE>> \in answered
      BY <3>1 DEF ReuseIsOwn
    <3>2. CASE <<n, t, FALSE>> \notin answered
      <4>1. <<n, t, FALSE>> = <<call[c].node, call[c].topic, call[c].created>>
        BY <1>7, <2>3, <3>2 DEF Answer
      <4>2. n = call[c].node /\ t = call[c].topic /\ call[c].created = FALSE
        BY <4>1
      <4> QED
        BY <2>1, <4>2 DEF Relied
    <3> QED
      BY <3>1, <3>2
  <2>4. ReuseIsOwn'
    BY <2>2, <2>3 DEF ReuseIsOwn
  <2> QED
    BY <1>k, <2>2, <2>4, OneCallMoves
<1>8. ASSUME NEW n \in Node, Crash(n)
      PROVE  ReuseInv'
  <2>1. ASSUME NEW c \in Caller, call'[c] # None
        PROVE  Relied(call[c])'
    <3>1. call'[c] = call[c] /\ call[c] # None
      BY <1>8, <2>1 DEF Crash
    <3> QED
      BY <1>k, <3>1, CallKept
  <2>2. CallsAreSound'
    BY <2>1 DEF CallsAreSound
  <2> QED
    BY <1>k, <1>8, <2>2, AnsweredKept DEF Crash, history
<1>9. ASSUME call' = call, answered' = answered
      PROVE  ReuseInv'
  <2>1. CallsAreSound'
    BY <1>k, <1>9, CallKept DEF CallsAreSound
  <2> QED
    BY <1>k, <1>9, <2>1, AnsweredKept
<1>10. ASSUME NEW n \in Node,
              \/ AnnounceProfile(n) \/ HandleProfile(n) \/ Restart(n)
              \/ \E m \in Node : ServeProfile(n, m) \/ PeerExpires(n, m)
              \/ \E t \in Topic : Broadcast(n, t)
       PROVE  ReuseInv'
  <2>1. CASE AnnounceProfile(n) \/ \E m \in Node : ServeProfile(n, m) \/ PeerExpires(n, m)
    BY <1>9, <2>1 DEF AnnounceProfile, ServeProfile, PeerExpires, process, history
  <2>2. CASE HandleProfile(n)
    BY <1>9, <2>2 DEF HandleProfile, ReceiveProfile, ReplaceTopics, ReplaceChannels, history
  <2>3. CASE Restart(n) \/ \E t \in Topic : Broadcast(n, t)
    BY <1>9, <2>3 DEF Restart, Broadcast, process, history
  <2> QED
    BY <1>10, <2>1, <2>2, <2>3
<1>11. ASSUME NEW b \in chatter, HearBroadcast(b)
       PROVE  ReuseInv'
  BY <1>9, <1>11 DEF HearBroadcast, process, history
<1>12. CASE UNCHANGED vars
  BY <1>9, <1>12 DEF vars, process, history
<1> QED
  BY <1>1, <1>2, <1>3, <1>4, <1>5, <1>6, <1>7, <1>8, <1>10, <1>11, <1>12
     DEF Next, StartCall, ContinueCall

\* Nothing is joined but the interests, and nothing else has begun.
LEMMA InitCalls ==
  ASSUME Init
  PROVE  MemberInv /\ ReuseInv
  BY DEF Init, MemberInv, JoinedIsWanted, DirectIsForMember, BroadcastIsForMember, ReuseInv,
     CallsAreSound, ReuseIsOwn

\* A broadcast is stored by subscribers and by daemons that listed the topic only,
\* whichever way it came and whatever restarted in between (SwarmCommand::Broadcast,
\* apply_pubsub_message, accept_inbound_envelope).
THEOREM BroadcastsAreForMembers == Spec => []BroadcastIsForMember
<1>1. Init => MemberInv
  BY InitCalls
<1>2. IInv /\ MemberInv /\ [Next]_vars => MemberInv'
  BY MemberStep
<1>3. MemberInv => BroadcastIsForMember
  BY DEF MemberInv
<1> QED
  BY <1>1, <1>2, <1>3, Invariance, PTL DEF Spec

\* A channel that create_channel calls an existing one is the caller's own and
\* joined, whatever the swarm loop wrote between its queries (create_channel).
THEOREM ReusedAreOwn == Spec => []ReuseIsOwn
<1>1. Init => ReuseInv
  BY InitCalls
<1>2. IInv /\ ReuseInv /\ [Next]_vars => ReuseInv'
  BY ReuseStep
<1>3. ReuseInv => ReuseIsOwn
  BY DEF ReuseInv
<1> QED
  BY <1>1, <1>2, <1>3, Invariance, PTL DEF Spec

-----------------------------------------------------------------------------
\* The refinement

\* A name that becomes a daemon's own was free there: a claim of the registry
\* (upsert_channel).
LEMMA StoreImplementsClaim ==
  ASSUME IInv, NEW c \in Caller, StoreChannel(c)
  PROVE  channels' = channels \/ \E n \in Node, t \in Topic : Names!Claim(n, t)
<1> DEFINE n == call[c].node
           t == call[c].topic
<1>1. n \in Node /\ t \in Topic
  BY CallType DEF IInv, StoreChannel
<1>2. channels' = [channels EXCEPT ![n][t] = IF @ = None THEN n ELSE @]
  BY DEF StoreChannel
<1>3. CASE channels[n][t] = None
  BY <1>1, <1>2, <1>3 DEF Names!Claim, IInv, TypeOK
<1>4. CASE channels[n][t] # None
  BY <1>1, <1>2, <1>4 DEF IInv, TypeOK
<1> QED
  BY <1>3, <1>4

\* A profile that is written down is news of its sender (replace_owned_channels):
\* its names are still the sender's, however old it is.
LEMMA ReplaceImplementsHear ==
  ASSUME IInv, NEW n \in Node, ReplaceChannels(n)
  PROVE  \E p \in Node : Names!Hear(n, p)
<1> DEFINE p == loop[n].profile.from
           owned == loop[n].profile.owned
           S == {t \in owned : channels[n][t] \in {None, p}}
<1>1. p \in Node /\ owned \in SUBSET Topic
  BY HandlerType DEF IInv, ReplaceChannels
<1>2. n # p /\ owned \subseteq Owned(p)
  BY DEF IInv, ProfilesAreTrue, Truthful, ReplaceChannels
<1>3. S \in SUBSET Names!Tellable(n, p)
  BY <1>1, <1>2 DEF Names!Tellable, Owned
<1>4. ReplacedOwned(n, p, owned) =
        [t \in Topic |-> CASE t \in S -> p
                           [] t \notin S /\ channels[n][t] = p -> None
                           [] OTHER -> channels[n][t]]
  <2>1. p # None
    BY <1>1, ChannelsAssumption
  <2> QED
    BY <2>1 DEF ReplacedOwned
<1>5. channels' = [channels EXCEPT ![n] = ReplacedOwned(n, p, owned)]
  BY DEF ReplaceChannels
<1> QED
  BY <1>1, <1>2, <1>3, <1>4, <1>5 DEF Names!Hear

\* Every step of the daemons is a step of the registry or leaves it alone.
LEMMA RegistryStep ==
  ASSUME IInv, [Next]_vars
  PROVE  [Names!Next]_channels
<1>1. ASSUME NEW c \in Caller, StoreChannel(c)
      PROVE  [Names!Next]_channels
  BY <1>1, StoreImplementsClaim DEF Names!Next
<1>2. ASSUME NEW n \in Node, ReplaceChannels(n)
      PROVE  [Names!Next]_channels
  BY <1>2, ReplaceImplementsHear DEF Names!Next
<1>3. \/ \E c \in Caller : StoreChannel(c)
      \/ \E n \in Node : ReplaceChannels(n)
      \/ channels' = channels
  BY DEF Next, StartCall, ContinueCall, HandleProfile, vars, store, CreateChannel, SubscribeTopic,
     GetChannel, HandleSubscribe, FinishSubscribe, Answer, AnnounceProfile, ServeProfile,
     ReceiveProfile, ReplaceTopics, Broadcast, HearBroadcast, PeerExpires, Crash, Restart
<1> QED
  BY <1>1, <1>2, <1>3

\* The channel tables of any number of daemons implement the registry.
THEOREM ChannelsImplementRegistry == Spec => ImplementsRegistry
<1>1. Init => Names!Init
  BY DEF Init, Names!Init
<1>2. IInv /\ [Next]_vars => [Names!Next]_channels
  BY RegistryStep
<1> QED
  BY <1>1, <1>2, Invariance, PTL DEF Spec, ImplementsRegistry, Names!Spec
=============================================================================
