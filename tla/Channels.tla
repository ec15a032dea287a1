------------------------------ MODULE Channels ------------------------------
(***************************************************************************)
(* Public channels: who owns a name, who has joined it, and the profiles   *)
(* and broadcasts that spread both between daemons.                        *)
(*                                                                         *)
(* Every daemon keeps three SQLite tables: channels (the owner it believes *)
(* each name to have), subscriptions (its own memberships) and peer_topics *)
(* (the memberships its peers announced).  They are written by the local   *)
(* HTTP API (create_channel, which awaits between its queries) and by the  *)
(* swarm loop, which handles one event at a time but awaits between the    *)
(* three writes of a profile.  Profiles come from gossip and from direct   *)
(* requests, so an old one may arrive after a new one.                     *)
(***************************************************************************)
EXTENDS FiniteSets, Naturals

CONSTANTS
  Node,          \* daemons
  Topic,         \* channel names
  Caller,        \* slots for concurrent HTTP calls
  None,          \* no owner, no call, no handler
  Interest,      \* <<node, topic>>: topics of config.interests
  Link,          \* the <<sender, receiver>> pairs profiles travel between
  MaxProfiles,   \* bound: profiles in flight on a link
  MaxCalls,      \* bound: calls of create_channel and subscribe
  MaxBroadcasts, \* bound: broadcasts
  MaxExpiries,   \* bound: times a peer leaves the visible window
  MaxCrashes     \* bound: daemon crashes

ASSUME ChannelsAssumption ==
  /\ Interest \subseteq Node \X Topic
  /\ Link \subseteq {l \in Node \X Node : l[1] # l[2]}
  /\ {MaxProfiles, MaxCalls, MaxBroadcasts, MaxExpiries, MaxCrashes} \subseteq Nat
  /\ None \notin Node

\* MeshProfileRecord, as far as channels go, on its way to one daemon.
Profile == [from: Node, to: Node, subs: SUBSET Topic, owned: SUBSET Topic]

\* A broadcast on its way: over the gossipsub topic, or as a direct envelope.
Chatter == [to: Node, topic: Topic, via: {"gossip", "direct"}]

\* A call of create_channel or subscribe and where it waits: "created" is what
\* it will tell its caller (None for subscribe), "seen" the owner it saw.
Call == [node: Node, topic: Topic, created: BOOLEAN \cup {None},
         seen: Node \cup {None}, at: {"get", "store", "subscribe", "announce", "list"}]

\* upsert_profile between its writes.
Handler == [at: {"topics", "channels"}, profile: Profile]

ASSUME NoneAssumption == None \notin Call /\ None \notin Handler /\ None \notin BOOLEAN

VARIABLES
  \* SQLite: survives a crash
  channels,  \* the channels table: the owner of each name
  subs,      \* the subscriptions table
  links,     \* the peer_topics table
  fresh,     \* peers whose last_seen_at is within the visible window
  \* the daemon process
  alive,
  joined,    \* gossipsub subscriptions
  loop,      \* the profile handler in progress
  call,      \* HTTP calls in progress
  \* the network
  profiles, chatter,
  \* history
  answered,  \* <<node, topic, created>> of the calls that succeeded
  heard,     \* <<node, topic>>: broadcasts stored
  calls, broadcasts, expiries, crashes   \* counters for the bounds

store == <<channels, subs, links, fresh>>
process == <<alive, joined, loop, call>>
network == <<profiles, chatter>>
history == <<answered, heard>>
count == <<calls, broadcasts, expiries, crashes>>
vars == <<store, process, network, history, count>>

-----------------------------------------------------------------------------
\* Helpers

\* Fault: the channels the registry merely knows are published as well.
EveryKnownChannel(n) == {t \in Topic : channels[n][t] # None}

\* The channels a daemon publishes as its own.
Owned(n) == {t \in Topic : channels[n][t] = n}

\* Fault: a profile lists what gossipsub has joined.
JoinedProfile(n, m) ==
  [from |-> n, to |-> m, subs |-> joined[n], owned |-> Owned(n)]

\* local_profile_record: the memberships and the own channels of a daemon.
LocalProfile(n, m) ==
  [from |-> n, to |-> m, subs |-> subs[n], owned |-> Owned(n)]

\* list_topics: a channel is shown when this node has joined it or a peer that
\* was seen lately has.
Listed(n, t) ==
  /\ channels[n][t] # None
  /\ t \in subs[n] \/ \E p \in fresh[n] : <<p, t>> \in links[n]

\* Fault: the claim of the last profile wins.
LastClaimWins(n, p, owned) ==
  [t \in Topic |-> IF t \in owned THEN p
                   ELSE IF channels[n][t] = p THEN None ELSE channels[n][t]]

\* Fault: rows are updated and deleted, and none is inserted.
UpdatedOwned(n, p, owned) ==
  [t \in Topic |-> IF channels[n][t] = p /\ t \notin owned THEN None ELSE channels[n][t]]

\* Fault: every row the profile does not name is deleted.
ReplacedAll(n, p, owned) ==
  [t \in Topic |-> CASE t \notin owned -> None
                     [] t \in owned /\ channels[n][t] = None -> p
                     [] OTHER -> channels[n][t]]

\* replace_owned_channels: the rows of p are replaced, a row of another owner
\* is left alone.
ReplacedOwned(n, p, owned) ==
  [t \in Topic |-> IF channels[n][t] \in {None, p}
                   THEN IF t \in owned THEN p ELSE None
                   ELSE channels[n][t]]

Idle(n) == /\ alive[n] /\ loop[n] = None
           /\ \A c \in Caller : call[c] # None /\ call[c].node = n => call[c].at # "announce"

At(c, stage) == call[c] # None /\ call[c].at = stage

\* The call goes on.
Proceed(c, next) == call' = [call EXCEPT ![c] = next]

\* The daemons a profile of n can reach now.
Audience(n) ==
  {m \in Node : /\ <<n, m>> \in Link /\ alive[m]
                /\ Cardinality({p \in profiles : p.from = n /\ p.to = m}) < MaxProfiles}

\* A profile reaches some of the others; which, gossip and the connections
\* decide.
Publish(n) ==
  \E S \in SUBSET Audience(n) : profiles' = profiles \cup {LocalProfile(n, m) : m \in S}

-----------------------------------------------------------------------------
\* Initially every daemon runs on a fresh home.

Init ==
  /\ channels = [n \in Node |-> [t \in Topic |-> None]]
  /\ subs = [n \in Node |-> {}]
  /\ links = [n \in Node |-> {}]
  /\ fresh = [n \in Node |-> {}]
  /\ alive = [n \in Node |-> TRUE]
  /\ joined = [n \in Node |-> {t \in Topic : <<n, t>> \in Interest}]
  /\ loop = [n \in Node |-> None]
  /\ call = [c \in Caller |-> None]
  /\ profiles = {} /\ chatter = {}
  /\ answered = {} /\ heard = {}
  /\ calls = 0 /\ broadcasts = 0 /\ expiries = 0 /\ crashes = 0

-----------------------------------------------------------------------------
\* create_channel and subscribe

\* create_channel begins with what list_topics shows under the name.
CreateChannel(c, n, t) ==
  /\ alive[n] /\ call[c] = None
  /\ calls < MaxCalls /\ calls' = calls + 1
  /\ Proceed(c, [node |-> n, topic |-> t, created |-> FALSE, at |-> "get",
                 seen |-> IF Listed(n, t) THEN channels[n][t] ELSE None])
  /\ UNCHANGED <<store, alive, joined, loop, network, history, broadcasts, expiries, crashes>>

\* Fault: any row of the name counts as an own one.
AnyRowIsOwn(c) ==
  LET k == call[c] IN
  /\ At(c, "get")
  /\ Proceed(c,
       CASE k.seen \notin {k.node, None} -> None
         [] k.seen = k.node \/ channels[k.node][k.topic] # None ->
              [k EXCEPT !.at = "subscribe"]
         [] OTHER -> [k EXCEPT !.at = "store"])
  /\ UNCHANGED <<store, alive, joined, loop, network, history, count>>

\* It reads the row of the name: a channel shown with another owner is refused,
\* an own one is joined again, and anything else is to be stored.
GetChannel(c) ==
  LET k == call[c] IN
  /\ At(c, "get")
  /\ Proceed(c,
       CASE k.seen \notin {k.node, None} -> None
         [] k.seen = k.node \/ channels[k.node][k.topic] = k.node ->
              [k EXCEPT !.at = "subscribe"]
         [] OTHER -> [k EXCEPT !.at = "store"])
  /\ UNCHANGED <<store, alive, joined, loop, network, history, count>>

\* upsert_channel leaves the row of another owner alone; create_channel takes
\* the channel for created either way.
StoreChannel(c) ==
  LET k == call[c] IN
  /\ At(c, "store")
  /\ channels' = [channels EXCEPT ![k.node][k.topic] = IF @ = None THEN k.node ELSE @]
  /\ Proceed(c, [k EXCEPT !.at = "subscribe", !.created = TRUE])
  /\ UNCHANGED <<subs, links, fresh, alive, joined, loop, network, history, count>>

\* A plain subscribe; the channel need not exist.
SubscribeTopic(c, n, t) ==
  /\ alive[n] /\ call[c] = None
  /\ calls < MaxCalls /\ calls' = calls + 1
  /\ Proceed(c, [node |-> n, topic |-> t, created |-> None, at |-> "subscribe",
                 seen |-> None])
  /\ UNCHANGED <<store, alive, joined, loop, network, history, broadcasts, expiries, crashes>>

\* SwarmCommand::Subscribe: the membership is stored, gossipsub joins the topic
\* and the new profile is announced.
HandleSubscribe(c) ==
  LET k == call[c] IN
  /\ At(c, "subscribe") /\ Idle(k.node)
  /\ subs' = [subs EXCEPT ![k.node] = @ \cup {k.topic}]
  /\ joined' = [joined EXCEPT ![k.node] = @ \cup {k.topic}]
  /\ Proceed(c, [k EXCEPT !.at = "announce"])
  /\ UNCHANGED <<channels, links, fresh, alive, loop, network, history, count>>

FinishSubscribe(c) ==
  LET k == call[c] IN
  /\ At(c, "announce")
  /\ Publish(k.node)
  /\ Proceed(c, [k EXCEPT !.at = "list"])
  /\ UNCHANGED <<store, alive, joined, loop, chatter, history, count>>

\* Fault: subscribe answers in create_channel's words.
AnswerAny(c) ==
  LET k == call[c] IN
  /\ At(c, "list")
  /\ answered' = answered \cup {<<k.node, k.topic, k.created>>}
  /\ Proceed(c, None)
  /\ UNCHANGED <<store, alive, joined, loop, network, heard, count>>

\* create_channel looks its channel up once more and answers; subscribe just
\* answers.
Answer(c) ==
  LET k == call[c] IN
  /\ At(c, "list")
  /\ answered' = IF k.created # None /\ Listed(k.node, k.topic)
                 THEN answered \cup {<<k.node, k.topic, k.created>>}
                 ELSE answered
  /\ Proceed(c, None)
  /\ UNCHANGED <<store, alive, joined, loop, network, heard, count>>

-----------------------------------------------------------------------------
\* Profiles

\* announce_profile: the interval timer and the Discover command.
AnnounceProfile(n) ==
  /\ Idle(n)
  /\ Publish(n)
  /\ UNCHANGED <<store, process, chatter, history, count>>

\* A MeshDirectRequest::Profile of m is answered.
ServeProfile(n, m) ==
  /\ Idle(n) /\ m \in Audience(n)
  /\ profiles' = profiles \cup {LocalProfile(n, m)}
  /\ UNCHANGED <<store, process, chatter, history, count>>

\* upsert_profile, up to its first write: the peer was seen now.
ReceiveProfile(p) ==
  /\ p \in profiles /\ Idle(p.to)
  /\ profiles' = profiles \ {p}
  /\ fresh' = [fresh EXCEPT ![p.to] = @ \cup {p.from}]
  /\ loop' = [loop EXCEPT ![p.to] = [at |-> "topics", profile |-> p]]
  /\ UNCHANGED <<channels, subs, links, alive, joined, call, chatter, history, count>>

\* replace_peer_topics, one transaction.
ReplaceTopics(n) ==
  LET p == loop[n].profile IN
  /\ loop[n] # None /\ loop[n].at = "topics"
  /\ links' = [links EXCEPT ![n] = {l \in @ : l[1] # p.from} \cup ({p.from} \X p.subs)]
  /\ loop' = [loop EXCEPT ![n].at = "channels"]
  /\ UNCHANGED <<channels, subs, fresh, alive, joined, call, network, history, count>>

\* replace_owned_channels, one transaction.
ReplaceChannels(n) ==
  LET p == loop[n].profile IN
  /\ loop[n] # None /\ loop[n].at = "channels"
  /\ channels' = [channels EXCEPT ![n] = ReplacedOwned(n, p.from, p.owned)]
  /\ loop' = [loop EXCEPT ![n] = None]
  /\ UNCHANGED <<subs, links, fresh, alive, joined, call, network, history, count>>

-----------------------------------------------------------------------------
\* Broadcasts

\* Fault: the fallback addresses every peer.
FallbackToAll(n, t) == fresh[n]

\* list_peers_by_topic.
Members(n, t) == {p \in Node : <<p, t>> \in links[n]}

\* SwarmCommand::Broadcast: gossip carries the message to daemons that joined
\* the topic; when gossipsub knows of none, which it may be wrong about, those
\* announced members whose transport is known get a direct envelope.
Broadcast(n, t) ==
  LET listeners == {m \in Node \ {n} : alive[m] /\ t \in joined[m]} IN
  /\ Idle(n)
  /\ broadcasts < MaxBroadcasts /\ broadcasts' = broadcasts + 1
  /\ \/ \E S \in SUBSET listeners :
          chatter' = chatter \cup {[to |-> m, topic |-> t, via |-> "gossip"] : m \in S}
     \/ \E S \in SUBSET Members(n, t) :
          chatter' = chatter \cup {[to |-> m, topic |-> t, via |-> "direct"] : m \in S}
  /\ UNCHANGED <<store, process, profiles, history, calls, expiries, crashes>>

\* apply_pubsub_message and accept_inbound_envelope store a broadcast without
\* asking for a grant; gossipsub hands up only topics it has joined.
HearBroadcast(b) ==
  /\ b \in chatter /\ Idle(b.to)
  /\ chatter' = chatter \ {b}
  /\ heard' = IF b.via = "direct" \/ b.topic \in joined[b.to]
              THEN heard \cup {<<b.to, b.topic>>} ELSE heard
  /\ UNCHANGED <<store, process, profiles, answered, count>>

-----------------------------------------------------------------------------
\* Time and the machines

\* A peer was not seen for longer than the visible window.
PeerExpires(n, p) ==
  /\ p \in fresh[n]
  /\ expiries < MaxExpiries /\ expiries' = expiries + 1
  /\ fresh' = [fresh EXCEPT ![n] = @ \ {p}]
  /\ UNCHANGED <<channels, subs, links, process, network, history, calls, broadcasts, crashes>>

Crash(n) ==
  /\ alive[n] /\ crashes < MaxCrashes
  /\ crashes' = crashes + 1
  /\ alive' = [alive EXCEPT ![n] = FALSE]
  /\ joined' = [joined EXCEPT ![n] = {}]
  /\ loop' = [loop EXCEPT ![n] = None]
  /\ call' = [c \in Caller |-> IF call[c] # None /\ call[c].node = n THEN None ELSE call[c]]
  /\ profiles' = {p \in profiles : p.to # n}
  /\ chatter' = {b \in chatter : b.to # n}
  /\ UNCHANGED <<store, history, calls, broadcasts, expiries>>

\* build_swarm joins the interests of the config.
Restart(n) ==
  /\ ~alive[n]
  /\ alive' = [alive EXCEPT ![n] = TRUE]
  /\ joined' = [joined EXCEPT ![n] = {t \in Topic : <<n, t>> \in Interest}]
  /\ UNCHANGED <<store, loop, call, network, history, count>>

-----------------------------------------------------------------------------
\* The specification

StartCall(c) ==
  \E n \in Node, t \in Topic : CreateChannel(c, n, t) \/ SubscribeTopic(c, n, t)

ContinueCall(c) ==
  \/ GetChannel(c)
  \/ StoreChannel(c)
  \/ HandleSubscribe(c)
  \/ FinishSubscribe(c)
  \/ Answer(c)

HandleProfile(n) ==
  \/ \E p \in profiles : p.to = n /\ ReceiveProfile(p)
  \/ ReplaceTopics(n)
  \/ ReplaceChannels(n)

Next ==
  \/ \E c \in Caller : StartCall(c)
  \/ \E c \in Caller : ContinueCall(c)
  \/ \E n \in Node : AnnounceProfile(n)
  \/ \E n, m \in Node : ServeProfile(n, m)
  \/ \E n \in Node : HandleProfile(n)
  \/ \E n \in Node, t \in Topic : Broadcast(n, t)
  \/ \E b \in chatter : HearBroadcast(b)
  \/ \E n, p \in Node : PeerExpires(n, p)
  \/ \E n \in Node : Crash(n)
  \/ \E n \in Node : Restart(n)

Spec == Init /\ [][Next]_vars

\* Peers ask each other for profiles on every connection and discovery pulse;
\* select! lets the loop get to them and to the calls; a daemon that died is
\* started again.
Fairness ==
  /\ \A l \in Link : SF_vars(ServeProfile(l[1], l[2]))
  /\ \A n \in Node : SF_vars(HandleProfile(n))
  /\ \A c \in Caller : SF_vars(ContinueCall(c))
  /\ \A n \in Node : WF_vars(Restart(n))

FairSpec == Spec /\ Fairness

-----------------------------------------------------------------------------
\* Properties

\* The variables have their types.
TypeOK ==
  /\ channels \in [Node -> [Topic -> Node \cup {None}]]
  /\ subs \in [Node -> SUBSET Topic]
  /\ links \in [Node -> SUBSET (Node \X Topic)]
  /\ fresh \in [Node -> SUBSET Node]
  /\ alive \in [Node -> BOOLEAN]
  /\ joined \in [Node -> SUBSET Topic]
  /\ loop \in [Node -> Handler \cup {None}]
  /\ call \in [Caller -> Call \cup {None}]
  /\ profiles \subseteq Profile
  /\ chatter \subseteq Chatter
  /\ answered \subseteq Node \X Topic \X BOOLEAN
  /\ heard \subseteq Node \X Topic
  /\ {calls, broadcasts, expiries, crashes} \subseteq Nat

\* A registry never attributes a channel to a daemon that does not claim it:
\* what a daemon believes of an owner agrees with the owner's own table, however
\* late or out of order the profiles came (local_profile_record, filter on the
\* owner; replace_owned_channels).
ClaimIsTrue ==
  \A n \in Node, t \in Topic :
    LET p == channels[n][t] IN p # None => channels[p][t] = p

\* The members a daemon counts for a channel have joined it: no stale profile
\* and no crash makes a member out of a daemon that never subscribed.
LinkIsTrue ==
  \A n \in Node : \A l \in links[n] : l[2] \in subs[l[1]]

\* A broadcast is stored only by a daemon whose operator subscribed to its topic
\* or listed it as an interest, over gossip and over the direct fallback.
BroadcastIsForMember ==
  \A h \in heard : h[2] \in subs[h[1]] \/ h \in Interest

\* When create_channel says the channel was there before, it was this node's
\* own, and it is joined.
ReuseIsOwn ==
  \A n \in Node, t \in Topic :
    <<n, t, FALSE>> \in answered => channels[n][t] = n /\ t \in subs[n]

\* Nothing another daemon says takes a channel from the daemon that owns it.
OwnerKeepsChannel ==
  [][\A n \in Node, t \in Topic : channels[n][t] = n => channels'[n][t] = n]_channels

\* The tables of all daemons are a book of names in which nobody invents an
\* owner and nobody loses a name: whatever profiles overtake each other and
\* whoever crashes, each table changes only by a claim of a free name or by the
\* news of names their owner still holds (upsert_channel, replace_owned_channels).
Names == INSTANCE Registry WITH owner <- channels
ImplementsRegistry == Names!Spec

\* A channel becomes known to every daemon its owner exchanges profiles with,
\* without any broadcast and whatever crashes on the way; a daemon that has the
\* name from someone else keeps that row.
ChannelSpreads ==
  \A l \in Link, t \in Topic :
    channels[l[1]][t] = l[1] ~> channels[l[2]][t] # None

\* create_channel reserves the name: when it says "created", the daemon owns
\* the channel.
CreatedIsReserved ==
  \A n \in Node, t \in Topic : <<n, t, TRUE>> \in answered => channels[n][t] = n
=============================================================================
