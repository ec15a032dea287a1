----------------------------- MODULE Delegation -----------------------------
(***************************************************************************)
(* Directed delivery and delegated work between WildMesh daemons.          *)
(*                                                                         *)
(* Every daemon owns one task, the swarm loop (swarm.rs, run_swarm_loop),  *)
(* that takes one item at a time: a command from the bounded mpsc channel  *)
(* the local HTTP API writes to, or an event of the libp2p swarm.  A       *)
(* handler awaits storage and the executor, so the API (which shares the   *)
(* SQLite file), the other daemons and a crash interleave with it: a       *)
(* handler that awaits between two effects is several actions here, and    *)
(* "loop" says how far it got.                                             *)
(*                                                                         *)
(* Messages are abstracted to what policy reads: kind, capability, the     *)
(* message replied to, and the outcome a delegate_result reports.          *)
(***************************************************************************)
EXTENDS Naturals, Sequences, FiniteSets

CONSTANTS
  Node,           \* daemons (application identities)
  Id,             \* message ids, uuid v4: never drawn twice
  Capability,     \* capability labels
  DelegateWork,   \* the label approve falls back to, "delegate_work"
  None,           \* an absent capability, reply, outcome, envelope or handler
  QueueCapacity,  \* slots of the command channel (128 in the code)
  Setting,        \* the <<node, mode>> pairs daemons may be started with
  Draft,          \* the messages local callers ask their daemon to send
  Decision,       \* the decisions the operators take, and where
  Addable,        \* the <<node, peer>> pairs the operators add by hand
  Grantable,      \* the <<node, peer, capability>> grants the operators touch
  MaxSends,       \* bound: messages submitted by local callers
  MaxDecisions,   \* bound: decisions submitted by operators
  MaxCrashes,     \* bound: daemon crashes
  Lossy,          \* may a direct request fail (timeout, closed connection)?
  Resends,        \* may the transport present an envelope again?
  StorageFails    \* may a write to SQLite or a validation fail?

Kind == {"task_offer", "delegate_request", "delegate_result"}
Outcome == {"completed", "failed", "denied"}

\* Envelope and the decrypted body, as far as a handler looks at them.  A
\* result this program builds has an outcome; any other message has none.
Envelope == [kind: Kind, from: Node, to: Node, cap: Capability \cup {None},
             reply: Id \cup {None}, outcome: Outcome \cup {None},
             wellFormed: BOOLEAN]

\* executor_mode and cooperate_enabled: no executor, an executor that waits for
\* the operator, an executor for whoever holds a grant.
Mode == {"disabled", "manual", "auto"}

\* The status column of the messages table.
OutboundStatus == {"queued", "delivered", "failed"}
InboundStatus == {"received", "blocked", "pending", "approved", "denied"}
Status == OutboundStatus \cup InboundStatus

\* SwarmCommand: an envelope the API built, a result a handler queued with
\* try_send, an operator's decision.
Command ==
       [op: {"send"}, id: Id]
  \cup [op: {"local"}, to: Node, reply: Id, outcome: Outcome]
  \cup [op: {"approve"}, id: Id, always: BOOLEAN, cap: Capability \cup {None}]
  \cup [op: {"deny"}, id: Id]

\* Requests and acknowledgements in flight.
AckResult == {"delivered", "blocked", "pending", "failed"}
Packet ==
       [type: {"request"}, id: Id]
  \cup [type: {"ack"}, id: Id, result: AckResult]

\* Where the handler that runs stands, the message it is about, the status it
\* decided on and whether an acknowledgement is owed.
Handler == [at: {"accept", "auto", "approve", "deny", "decided"}, id: Id,
            status: InboundStatus, ack: BOOLEAN]

ASSUME ConstantsAssumption ==
  /\ DelegateWork \in Capability
  /\ QueueCapacity \in Nat \ {0}
  /\ Setting \subseteq Node \X Mode
  /\ \A n \in Node : \E m \in Mode : <<n, m>> \in Setting
  /\ Draft \subseteq [from: Node, to: Node, kind: Kind,
                      cap: Capability \cup {None}, wellFormed: BOOLEAN]
  /\ \A d \in Draft : d.from # d.to
  /\ Decision \subseteq [at: Node, op: {"approve"}, always: BOOLEAN,
                         cap: Capability \cup {None}]
                   \cup [at: Node, op: {"deny"}]
  /\ Addable \subseteq Node \X Node
  /\ Grantable \subseteq Node \X Node \X Capability
  /\ MaxSends \in Nat /\ MaxDecisions \in Nat /\ MaxCrashes \in Nat
  /\ Lossy \in BOOLEAN /\ Resends \in BOOLEAN /\ StorageFails \in BOOLEAN
ASSUME NoneAssumption ==
  /\ None \notin Envelope /\ None \notin Handler
  /\ None \notin Id /\ None \notin Outcome /\ None \notin Status

VARIABLES
  env,      \* the envelope built under each id (immutable once built)
  wire,     \* packets in flight
  \* SQLite: survives a crash
  peers,    \* the peers table of each node
  row,      \* the messages table: id -> status, for the ids it holds
  grants,   \* the grants table
  \* the daemon process
  alive,    \* is the daemon up?
  mode,     \* executor_mode and cooperate_enabled, read at start
  known,    \* known_transport_by_app
  queue,    \* the command channel
  pending,  \* pending_sends: outbound envelopes awaiting an acknowledgement
  loop,     \* the handler in progress
  waiting,  \* sends whose HTTP caller still waits for its oneshot
  \* history
  ran,      \* <<request, authority>>: executions started
  trusted,  \* every grant ever stored
  failed,   \* of the sends in waiting, those the transport gave up
  decisions, crashes   \* counters for the bounds

network == <<env, wire>>
store == <<peers, row, grants, trusted>>
process == <<alive, mode, known, queue, pending, loop, waiting>>
count == <<decisions, crashes, failed>>
vars == <<network, store, process, ran, count>>

-----------------------------------------------------------------------------
\* Helpers

Built == {i \in Id : env[i] # None}

Recorded(n, i) == row[n][i] # None

Idle(n) == alive[n] /\ loop[n] = None

\* Fault: the capacity is compared off by one.
HasRoomOffByOne(n) == Len(queue[n]) <= QueueCapacity
HasRoom(n) == Len(queue[n]) < QueueCapacity

\* has_grant: a message without a capability label needs no grant.
HasGrant(n, p, c) == c = None \/ <<n, p, c>> \in grants

\* Fault: a result that replies to nothing passes for a reply.
AnyReplyContext(n, i) ==
  LET r == env[i].reply
  IN  r = None \/ (env[r].from = n /\ env[r].to = env[i].from)

\* matches_reply_context: the message replied to is an outbound message of
\* this node to the peer that replies.
InReplyContext(n, i) ==
  LET r == env[i].reply
  IN  r # None /\ Recorded(n, r) /\ env[r].from = n /\ env[r].to = env[i].from

\* Fault: auto-cooperation does not ask for a grant.
UngrantedVerdict(n, i) ==
  IF env[i].kind = "delegate_request"
  THEN IF mode[n] = "auto" THEN "received" ELSE "pending"
  ELSE IF InReplyContext(n, i) \/ HasGrant(n, env[i].from, env[i].cap)
       THEN "received" ELSE "blocked"

\* The status accept_inbound_envelope gives a new message.
Verdict(n, i) ==
  LET granted == HasGrant(n, env[i].from, env[i].cap)
  IN  CASE env[i].kind = "delegate_request" ->
             IF granted /\ mode[n] = "auto" THEN "received" ELSE "pending"
        [] env[i].kind = "delegate_result" ->
             IF InReplyContext(n, i) \/ granted THEN "received" ELSE "blocked"
        [] OTHER -> IF granted THEN "received" ELSE "blocked"

AckFor(status) == IF status = "received" THEN "delivered" ELSE status

Request(i) == [type |-> "request", id |-> i]

Ack(i, result) == [type |-> "ack", id |-> i, result |-> result]

\* The acknowledgement goes back only to a sender that still waits for it.
Acked(h, result) == wire \cup (IF h.ack THEN {Ack(h.id, result)} ELSE {})

\* save_message and update_message_status, whose error most callers drop.
Save(n, i, status) ==
  \/ row' = [row EXCEPT ![n][i] = status]
  \/ StorageFails /\ UNCHANGED row

Busy(n, at, i, status, ack) ==
  loop' = [loop EXCEPT ![n] = [at |-> at, id |-> i, status |-> status, ack |-> ack]]

Done(n) == loop' = [loop EXCEPT ![n] = None]

ResultOf(i, outcome) ==
  [op |-> "local", to |-> env[i].from, reply |-> i, outcome |-> outcome]

-----------------------------------------------------------------------------
\* Initially every daemon runs on a fresh home.

Init ==
  /\ env = [i \in Id |-> None]
  /\ wire = {}
  /\ peers = [n \in Node |-> {}]
  /\ row = [n \in Node |-> [i \in Id |-> None]]
  /\ grants = {}
  /\ alive = [n \in Node |-> TRUE]
  /\ mode \in [Node -> Mode] /\ \A n \in Node : <<n, mode[n]>> \in Setting
  /\ known = [n \in Node |-> {}]
  /\ queue = [n \in Node |-> <<>>]
  /\ pending = [n \in Node |-> {}]
  /\ loop = [n \in Node |-> None]
  /\ waiting = {}
  /\ ran = {}
  /\ trusted = {}
  /\ failed = {}
  /\ decisions = 0 /\ crashes = 0

-----------------------------------------------------------------------------
\* The local HTTP API

\* send_message, delegate_work: the peer must be in the peers table; the
\* envelope is built here and queued, and the caller waits.  A caller that
\* finds the channel full is suspended before it has any effect.
SendMessage(n) ==
  \E d \in Draft, i \in Id \ Built, r \in Built \cup {None} :
    /\ alive[n] /\ HasRoom(n)
    /\ d.from = n /\ d.to \in peers[n]
    /\ r = None \/ d.kind = "delegate_result"
    /\ Cardinality({j \in Built : env[j].outcome = None}) < MaxSends
    /\ env' = [env EXCEPT ![i] =
                 [kind |-> d.kind, from |-> n, to |-> d.to, cap |-> d.cap,
                  reply |-> r, outcome |-> None, wellFormed |-> d.wellFormed]]
    /\ queue' = [queue EXCEPT ![n] = Append(@, [op |-> "send", id |-> i])]
    /\ waiting' = waiting \cup {i}
    /\ UNCHANGED <<wire, store, alive, mode, known, pending, loop, ran, count>>

\* approve_delegate_request, deny_delegate_request: the operator names any
\* message of the local store, decided already or not.
Decide(n) ==
  \E d \in Decision, i \in Id :
    /\ d.at = n /\ alive[n] /\ HasRoom(n)
    /\ decisions < MaxDecisions
    /\ decisions' = decisions + 1
    /\ Recorded(n, i)
    /\ queue' = [queue EXCEPT ![n] = Append(@,
         IF d.op = "deny" THEN [op |-> "deny", id |-> i]
         ELSE [op |-> "approve", id |-> i, always |-> d.always, cap |-> d.cap])]
    /\ UNCHANGED <<network, store, alive, mode, known, pending, loop, waiting,
                   ran, crashes, failed>>

\* grant_capability and revoke_capability go straight to SQLite, whatever the
\* loop is doing.
GrantCapability(g) ==
  /\ alive[g[1]]
  /\ grants' = grants \cup {g}
  /\ trusted' = trusted \cup {g}
  /\ UNCHANGED <<network, peers, row, process, ran, count>>

RevokeCapability(g) ==
  /\ alive[g[1]]
  /\ g \in grants
  /\ grants' = grants \ {g}
  /\ UNCHANGED <<network, peers, row, trusted, process, ran, count>>

\* add_peer records a peer without a transport.
AddPeer(n, p) ==
  /\ <<n, p>> \in Addable /\ alive[n]
  /\ peers' = [peers EXCEPT ![n] = @ \cup {p}]
  /\ UNCHANGED <<network, row, grants, trusted, process, ran, count>>

-----------------------------------------------------------------------------
\* Swarm events

\* upsert_profile: a profile received from p gives its transport and is
\* stored; the insert may fail after the transport is known.
LearnProfile(n, p) ==
  /\ Idle(n) /\ alive[p] /\ n # p
  /\ known' = [known EXCEPT ![n] = @ \cup {p}]
  /\ \/ peers' = [peers EXCEPT ![n] = @ \cup {p}]
     \/ StorageFails /\ UNCHANGED peers
  /\ UNCHANGED <<network, row, grants, trusted, alive, mode, queue, pending,
                 loop, waiting, ran, count>>

\* Fault: a new message is acknowledged before it is stored.
EarlyAck(n, i, ack) ==
  /\ Idle(n) /\ env[i].to = n
  /\ known' = [known EXCEPT ![n] = @ \cup {env[i].from}]
  /\ wire' = IF ack THEN (wire \ {Request(i)}) \cup {Ack(i, "delivered")} ELSE wire
  /\ IF Recorded(n, i) THEN UNCHANGED loop
                       ELSE Busy(n, "accept", i, Verdict(n, i), FALSE)
  /\ UNCHANGED <<env, store, alive, mode, queue, pending, waiting, ran, count>>

\* Fault: message_exists is not asked.
NoDuplicateCheck(n, i, ack) ==
  /\ Idle(n) /\ env[i].to = n
  /\ known' = [known EXCEPT ![n] = @ \cup {env[i].from}]
  /\ wire' = wire \ (IF ack THEN {Request(i)} ELSE {})
  /\ Busy(n, "accept", i, Verdict(n, i), ack)
  /\ UNCHANGED <<env, store, alive, mode, queue, pending, waiting, ran, count>>

\* handle_direct_request up to the write of accept_inbound_envelope: the
\* sender's transport is remembered, a known id is acknowledged and ignored,
\* and the policy of a new message is read.  A lookup that fails is told.
AcceptEnvelope(n, i, ack) ==
  /\ Idle(n) /\ env[i].to = n
  /\ known' = [known EXCEPT ![n] = @ \cup {env[i].from}]
  /\ \E result \in {"delivered"} \cup (IF StorageFails THEN {"failed"} ELSE {}) :
       wire' = (wire \ (IF ack THEN {Request(i)} ELSE {}))
               \cup (IF ack /\ Recorded(n, i) THEN {Ack(i, result)} ELSE {})
  /\ IF Recorded(n, i) THEN UNCHANGED loop
                       ELSE Busy(n, "accept", i, Verdict(n, i), ack)
  /\ UNCHANGED <<env, store, alive, mode, queue, pending, waiting, ran, count>>

\* A request arrives.
ReceiveRequest(n, p) ==
  /\ p \in wire /\ p.type = "request"
  /\ AcceptEnvelope(n, p.id, TRUE)

\* An envelope that was sent arrives once more; its sender no longer waits
\* for this acknowledgement.
ReceiveAgain(n, i) ==
  /\ Resends
  /\ i \in Built /\ Recorded(env[i].from, i)
  /\ AcceptEnvelope(n, i, FALSE)

\* The rest of accept_inbound_envelope and maybe_handle_collaboration: the
\* message is stored; a delegate request that policy admits starts to execute
\* and is acknowledged when that ends, any other message is acknowledged now.
StoreInbound(n) ==
  LET h == loop[n]
      executes == /\ env[h.id].kind = "delegate_request"
                  /\ h.status = "received" /\ env[h.id].wellFormed
  IN
  /\ alive[n] /\ h # None /\ h.at = "accept"
  /\ row' = [row EXCEPT ![n][h.id] = h.status]
  /\ IF executes
     THEN /\ Busy(n, "auto", h.id, h.status, h.ack)
          /\ ran' = ran \cup {<<h.id, "auto">>}
          /\ UNCHANGED wire
     ELSE /\ Done(n)
          /\ wire' = Acked(h, AckFor(h.status))
          /\ UNCHANGED ran
  /\ UNCHANGED <<env, peers, grants, trusted, alive, mode, known, queue, pending,
                 waiting, count>>

\* Fault: an envelope that could not be stored is acknowledged as delivered.
RejectAsDelivered(n) ==
  /\ StorageFails
  /\ alive[n] /\ loop[n] # None /\ loop[n].at = "accept"
  /\ Done(n)
  /\ wire' = Acked(loop[n], "delivered")
  /\ UNCHANGED <<env, store, alive, mode, known, queue, pending, waiting, ran, count>>

\* Fault: a handler that fails sends no answer at all.
RejectSilently(n) ==
  /\ StorageFails
  /\ alive[n] /\ loop[n] # None /\ loop[n].at = "accept"
  /\ Done(n)
  /\ UNCHANGED <<network, store, alive, mode, known, queue, pending, waiting, ran, count>>

\* accept_inbound_envelope fails (a check bails or the store does): nothing is
\* recorded and the sender is told "failed".
RejectInbound(n) ==
  /\ StorageFails
  /\ alive[n] /\ loop[n] # None /\ loop[n].at = "accept"
  /\ Done(n)
  /\ wire' = Acked(loop[n], "failed")
  /\ UNCHANGED <<env, store, alive, mode, known, queue, pending, waiting, ran, count>>

\* The executor answers an automatic execution: the result, or the failure,
\* is queued with try_send and lost when the channel is full.
FinishAuto(n) ==
  LET h == loop[n] IN
  /\ alive[n] /\ h # None /\ h.at = "auto"
  /\ IF HasRoom(n)
     THEN \E outcome \in {"completed", "failed"} :
            queue' = [queue EXCEPT ![n] = Append(@, ResultOf(h.id, outcome))]
     ELSE UNCHANGED queue
  /\ Done(n)
  /\ wire' = Acked(h, "delivered")
  /\ UNCHANGED <<env, store, alive, mode, known, pending, waiting, ran, count>>

\* An acknowledgement: the outbound row is written and the caller answered.
\* One that no pending send waits for is ignored.
ReceiveAck(n, p) ==
  /\ Idle(n) /\ p \in wire /\ p.type = "ack" /\ env[p.id].from = n
  /\ wire' = wire \ {p}
  /\ IF p.id \in pending[n]
     THEN /\ pending' = [pending EXCEPT ![n] = @ \ {p.id}]
          /\ waiting' = waiting \ {p.id}
          /\ Save(n, p.id, IF p.result \in {"delivered", "blocked"}
                           THEN "delivered" ELSE "failed")
     ELSE UNCHANGED <<pending, waiting, row>>
  /\ UNCHANGED <<env, peers, grants, trusted, alive, mode, known, queue, loop,
                 ran, count>>

-----------------------------------------------------------------------------
\* Commands

Receives(n, op) == Idle(n) /\ queue[n] # <<>> /\ Head(queue[n]).op = op

Dequeue(n) == queue' = [queue EXCEPT ![n] = Tail(@)]

\* Fault: the outbound row is left to the acknowledgement.
TransmitUnrecorded(n, i) ==
  /\ wire' = wire \cup {Request(i)}
  /\ pending' = [pending EXCEPT ![n] = @ \cup {i}]
  /\ UNCHANGED row

\* What SendEnvelope and SendLocalMessage share: the row is saved as queued,
\* the request handed to libp2p and remembered until its acknowledgement.
Transmit(n, i) ==
  /\ Save(n, i, "queued")
  /\ wire' = wire \cup {Request(i)}
  /\ pending' = [pending EXCEPT ![n] = @ \cup {i}]

\* SwarmCommand::SendEnvelope: a peer without a known transport is an error
\* for the caller, and nothing is recorded.
SendEnvelope(n) ==
  LET i == Head(queue[n]).id IN
  /\ Receives(n, "send")
  /\ Dequeue(n)
  /\ IF env[i].to \in known[n]
     THEN Transmit(n, i) /\ UNCHANGED waiting
     ELSE waiting' = waiting \ {i} /\ UNCHANGED <<wire, row, pending>>
  /\ UNCHANGED <<env, peers, grants, trusted, alive, mode, known, loop, ran, count>>

\* SwarmCommand::SendLocalMessage for a delegate_result: the envelope is built
\* here; for a requester that is not a peer, cannot be looked up or has no known
\* transport it is dropped without a trace, since no one waits for the answer.
SendLocalMessage(n) ==
  LET c == Head(queue[n]) IN
  /\ Receives(n, "local")
  /\ Dequeue(n)
  /\ \/ /\ c.to \in peers[n] /\ c.to \in known[n]
        /\ \E i \in Id \ Built :
             /\ env' = [env EXCEPT ![i] =
                  [kind |-> "delegate_result", from |-> n, to |-> c.to,
                   cap |-> DelegateWork, reply |-> c.reply,
                   outcome |-> c.outcome, wellFormed |-> TRUE]]
             /\ Transmit(n, i)
     \/ /\ c.to \notin peers[n] \/ c.to \notin known[n] \/ StorageFails
        /\ UNCHANGED <<network, row, pending>>
  /\ UNCHANGED <<peers, grants, trusted, alive, mode, known, loop, waiting, ran,
                 count>>

\* Fault: a request that was decided may be decided again.
RedecideAny(n, i) ==
  /\ Recorded(n, i) /\ env[i].to = n
  /\ env[i].kind = "delegate_request" /\ env[i].wellFormed

\* A decision applies to an inbound delegate request that is still pending.
Decidable(n, i) == row[n][i] = "pending" /\ env[i].wellFormed

\* The capability always_allow grants.
TrustedCapability(c) ==
  CASE c.cap # None -> c.cap
    [] c.cap = None /\ env[c.id].cap # None -> env[c.id].cap
    [] OTHER -> DelegateWork

\* approve_pending_delegate_request up to the executor: the grant is stored
\* first, and stays when the executor is disabled.  If the request cannot be
\* read, or the grant not stored, nothing happens.
Approve(n) ==
  LET c == Head(queue[n]) IN
  /\ Receives(n, "approve")
  /\ Dequeue(n)
  /\ \/ /\ Decidable(n, c.id)
        /\ IF c.always
           THEN LET g == <<n, env[c.id].from, TrustedCapability(c)>>
                IN  grants' = grants \cup {g} /\ trusted' = trusted \cup {g}
           ELSE UNCHANGED <<grants, trusted>>
        /\ IF mode[n] = "disabled"
           THEN UNCHANGED <<loop, ran>>
           ELSE /\ Busy(n, "approve", c.id, "approved", FALSE)
                /\ ran' = ran \cup {<<c.id, "approved">>}
     \/ /\ ~Decidable(n, c.id) \/ StorageFails
        /\ UNCHANGED <<grants, trusted, loop, ran>>
  /\ UNCHANGED <<network, peers, row, alive, mode, known, pending, waiting, count>>

\* The executor answers an approved execution.  When it fails, or its result
\* finds no room in the channel, the request stays pending.
FinishApproved(n) ==
  LET h == loop[n] IN
  /\ alive[n] /\ h # None /\ h.at = "approve"
  /\ \/ /\ HasRoom(n)
        /\ queue' = [queue EXCEPT ![n] = Append(@, ResultOf(h.id, "completed"))]
        /\ Busy(n, "decided", h.id, "approved", FALSE)
     \/ Done(n) /\ UNCHANGED queue
  /\ UNCHANGED <<network, store, alive, mode, known, pending, waiting, ran, count>>

\* deny_pending_delegate_request up to the queueing of the denial.
Deny(n) ==
  LET c == Head(queue[n]) IN
  /\ Receives(n, "deny")
  /\ Dequeue(n)
  /\ \/ Decidable(n, c.id) /\ Busy(n, "deny", c.id, "denied", FALSE)
     \/ (~Decidable(n, c.id) \/ StorageFails) /\ UNCHANGED loop
  /\ UNCHANGED <<network, store, alive, mode, known, pending, waiting, ran, count>>

\* The denial is queued with try_send; when the channel is full the request
\* stays pending.
QueueDenial(n) ==
  LET h == loop[n] IN
  /\ alive[n] /\ h # None /\ h.at = "deny"
  /\ IF HasRoom(n)
     THEN /\ queue' = [queue EXCEPT ![n] = Append(@, ResultOf(h.id, "denied"))]
          /\ Busy(n, "decided", h.id, "denied", FALSE)
     ELSE Done(n) /\ UNCHANGED queue
  /\ UNCHANGED <<network, store, alive, mode, known, pending, waiting, ran, count>>

\* Fault: the decision is not written.
ForgetDecision(n) ==
  /\ alive[n] /\ loop[n] # None /\ loop[n].at = "decided"
  /\ Done(n)
  /\ UNCHANGED <<network, store, alive, mode, known, queue, pending, waiting, ran, count>>

\* The decision is written once its result is in the channel.
RecordDecision(n) ==
  LET h == loop[n] IN
  /\ alive[n] /\ h # None /\ h.at = "decided"
  /\ Save(n, h.id, h.status)
  /\ Done(n)
  /\ UNCHANGED <<network, peers, grants, trusted, alive, mode, known, queue,
                 pending, waiting, ran, count>>

-----------------------------------------------------------------------------
\* The transport and the machines

\* A request, or its acknowledgement, is lost: libp2p reports OutboundFailure
\* to the sender, which handle_swarm_event ignores: the pending send stays.
RequestFails(p) ==
  /\ Lossy
  /\ p \in wire
  /\ wire' = wire \ {p}
  /\ failed' = failed \cup ({p.id} \cap waiting)
  /\ UNCHANGED <<env, store, process, ran, decisions, crashes>>

\* The message whose acknowledgement the handler of n has yet to send.
Owed(n) == {i \in waiting : loop[n] # None /\ loop[n].id = i /\ loop[n].ack}

\* The daemon dies: what it held in memory is gone, with the connections on
\* which acknowledgements and HTTP answers were to come back; the sender of a
\* request it was about to answer is told OutboundFailure.
Crash(n) ==
  /\ alive[n] /\ crashes < MaxCrashes
  /\ crashes' = crashes + 1
  /\ alive' = [alive EXCEPT ![n] = FALSE]
  /\ known' = [known EXCEPT ![n] = {}]
  /\ queue' = [queue EXCEPT ![n] = <<>>]
  /\ pending' = [pending EXCEPT ![n] = {}]
  /\ loop' = [loop EXCEPT ![n] = None]
  /\ waiting' = {i \in waiting : env[i].from # n}
  /\ wire' = {p \in wire : ~(p.type = "ack" /\ env[p.id].from = n)}
  /\ failed' = {i \in failed \cup Owed(n) : env[i].from # n}
  /\ UNCHANGED <<env, store, mode, ran, decisions>>

\* It is started again on the same home, with the settings now in its config.
Restart(n) ==
  /\ ~alive[n]
  /\ alive' = [alive EXCEPT ![n] = TRUE]
  /\ \E m \in Mode : <<n, m>> \in Setting /\ mode' = [mode EXCEPT ![n] = m]
  /\ UNCHANGED <<network, store, known, queue, pending, loop, waiting, ran, count>>

-----------------------------------------------------------------------------
\* The specification

LocalApi ==
  \/ \E n \in Node : SendMessage(n)
  \/ \E n \in Node : Decide(n)
  \/ \E g \in Grantable : GrantCapability(g)
  \/ \E g \in Grantable : RevokeCapability(g)
  \/ \E n, p \in Node : AddPeer(n, p)

SwarmEvent(n) ==
  \/ \E p \in Node : LearnProfile(n, p)
  \/ \E p \in wire : ReceiveRequest(n, p)
  \/ \E i \in Id : ReceiveAgain(n, i)
  \/ \E p \in wire : ReceiveAck(n, p)

HandleCommand(n) ==
  \/ SendEnvelope(n)
  \/ SendLocalMessage(n)
  \/ Approve(n)
  \/ Deny(n)

\* The continuation of the handler that runs.
Resume(n) ==
  \/ StoreInbound(n)
  \/ RejectInbound(n)
  \/ FinishAuto(n)
  \/ FinishApproved(n)
  \/ QueueDenial(n)
  \/ RecordDecision(n)

Environment ==
  \/ \E p \in wire : RequestFails(p)
  \/ \E n \in Node : Crash(n)
  \/ \E n \in Node : Restart(n)

Next ==
  \/ LocalApi
  \/ \E n \in Node : SwarmEvent(n)
  \/ \E n \in Node : HandleCommand(n)
  \/ \E n \in Node : Resume(n)
  \/ Environment

Spec == Init /\ [][Next]_vars

\* tokio::select! picks at random among the ready branches, so neither the
\* command channel nor the swarm is starved for ever, and a handler that has
\* started ends: storage answers, and the executor has a timeout.  Profiles are
\* announced periodically, and a daemon that died is started again.
DeliverPacket(n) ==
  \E p \in wire : ReceiveRequest(n, p) \/ ReceiveAck(n, p)

Fairness ==
  \A n \in Node :
    /\ WF_vars(Resume(n))
    /\ SF_vars(HandleCommand(n))
    /\ SF_vars(DeliverPacket(n))
    /\ WF_vars(\E p \in Node : LearnProfile(n, p))
    /\ WF_vars(Restart(n))

FairSpec == Spec /\ Fairness

-----------------------------------------------------------------------------
\* Properties

\* The variables have their types; in particular no handler runs in a daemon
\* that is down, and the channel never exceeds its capacity.
TypeOK ==
  /\ env \in [Id -> Envelope \cup {None}]
  /\ wire \subseteq Packet
  /\ peers \in [Node -> SUBSET Node]
  /\ row \in [Node -> [Id -> Status \cup {None}]]
  /\ grants \subseteq Node \X Node \X Capability
  /\ alive \in [Node -> BOOLEAN]
  /\ mode \in [Node -> Mode]
  /\ known \in [Node -> SUBSET Node]
  /\ queue \in [Node -> Seq(Command)]
  /\ \A n \in Node : Len(queue[n]) <= QueueCapacity
  /\ pending \in [Node -> SUBSET Id]
  /\ loop \in [Node -> Handler \cup {None}]
  /\ waiting \subseteq Id
  /\ ran \subseteq Id \X {"auto", "approved"}
  /\ trusted \subseteq Node \X Node \X Capability
  /\ failed \subseteq Id
  /\ decisions \in Nat /\ crashes \in Nat

\* What TypeOK rests on: whatever refers to a message refers to one that was
\* built, and the handler of an inbound message is about a message to its node.
BuiltCommand == {c \in Command : c.op # "local" => c.id \in Built}
RefersToBuilt ==
  /\ \A p \in wire : p.id \in Built
  /\ \A n \in Node, i \in Id :
       Recorded(n, i) => i \in Built /\ (row[n][i] \in InboundStatus => env[i].to = n)
  /\ \A n \in Node : queue[n] \in Seq(BuiltCommand)
HandlerIsInbound ==
  \A n \in Node : loop[n] # None =>
    LET h == loop[n]
    IN  /\ h.id \in Built /\ env[h.id].to = n
        /\ h.at = "accept" => h.status \in {"received", "blocked", "pending"}
        /\ h.at # "accept" => Recorded(n, h.id)

\* What DeliveredIsRecorded rests on: an acknowledgement in flight is no lie.
AckIsHonest ==
  \A p \in wire :
    (p.type = "ack" /\ p.result \in {"delivered", "blocked"})
      => Recorded(env[p.id].to, p.id)

\* A receipt is never a lie: a message its sender records as delivered is in
\* the recipient's store, whatever crashed, was lost or came twice meanwhile
\* (accept_inbound_envelope saves before the acknowledgement is sent).
DeliveredIsRecorded ==
  \A i \in Built :
    row[env[i].from][i] = "delivered" => Recorded(env[i].to, i)

\* What the policy of accept_inbound_envelope keeps of "remote input is not
\* authority": a request that names a capability runs without the operator only
\* if the operator had stored that grant at some time, and it is in the store,
\* as received, before it runs; one the operator has to decide on is never also
\* run automatically.  A request that names no capability is exempt, because
\* has_grant exempts it; GrantIsHeld states the rule without the exemption.
ExecutionIsAuthorized ==
  \A i \in Id :
    /\ <<i, "auto">> \in ran =>
         /\ row[env[i].to][i] = "received"
         /\ env[i].cap = None \/ <<env[i].to, env[i].from, env[i].cap>> \in trusted
    /\ <<i, "approved">> \in ran =>
         row[env[i].to][i] \in {"pending", "approved", "denied"}

\* What the documentation says of auto-cooperation, "remote peer must still hold
\* the relevant capability grant": whatever a daemon runs without its operator,
\* it runs for a peer that was once granted the capability the request names,
\* or delegated work when it names none (the label approve falls back to).
GrantIsHeld ==
  \A i \in Id : <<i, "auto">> \in ran =>
    LET c == IF env[i].cap = None THEN DelegateWork ELSE env[i].cap
    IN  <<env[i].to, env[i].from, c>> \in trusted

\* A result that reaches a node's inbox as received answers a message this
\* node sent to that very peer, unless the peer was once trusted with the
\* result's capability or the result names none (matches_reply_context).
ResultIsSolicited ==
  \A n \in Node, i \in Built :
    (env[i].kind = "delegate_result" /\ env[i].to = n /\ row[n][i] = "received")
      => LET r == env[i].reply
         IN  \/ r # None /\ env[r].from = n /\ env[r].to = env[i].from
             \/ env[i].cap = None
             \/ <<n, env[i].from, env[i].cap>> \in trusted

\* The converse: the answer a daemon builds to a request is never blocked by
\* the node that asked, which records a request before it sends it.
AnswerIsNotBlocked ==
  \A i \in Built :
    env[i].outcome # None => row[env[i].to][i] # "blocked"

\* A request has at most one answer, across retried approvals, a denial after
\* a failed approval, duplicates and crashes.
OneAnswer ==
  \A i, j \in Built :
    (env[i].outcome # None /\ env[j].outcome # None /\ env[i].reply = env[j].reply)
      => i = j

\* The answer tells what was decided: "completed" comes from an execution of
\* a request admitted or approved, "denied" from a recorded denial.
AnswerMatchesDecision ==
  \A i \in Built :
    LET r == env[i].reply
        worker == env[i].from
    IN  /\ env[i].outcome = "completed" =>
             \/ <<r, "auto">> \in ran /\ row[worker][r] = "received"
             \/ <<r, "approved">> \in ran /\ row[worker][r] = "approved"
        /\ env[i].outcome = "failed" => row[worker][r] = "received"
        /\ env[i].outcome = "denied" => row[worker][r] = "denied"

\* The status of a message only moves forward: an outbound one from queued to
\* delivered or failed, an inbound one from pending to one decision, and no
\* other status ever changes or disappears.
Successors(s) ==
  CASE s = "queued" -> {"delivered", "failed"}
    [] s = "pending" -> {"approved", "denied"}
    [] OTHER -> {}

StatusIsFinal ==
  [][\A n \in Node, i \in Id :
       Recorded(n, i) => row'[n][i] \in {row[n][i]} \cup Successors(row[n][i])]_row

\* A denied request is not executed any more.
NoRunAfterDenial ==
  [][\A n \in Node :
       LET h == loop'[n]
       IN  h # None /\ h # loop[n] /\ h.at \in {"auto", "approve"}
             => row[n][h.id] \notin {"approved", "denied"}]_vars

\* What became of the requests: the status at the worker, the executions in
\* progress (an approved one until its decision is recorded), those there ever
\* were, and the results sent.
StatusOf(i) ==
  IF env[i] # None /\ env[i].kind = "delegate_request" THEN row[env[i].to][i] ELSE None

Executes(h, i) ==
  /\ h # None /\ h.id = i
  /\ h.at \in {"auto", "approve"} \/ (h.at = "decided" /\ h.status = "approved")

Work == INSTANCE DelegatedWork WITH
  status <- [i \in Id |-> StatusOf(i)],
  running <- {i \in Id : \E n \in Node : Executes(loop[n], i)},
  ran <- {i \in Id : \E authority \in {"auto", "approved"} : <<i, authority>> \in ran},
  answers <- {[request |-> env[j].reply, id |-> j, outcome |-> env[j].outcome] :
                j \in {k \in Built : env[k].outcome # None}}

\* As long as storage does not fail, messages, channels, handlers, retried
\* decisions and crashes together keep the promise of DelegatedWork: one
\* admission or hold, executions only then, one decision, one answer, by what
\* became of the request.
ImplementsDelegatedWork == Work!Spec

\* Every caller that submitted a message is answered in the end, with an error
\* when the send was refused, could not be stored or was turned down: the daemon
\* that receives a request answers it on every path.  The only callers that wait
\* for ever are those whose request the transport gave up, because
\* handle_swarm_event drops the OutboundFailure that says so.
CallIsAnswered ==
  \A i \in Id : i \in waiting ~> i \notin waiting \/ i \in failed

\* An approved or denied request leads to a result the requester receives.
DecisionReachesRequester ==
  \A n \in Node, i \in Id :
    row[n][i] \in {"approved", "denied"} ~>
      \E j \in Built : /\ env[j].reply = i /\ env[j].outcome # None
                       /\ Recorded(env[j].to, j)
=============================================================================
