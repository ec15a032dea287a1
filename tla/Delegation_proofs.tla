------------------------- MODULE Delegation_proofs --------------------------
(***************************************************************************)
(* Theorems about Delegation, for any set of daemons, messages and         *)
(* capabilities, any channel capacity, workload and bounds, and whether or *)
(* not requests are lost, repeated or storage fails.                       *)
(*                                                                         *)
(* The inductive invariant is TypeOK with RefersToBuilt (an envelope is    *)
(* read only through ids that were built) and HandlerIsInbound (what the   *)
(* handler in progress may assume); AckIsHonest is added to it to show     *)
(* that no delivery receipt is a lie.  ChannelSound says what the command  *)
(* channel and the pending sends hold: each message once, before it has a  *)
(* row, and results only for the node that asked.                          *)
(***************************************************************************)
EXTENDS Delegation, TLAPS

IInv == TypeOK /\ RefersToBuilt /\ HandlerIsInbound

-----------------------------------------------------------------------------
\* Facts about the operators

\* What the handlers do to a command channel: try_send and recv keep it
\* within its type and its capacity.
LEMMA AppendInRoom ==
  ASSUME NEW S, NEW s \in Seq(S), NEW c \in S, Len(s) < QueueCapacity
  PROVE  /\ Append(s, c) \in Seq(S)
         /\ Len(Append(s, c)) <= QueueCapacity
  <1>1. Len(s) \in Nat /\ QueueCapacity \in Nat
    BY ConstantsAssumption
  <1>2. Len(Append(s, c)) = Len(s) + 1
    OBVIOUS
  <1>3. QED
    BY <1>1, <1>2

LEMMA TailInRoom ==
  ASSUME NEW S, NEW s \in Seq(S), s # <<>>, Len(s) <= QueueCapacity
  PROVE  /\ Tail(s) \in Seq(S)
         /\ Head(s) \in S
         /\ Len(Tail(s)) <= QueueCapacity
  <1>1. Len(s) \in Nat /\ QueueCapacity \in Nat
    BY ConstantsAssumption
  <1>2. Len(Tail(s)) = Len(s) - 1 /\ Tail(s) \in Seq(S) /\ Head(s) \in S
    OBVIOUS
  <1>3. QED
    BY <1>1, <1>2

\* Building an envelope under a fresh id changes no other, and a sound channel
\* stays sound.
LEMMA BuildEnvelope ==
  ASSUME NEW i \in Id \ Built, NEW e \in Envelope,
         env \in [Id -> Envelope \cup {None}],
         env' = [env EXCEPT ![i] = e]
  PROVE  /\ env' \in [Id -> Envelope \cup {None}]
         /\ Built' = Built \cup {i}
         /\ env'[i] = e
         /\ \A j \in Built : env'[j] = env[j]
         /\ BuiltCommand \subseteq BuiltCommand'
         /\ \A s \in Seq(BuiltCommand) : s \in Seq(BuiltCommand')
  <1>1. env' \in [Id -> Envelope \cup {None}]
    OBVIOUS
  <1>2. Built' = Built \cup {i} /\ env'[i] = e /\ \A j \in Built : env'[j] = env[j]
    BY NoneAssumption DEF Built
  <1>3. BuiltCommand \subseteq BuiltCommand'
    BY <1>2 DEF BuiltCommand
  <1>4. QED
    BY <1>1, <1>2, <1>3

\* The channels, as IInv describes them, and the two ways a step changes one.
QueuesOK ==
  /\ queue \in [Node -> Seq(Command)]
  /\ \A n \in Node : Len(queue[n]) <= QueueCapacity /\ queue[n] \in Seq(BuiltCommand)

LEMMA QueuesOKFromIInv == IInv => QueuesOK
  BY DEF IInv, TypeOK, RefersToBuilt, QueuesOK

LEMMA Enqueue ==
  ASSUME QueuesOK, NEW n \in Node, HasRoom(n), NEW c \in Command, c \in BuiltCommand',
         \A s \in Seq(BuiltCommand) : s \in Seq(BuiltCommand'),
         queue' = [queue EXCEPT ![n] = Append(@, c)]
  PROVE  QueuesOK'
  <1>1. queue'[n] = Append(queue[n], c) /\ \A m \in Node \ {n} : queue'[m] = queue[m]
    BY DEF QueuesOK
  <1>2. queue'[n] \in Seq(Command) /\ Len(queue'[n]) <= QueueCapacity
    BY <1>1, AppendInRoom DEF QueuesOK, HasRoom
  <1>3. queue'[n] \in Seq(BuiltCommand')
    BY <1>1 DEF QueuesOK
  <1>4. queue' \in [Node -> Seq(Command)]
    BY <1>1, <1>2 DEF QueuesOK
  <1>5. QED
    BY <1>1, <1>2, <1>3, <1>4 DEF QueuesOK

LEMMA DequeueOne ==
  ASSUME QueuesOK, NEW n \in Node, queue[n] # <<>>, Dequeue(n),
         \A s \in Seq(BuiltCommand) : s \in Seq(BuiltCommand')
  PROVE  QueuesOK' /\ Head(queue[n]) \in BuiltCommand
  <1>1. queue'[n] = Tail(queue[n]) /\ \A m \in Node \ {n} : queue'[m] = queue[m]
    BY DEF QueuesOK, Dequeue
  <1>2. /\ queue'[n] \in Seq(Command) /\ Len(queue'[n]) <= QueueCapacity
        /\ queue'[n] \in Seq(BuiltCommand) /\ Head(queue[n]) \in BuiltCommand
    BY <1>1, TailInRoom DEF QueuesOK
  <1>3. queue' \in [Node -> Seq(Command)]
    BY <1>1, <1>2 DEF QueuesOK, Dequeue
  <1>4. QED
    BY <1>1, <1>2, <1>3 DEF QueuesOK

LEMMA UpdateSet ==
  ASSUME NEW S, NEW T, NEW f, f \in [S -> SUBSET T], NEW x \in S, NEW Y \in SUBSET T
  PROVE  [f EXCEPT ![x] = Y] \in [S -> SUBSET T]
  OBVIOUS

\* A write of one row.
LEMMA SaveOne ==
  ASSUME TypeOK, NEW n \in Node, NEW i \in Id, NEW s \in Status, Save(n, i, s)
  PROVE  /\ row' \in [Node -> [Id -> Status \cup {None}]]
         /\ \A m \in Node, j \in Id : row'[m][j] = row[m][j] \/ (m = n /\ j = i /\ row'[m][j] = s)
         /\ \A m \in Node, j \in Id : Recorded(m, j) => Recorded(m, j)'
  <1>1. CASE row' = [row EXCEPT ![n][i] = s]
    <2>1. row' \in [Node -> [Id -> Status \cup {None}]]
      BY <1>1 DEF TypeOK
    <2>2. \A m \in Node, j \in Id : row'[m][j] = IF m = n /\ j = i THEN s ELSE row[m][j]
      BY <1>1 DEF TypeOK
    <2>3. QED
      BY <2>1, <2>2, NoneAssumption DEF Recorded
  <1>2. CASE row' = row
    BY <1>2 DEF TypeOK, Recorded
  <1>3. QED
    BY <1>1, <1>2 DEF Save

\* A step that leaves the handlers and the envelopes built alone, and forgets
\* no row, keeps what the handlers rely on.
LEMMA HandlerKept ==
  ASSUME HandlerIsInbound, loop' = loop, \A j \in Built : env'[j] = env[j],
         \A m \in Node, j \in Id : Recorded(m, j) => Recorded(m, j)'
  PROVE  HandlerIsInbound'
  <1> SUFFICES ASSUME NEW m \in Node, loop[m] # None
               PROVE  /\ loop[m].id \in Built' /\ env'[loop[m].id].to = m
                      /\ loop[m].at = "accept" => loop[m].status \in {"received", "blocked", "pending"}
                      /\ loop[m].at # "accept" => row'[m][loop[m].id] # None
    BY DEF HandlerIsInbound, Recorded
  <1>1. loop[m].id \in Id /\ loop[m].id \in Built
    BY DEF HandlerIsInbound, Built
  <1>2. loop[m].id \in Built'
    BY <1>1 DEF Built
  <1>3. QED
    BY <1>1, <1>2 DEF HandlerIsInbound, Recorded

\* A handler ends, or a handler that may rely on what it needs takes over.
LEMMA HandlerChanged ==
  ASSUME TypeOK, HandlerIsInbound, NEW n \in Node, env' = env,
         \A m \in Node, j \in Id : Recorded(m, j) => row'[m][j] # None,
         NEW h, loop' = [loop EXCEPT ![n] = h],
         h # None => /\ h \in Handler
                     /\ h.id \in Built /\ env[h.id].to = n
                     /\ h.at = "accept" => h.status \in {"received", "blocked", "pending"}
                     /\ h.at # "accept" => row'[n][h.id] # None
  PROVE  HandlerIsInbound' /\ loop' \in [Node -> Handler \cup {None}]
  <1>1. loop' \in [Node -> Handler \cup {None}]
    BY DEF TypeOK
  <1>2. loop'[n] = h /\ \A m \in Node \ {n} : loop'[m] = loop[m]
    BY DEF TypeOK
  <1>3. \A m \in Node \ {n} : loop[m] # None => row'[m][loop[m].id] # None \/ loop[m].at = "accept"
    BY DEF HandlerIsInbound, Recorded, Built
  <1>4. QED
    BY <1>1, <1>2, <1>3 DEF HandlerIsInbound, Recorded, Built

LEMMA SameEnvelopes ==
  ASSUME env' = env
  PROVE  Built' = Built /\ BuiltCommand' = BuiltCommand
  BY DEF Built, BuiltCommand

-----------------------------------------------------------------------------
\* Type correctness

LEMMA InitIInv == Init => IInv
  <1> SUFFICES ASSUME Init PROVE IInv
    OBVIOUS
  <1> USE ConstantsAssumption DEF Init
  <1>1. TypeOK
    BY DEF TypeOK
  <1>2. RefersToBuilt
    BY NoneAssumption DEF RefersToBuilt, Recorded, InboundStatus, Status
  <1>3. HandlerIsInbound
    BY DEF HandlerIsInbound
  <1>4. QED
    BY <1>1, <1>2, <1>3 DEF IInv

LEMMA SendMessageIInv ==
  ASSUME IInv, NEW n \in Node, SendMessage(n)
  PROVE  IInv'
  <1> USE ConstantsAssumption DEF network, store, process, count
  <1>1. PICK d \in Draft, i \in Id \ Built, r \in Built \cup {None} :
          /\ alive[n] /\ HasRoom(n) /\ d.from = n
          /\ env' = [env EXCEPT ![i] =
               [kind |-> d.kind, from |-> n, to |-> d.to, cap |-> d.cap,
                reply |-> r, outcome |-> None, wellFormed |-> d.wellFormed]]
          /\ queue' = [queue EXCEPT ![n] = Append(@, [op |-> "send", id |-> i])]
          /\ waiting' = waiting \cup {i}
          /\ UNCHANGED <<wire, store, alive, mode, known, pending, loop, ran, count>>
    BY DEF SendMessage
  <1> DEFINE e == [kind |-> d.kind, from |-> n, to |-> d.to, cap |-> d.cap,
                   reply |-> r, outcome |-> None, wellFormed |-> d.wellFormed]
             c == [op |-> "send", id |-> i]
  <1>2. e \in Envelope
    BY DEF Envelope, Built
  <1>3. /\ env' \in [Id -> Envelope \cup {None}]
        /\ Built' = Built \cup {i}
        /\ \A j \in Built : env'[j] = env[j]
        /\ \A s \in Seq(BuiltCommand) : s \in Seq(BuiltCommand')
    <2> HIDE DEF e
    <2>1. env' = [env EXCEPT ![i] = e]
      BY <1>1 DEF e
    <2>2. QED
      BY <1>2, <2>1, BuildEnvelope DEF IInv, TypeOK
  <1>4. QueuesOK'
    <2>1. c \in Command /\ c \in BuiltCommand'
      BY <1>3 DEF Command, BuiltCommand
    <2> HIDE DEF c
    <2>2. QED
      BY <1>1, <1>3, <2>1, Enqueue, QueuesOKFromIInv DEF c
  <1>5. TypeOK'
    BY <1>1, <1>3, <1>4 DEF IInv, TypeOK, QueuesOK
  <1>6. RefersToBuilt'
    BY <1>1, <1>3, <1>4 DEF IInv, RefersToBuilt, Recorded, QueuesOK
  <1>7. HandlerIsInbound'
    BY <1>1, <1>3 DEF IInv, TypeOK, HandlerIsInbound, Recorded
  <1>8. QED
    BY <1>5, <1>6, <1>7 DEF IInv

LEMMA DecideIInv ==
  ASSUME IInv, NEW n \in Node, Decide(n)
  PROVE  IInv'
  <1> USE ConstantsAssumption DEF network, store, process, count
  <1>1. PICK d \in Decision, i \in Id :
          /\ HasRoom(n) /\ Recorded(n, i)
          /\ queue' = [queue EXCEPT ![n] = Append(@,
               IF d.op = "deny" THEN [op |-> "deny", id |-> i]
               ELSE [op |-> "approve", id |-> i, always |-> d.always, cap |-> d.cap])]
          /\ decisions' = decisions + 1
          /\ UNCHANGED <<network, store, alive, mode, known, pending, loop, waiting,
                         ran, crashes, failed>>
    BY DEF Decide
  <1> DEFINE c == IF d.op = "deny" THEN [op |-> "deny", id |-> i]
                  ELSE [op |-> "approve", id |-> i, always |-> d.always, cap |-> d.cap]
  <1>2. Built' = Built /\ BuiltCommand' = BuiltCommand
    BY <1>1, SameEnvelopes
  <1>3. c \in Command /\ c \in BuiltCommand'
    BY <1>1, <1>2 DEF Command, BuiltCommand, IInv, RefersToBuilt
  <1>4. QueuesOK'
    <2> HIDE DEF c
    <2> QED BY <1>1, <1>2, <1>3, Enqueue, QueuesOKFromIInv DEF c
  <1> HIDE DEF c
  <1>5. /\ decisions' \in Nat
        /\ UNCHANGED <<network, store, alive, mode, known, pending, loop, waiting,
                       ran, crashes, failed>>
    BY <1>1 DEF IInv, TypeOK
  <1>6. TypeOK'
    BY <1>4, <1>5 DEF IInv, TypeOK, QueuesOK
  <1>7. RefersToBuilt' /\ HandlerIsInbound'
    BY <1>2, <1>4, <1>5 DEF IInv, RefersToBuilt, HandlerIsInbound, Recorded, QueuesOK
  <1>8. QED
    BY <1>6, <1>7 DEF IInv

LEMMA ApiIInv == IInv /\ LocalApi => IInv'
  <1> SUFFICES ASSUME IInv, LocalApi PROVE IInv'
    OBVIOUS
  <1> USE ConstantsAssumption DEF network, store, process, count
  <1>1. CASE \E n \in Node : SendMessage(n)
    BY <1>1, SendMessageIInv
  <1>2. CASE \E n \in Node : Decide(n)
    BY <1>2, DecideIInv
  <1>3. CASE \E g \in Grantable : GrantCapability(g)
    BY <1>3 DEF GrantCapability, IInv, TypeOK, RefersToBuilt, HandlerIsInbound, Built, BuiltCommand, Recorded
  <1>4. CASE \E g \in Grantable : RevokeCapability(g)
    BY <1>4 DEF RevokeCapability, IInv, TypeOK, RefersToBuilt, HandlerIsInbound, Built, BuiltCommand, Recorded
  <1>5. CASE \E n, p \in Node : AddPeer(n, p)
    BY <1>5 DEF AddPeer, IInv, TypeOK, RefersToBuilt, HandlerIsInbound, Built, BuiltCommand, Recorded
  <1>6. QED
    BY <1>1, <1>2, <1>3, <1>4, <1>5 DEF LocalApi

\* A request is taken off the wire, and only a duplicate is acknowledged.
LEMMA AcceptedOnWire ==
  ASSUME NEW n \in Node, NEW i \in Built, NEW ack \in BOOLEAN, AcceptEnvelope(n, i, ack)
  PROVE  \A p \in wire' :
           p \in wire \/ (p \in Packet /\ p.id = i /\ row[env[i].to][i] # None)
  <1>1. \A result \in {"delivered", "failed"} :
          Ack(i, result) \in Packet /\ Ack(i, result).id = i
    BY DEF Ack, Packet, AckResult, Built
  <1>2. PICK result \in {"delivered", "failed"} :
          wire' = (wire \ (IF ack THEN {Request(i)} ELSE {}))
                  \cup (IF ack /\ Recorded(n, i) THEN {Ack(i, result)} ELSE {})
    BY DEF AcceptEnvelope
  <1>3. env[i].to = n
    BY DEF AcceptEnvelope
  <1>4. \A p \in wire' : p \in wire \/ (p = Ack(i, result) /\ row[env[i].to][i] # None)
    BY <1>2, <1>3 DEF Recorded
  <1>5. Ack(i, result) \in Packet /\ Ack(i, result).id = i
    BY <1>1, <1>2
  <1>6. QED
    BY <1>4, <1>5

\* The swarm events.
LEMMA SwarmEventIInv ==
  ASSUME IInv, NEW n \in Node, SwarmEvent(n)
  PROVE  IInv'
  <1> USE ConstantsAssumption DEF network, store, process, count
  <1>1. CASE \E p \in Node : LearnProfile(n, p)
    <2>1. PICK p \in Node : LearnProfile(n, p)
      BY <1>1
    <2>2. peers' \in [Node -> SUBSET Node] /\ known' \in [Node -> SUBSET Node]
      <3>1. peers \in [Node -> SUBSET Node] /\ known \in [Node -> SUBSET Node]
        BY DEF IInv, TypeOK
      <3>2. /\ peers' = peers \/ peers' = [peers EXCEPT ![n] = @ \cup {p}]
            /\ known' = [known EXCEPT ![n] = @ \cup {p}]
        BY <2>1 DEF LearnProfile
      <3>3. peers[n] \cup {p} \in SUBSET Node /\ known[n] \cup {p} \in SUBSET Node
        BY <3>1
      <3>4. QED
        BY <3>1, <3>2, <3>3, UpdateSet
    <2>3. Built' = Built /\ BuiltCommand' = BuiltCommand
      BY <2>1, SameEnvelopes DEF LearnProfile
    <2>4. QED
      BY <2>1, <2>2, <2>3
      DEF LearnProfile, IInv, TypeOK, RefersToBuilt, HandlerIsInbound, Recorded
  <1>2. ASSUME NEW i \in Built, NEW ack \in BOOLEAN, AcceptEnvelope(n, i, ack)
        PROVE  IInv'
    <2>1. Built' = Built /\ BuiltCommand' = BuiltCommand
      BY <1>2, SameEnvelopes DEF AcceptEnvelope
    <2>2. Verdict(n, i) \in {"received", "blocked", "pending"}
      BY DEF Verdict
    <2>3. env[i] \in Envelope /\ env[i].from \in Node
      BY DEF Built, IInv, TypeOK, Envelope
    <2>4. wire' \subseteq Packet /\ \A p \in wire' : p.id \in Built
      BY <1>2, AcceptedOnWire DEF IInv, TypeOK, RefersToBuilt
    <2>5. HandlerIsInbound' /\ loop' \in [Node -> Handler \cup {None}]
      <3>1. CASE loop' = loop
        BY <1>2, <3>1, HandlerKept DEF AcceptEnvelope, IInv, TypeOK, Recorded
      <3>2. CASE Busy(n, "accept", i, Verdict(n, i), ack)
        <4> DEFINE h == [at |-> "accept", id |-> i, status |-> Verdict(n, i), ack |-> ack]
        <4>1. h \in Handler /\ h.id = i /\ h.at = "accept" /\ h.status = Verdict(n, i)
          BY <2>2 DEF Handler, InboundStatus, Built
        <4>2. loop' = [loop EXCEPT ![n] = h]
          BY <3>2 DEF Busy
        <4> HIDE DEF h
        <4>3. env' = env /\ row' = row /\ env[i].to = n
          BY <1>2 DEF AcceptEnvelope
        <4>4. QED
          BY <2>2, <4>1, <4>2, <4>3, HandlerChanged DEF IInv, Recorded
      <3>3. QED
        BY <1>2, <3>1, <3>2 DEF AcceptEnvelope
    <2>6. TypeOK'
      <3>1. known' = [known EXCEPT ![n] = @ \cup {env[i].from}]
            /\ UNCHANGED <<env, store, alive, mode, queue, pending, waiting, ran, count>>
        BY <1>2 DEF AcceptEnvelope
      <3>2. known' \in [Node -> SUBSET Node]
        <4>1. known \in [Node -> SUBSET Node]
          BY DEF IInv, TypeOK
        <4>2. known[n] \cup {env[i].from} \in SUBSET Node
          BY <2>3, <4>1
        <4>3. QED
          BY <3>1, <4>1, <4>2, UpdateSet
      <3>3. QED
        BY <2>4, <2>5, <3>1, <3>2 DEF IInv, TypeOK
    <2>7. RefersToBuilt'
      <3>1. UNCHANGED <<env, row, queue>>
        BY <1>2 DEF AcceptEnvelope
      <3>2. QED
        BY <2>1, <2>4, <3>1 DEF IInv, RefersToBuilt, Recorded
    <2>8. QED
      BY <2>5, <2>6, <2>7 DEF IInv
  <1>3. CASE \E p \in wire : ReceiveRequest(n, p)
    BY <1>2, <1>3 DEF ReceiveRequest, IInv, RefersToBuilt
  <1>4. CASE \E i \in Id : ReceiveAgain(n, i)
    BY <1>2, <1>4 DEF ReceiveAgain
  <1>5. CASE \E p \in wire : ReceiveAck(n, p)
    <2>1. PICK p \in wire : ReceiveAck(n, p)
      BY <1>5
    <2>2. Built' = Built /\ BuiltCommand' = BuiltCommand
      BY <2>1, SameEnvelopes DEF ReceiveAck
    <2>3. p.id \in Id /\ p.id \in Built
      BY DEF IInv, RefersToBuilt, Built
    <2>4. /\ row' \in [Node -> [Id -> Status \cup {None}]]
          /\ \A m \in Node, j \in Id :
               row'[m][j] = row[m][j] \/ (row'[m][j] \in OutboundStatus /\ j = p.id)
          /\ \A m \in Node, j \in Id : Recorded(m, j) => Recorded(m, j)'
      <3>1. CASE p.id \in pending[n]
        <4>1. PICK s \in {"delivered", "failed"} : Save(n, p.id, s)
          BY <2>1, <3>1 DEF ReceiveAck
        <4>2. QED
          BY <2>3, <4>1, SaveOne DEF IInv, Status, OutboundStatus
      <3>2. CASE p.id \notin pending[n]
        BY <2>1, <3>2 DEF ReceiveAck, IInv, TypeOK, Recorded
      <3>3. QED
        BY <3>1, <3>2
    <2>5. TypeOK'
      <3>1. wire' \subseteq Packet /\ waiting' \subseteq Id
            /\ pending' \in [Node -> SUBSET Id]
        <4>1. \/ pending' = [pending EXCEPT ![n] = @ \ {p.id}] /\ waiting' = waiting \ {p.id}
              \/ pending' = pending /\ waiting' = waiting
          BY <2>1 DEF ReceiveAck
        <4>2. pending' \in [Node -> SUBSET Id] /\ waiting' \subseteq Id
          <5>1. pending \in [Node -> SUBSET Id] /\ waiting \subseteq Id
            BY DEF IInv, TypeOK
          <5>2. pending[n] \ {p.id} \in SUBSET Id
            BY <5>1
          <5>3. QED
            BY <4>1, <5>1, <5>2, UpdateSet
        <4>3. QED
          BY <2>1, <4>2 DEF ReceiveAck, IInv, TypeOK
      <3>2. QED
        BY <2>1, <2>4, <3>1 DEF ReceiveAck, IInv, TypeOK
    <2>6. RefersToBuilt'
      BY <2>1, <2>2, <2>3, <2>4
      DEF ReceiveAck, IInv, RefersToBuilt, Recorded, OutboundStatus, InboundStatus
    <2>7. HandlerIsInbound'
      BY <2>1, <2>4, HandlerKept DEF ReceiveAck, IInv
    <2>8. QED
      BY <2>5, <2>6, <2>7 DEF IInv
  <1>6. QED
    BY <1>1, <1>3, <1>4, <1>5 DEF SwarmEvent

\* The commands.
LEMMA SendEnvelopeIInv ==
  ASSUME IInv, NEW n \in Node, SendEnvelope(n)
  PROVE  IInv'
  <1> USE ConstantsAssumption DEF network, store, process, count
  <1> DEFINE i == Head(queue[n]).id
  <1>1. Receives(n, "send") /\ Dequeue(n) /\ env' = env /\ loop' = loop
    BY DEF SendEnvelope
  <1>2. Built' = Built /\ BuiltCommand' = BuiltCommand
    BY <1>1, SameEnvelopes
  <1>3. QueuesOK' /\ Head(queue[n]) \in BuiltCommand
    BY <1>1, <1>2, DequeueOne, QueuesOKFromIInv DEF Receives
  <1>4. i \in Id /\ i \in Built
    BY <1>1, <1>3 DEF Receives, BuiltCommand, Built
  <1>5. /\ row' \in [Node -> [Id -> Status \cup {None}]]
        /\ \A m \in Node, j \in Id :
             row'[m][j] = row[m][j] \/ (row'[m][j] = "queued" /\ j = i)
        /\ \A m \in Node, j \in Id : Recorded(m, j) => Recorded(m, j)'
    <2>1. CASE row' = row
      BY <2>1 DEF IInv, TypeOK, Recorded
    <2>2. CASE Save(n, i, "queued")
      BY <1>4, <2>2, SaveOne DEF IInv, Status, OutboundStatus
    <2>3. QED
      BY <2>1, <2>2 DEF SendEnvelope, Transmit
  <1>6. /\ wire' \subseteq wire \cup {Request(i)} /\ waiting' \subseteq Id
        /\ pending' \in [Node -> SUBSET Id]
    <2>1. pending' = pending \/ pending' = [pending EXCEPT ![n] = @ \cup {i}]
      BY DEF SendEnvelope, Transmit
    <2>2. pending' \in [Node -> SUBSET Id]
      <3>1. pending \in [Node -> SUBSET Id]
        BY DEF IInv, TypeOK
      <3>2. pending[n] \cup {i} \in SUBSET Id
        BY <1>4, <3>1
      <3>3. QED
        BY <2>1, <3>1, <3>2, UpdateSet
    <2>3. wire' \subseteq wire \cup {Request(i)} /\ waiting' \subseteq Id
      BY DEF SendEnvelope, Transmit, IInv, TypeOK
    <2>4. QED
      BY <2>2, <2>3
  <1>7. UNCHANGED <<env, peers, grants, trusted, alive, mode, known, loop, ran, count>>
    BY DEF SendEnvelope
  <1> HIDE DEF i
  <1>8. Request(i) \in Packet /\ Request(i).id = i
    BY <1>4 DEF Request, Packet
  <1>9. TypeOK'
    BY <1>3, <1>5, <1>6, <1>7, <1>8 DEF IInv, TypeOK, QueuesOK
  <1>10. RefersToBuilt'
    <2>1. \A p \in wire' : p.id \in Built'
      BY <1>2, <1>4, <1>6, <1>8 DEF IInv, RefersToBuilt
    <2>2. \A m \in Node, j \in Id :
            Recorded(m, j)' => j \in Built' /\ (row'[m][j] \in InboundStatus => env'[j].to = m)
      BY <1>2, <1>4, <1>5, <1>7 DEF IInv, RefersToBuilt, Recorded, InboundStatus
    <2>3. QED
      BY <1>3, <2>1, <2>2 DEF RefersToBuilt, Recorded, QueuesOK
  <1>11. HandlerIsInbound'
    BY <1>5, <1>7, HandlerKept DEF IInv
  <1>12. QED
    BY <1>9, <1>10, <1>11 DEF IInv

LEMMA SendLocalMessageIInv ==
  ASSUME IInv, NEW n \in Node, SendLocalMessage(n)
  PROVE  IInv'
  <1> USE ConstantsAssumption DEF network, store, process, count
  <1> DEFINE c == Head(queue[n])
  <1>1. /\ Receives(n, "local") /\ Dequeue(n)
        /\ UNCHANGED <<peers, grants, trusted, alive, mode, known, loop, waiting, ran, count>>
    BY DEF SendLocalMessage
  <1>2. c \in BuiltCommand /\ c \in Command
    <2>1. queue[n] # <<>> /\ queue[n] \in Seq(BuiltCommand)
      BY <1>1 DEF Receives, IInv, RefersToBuilt
    <2>2. QED
      BY <2>1 DEF BuiltCommand
  <1>3. c.to \in Node /\ c.reply \in Id /\ c.outcome \in Outcome
    BY <1>1, <1>2 DEF Receives, Command
  <1> HIDE DEF c
  <1>4. CASE env' = env /\ wire' = wire /\ row' = row /\ pending' = pending
    <2>1. Built' = Built /\ BuiltCommand' = BuiltCommand
      BY <1>4, SameEnvelopes
    <2>2. QueuesOK'
      BY <1>1, <2>1, DequeueOne, QueuesOKFromIInv DEF Receives
    <2>3. QED
      BY <1>1, <1>4, <2>1, <2>2
      DEF IInv, TypeOK, RefersToBuilt, HandlerIsInbound, Recorded, QueuesOK
  <1>5. ASSUME NEW i \in Id \ Built, Transmit(n, i),
               env' = [env EXCEPT ![i] =
                 [kind |-> "delegate_result", from |-> n, to |-> c.to,
                  cap |-> DelegateWork, reply |-> c.reply,
                  outcome |-> c.outcome, wellFormed |-> TRUE]]
        PROVE  IInv'
    <2> DEFINE e == [kind |-> "delegate_result", from |-> n, to |-> c.to,
                     cap |-> DelegateWork, reply |-> c.reply,
                     outcome |-> c.outcome, wellFormed |-> TRUE]
    <2>1. e \in Envelope
      BY <1>3 DEF Envelope, Kind
    <2>2. /\ env' \in [Id -> Envelope \cup {None}]
          /\ Built' = Built \cup {i}
          /\ \A j \in Built : env'[j] = env[j]
          /\ \A s \in Seq(BuiltCommand) : s \in Seq(BuiltCommand')
      <3> HIDE DEF e
      <3>1. env' = [env EXCEPT ![i] = e]
        BY <1>5 DEF e
      <3>2. QED
        BY <2>1, <3>1, BuildEnvelope DEF IInv, TypeOK
    <2>3. QueuesOK'
      BY <1>1, <2>2, DequeueOne, QueuesOKFromIInv DEF Receives
    <2>4. /\ row' \in [Node -> [Id -> Status \cup {None}]]
          /\ \A m \in Node, j \in Id :
               row'[m][j] = row[m][j] \/ (row'[m][j] = "queued" /\ j = i)
          /\ \A m \in Node, j \in Id : Recorded(m, j) => Recorded(m, j)'
      BY <1>5, SaveOne DEF Transmit, IInv, Status, OutboundStatus
    <2>5. Request(i) \in Packet /\ Request(i).id = i
      BY DEF Request, Packet
    <2>6. wire' = wire \cup {Request(i)}
      BY <1>5 DEF Transmit
    <2>7. pending' \in [Node -> SUBSET Id]
      <3>1. pending \in [Node -> SUBSET Id]
        BY DEF IInv, TypeOK
      <3>2. pending[n] \cup {i} \in SUBSET Id
        BY <3>1
      <3>3. QED
        BY <1>5, <3>1, <3>2, UpdateSet DEF Transmit
    <2>8. TypeOK'
      BY <1>1, <2>2, <2>3, <2>4, <2>5, <2>6, <2>7 DEF IInv, TypeOK, QueuesOK
    <2>9. RefersToBuilt'
      <3>1. \A p \in wire' : p.id \in Built'
        BY <2>2, <2>5, <2>6 DEF IInv, RefersToBuilt
      <3>2. \A m \in Node, j \in Id :
              Recorded(m, j)' => j \in Built' /\ (row'[m][j] \in InboundStatus => env'[j].to = m)
        BY <2>2, <2>4 DEF IInv, RefersToBuilt, Recorded, InboundStatus
      <3>3. QED
        BY <2>3, <3>1, <3>2 DEF RefersToBuilt, Recorded, QueuesOK
    <2>10. HandlerIsInbound'
      BY <1>1, <2>2, <2>4, HandlerKept DEF IInv
    <2>11. QED
      BY <2>8, <2>9, <2>10 DEF IInv
  <1>6. QED
    BY <1>4, <1>5 DEF SendLocalMessage, c

\* What Approve and Deny share: the command leaves the channel, and a request
\* that may be decided is one to this node that its store holds.
LEMMA DecisionIInv ==
  ASSUME IInv, NEW n \in Node, NEW op \in {"approve", "deny"}, Receives(n, op), Dequeue(n),
         UNCHANGED <<network, peers, row, alive, mode, known, pending, waiting, count>>,
         grants' \subseteq Node \X Node \X Capability,
         trusted' \subseteq Node \X Node \X Capability,
         ran' \subseteq Id \X {"auto", "approved"},
         \/ loop' = loop
         \/ /\ Decidable(n, Head(queue[n]).id)
            /\ \E s \in {"approved", "denied"} : Busy(n, op, Head(queue[n]).id, s, FALSE)
  PROVE  IInv'
  <1> USE DEF network, count
  <1> DEFINE i == Head(queue[n]).id
  <1>1. Built' = Built /\ BuiltCommand' = BuiltCommand
    BY SameEnvelopes
  <1>2. QueuesOK' /\ Head(queue[n]) \in BuiltCommand
    BY <1>1, DequeueOne, QueuesOKFromIInv DEF Receives
  <1>3. i \in Built /\ i \in Id
    BY <1>2 DEF Receives, BuiltCommand, Built
  <1> HIDE DEF i
  <1>4. HandlerIsInbound' /\ loop' \in [Node -> Handler \cup {None}]
    <2>1. CASE loop' = loop
      BY <2>1, HandlerKept DEF IInv, TypeOK, Recorded
    <2>2. CASE Decidable(n, i) /\ \E s \in {"approved", "denied"} : Busy(n, op, i, s, FALSE)
      <3>1. PICK s \in {"approved", "denied"} : Busy(n, op, i, s, FALSE)
        BY <2>2
      <3> DEFINE h == [at |-> op, id |-> i, status |-> s, ack |-> FALSE]
      <3>2. h \in Handler /\ h.id = i /\ h.at = op /\ op # "accept"
        BY <1>3 DEF Handler, InboundStatus
      <3>3. loop' = [loop EXCEPT ![n] = h]
        BY <3>1 DEF Busy
      <3> HIDE DEF h
      <3>4. row'[n][i] # None /\ env[i].to = n
        BY <1>3, <2>2, NoneAssumption
        DEF Decidable, IInv, RefersToBuilt, Recorded, Status, InboundStatus
      <3>5. \A m \in Node, j \in Id : Recorded(m, j) => row'[m][j] # None
        BY DEF Recorded
      <3>6. QED
        BY <1>3, <3>2, <3>3, <3>4, <3>5, HandlerChanged DEF IInv
    <2>3. QED
      BY <2>1, <2>2 DEF i
  <1>5. TypeOK'
    BY <1>2, <1>4 DEF IInv, TypeOK, QueuesOK
  <1>6. RefersToBuilt'
    BY <1>1, <1>2 DEF IInv, RefersToBuilt, Recorded, QueuesOK
  <1>7. QED
    BY <1>4, <1>5, <1>6 DEF IInv

LEMMA ApproveIInv ==
  ASSUME IInv, NEW n \in Node, Approve(n)
  PROVE  IInv'
  <1> DEFINE c == Head(queue[n])
  <1>1. /\ Receives(n, "approve") /\ Dequeue(n)
        /\ UNCHANGED <<network, peers, row, alive, mode, known, pending, waiting, count>>
    BY DEF Approve
  <1>2. c \in BuiltCommand /\ c \in Command
    <2>1. queue[n] # <<>> /\ queue[n] \in Seq(BuiltCommand)
      BY <1>1 DEF Receives, IInv, RefersToBuilt
    <2>2. QED
      BY <2>1 DEF BuiltCommand
  <1>3. c.id \in Built /\ c.id \in Id /\ c.cap \in Capability \cup {None}
    BY <1>1, <1>2 DEF Receives, BuiltCommand, Command, Built
  <1>4. env[c.id].from \in Node /\ env[c.id].cap \in Capability \cup {None}
    BY <1>3 DEF Built, IInv, TypeOK, Envelope
  <1>5. TrustedCapability(c) \in Capability
    BY <1>3, <1>4, ConstantsAssumption DEF TrustedCapability
  <1>6. /\ grants' \subseteq grants \cup {<<n, env[c.id].from, TrustedCapability(c)>>}
        /\ trusted' \subseteq trusted \cup {<<n, env[c.id].from, TrustedCapability(c)>>}
        /\ ran' \subseteq ran \cup {<<c.id, "approved">>}
    BY DEF Approve
  <1>7. /\ grants' \subseteq Node \X Node \X Capability
        /\ trusted' \subseteq Node \X Node \X Capability
        /\ ran' \subseteq Id \X {"auto", "approved"}
    <2> HIDE DEF c
    <2>1. /\ grants \subseteq Node \X Node \X Capability
          /\ trusted \subseteq Node \X Node \X Capability
          /\ ran \subseteq Id \X {"auto", "approved"}
      BY DEF IInv, TypeOK
    <2>2. <<n, env[c.id].from, TrustedCapability(c)>> \in Node \X Node \X Capability
      BY <1>4, <1>5
    <2>3. <<c.id, "approved">> \in Id \X {"auto", "approved"}
      BY <1>3
    <2>4. QED
      BY <1>6, <2>1, <2>2, <2>3
  <1>8. \/ loop' = loop
        \/ Decidable(n, c.id) /\ Busy(n, "approve", c.id, "approved", FALSE)
    BY DEF Approve
  <1>9. QED
    BY <1>1, <1>7, <1>8, DecisionIInv

LEMMA DenyIInv ==
  ASSUME IInv, NEW n \in Node, Deny(n)
  PROVE  IInv'
  <1>1. \/ loop' = loop
        \/ Decidable(n, Head(queue[n]).id) /\ Busy(n, "deny", Head(queue[n]).id, "denied", FALSE)
    BY DEF Deny
  <1>2. /\ grants' \subseteq Node \X Node \X Capability
        /\ trusted' \subseteq Node \X Node \X Capability
        /\ ran' \subseteq Id \X {"auto", "approved"}
    BY DEF Deny, store, IInv, TypeOK
  <1>3. QED
    BY <1>1, <1>2, DecisionIInv DEF Deny, store

LEMMA HandleCommandIInv ==
  ASSUME IInv, NEW n \in Node, HandleCommand(n)
  PROVE  IInv'
  BY SendEnvelopeIInv, SendLocalMessageIInv, ApproveIInv, DenyIInv DEF HandleCommand

\* What the continuations of a handler share: it ends, or goes on about the
\* same message, which is then stored.
LEMMA ResumeStep ==
  ASSUME IInv, NEW n \in Node, loop[n] # None,
         NEW at \in {"auto", "decided"}, NEW s \in InboundStatus, NEW ack \in BOOLEAN,
         \/ Done(n)
         \/ Busy(n, at, loop[n].id, s, ack) /\ row'[n][loop[n].id] # None,
         row' = row \/ \E t \in InboundStatus : Save(n, loop[n].id, t),
         QueuesOK',
         wire' \subseteq wire \cup {Ack(loop[n].id, r) : r \in AckResult},
         ran' \subseteq ran \cup {<<loop[n].id, "auto">>},
         UNCHANGED <<env, peers, grants, trusted, alive, mode, known, pending, waiting, count>>
  PROVE  IInv'
  <1> USE DEF count
  <1> DEFINE i == loop[n].id
  <1>1. i \in Id /\ i \in Built /\ env[i].to = n
    BY DEF IInv, HandlerIsInbound, Built
  <1> HIDE DEF i
  <1>2. Built' = Built /\ BuiltCommand' = BuiltCommand
    BY SameEnvelopes
  <1>3. /\ row' \in [Node -> [Id -> Status \cup {None}]]
        /\ \A m \in Node, j \in Id : row'[m][j] = row[m][j] \/ (m = n /\ j = i)
        /\ \A m \in Node, j \in Id : Recorded(m, j) => row'[m][j] # None
    <2>1. CASE row' = row
      BY <2>1 DEF IInv, TypeOK, Recorded
    <2>2. CASE \E t \in InboundStatus : Save(n, i, t)
      BY <1>1, <2>2, SaveOne DEF IInv, Status, Recorded
    <2>3. QED
      BY <2>1, <2>2 DEF i
  <1>4. HandlerIsInbound' /\ loop' \in [Node -> Handler \cup {None}]
    <2>1. CASE Done(n)
      BY <1>3, <2>1, HandlerChanged DEF Done, IInv
    <2>2. CASE Busy(n, at, i, s, ack) /\ row'[n][i] # None
      <3> DEFINE h == [at |-> at, id |-> i, status |-> s, ack |-> ack]
      <3>1. h \in Handler /\ h.id = i /\ h.at # "accept"
        BY <1>1 DEF Handler
      <3>2. loop' = [loop EXCEPT ![n] = h]
        BY <2>2 DEF Busy
      <3> HIDE DEF h
      <3>3. QED
        BY <1>1, <1>3, <2>2, <3>1, <3>2, HandlerChanged DEF IInv
    <2>3. QED
      BY <2>1, <2>2 DEF i
  <1>5. wire' \subseteq Packet /\ \A p \in wire' : p.id \in Built
    <2>1. \A r \in AckResult : Ack(i, r) \in Packet /\ Ack(i, r).id = i
      BY <1>1 DEF Ack, Packet
    <2>2. \A p \in wire' : p \in wire \/ \E r \in AckResult : p = Ack(i, r)
      BY DEF i
    <2>3. QED
      BY <1>1, <2>1, <2>2 DEF IInv, TypeOK, RefersToBuilt
  <1>6. ran' \subseteq Id \X {"auto", "approved"}
    BY <1>1 DEF IInv, TypeOK, i
  <1>7. TypeOK'
    BY <1>3, <1>4, <1>5, <1>6 DEF IInv, TypeOK, QueuesOK
  <1>8. RefersToBuilt'
    BY <1>1, <1>2, <1>3, <1>5 DEF IInv, RefersToBuilt, Recorded, QueuesOK
  <1>9. QED
    BY <1>4, <1>7, <1>8 DEF IInv

LEMMA QueuesKept ==
  ASSUME IInv, env' = env, queue' = queue
  PROVE  QueuesOK'
  BY SameEnvelopes, QueuesOKFromIInv DEF QueuesOK

\* A handler queues the result of the request it is about.
LEMMA QueueResult ==
  ASSUME IInv, NEW n \in Node, loop[n] # None, HasRoom(n), NEW outcome \in Outcome,
         env' = env,
         queue' = [queue EXCEPT ![n] = Append(@, ResultOf(loop[n].id, outcome))]
  PROVE  QueuesOK'
  <1>1. loop[n].id \in Built /\ loop[n].id \in Id
    BY DEF IInv, HandlerIsInbound, Built
  <1>2. env[loop[n].id].from \in Node
    BY <1>1 DEF IInv, TypeOK, Built, Envelope
  <1>3. ResultOf(loop[n].id, outcome) \in BuiltCommand
    BY <1>1, <1>2 DEF ResultOf, Command, BuiltCommand
  <1>4. Built' = Built /\ BuiltCommand' = BuiltCommand
    BY SameEnvelopes
  <1>5. QED
    BY <1>3, <1>4, Enqueue, QueuesOKFromIInv DEF BuiltCommand

LEMMA ResumeIInv ==
  ASSUME IInv, NEW n \in Node, Resume(n)
  PROVE  IInv'
  <1> USE DEF store, process, network, count
  <1>1. CASE StoreInbound(n)
    <2>1. loop[n] \in Handler /\ loop[n].status \in {"received", "blocked", "pending"}
      BY <1>1 DEF StoreInbound, IInv, TypeOK, HandlerIsInbound
    <2>2. loop[n].ack \in BOOLEAN /\ loop[n].status \in InboundStatus /\ loop[n].id \in Id
      BY <2>1 DEF Handler
    <2>3. AckFor(loop[n].status) \in AckResult
      BY <2>1 DEF AckFor, AckResult
    <2>4. row'[n][loop[n].id] # None
      BY <1>1, <2>2, NoneAssumption DEF StoreInbound, IInv, TypeOK, Status
    <2>5. Save(n, loop[n].id, loop[n].status)
      BY <1>1 DEF StoreInbound, Save
    <2>6. /\ Done(n) \/ Busy(n, "auto", loop[n].id, loop[n].status, loop[n].ack)
          /\ wire' \subseteq wire \cup {Ack(loop[n].id, r) : r \in AckResult}
          /\ ran' \subseteq ran \cup {<<loop[n].id, "auto">>}
      BY <1>1, <2>3 DEF StoreInbound, Acked
    <2>7. QED
      BY <1>1, <2>2, <2>4, <2>5, <2>6, ResumeStep, QueuesKept DEF StoreInbound
  <1>2. CASE RejectInbound(n)
    <2>1. wire' \subseteq wire \cup {Ack(loop[n].id, r) : r \in AckResult}
      BY <1>2 DEF RejectInbound, Acked, AckResult
    <2>2. "received" \in InboundStatus
      BY DEF InboundStatus
    <2>3. QED
      BY <1>2, <2>1, <2>2, ResumeStep, QueuesKept DEF RejectInbound
  <1>3. CASE FinishAuto(n)
    <2>1. wire' \subseteq wire \cup {Ack(loop[n].id, r) : r \in AckResult}
      BY <1>3 DEF FinishAuto, Acked, AckResult
    <2>2. "received" \in InboundStatus
      BY DEF InboundStatus
    <2>3. QueuesOK'
      <3>1. CASE HasRoom(n)
        <4>1. PICK outcome \in {"completed", "failed"} :
                queue' = [queue EXCEPT ![n] = Append(@, ResultOf(loop[n].id, outcome))]
          BY <1>3, <3>1 DEF FinishAuto
        <4>2. QED
          BY <1>3, <3>1, <4>1, QueueResult DEF FinishAuto, Outcome
      <3>2. CASE ~HasRoom(n)
        BY <1>3, <3>2, QueuesKept DEF FinishAuto
      <3>3. QED
        BY <3>1, <3>2
    <2>4. QED
      BY <1>3, <2>1, <2>2, <2>3, ResumeStep DEF FinishAuto
  <1>4. CASE FinishApproved(n) \/ QueueDenial(n)
    <2>1. QueuesOK'
      BY <1>4, QueueResult, QueuesKept DEF FinishApproved, QueueDenial, Outcome
    <2>2. PICK s \in InboundStatus : Done(n) \/ Busy(n, "decided", loop[n].id, s, FALSE)
      BY <1>4 DEF FinishApproved, QueueDenial, InboundStatus
    <2>3. loop[n] # None /\ loop[n].at # "accept"
      BY <1>4 DEF FinishApproved, QueueDenial
    <2>4. UNCHANGED <<env, wire, row, peers, grants, trusted, alive, mode, known, pending,
                      waiting, ran, count>>
      BY <1>4 DEF FinishApproved, QueueDenial
    <2>5. row'[n][loop[n].id] # None
      BY <2>3, <2>4 DEF IInv, HandlerIsInbound, Recorded
    <2>6. QED
      BY <2>1, <2>2, <2>3, <2>4, <2>5, ResumeStep
  <1>5. CASE RecordDecision(n)
    <2>1. loop[n] # None /\ loop[n].status \in InboundStatus
      BY <1>5 DEF RecordDecision, IInv, TypeOK, Handler
    <2>2. QED
      BY <1>5, <2>1, ResumeStep, QueuesKept DEF RecordDecision
  <1>6. QED
    BY <1>1, <1>2, <1>3, <1>4, <1>5 DEF Resume

LEMMA EnvironmentIInv ==
  ASSUME IInv, Environment
  PROVE  IInv'
  <1> USE ConstantsAssumption DEF network, store, process, count
  <1>1. CASE \E p \in wire : RequestFails(p)
    BY <1>1 DEF RequestFails, IInv, TypeOK, RefersToBuilt, HandlerIsInbound, Built, BuiltCommand, Recorded
  <1>2. ASSUME NEW n \in Node, Crash(n)
        PROVE  IInv'
    <2>1. Built' = Built /\ BuiltCommand' = BuiltCommand
      BY <1>2, SameEnvelopes DEF Crash
    <2>2. QueuesOK'
      <3>1. <<>> \in Seq(Command) /\ <<>> \in Seq(BuiltCommand) /\ Len(<<>>) <= QueueCapacity
        OBVIOUS
      <3>2. queue' = [queue EXCEPT ![n] = <<>>]
        BY <1>2 DEF Crash
      <3>3. QED
        BY <2>1, <3>1, <3>2, QueuesOKFromIInv DEF QueuesOK
    <2>3. HandlerIsInbound' /\ loop' \in [Node -> Handler \cup {None}]
      <3>1. \A m \in Node, j \in Id : Recorded(m, j) => row'[m][j] # None
        BY <1>2 DEF Crash, Recorded
      <3>2. QED
        BY <1>2, <3>1, HandlerChanged DEF Crash, IInv
    <2>4. failed' \subseteq Id /\ waiting' \subseteq Id
      BY <1>2 DEF Crash, Owed, IInv, TypeOK
    <2>5. TypeOK'
      BY <1>2, <2>2, <2>3, <2>4 DEF Crash, IInv, TypeOK, QueuesOK
    <2>6. RefersToBuilt'
      BY <1>2, <2>1, <2>2 DEF Crash, IInv, RefersToBuilt, Recorded, QueuesOK
    <2>7. QED
      BY <2>3, <2>5, <2>6 DEF IInv
  <1>3. CASE \E n \in Node : Restart(n)
    BY <1>3 DEF Restart, IInv, TypeOK, RefersToBuilt, HandlerIsInbound, Built, BuiltCommand, Recorded
  <1>4. QED
    BY <1>1, <1>2, <1>3 DEF Environment

LEMMA IInvStep == IInv /\ [Next]_vars => IInv'
  <1> SUFFICES ASSUME IInv, [Next]_vars PROVE IInv'
    OBVIOUS
  <1>1. CASE Next
    BY <1>1, ApiIInv, SwarmEventIInv, HandleCommandIInv, ResumeIInv, EnvironmentIInv DEF Next
  <1>2. CASE UNCHANGED vars
    BY <1>2 DEF vars, network, store, process, count, IInv, TypeOK, RefersToBuilt,
                HandlerIsInbound, Built, BuiltCommand, Recorded
  <1>3. QED
    BY <1>1, <1>2

\* The variables have their types in every reachable state: no command channel
\* exceeds its capacity, no message or acknowledgement is ever about a message
\* that was not built.
THEOREM TypeCorrect == Spec => []TypeOK
  <1>1. IInv => TypeOK
    BY DEF IInv
  <1>2. QED
    BY <1>1, InitIInv, IInvStep, PTL DEF Spec

-----------------------------------------------------------------------------
\* No receipt is a lie

Honest == AckIsHonest /\ DeliveredIsRecorded

\* What every step has to show: no row is forgotten, and an acknowledgement
\* that appears, or an outbound row that becomes delivered, is about a message
\* the recipient holds.
HonestStep ==
  /\ \A j \in Built : env'[j] = env[j]
  /\ \A m \in Node, j \in Id : Recorded(m, j) => row'[m][j] # None
  /\ \A p \in wire' :
       \/ p \in wire
       \/ p.type = "request"
       \/ p.type = "ack" /\ p.result \in {"pending", "failed"}
       \/ p.id \in Built /\ row'[env[p.id].to][p.id] # None
  /\ \A m \in Node, j \in Id :
       row'[m][j] = "delivered" =>
         row[m][j] = "delivered" \/ (j \in Built /\ row'[env[j].to][j] # None)

LEMMA HonestKept ==
  ASSUME IInv, IInv', Honest, HonestStep
  PROVE  Honest'
  <1>1. \A j \in Built : j \in Built' /\ j \in Id /\ env'[j] = env[j]
                        /\ env[j].to \in Node /\ env[j].from \in Node
    BY DEF HonestStep, Built, IInv, TypeOK, Envelope
  <1>2. ASSUME NEW p \in wire', p.type = "ack", p.result \in {"delivered", "blocked"}
        PROVE  row'[env'[p.id].to][p.id] # None
    <2>1. CASE p \in wire
      <3>1. p.id \in Built /\ Recorded(env[p.id].to, p.id)
        BY <1>2, <2>1 DEF Honest, AckIsHonest, IInv, RefersToBuilt
      <3>2. QED
        BY <1>1, <3>1 DEF HonestStep
    <2>2. CASE p.id \in Built /\ row'[env[p.id].to][p.id] # None
      BY <1>1, <2>2
    <2>3. QED
      BY <1>2, <2>1, <2>2 DEF HonestStep
  <1>3. ASSUME NEW i \in Built', row'[env'[i].from][i] = "delivered"
        PROVE  row'[env'[i].to][i] # None
    <2>1. i \in Id /\ env'[i].from \in Node
      BY DEF Built, IInv, TypeOK, Envelope
    <2>2. i \in Built
      <3>1. CASE row[env'[i].from][i] = "delivered"
        BY <2>1, <3>1, NoneAssumption DEF IInv, RefersToBuilt, Recorded, Status, OutboundStatus
      <3>2. QED
        BY <1>3, <2>1, <3>1 DEF HonestStep
    <2>3. CASE row[env[i].from][i] = "delivered"
      <3>1. Recorded(env[i].to, i)
        BY <2>2, <2>3 DEF Honest, DeliveredIsRecorded
      <3>2. QED
        BY <1>1, <2>2, <3>1 DEF HonestStep
    <2>4. CASE row'[env[i].to][i] # None
      BY <1>1, <2>2, <2>4
    <2>5. QED
      BY <1>1, <1>3, <2>2, <2>3, <2>4 DEF HonestStep
  <1>4. AckIsHonest'
    BY <1>2 DEF AckIsHonest, Recorded
  <1>5. DeliveredIsRecorded'
    BY <1>3 DEF DeliveredIsRecorded, Recorded
  <1>6. QED
    BY <1>4, <1>5 DEF Honest

\* A step that builds at most one envelope, writes no row and sends nothing.
LEMMA QuietIsHonest ==
  ASSUME IInv, row' = row, wire' \subseteq wire,
         env' = env \/ \E i \in Id \ Built, e \in Envelope : env' = [env EXCEPT ![i] = e]
  PROVE  HonestStep
  BY DEF HonestStep, IInv, TypeOK, Built, Recorded

LEMMA TransmitIsHonest ==
  ASSUME IInv, NEW n \in Node, NEW i \in Id, Transmit(n, i),
         \A j \in Built : env'[j] = env[j]
  PROVE  HonestStep
  <1>1. /\ \A m \in Node, j \in Id : row'[m][j] = row[m][j] \/ row'[m][j] = "queued"
        /\ \A m \in Node, j \in Id : Recorded(m, j) => row'[m][j] # None
    BY SaveOne DEF Transmit, IInv, Recorded, Status, OutboundStatus
  <1>2. \A p \in wire' : p \in wire \/ p.type = "request"
    BY DEF Transmit, Request
  <1>3. QED
    BY <1>1, <1>2 DEF HonestStep

LEMMA ApiIsHonest ==
  ASSUME IInv, LocalApi
  PROVE  HonestStep
  <1> USE DEF network, store, process, count
  <1>1. CASE \E n \in Node : SendMessage(n)
    <2>1. PICK i \in Id \ Built : \E e : env' = [env EXCEPT ![i] = e]
      BY <1>1 DEF SendMessage
    <2>2. row' = row /\ wire' = wire
      BY <1>1 DEF SendMessage
    <2>3. \A j \in Built : env'[j] = env[j]
      BY <2>1 DEF IInv, TypeOK, Built
    <2>4. QED
      BY <2>2, <2>3 DEF HonestStep, Recorded
  <1>2. CASE \E n \in Node : Decide(n)
    BY <1>2, QuietIsHonest DEF Decide
  <1>3. CASE \E g \in Grantable : GrantCapability(g)
    BY <1>3, QuietIsHonest DEF GrantCapability
  <1>4. CASE \E g \in Grantable : RevokeCapability(g)
    BY <1>4, QuietIsHonest DEF RevokeCapability
  <1>5. CASE \E n, p \in Node : AddPeer(n, p)
    BY <1>5, QuietIsHonest DEF AddPeer
  <1>6. QED
    BY <1>1, <1>2, <1>3, <1>4, <1>5 DEF LocalApi

\* A duplicate is acknowledged because its row is there, and an acknowledgement
\* is believed because it is honest.
LEMMA SwarmEventIsHonest ==
  ASSUME IInv, Honest, NEW n \in Node, SwarmEvent(n)
  PROVE  HonestStep
  <1> USE DEF network, store, process, count
  <1>1. CASE \E p \in Node : LearnProfile(n, p)
    BY <1>1, QuietIsHonest DEF LearnProfile
  <1>2. ASSUME NEW i \in Built, NEW ack \in BOOLEAN, AcceptEnvelope(n, i, ack)
        PROVE  HonestStep
    <2>1. \A p \in wire' : p \in wire \/ (p.id = i /\ row[env[i].to][i] # None)
      BY <1>2, AcceptedOnWire
    <2>2. env' = env /\ row' = row
      BY <1>2 DEF AcceptEnvelope
    <2>3. QED
      BY <2>1, <2>2 DEF HonestStep, Recorded
  <1>3. CASE \E p \in wire : ReceiveRequest(n, p)
    BY <1>2, <1>3 DEF ReceiveRequest, IInv, RefersToBuilt
  <1>4. CASE \E i \in Id : ReceiveAgain(n, i)
    BY <1>2, <1>4 DEF ReceiveAgain
  <1>5. CASE \E p \in wire : ReceiveAck(n, p)
    <2>1. PICK p \in wire : ReceiveAck(n, p)
      BY <1>5
    <2>2. p.id \in Id /\ p.id \in Built
      BY DEF IInv, RefersToBuilt, Built
    <2>3. env' = env /\ wire' \subseteq wire
      BY <2>1 DEF ReceiveAck
    <2>4. CASE row' = row
      BY <2>3, <2>4, QuietIsHonest
    <2>5. CASE Save(n, p.id, "failed")
      <3>1. /\ \A m \in Node, j \in Id : row'[m][j] = row[m][j] \/ row'[m][j] = "failed"
            /\ \A m \in Node, j \in Id : Recorded(m, j) => row'[m][j] # None
        BY <2>2, <2>5, SaveOne DEF IInv, Recorded, Status, OutboundStatus
      <3>2. QED
        BY <2>3, <3>1 DEF HonestStep
    <2>6. CASE Save(n, p.id, "delivered") /\ p.result \in {"delivered", "blocked"}
      <3>1. /\ \A m \in Node, j \in Id : row'[m][j] = row[m][j] \/ j = p.id
            /\ \A m \in Node, j \in Id : Recorded(m, j) => row'[m][j] # None
        BY <2>2, <2>6, SaveOne DEF IInv, Recorded, Status, OutboundStatus
      <3>2. Recorded(env[p.id].to, p.id) /\ env[p.id].to \in Node
        BY <2>1, <2>2, <2>6 DEF ReceiveAck, Honest, AckIsHonest, IInv, TypeOK, Built, Envelope
      <3>3. QED
        BY <2>2, <2>3, <3>1, <3>2 DEF HonestStep
    <2>7. QED
      BY <2>1, <2>4, <2>5, <2>6 DEF ReceiveAck
  <1>6. QED
    BY <1>1, <1>3, <1>4, <1>5 DEF SwarmEvent

LEMMA HandleCommandIsHonest ==
  ASSUME IInv, NEW n \in Node, HandleCommand(n)
  PROVE  HonestStep
  <1> USE DEF network, store, process, count
  <1>1. CASE SendEnvelope(n)
    <2> DEFINE i == Head(queue[n]).id
    <2>1. i \in Id
      <3>1. Receives(n, "send") /\ queue[n] # <<>> /\ queue[n] \in Seq(BuiltCommand)
        BY <1>1 DEF SendEnvelope, Receives, IInv, RefersToBuilt
      <3>2. Head(queue[n]) \in BuiltCommand
        BY <3>1
      <3>3. QED
        BY <3>1, <3>2 DEF Receives, BuiltCommand, Built
    <2>2. env' = env /\ (Transmit(n, i) \/ (row' = row /\ wire' = wire))
      BY <1>1 DEF SendEnvelope
    <2> HIDE DEF i
    <2>3. QED
      BY <2>1, <2>2, TransmitIsHonest, QuietIsHonest
  <1>2. CASE SendLocalMessage(n)
    <2>1. CASE env' = env /\ row' = row /\ wire' = wire
      BY <2>1, QuietIsHonest
    <2>2. ASSUME NEW i \in Id \ Built, NEW e, Transmit(n, i), env' = [env EXCEPT ![i] = e]
          PROVE  HonestStep
      <3>1. \A j \in Built : env'[j] = env[j]
        BY <2>2 DEF IInv, TypeOK, Built
      <3>2. QED
        BY <2>2, <3>1, TransmitIsHonest
    <2>3. QED
      BY <1>2, <2>1, <2>2 DEF SendLocalMessage
  <1>3. CASE Approve(n)
    BY <1>3, QuietIsHonest DEF Approve
  <1>4. CASE Deny(n)
    BY <1>4, QuietIsHonest DEF Deny
  <1>5. QED
    BY <1>1, <1>2, <1>3, <1>4 DEF HandleCommand

LEMMA ResumeIsHonest ==
  ASSUME IInv, NEW n \in Node, Resume(n)
  PROVE  HonestStep
  <1> USE DEF network, store, process, count
  <1> DEFINE h == loop[n]
  <1>1. h # None
    BY DEF Resume, StoreInbound, RejectInbound, FinishAuto, FinishApproved, QueueDenial,
           RecordDecision
  <1>2. /\ h.id \in Id /\ h.id \in Built /\ env[h.id].to = n
        /\ h.status \in InboundStatus
        /\ h.at # "accept" => row[n][h.id] # None
    BY <1>1 DEF IInv, TypeOK, HandlerIsInbound, Built, Handler, Recorded
  <1>3. env' = env
    BY DEF Resume, StoreInbound, RejectInbound, FinishAuto, FinishApproved, QueueDenial,
           RecordDecision
  <1>4. CASE RejectInbound(n) \/ FinishAuto(n)
    <2>1. row' = row /\ (wire' = Acked(h, "failed") \/
                         (wire' = Acked(h, "delivered") /\ h.at = "auto"))
      BY <1>4 DEF RejectInbound, FinishAuto
    <2> HIDE DEF h
    <2>2. QED
      BY <1>2, <1>3, <2>1 DEF HonestStep, Acked, Ack, Recorded
  <1>5. CASE FinishApproved(n) \/ QueueDenial(n)
    BY <1>3, <1>5, QuietIsHonest DEF FinishApproved, QueueDenial
  <1>6. CASE StoreInbound(n)
    <2>1. /\ row' = [row EXCEPT ![n][h.id] = h.status]
          /\ wire' = wire \/ wire' = Acked(h, AckFor(h.status))
      BY <1>6 DEF StoreInbound
    <2> HIDE DEF h
    <2>2. Save(n, h.id, h.status)
      BY <2>1 DEF Save
    <2>3. /\ \A m \in Node, j \in Id : Recorded(m, j) => row'[m][j] # None
          /\ \A m \in Node, j \in Id : row'[m][j] = row[m][j] \/ row'[m][j] \in InboundStatus
      BY <1>2, <2>2, SaveOne DEF IInv, Recorded, Status
    <2>4. row'[n][h.id] # None
      BY <1>2, <2>1, NoneAssumption DEF IInv, TypeOK, Status
    <2>5. \A p \in wire' : p \in wire \/ p.id = h.id
      BY <2>1 DEF Acked, Ack
    <2>6. QED
      BY <1>2, <1>3, <2>3, <2>4, <2>5 DEF HonestStep, InboundStatus
  <1>7. CASE RecordDecision(n)
    <2>1. Save(n, h.id, h.status) /\ wire' = wire
      BY <1>7 DEF RecordDecision
    <2> HIDE DEF h
    <2>2. /\ \A m \in Node, j \in Id : Recorded(m, j) => row'[m][j] # None
          /\ \A m \in Node, j \in Id : row'[m][j] = row[m][j] \/ row'[m][j] \in InboundStatus
      BY <1>2, <2>1, SaveOne DEF IInv, Recorded, Status
    <2>3. QED
      BY <1>3, <2>1, <2>2 DEF HonestStep, InboundStatus
  <1>8. QED
    BY <1>4, <1>5, <1>6, <1>7 DEF Resume

LEMMA EnvironmentIsHonest ==
  ASSUME IInv, Environment
  PROVE  HonestStep
  <1> USE DEF network, store, process, count
  <1>1. env' = env /\ row' = row /\ wire' \subseteq wire
    BY DEF Environment, RequestFails, Crash, Restart
  <1>2. QED
    BY <1>1, QuietIsHonest

\* A receipt is never a lie: a message its sender records as delivered is in
\* the recipient's store, whatever crashed, was lost or was repeated and
\* whichever write failed (accept_inbound_envelope saves before the reply).
THEOREM ReceiptsAreHonest == Spec => []DeliveredIsRecorded
  <1>1. Init => Honest
    BY NoneAssumption
    DEF Init, Honest, AckIsHonest, DeliveredIsRecorded, Built, Status, OutboundStatus
  <1>2. IInv /\ Honest /\ [Next]_vars => Honest'
    <2> SUFFICES ASSUME IInv, Honest, [Next]_vars PROVE Honest'
      OBVIOUS
    <2>1. IInv'
      BY IInvStep
    <2>2. CASE Next
      <3>1. HonestStep
        BY <2>2, ApiIsHonest, SwarmEventIsHonest, HandleCommandIsHonest, ResumeIsHonest,
           EnvironmentIsHonest DEF Next
      <3>2. QED
        BY <2>1, <3>1, HonestKept
    <2>3. CASE UNCHANGED vars
      BY <2>3 DEF vars, network, store, process, count, Honest, AckIsHonest,
                  DeliveredIsRecorded, Built, Recorded
    <2>4. QED
      BY <2>2, <2>3
  <1>3. IInv /\ Honest => DeliveredIsRecorded
    BY DEF Honest
  <1>4. QED
    BY <1>1, <1>2, <1>3, InitIInv, IInvStep, PTL DEF Spec

-----------------------------------------------------------------------------
\* The command channel and the pending sends

\* Nobody sends a message to itself: drafts are to others, and a result goes to
\* the node that asked.
EndsDiffer == \A i \in Built : env[i].from # env[i].to

\* A result that waits in the channel is for the node that sent the request; a
\* message that waits there is the node's own, waits there once and has no row.
QueuedSound(n, k) ==
  LET c == queue[n][k] IN
  /\ c.op = "local" =>
       c.reply \in Built /\ env[c.reply].to = n /\ env[c.reply].from = c.to
  /\ c.op = "send" =>
       /\ c.id \in Built /\ env[c.id].from = n
       /\ row[n][c.id] = None /\ c.id \notin pending[n]
       /\ \A l \in 1..Len(queue[n]) :
            queue[n][l].op = "send" /\ queue[n][l].id = c.id => l = k

\* A send that awaits its acknowledgement is the node's own, and its row does not
\* know of an acknowledgement.
PendingSound(n) ==
  \A i \in pending[n] : i \in Built /\ env[i].from = n /\ row[n][i] \in {None, "queued"}

ChannelSound ==
  /\ EndsDiffer
  /\ \A n \in Node : PendingSound(n) /\ \A k \in 1..Len(queue[n]) : QueuedSound(n, k)

\* The envelopes built stay, and a new one is from n to another node.
Builds(n) ==
  /\ \A j \in Built : env'[j] = env[j]
  /\ \A j \in Built' \ Built : env'[j].from = n /\ env'[j].to # n

\* A step of n leaves the channels and rows of the others alone.
ChannelStep(n) ==
  /\ Builds(n)
  /\ \A m \in Node \ {n} :
       row'[m] = row[m] /\ queue'[m] = queue[m] /\ pending'[m] = pending[m]

LEMMA QueueIsSeq ==
  ASSUME IInv, NEW n \in Node
  PROVE  /\ queue[n] \in Seq(Command) /\ Len(queue[n]) \in Nat
         /\ DOMAIN queue[n] = 1..Len(queue[n])
         /\ \A k \in 1..Len(queue[n]) : queue[n][k] \in Command /\ queue[n][k] \in BuiltCommand
  <1>1. queue[n] \in Seq(Command) /\ queue[n] \in Seq(BuiltCommand)
    BY DEF IInv, TypeOK, RefersToBuilt
  <1>2. QED
    BY <1>1

LEMMA ChannelKept ==
  ASSUME IInv, IInv', ChannelSound, NEW n \in Node, ChannelStep(n),
         PendingSound(n)', \A k \in 1..Len(queue'[n]) : QueuedSound(n, k)'
  PROVE  ChannelSound'
  <1>1. \A j \in Built : j \in Built' /\ env'[j] = env[j]
    BY DEF ChannelStep, Builds, Built
  <1>2. EndsDiffer'
    BY <1>1 DEF ChannelSound, EndsDiffer, ChannelStep, Builds
  <1>3. ASSUME NEW m \in Node \ {n}
        PROVE  PendingSound(m)' /\ \A k \in 1..Len(queue'[m]) : QueuedSound(m, k)'
    <2>1. row'[m] = row[m] /\ queue'[m] = queue[m] /\ pending'[m] = pending[m]
      BY DEF ChannelStep
    <2>2. PendingSound(m)'
      BY <1>1, <2>1 DEF ChannelSound, PendingSound
    <2>3. ASSUME NEW k \in 1..Len(queue'[m])
          PROVE  QueuedSound(m, k)'
      BY <1>1, <2>1 DEF ChannelSound, QueuedSound
    <2>4. QED
      BY <2>2, <2>3
  <1>4. QED
    BY <1>2, <1>3 DEF ChannelSound

\* The step of n leaves its channel alone, or takes commands that are no sends
\* from its head, and writes no row the channel or the pending sends rely on.
LEMMA ChannelShorter ==
  ASSUME IInv, IInv', ChannelSound, NEW n \in Node, ChannelStep(n),
         NEW d \in {0, 1}, Len(queue'[n]) \in Nat,
         \A k \in 1..Len(queue'[n]) :
           k + d \in 1..Len(queue[n]) /\ queue'[n][k] = queue[n][k + d],
         pending'[n] = pending[n],
         \A j \in Built : env[j].from = n => row'[n][j] = row[n][j]
  PROVE  ChannelSound'
  <1>1. Len(queue[n]) \in Nat /\ DOMAIN queue[n] = 1..Len(queue[n])
    BY QueueIsSeq
  <1>2. \A j \in Built : j \in Built' /\ env'[j] = env[j]
    BY DEF ChannelStep, Builds, Built
  <1>3. PendingSound(n)'
    BY <1>2 DEF ChannelSound, PendingSound
  <1>4. ASSUME NEW k \in 1..Len(queue'[n])
        PROVE  QueuedSound(n, k)'
    <2>1. QueuedSound(n, k + d) /\ queue'[n][k] = queue[n][k + d]
      BY DEF ChannelSound
    <2>2. \A l \in 1..Len(queue'[n]) :
            l + d \in 1..Len(queue[n]) /\ queue'[n][l] = queue[n][l + d]
      OBVIOUS
    <2>3. \A l \in 1..Len(queue'[n]) : l + d = k + d => l = k
      OBVIOUS
    <2> DEFINE c == queue[n][k + d]
    <2>4. CASE c.op = "send"
      <3>1. /\ c.id \in Built /\ env[c.id].from = n
            /\ row[n][c.id] = None /\ c.id \notin pending[n]
            /\ \A l \in 1..Len(queue[n]) :
                 queue[n][l].op = "send" /\ queue[n][l].id = c.id => l = k + d
        BY <2>1, <2>4 DEF QueuedSound
      <3>2. /\ c.id \in Built' /\ env'[c.id].from = n
            /\ row'[n][c.id] = None /\ c.id \notin pending'[n]
        BY <1>2, <3>1
      <3>3. \A l \in 1..Len(queue'[n]) :
              queue'[n][l].op = "send" /\ queue'[n][l].id = c.id => l = k
        BY <2>2, <2>3, <3>1
      <3> HIDE DEF c
      <3>4. queue'[n][k] = c
        BY <2>1 DEF c
      <3>5. QED
        BY <2>4, <3>2, <3>3, <3>4 DEF QueuedSound
    <2>5. CASE c.op # "send"
      BY <1>2, <2>1, <2>5 DEF QueuedSound
    <2>6. QED
      BY <2>4, <2>5
  <1>5. QED
    BY <1>3, <1>4, ChannelKept

\* The step of n adds a command to its channel: a message it has just built, a
\* result for the node that sent the request, or a decision.
LEMMA ChannelLonger ==
  ASSUME IInv, IInv', ChannelSound, NEW n \in Node, ChannelStep(n),
         NEW c \in Command,
         queue'[n] = Append(queue[n], c),
         pending'[n] = pending[n], row'[n] = row[n],
         c.op = "local" =>
           c.reply \in Built /\ env[c.reply].to = n /\ env[c.reply].from = c.to,
         c.op = "send" => c.id \in Built' \ Built
  PROVE  ChannelSound'
  <1>1. Len(queue[n]) \in Nat /\ DOMAIN queue[n] = 1..Len(queue[n]) /\ queue[n] \in Seq(Command)
    BY QueueIsSeq
  <1>2. \A j \in Built : j \in Built' /\ env'[j] = env[j]
    BY DEF ChannelStep, Builds, Built
  <1>3. PendingSound(n)'
    BY <1>2 DEF ChannelSound, PendingSound
  <1>4. /\ Len(queue'[n]) = Len(queue[n]) + 1
        /\ \A k \in 1..Len(queue[n]) : k \in 1..Len(queue'[n]) /\ queue'[n][k] = queue[n][k]
        /\ queue'[n][Len(queue[n]) + 1] = c
    BY <1>1
  <1>5. \A k \in 1..Len(queue'[n]) : k \in 1..Len(queue[n]) \/ k = Len(queue[n]) + 1
    BY <1>1, <1>4
  <1>6. \A k \in 1..Len(queue[n]) : queue[n][k].op = "send" => queue[n][k].id \in Built
    BY DEF ChannelSound, QueuedSound
  <1>7. ASSUME NEW k \in 1..Len(queue'[n])
        PROVE  QueuedSound(n, k)'
    <2>1. CASE k \in 1..Len(queue[n])
      BY <1>2, <1>4, <1>5, <1>6, <2>1 DEF ChannelSound, QueuedSound
    <2>2. CASE k = Len(queue[n]) + 1
      <3>1. queue'[n][k] = c
        BY <1>4, <2>2
      <3>2. CASE c.op = "local"
        BY <1>2, <3>1, <3>2 DEF QueuedSound
      <3>3. CASE c.op = "send"
        <4>1. c.id \in Id /\ c.id \in Built' /\ c.id \notin Built
          BY <3>3 DEF Built
        <4>2. env'[c.id].from = n
          BY <3>3 DEF ChannelStep, Builds
        <4>3. row'[n][c.id] = None
          BY <4>1 DEF IInv, RefersToBuilt, Recorded
        <4>4. c.id \notin pending'[n]
          BY <4>1 DEF ChannelSound, PendingSound
        <4>5. \A l \in 1..Len(queue'[n]) :
                queue'[n][l].op = "send" /\ queue'[n][l].id = c.id => l = k
          BY <1>4, <1>5, <1>6, <2>2, <4>1
        <4>6. QED
          BY <3>1, <3>3, <4>1, <4>2, <4>3, <4>4, <4>5 DEF QueuedSound
      <3>4. CASE c.op \notin {"local", "send"}
        BY <3>1, <3>4 DEF QueuedSound
      <3>5. QED
        BY <3>2, <3>3, <3>4
    <2>3. QED
      BY <1>5, <2>1, <2>2
  <1>8. QED
    BY <1>3, <1>7, ChannelKept

LEMMA ChannelSame ==
  ASSUME IInv, IInv', ChannelSound, NEW n \in Node, ChannelStep(n),
         queue'[n] = queue[n], pending'[n] = pending[n],
         \A j \in Built : env[j].from = n => row'[n][j] = row[n][j]
  PROVE  ChannelSound'
  <1>1. Len(queue[n]) \in Nat
    BY QueueIsSeq
  <1>2. \A k \in 1..Len(queue[n]) : k + 0 = k
    BY <1>1
  <1>3. QED
    BY <1>1, <1>2, ChannelShorter

LEMMA ChannelTail ==
  ASSUME IInv, IInv', ChannelSound, NEW n \in Node, ChannelStep(n),
         queue[n] # <<>>, Dequeue(n), pending'[n] = pending[n],
         \A j \in Built : env[j].from = n => row'[n][j] = row[n][j]
  PROVE  ChannelSound'
  <1>1. queue[n] \in Seq(Command) /\ Len(queue[n]) \in Nat
    BY QueueIsSeq
  <1>2. queue'[n] = Tail(queue[n])
    BY DEF Dequeue, IInv, TypeOK
  <1>3. Len(queue'[n]) = Len(queue[n]) - 1 /\ Len(queue'[n]) \in Nat
    BY <1>1, <1>2
  <1>4. \A k \in 1..Len(queue'[n]) :
          k + 1 \in 1..Len(queue[n]) /\ queue'[n][k] = queue[n][k + 1]
    BY <1>1, <1>2, <1>3
  <1>5. QED
    BY <1>3, <1>4, ChannelShorter

LEMMA ChannelFrame ==
  ASSUME IInv, NEW n \in Node, Builds(n),
         \/ row' = row
         \/ \E i \in Id, s \in Status : row' = [row EXCEPT ![n][i] = s],
         queue' = queue \/ \E q : queue' = [queue EXCEPT ![n] = q],
         pending' = pending \/ \E S : pending' = [pending EXCEPT ![n] = S]
  PROVE  ChannelStep(n)
  <1>1. \A m \in Node \ {n} : row'[m] = row[m]
    BY DEF IInv, TypeOK
  <1>2. \A m \in Node \ {n} : queue'[m] = queue[m]
    BY DEF IInv, TypeOK
  <1>3. \A m \in Node \ {n} : pending'[m] = pending[m]
    BY DEF IInv, TypeOK
  <1>4. QED
    BY <1>1, <1>2, <1>3 DEF ChannelStep

LEMMA BuildsNothing ==
  ASSUME NEW n \in Node, env' = env
  PROVE  Builds(n)
  BY DEF Builds, Built

LEMMA BuildsOne ==
  ASSUME IInv, NEW n \in Node, NEW i \in Id \ Built, NEW e \in Envelope,
         e.from = n, e.to # n, env' = [env EXCEPT ![i] = e]
  PROVE  Builds(n) /\ Built' = Built \cup {i} /\ env'[i] = e
  <1>1. Built' = Built \cup {i} /\ env'[i] = e /\ \A j \in Built : env'[j] = env[j]
    BY BuildEnvelope DEF IInv, TypeOK
  <1>2. QED
    BY <1>1 DEF Builds

\* A step with no part in the channel.
LEMMA ChannelAlone ==
  ASSUME IInv, IInv', ChannelSound, NEW n \in Node, env' = env,
         UNCHANGED <<row, queue, pending>>
  PROVE  ChannelSound'
  BY BuildsNothing, ChannelFrame, ChannelSame

\* A step that queues a command and builds nothing.
LEMMA ChannelAppend ==
  ASSUME IInv, IInv', ChannelSound, NEW n \in Node, env' = env, NEW c \in Command,
         queue' = [queue EXCEPT ![n] = Append(@, c)],
         c.op # "send",
         c.op = "local" => c.reply \in Built /\ env[c.reply].to = n /\ env[c.reply].from = c.to,
         UNCHANGED <<row, pending>>
  PROVE  ChannelSound'
  <1>1. queue'[n] = Append(queue[n], c)
    BY DEF IInv, TypeOK
  <1>2. ChannelStep(n)
    BY BuildsNothing, ChannelFrame
  <1>3. QED
    BY <1>1, <1>2, ChannelLonger

LEMMA ApiChannel ==
  ASSUME IInv, IInv', ChannelSound, LocalApi
  PROVE  ChannelSound'
  <1> USE DEF network, store, process, count
  <1>1. ASSUME NEW n \in Node, SendMessage(n)
        PROVE  ChannelSound'
    <2>1. PICK d \in Draft, i \in Id \ Built, r \in Built \cup {None} :
            /\ d.from = n
            /\ env' = [env EXCEPT ![i] =
                 [kind |-> d.kind, from |-> n, to |-> d.to, cap |-> d.cap,
                  reply |-> r, outcome |-> None, wellFormed |-> d.wellFormed]]
            /\ queue' = [queue EXCEPT ![n] = Append(@, [op |-> "send", id |-> i])]
            /\ UNCHANGED <<row, pending>>
      BY <1>1 DEF SendMessage
    <2> DEFINE e == [kind |-> d.kind, from |-> n, to |-> d.to, cap |-> d.cap,
                     reply |-> r, outcome |-> None, wellFormed |-> d.wellFormed]
               c == [op |-> "send", id |-> i]
    <2>2. e \in Envelope /\ e.from = n /\ e.to # n
      BY <2>1, ConstantsAssumption DEF Envelope, Built
    <2>3. c \in Command /\ c.op = "send" /\ c.id = i
      BY DEF Command
    <2>4. env' = [env EXCEPT ![i] = e] /\ queue' = [queue EXCEPT ![n] = Append(@, c)]
      BY <2>1
    <2> HIDE DEF e, c
    <2>5. Builds(n) /\ Built' = Built \cup {i}
      BY <2>2, <2>4, BuildsOne
    <2>6. ChannelStep(n)
      BY <2>1, <2>4, <2>5, ChannelFrame
    <2>7. queue'[n] = Append(queue[n], c)
      BY <2>4 DEF IInv, TypeOK
    <2>8. QED
      BY <2>1, <2>3, <2>4, <2>5, <2>6, <2>7, ChannelLonger
  <1>2. ASSUME NEW n \in Node, Decide(n)
        PROVE  ChannelSound'
    <2>1. PICK d \in Decision, i \in Id :
            queue' = [queue EXCEPT ![n] = Append(@,
               IF d.op = "deny" THEN [op |-> "deny", id |-> i]
               ELSE [op |-> "approve", id |-> i, always |-> d.always, cap |-> d.cap])]
      BY <1>2 DEF Decide
    <2> DEFINE c == IF d.op = "deny" THEN [op |-> "deny", id |-> i]
                    ELSE [op |-> "approve", id |-> i, always |-> d.always, cap |-> d.cap]
    <2>2. c \in Command /\ c.op \notin {"send", "local"}
      BY ConstantsAssumption DEF Command
    <2>3. env' = env /\ UNCHANGED <<row, pending>>
      BY <1>2 DEF Decide
    <2>4. queue' = [queue EXCEPT ![n] = Append(@, c)]
      BY <2>1
    <2> HIDE DEF c
    <2>5. QED
      BY <2>2, <2>3, <2>4, ChannelAppend
  <1>3. ASSUME NEW g \in Grantable, GrantCapability(g) \/ RevokeCapability(g)
        PROVE  ChannelSound'
    <2>1. g[1] \in Node
      BY ConstantsAssumption
    <2>2. QED
      BY <1>3, <2>1, ChannelAlone DEF GrantCapability, RevokeCapability
  <1>4. ASSUME NEW n \in Node, NEW p \in Node, AddPeer(n, p)
        PROVE  ChannelSound'
    BY <1>4, ChannelAlone DEF AddPeer
  <1>5. QED
    BY <1>1, <1>2, <1>3, <1>4 DEF LocalApi

\* An acknowledgement writes the row of a pending send, which is not in the
\* channel any more.
LEMMA ReceiveAckChannel ==
  ASSUME IInv, IInv', ChannelSound, NEW n \in Node, NEW p \in wire, ReceiveAck(n, p)
  PROVE  ChannelSound'
  <1> USE DEF count
  <1>1. env' = env /\ queue' = queue /\ p.id \in Id
    BY DEF ReceiveAck, IInv, RefersToBuilt, Built
  <1>2. CASE p.id \notin pending[n]
    BY <1>1, <1>2, ChannelAlone DEF ReceiveAck
  <1>3. CASE p.id \in pending[n]
    <2>1. PICK s \in {"delivered", "failed"} :
            /\ Save(n, p.id, s)
            /\ pending' = [pending EXCEPT ![n] = @ \ {p.id}]
      BY <1>3 DEF ReceiveAck
    <2>2. s \in Status /\ (row' = row \/ row' = [row EXCEPT ![n][p.id] = s])
      BY <2>1 DEF Save, Status, OutboundStatus
    <2>3. Builds(n)
      BY <1>1, BuildsNothing
    <2>4. ChannelStep(n)
      BY <1>1, <2>1, <2>2, <2>3, ChannelFrame
    <2>5. \A j \in Id : j # p.id => row'[n][j] = row[n][j]
      BY <1>1, <2>1, <2>2, SaveOne DEF IInv
    <2>6. pending'[n] = pending[n] \ {p.id}
      BY <2>1 DEF IInv, TypeOK
    <2>7. Built' = Built /\ Built \subseteq Id
      BY <1>1 DEF Built
    <2>8. PendingSound(n)'
      BY <1>1, <2>5, <2>6, <2>7 DEF ChannelSound, PendingSound
    <2>9. ASSUME NEW k \in 1..Len(queue'[n])
          PROVE  QueuedSound(n, k)'
      BY <1>1, <1>3, <2>5, <2>6, <2>7 DEF ChannelSound, QueuedSound
    <2>10. QED
      BY <2>4, <2>8, <2>9, ChannelKept
  <1>4. QED
    BY <1>2, <1>3

LEMMA SwarmEventChannel ==
  ASSUME IInv, IInv', ChannelSound, NEW n \in Node, SwarmEvent(n)
  PROVE  ChannelSound'
  <1> USE DEF store
  <1>1. CASE \E p \in Node : LearnProfile(n, p)
    BY <1>1, ChannelAlone DEF LearnProfile, network
  <1>2. CASE \E i \in Id, ack \in BOOLEAN : AcceptEnvelope(n, i, ack)
    BY <1>2, ChannelAlone DEF AcceptEnvelope
  <1>3. CASE \E p \in wire : ReceiveRequest(n, p)
    BY <1>2, <1>3 DEF ReceiveRequest, IInv, RefersToBuilt, Built
  <1>4. CASE \E i \in Id : ReceiveAgain(n, i)
    BY <1>2, <1>4 DEF ReceiveAgain
  <1>5. CASE \E p \in wire : ReceiveAck(n, p)
    BY <1>5, ReceiveAckChannel
  <1>6. QED
    BY <1>1, <1>3, <1>4, <1>5 DEF SwarmEvent

LEMMA TailShifts ==
  ASSUME IInv, NEW n \in Node, queue[n] # <<>>, Dequeue(n)
  PROVE  /\ Len(queue[n]) \in Nat /\ Len(queue'[n]) = Len(queue[n]) - 1
         /\ Head(queue[n]) = queue[n][1] /\ 1 \in 1..Len(queue[n])
         /\ \A k \in 1..Len(queue'[n]) :
              k + 1 \in 1..Len(queue[n]) /\ k + 1 # 1 /\ queue'[n][k] = queue[n][k + 1]
         /\ \A k \in 1..Len(queue[n]) : k = 1 \/ k - 1 \in 1..Len(queue'[n])
         /\ \A k, l \in 1..Len(queue'[n]) : l + 1 = k + 1 => l = k
  <1>1. queue[n] \in Seq(Command) /\ Len(queue[n]) \in Nat
    BY QueueIsSeq
  <1>2. queue'[n] = Tail(queue[n])
    BY DEF Dequeue, IInv, TypeOK
  <1>3. Len(queue'[n]) = Len(queue[n]) - 1 /\ Len(queue'[n]) \in Nat
    BY <1>1, <1>2
  <1>4. QED
    BY <1>1, <1>2, <1>3

\* A message is sent: its command leaves the channel, and it was there once.
LEMMA SendEnvelopeChannel ==
  ASSUME IInv, IInv', ChannelSound, NEW n \in Node, SendEnvelope(n)
  PROVE  ChannelSound'
  <1> USE DEF count
  <1> DEFINE c == queue[n][1]
             i == c.id
  <1>1. Receives(n, "send") /\ queue[n] # <<>> /\ Dequeue(n) /\ env' = env
    BY DEF SendEnvelope, Receives
  <1>2. /\ Len(queue[n]) \in Nat /\ Head(queue[n]) = c /\ 1 \in 1..Len(queue[n])
        /\ \A k \in 1..Len(queue'[n]) :
             k + 1 \in 1..Len(queue[n]) /\ k + 1 # 1 /\ queue'[n][k] = queue[n][k + 1]
        /\ \A k \in 1..Len(queue[n]) : k = 1 \/ k - 1 \in 1..Len(queue'[n])
        /\ \A k, l \in 1..Len(queue'[n]) : l + 1 = k + 1 => l = k
    BY <1>1, TailShifts
  <1>3. c.op = "send"
    BY <1>1, <1>2 DEF Receives
  <1>4. /\ i \in Built /\ i \in Id /\ env[i].from = n /\ row[n][i] = None
        /\ \A l \in 1..Len(queue[n]) : queue[n][l].op = "send" /\ queue[n][l].id = i => l = 1
    BY <1>2, <1>3 DEF ChannelSound, QueuedSound, Built
  <1>5. Built' = Built /\ Built \subseteq Id
    BY <1>1 DEF Built
  <1>6. \/ /\ Save(n, i, "queued")
           /\ pending' = [pending EXCEPT ![n] = @ \cup {i}]
        \/ row' = row /\ pending' = pending
    BY <1>2 DEF SendEnvelope, Transmit
  <1> HIDE DEF i
  <1>7. /\ \A j \in Id : j # i => row'[n][j] = row[n][j]
        /\ row'[n][i] \in {None, "queued"}
    BY <1>4, <1>6, SaveOne DEF IInv, Status, OutboundStatus
  <1>8. \A j \in pending'[n] : j \in pending[n] \/ j = i
    BY <1>6 DEF IInv, TypeOK
  <1>9. ChannelStep(n)
    <2>1. row' = row \/ row' = [row EXCEPT ![n][i] = "queued"]
      BY <1>6 DEF Save
    <2>2. "queued" \in Status
      BY DEF Status, OutboundStatus
    <2>3. Builds(n)
      BY <1>1, BuildsNothing
    <2>4. QED
      BY <1>1, <1>4, <1>6, <2>1, <2>2, <2>3, ChannelFrame DEF Dequeue
  <1>10. PendingSound(n)'
    BY <1>1, <1>4, <1>5, <1>7, <1>8 DEF ChannelSound, PendingSound
  <1>11. ASSUME NEW k \in 1..Len(queue'[n])
         PROVE  QueuedSound(n, k)'
    <2> DEFINE e == queue[n][k + 1]
    <2>1. QueuedSound(n, k + 1)
      BY <1>2 DEF ChannelSound
    <2>2. CASE e.op = "send"
      <3>1. /\ e.id \in Built /\ env[e.id].from = n
            /\ row[n][e.id] = None /\ e.id \notin pending[n]
            /\ \A l \in 1..Len(queue[n]) :
                 queue[n][l].op = "send" /\ queue[n][l].id = e.id => l = k + 1
        BY <2>1, <2>2 DEF QueuedSound
      <3>2. e.id # i
        BY <1>2, <1>4, <2>2
      <3>3. /\ e.id \in Built' /\ env'[e.id].from = n
            /\ row'[n][e.id] = None /\ e.id \notin pending'[n]
        BY <1>1, <1>5, <1>7, <1>8, <3>1, <3>2
      <3>4. \A l \in 1..Len(queue'[n]) :
              queue'[n][l].op = "send" /\ queue'[n][l].id = e.id => l = k
        BY <1>2, <3>1
      <3>5. queue'[n][k] = e
        BY <1>2
      <3> HIDE DEF e
      <3>6. QED
        BY <2>2, <3>3, <3>4, <3>5 DEF QueuedSound
    <2>3. CASE e.op # "send"
      BY <1>1, <1>2, <1>5, <2>1, <2>3 DEF QueuedSound
    <2>4. QED
      BY <2>2, <2>3
  <1>12. QED
    BY <1>9, <1>10, <1>11, ChannelKept

\* A result is built and sent: it is new, so nothing in the channel is about it.
LEMMA SendLocalMessageChannel ==
  ASSUME IInv, IInv', ChannelSound, NEW n \in Node, SendLocalMessage(n)
  PROVE  ChannelSound'
  <1> USE DEF count, network
  <1> DEFINE c == queue[n][1]
  <1>1. Receives(n, "local") /\ queue[n] # <<>> /\ Dequeue(n)
    BY DEF SendLocalMessage, Receives
  <1>2. /\ Len(queue[n]) \in Nat /\ Head(queue[n]) = c /\ 1 \in 1..Len(queue[n])
        /\ \A k \in 1..Len(queue'[n]) :
             k + 1 \in 1..Len(queue[n]) /\ k + 1 # 1 /\ queue'[n][k] = queue[n][k + 1]
        /\ \A k \in 1..Len(queue[n]) : k = 1 \/ k - 1 \in 1..Len(queue'[n])
        /\ \A k, l \in 1..Len(queue'[n]) : l + 1 = k + 1 => l = k
    BY <1>1, TailShifts
  <1>3. c.op = "local" /\ c \in Command
    BY <1>1, <1>2, QueueIsSeq DEF Receives
  <1>4. c.reply \in Built /\ env[c.reply].to = n /\ env[c.reply].from = c.to /\ c.to \in Node
        /\ c.reply \in Id /\ c.outcome \in Outcome
    BY <1>2, <1>3 DEF ChannelSound, QueuedSound, Command
  <1>5. c.to # n
    BY <1>4 DEF ChannelSound, EndsDiffer
  <1>6. CASE env' = env /\ row' = row /\ pending' = pending
    <2>1. ChannelStep(n)
      BY <1>1, <1>6, BuildsNothing, ChannelFrame DEF Dequeue
    <2>2. QED
      BY <1>1, <1>2, <1>3, <1>6, <2>1, ChannelTail
  <1>7. ASSUME NEW i \in Id \ Built, Transmit(n, i),
               env' = [env EXCEPT ![i] =
                 [kind |-> "delegate_result", from |-> n, to |-> c.to,
                  cap |-> DelegateWork, reply |-> c.reply,
                  outcome |-> c.outcome, wellFormed |-> TRUE]]
        PROVE  ChannelSound'
    <2> DEFINE e == [kind |-> "delegate_result", from |-> n, to |-> c.to,
                     cap |-> DelegateWork, reply |-> c.reply,
                     outcome |-> c.outcome, wellFormed |-> TRUE]
    <2>1. e \in Envelope /\ e.from = n /\ e.to # n
      BY <1>4, <1>5, ConstantsAssumption DEF Envelope, Kind
    <2>2. env' = [env EXCEPT ![i] = e]
      BY <1>7
    <2> HIDE DEF e
    <2>3. Builds(n) /\ Built' = Built \cup {i} /\ env'[i] = e
          /\ \A j \in Built : env'[j] = env[j]
      BY <2>1, <2>2, BuildsOne DEF Builds
    <2>4. /\ row' = row \/ row' = [row EXCEPT ![n][i] = "queued"]
          /\ pending' = [pending EXCEPT ![n] = @ \cup {i}]
          /\ "queued" \in Status
      BY <1>7 DEF Transmit, Save, Status, OutboundStatus
    <2>5. ChannelStep(n)
      BY <1>1, <2>3, <2>4, ChannelFrame DEF Dequeue
    <2>6. row[n][i] = None
      BY DEF IInv, RefersToBuilt, Recorded
    <2>7. /\ \A j \in Id : j # i => row'[n][j] = row[n][j]
          /\ row'[n][i] \in {None, "queued"}
      BY <1>7, <2>6, SaveOne DEF Transmit, IInv, Status, OutboundStatus
    <2>8. pending'[n] = pending[n] \cup {i}
      BY <2>4 DEF IInv, TypeOK
    <2>9. Built \subseteq Id
      BY DEF Built
    <2>10. PendingSound(n)'
      BY <2>1, <2>3, <2>7, <2>8, <2>9 DEF ChannelSound, PendingSound
    <2>11. ASSUME NEW k \in 1..Len(queue'[n])
           PROVE  QueuedSound(n, k)'
      <3> DEFINE f == queue[n][k + 1]
      <3>1. QueuedSound(n, k + 1)
        BY <1>2 DEF ChannelSound
      <3>2. CASE f.op = "send"
        <4>1. /\ f.id \in Built /\ env[f.id].from = n
              /\ row[n][f.id] = None /\ f.id \notin pending[n]
              /\ \A l \in 1..Len(queue[n]) :
                   queue[n][l].op = "send" /\ queue[n][l].id = f.id => l = k + 1
          BY <3>1, <3>2 DEF QueuedSound
        <4>2. /\ f.id \in Built' /\ env'[f.id].from = n
              /\ row'[n][f.id] = None /\ f.id \notin pending'[n]
          BY <2>3, <2>7, <2>8, <2>9, <4>1
        <4>3. \A l \in 1..Len(queue'[n]) :
                queue'[n][l].op = "send" /\ queue'[n][l].id = f.id => l = k
          BY <1>2, <4>1
        <4>4. queue'[n][k] = f
          BY <1>2
        <4> HIDE DEF f
        <4>5. QED
          BY <3>2, <4>2, <4>3, <4>4 DEF QueuedSound
      <3>3. CASE f.op # "send"
        BY <1>2, <2>3, <3>1, <3>3 DEF QueuedSound
      <3>4. QED
        BY <3>2, <3>3
    <2>12. QED
      BY <2>5, <2>10, <2>11, ChannelKept
  <1>8. QED
    BY <1>2, <1>6, <1>7 DEF SendLocalMessage

LEMMA HandleCommandChannel ==
  ASSUME IInv, IInv', ChannelSound, NEW n \in Node, HandleCommand(n)
  PROVE  ChannelSound'
  <1>1. CASE SendEnvelope(n)
    BY <1>1, SendEnvelopeChannel
  <1>2. CASE SendLocalMessage(n)
    BY <1>2, SendLocalMessageChannel
  <1>3. CASE Approve(n) \/ Deny(n)
    <2>1. /\ queue[n] # <<>> /\ Dequeue(n)
          /\ env' = env /\ UNCHANGED <<row, pending>>
      BY <1>3 DEF Approve, Deny, Receives, network, store
    <2>2. ChannelStep(n)
      BY <2>1, BuildsNothing, ChannelFrame DEF Dequeue
    <2>3. QED
      BY <2>1, <2>2, ChannelTail
  <1>4. QED
    BY <1>1, <1>2, <1>3 DEF HandleCommand

LEMMA ResumeChannel ==
  ASSUME IInv, IInv', ChannelSound, NEW n \in Node, Resume(n)
  PROVE  ChannelSound'
  <1> USE DEF network, store
  <1> DEFINE h == loop[n]
  <1>1. h # None
    BY DEF Resume, StoreInbound, RejectInbound, FinishAuto, FinishApproved, QueueDenial,
           RecordDecision
  <1>2. /\ h.id \in Id /\ h.id \in Built /\ env[h.id].to = n /\ env[h.id].from \in Node
        /\ h.status \in InboundStatus /\ env[h.id].from # n
    BY <1>1 DEF IInv, TypeOK, HandlerIsInbound, Built, Handler, Envelope, ChannelSound, EndsDiffer
  <1>3. env' = env /\ pending' = pending
    BY DEF Resume, StoreInbound, RejectInbound, FinishAuto, FinishApproved, QueueDenial,
           RecordDecision
  <1> HIDE DEF h
  <1>4. CASE queue' = queue /\ \E s \in InboundStatus : Save(n, h.id, s)
    <2>1. PICK s \in InboundStatus : Save(n, h.id, s)
      BY <1>4
    <2>2. s \in Status /\ (row' = row \/ row' = [row EXCEPT ![n][h.id] = s])
      BY <2>1 DEF Save, Status
    <2>3. ChannelStep(n)
      BY <1>2, <1>3, <1>4, <2>2, BuildsNothing, ChannelFrame
    <2>4. \A j \in Built : env[j].from = n => row'[n][j] = row[n][j]
      BY <1>2, <2>1, <2>2, SaveOne DEF IInv, Built
    <2>5. QED
      BY <1>3, <1>4, <2>3, <2>4, ChannelSame
  <1>5. CASE row' = row /\ queue' = queue
    BY <1>3, <1>5, ChannelAlone
  <1>6. CASE /\ row' = row
             /\ \E outcome \in Outcome :
                  queue' = [queue EXCEPT ![n] = Append(@, ResultOf(h.id, outcome))]
    <2>1. PICK outcome \in Outcome :
                  queue' = [queue EXCEPT ![n] = Append(@, ResultOf(h.id, outcome))]
      BY <1>6
    <2> DEFINE c == ResultOf(h.id, outcome)
    <2>2. c \in Command /\ c.op = "local" /\ c.reply = h.id /\ c.to = env[h.id].from
      BY <1>2 DEF ResultOf, Command
    <2>3. queue' = [queue EXCEPT ![n] = Append(@, c)]
      BY <2>1
    <2> HIDE DEF c
    <2>4. QED
      BY <1>2, <1>3, <1>6, <2>2, <2>3, ChannelAppend
  <1>7. CASE StoreInbound(n) \/ RecordDecision(n)
    <2>1. queue' = queue /\ Save(n, h.id, h.status)
      BY <1>7 DEF StoreInbound, RecordDecision, Save, h
    <2>2. QED
      BY <1>2, <1>4, <2>1
  <1>8. CASE RejectInbound(n)
    BY <1>5, <1>8 DEF RejectInbound
  <1>9. CASE FinishAuto(n) \/ FinishApproved(n) \/ QueueDenial(n)
    <2>1. row' = row /\ (queue' = queue \/ \E outcome \in Outcome :
                  queue' = [queue EXCEPT ![n] = Append(@, ResultOf(h.id, outcome))])
      BY <1>9 DEF FinishAuto, FinishApproved, QueueDenial, Outcome, h
    <2>2. QED
      BY <1>5, <1>6, <2>1
  <1>10. QED
    BY <1>7, <1>8, <1>9 DEF Resume

LEMMA EnvironmentChannel ==
  ASSUME IInv, IInv', ChannelSound, Environment
  PROVE  ChannelSound'
  <1> USE DEF network, store, process
  <1>1. ASSUME NEW p \in wire, RequestFails(p)
        PROVE  ChannelSound'
    <2>1. PICK n \in Node : TRUE
      BY DEF IInv, RefersToBuilt, TypeOK, Built, Envelope
    <2>2. QED
      BY <1>1, <2>1, ChannelAlone DEF RequestFails
  <1>2. ASSUME NEW n \in Node, Crash(n)
        PROVE  ChannelSound'
    <2>1. /\ env' = env /\ row' = row /\ queue' = [queue EXCEPT ![n] = <<>>]
          /\ pending' = [pending EXCEPT ![n] = {}]
      BY <1>2 DEF Crash
    <2>2. ChannelStep(n)
      BY <2>1, BuildsNothing, ChannelFrame
    <2>3. queue'[n] = <<>> /\ pending'[n] = {} /\ 1..Len(queue'[n]) = {}
      BY <2>1 DEF IInv, TypeOK
    <2>4. PendingSound(n)' /\ \A k \in 1..Len(queue'[n]) : QueuedSound(n, k)'
      BY <2>3 DEF PendingSound
    <2>5. QED
      BY <2>2, <2>4, ChannelKept
  <1>3. ASSUME NEW n \in Node, Restart(n)
        PROVE  ChannelSound'
    BY <1>3, ChannelAlone DEF Restart
  <1>4. QED
    BY <1>1, <1>2, <1>3 DEF Environment

LEMMA ChannelInit == Init => ChannelSound
  BY DEF Init, ChannelSound, EndsDiffer, PendingSound, Built

LEMMA ChannelKeptByNext == IInv /\ ChannelSound /\ [Next]_vars => ChannelSound'
  <1> SUFFICES ASSUME IInv, ChannelSound, [Next]_vars PROVE ChannelSound'
    OBVIOUS
  <1>1. IInv'
    BY IInvStep
  <1>2. CASE Next
    BY <1>1, <1>2, ApiChannel, SwarmEventChannel, HandleCommandChannel, ResumeChannel,
       EnvironmentChannel DEF Next
  <1>3. CASE UNCHANGED vars
    BY <1>3 DEF vars, network, store, process, ChannelSound, EndsDiffer, PendingSound,
                QueuedSound, Built
  <1>4. QED
    BY <1>2, <1>3
=============================================================================
