------------------------ MODULE DelegatedWork_proofs -------------------------
(***************************************************************************)
(* What a worker promises of the requests sent to it, for any set of       *)
(* daemons, messages and capabilities, any channel capacity, workload and  *)
(* bounds, and whether or not requests are lost or repeated.               *)
(*                                                                         *)
(* A row of an inbound message and the handler in progress belong to one   *)
(* node, and only that node's loop changes them.  So every step is first   *)
(* reduced to one of a few effects at one node (StepEffect); the           *)
(* invariants and the refinement are then shown effect by effect.          *)
(***************************************************************************)
EXTENDS Delegation_proofs

-----------------------------------------------------------------------------
\* The effects a step may have at the node n that takes it

\* Envelopes are only added, by their sender; tables, handlers and channels of
\* the other nodes stay; what was trusted stays trusted.
OneNode(n) ==
  /\ \A j \in Built : env'[j] = env[j]
  /\ \A j \in Built' \ Built : env'[j].from = n
  /\ \A m \in Node \ {n} : row'[m] = row[m] /\ loop'[m] = loop[m] /\ queue'[m] = queue[m]
  /\ trusted \subseteq trusted'
  /\ grants \subseteq trusted => grants' \subseteq trusted'

\* The results in the channel of n were there before, as many places behind.
LocalsFrom(n, shift) ==
  \A k \in 1..Len(queue'[n]) : queue'[n][k].op = "local" =>
    k + shift \in 1..Len(queue[n]) /\ queue'[n][k] = queue[n][k + shift]

NoNewAnswer == \A j \in Built' \ Built : env'[j].outcome = None

\* No result is sent, and none comes into the channel of n.
ReportsNothing(n) == NoNewAnswer /\ \E shift \in {0, 1} : LocalsFrom(n, shift)

\* The handler puts its result into the channel.
Reports(n, outcome) == queue'[n] = Append(queue[n], ResultOf(loop[n].id, outcome))

\* Inbound rows, handlers and executions stay.
Apart(n) ==
  /\ OneNode(n)
  /\ \A i \in Built : env[i].from # n => row'[n][i] = row[n][i]
  /\ loop' = loop /\ ran' = ran

\* The local API, most events, the sending of messages, the transport.
Outside(n) == Apart(n) /\ ReportsNothing(n)

\* The result at the head of the channel becomes an envelope.
Sends(n) ==
  LET c == Head(queue[n]) IN
  /\ Apart(n) /\ loop[n] = None
  /\ queue[n] # <<>> /\ c.op = "local" /\ Dequeue(n)
  /\ \E i \in Id \ Built :
       env' = [env EXCEPT ![i] =
         [kind |-> "delegate_result", from |-> n, to |-> c.to, cap |-> DelegateWork,
          reply |-> c.reply, outcome |-> c.outcome, wellFormed |-> TRUE]]

\* The handler in progress ends without a further write, or dies: with the
\* daemon, at a decision that cannot be written, before it decided anything, or
\* after an automatic execution.
Ends(n) ==
  LET h == loop[n] IN
  /\ OneNode(n) /\ env' = env /\ row' = row /\ ran' = ran
  /\ loop' = [loop EXCEPT ![n] = None]
  /\ \/ queue'[n] = <<>>
     \/ StorageFails /\ h # None /\ h.at = "decided"
     \/ h # None /\ h.at # "decided" /\ queue'[n] = queue[n]
     \/ h # None /\ h.at = "auto" /\ \E outcome \in {"completed", "failed"} : Reports(n, outcome)

\* An idle node takes up the message i, under the verdict of its policy.
Accepts(n, i) ==
  /\ OneNode(n) /\ env' = env /\ row' = row /\ ran' = ran /\ ReportsNothing(n)
  /\ loop[n] = None
  /\ i \in Built /\ env[i].to = n /\ ~Recorded(n, i)
  /\ Request(i) \in wire \/ Recorded(env[i].from, i)
  /\ \E ack \in BOOLEAN : Busy(n, "accept", i, Verdict(n, i), ack)

\* The verdict is stored; a request that is received may start to execute.
Stores(n) ==
  LET h == loop[n] IN
  /\ OneNode(n) /\ env' = env /\ ReportsNothing(n)
  /\ h # None /\ h.at = "accept"
  /\ row' = [row EXCEPT ![n][h.id] = h.status]
  /\ \/ /\ env[h.id].kind = "delegate_request" /\ h.status = "received"
        /\ Busy(n, "auto", h.id, h.status, h.ack)
        /\ ran' = ran \cup {<<h.id, "auto">>}
     \/ Done(n) /\ ran' = ran

\* An idle node takes up a decision about the pending request i.
Decides(n, i) ==
  /\ OneNode(n) /\ env' = env /\ row' = row /\ ReportsNothing(n)
  /\ loop[n] = None
  /\ i \in Built /\ env[i].to = n /\ row[n][i] = "pending"
  /\ \/ Busy(n, "approve", i, "approved", FALSE) /\ ran' = ran \cup {<<i, "approved">>}
     \/ Busy(n, "deny", i, "denied", FALSE) /\ ran' = ran

\* The handler has queued the answer to an operator's decision.
Settles(n) ==
  LET h == loop[n] IN
  /\ OneNode(n) /\ env' = env /\ row' = row /\ ran' = ran
  /\ h # None
  /\ \/ /\ h.at = "approve" /\ Busy(n, "decided", h.id, "approved", FALSE)
        /\ Reports(n, "completed")
     \/ /\ h.at = "deny" /\ Busy(n, "decided", h.id, "denied", FALSE)
        /\ Reports(n, "denied")

\* The decision is written.
Records(n) ==
  LET h == loop[n] IN
  /\ OneNode(n) /\ env' = env /\ ran' = ran /\ ReportsNothing(n)
  /\ h # None /\ h.at = "decided"
  /\ row' = [row EXCEPT ![n][h.id] = h.status]
  /\ Done(n)

StepEffect ==
  \E n \in Node :
    \/ Outside(n) \/ Sends(n) \/ Ends(n) \/ (\E i \in Id : Accepts(n, i))
    \/ Stores(n) \/ (\E i \in Id : Decides(n, i)) \/ Settles(n) \/ Records(n)

\* A step that changes no row, handler or channel of another node, and no
\* envelope.
LEMMA OneNodeFrame ==
  ASSUME IInv, NEW n \in Node, env' = env,
         \/ row' = row
         \/ \E i \in Id, s \in Status : row' = [row EXCEPT ![n][i] = s],
         \/ loop' = loop
         \/ \E h : loop' = [loop EXCEPT ![n] = h],
         \/ queue' = queue
         \/ \E q : queue' = [queue EXCEPT ![n] = q],
         trusted \subseteq trusted',
         grants \subseteq trusted => grants' \subseteq trusted'
  PROVE  OneNode(n)
  <1>1. Built' = Built
    BY DEF Built
  <1>2. \A m \in Node \ {n} : row'[m] = row[m]
    BY DEF IInv, TypeOK
  <1>3. \A m \in Node \ {n} : loop'[m] = loop[m]
    BY DEF IInv, TypeOK
  <1>4. \A m \in Node \ {n} : queue'[m] = queue[m]
    BY DEF IInv, TypeOK
  <1>5. QED
    BY <1>1, <1>2, <1>3, <1>4 DEF OneNode

LEMMA QuietQueue ==
  ASSUME IInv, NEW n \in Node, env' = env, queue' = queue
  PROVE  ReportsNothing(n)
  <1>1. Len(queue[n]) \in Nat
    BY QueueIsSeq
  <1>2. LocalsFrom(n, 0)
    BY <1>1 DEF LocalsFrom
  <1>3. QED
    BY <1>2 DEF ReportsNothing, NoNewAnswer, Built

LEMMA DequeueReportsNothing ==
  ASSUME IInv, NEW n \in Node, NoNewAnswer, queue[n] # <<>>, Dequeue(n)
  PROVE  ReportsNothing(n)
  <1>1. LocalsFrom(n, 1)
    BY TailShifts DEF LocalsFrom
  <1>2. QED
    BY <1>1 DEF ReportsNothing

LEMMA EnqueueReportsNothing ==
  ASSUME IInv, NEW n \in Node, NoNewAnswer, NEW c \in Command, c.op # "local",
         queue' = [queue EXCEPT ![n] = Append(@, c)]
  PROVE  ReportsNothing(n)
  <1>1. queue[n] \in Seq(Command) /\ Len(queue[n]) \in Nat
    BY QueueIsSeq
  <1>2. queue'[n] = Append(queue[n], c)
    BY DEF IInv, TypeOK
  <1>3. \A k \in 1..Len(queue'[n]) :
          queue'[n][k] = c \/ (k \in 1..Len(queue[n]) /\ queue'[n][k] = queue[n][k])
    BY <1>1, <1>2
  <1>4. LocalsFrom(n, 0)
    BY <1>1, <1>3 DEF LocalsFrom
  <1>5. QED
    BY <1>4 DEF ReportsNothing

LEMMA ApiEffect ==
  ASSUME IInv, LocalApi
  PROVE  \E n \in Node : Outside(n)
  <1> USE DEF network, store, process, count
  <1>1. ASSUME NEW n \in Node, SendMessage(n)
        PROVE  Outside(n)
    <2>1. PICK d \in Draft, i \in Id \ Built, r \in Built \cup {None} :
            /\ env' = [env EXCEPT ![i] =
                 [kind |-> d.kind, from |-> n, to |-> d.to, cap |-> d.cap,
                  reply |-> r, outcome |-> None, wellFormed |-> d.wellFormed]]
            /\ queue' = [queue EXCEPT ![n] = Append(@, [op |-> "send", id |-> i])]
            /\ UNCHANGED <<store, loop, ran>>
      BY <1>1 DEF SendMessage
    <2> DEFINE c == [op |-> "send", id |-> i]
    <2>2. \A j \in Built : env'[j] = env[j]
      BY <2>1 DEF Built, IInv, TypeOK
    <2>3. \A j \in Built' \ Built : env'[j].from = n /\ env'[j].outcome = None
      BY <2>1 DEF Built, IInv, TypeOK
    <2>4. \A m \in Node \ {n} : queue'[m] = queue[m]
      BY <2>1 DEF IInv, TypeOK
    <2>5. c \in Command /\ c.op # "local" /\ queue' = [queue EXCEPT ![n] = Append(@, c)]
      BY <2>1 DEF Command
    <2> HIDE DEF c
    <2>6. ReportsNothing(n)
      BY <2>3, <2>5, EnqueueReportsNothing DEF NoNewAnswer
    <2>7. QED
      BY <2>1, <2>2, <2>3, <2>4, <2>6 DEF Outside, Apart, OneNode
  <1>2. ASSUME NEW n \in Node, Decide(n)
        PROVE  Outside(n)
    <2>1. PICK d \in Decision, i \in Id :
            queue' = [queue EXCEPT ![n] = Append(@,
               IF d.op = "deny" THEN [op |-> "deny", id |-> i]
               ELSE [op |-> "approve", id |-> i, always |-> d.always, cap |-> d.cap])]
      BY <1>2 DEF Decide
    <2> DEFINE c == IF d.op = "deny" THEN [op |-> "deny", id |-> i]
                    ELSE [op |-> "approve", id |-> i, always |-> d.always, cap |-> d.cap]
    <2>2. c \in Command /\ c.op # "local"
      BY ConstantsAssumption DEF Command
    <2>3. env' = env /\ UNCHANGED <<store, loop, ran>>
      BY <1>2 DEF Decide
    <2>4. queue' = [queue EXCEPT ![n] = Append(@, c)]
      BY <2>1
    <2> HIDE DEF c
    <2>5. ReportsNothing(n)
      BY <2>2, <2>3, <2>4, EnqueueReportsNothing DEF NoNewAnswer, Built
    <2>6. OneNode(n)
      BY <2>3, <2>4, OneNodeFrame
    <2>7. QED
      BY <2>3, <2>5, <2>6 DEF Outside, Apart
  <1>3. ASSUME NEW g \in Grantable, GrantCapability(g) \/ RevokeCapability(g)
        PROVE  \E n \in Node : Outside(n)
    <2>1. g[1] \in Node
      BY ConstantsAssumption
    <2>2. OneNode(g[1]) /\ ReportsNothing(g[1])
      BY <1>3, <2>1, OneNodeFrame, QuietQueue DEF GrantCapability, RevokeCapability
    <2>3. QED
      BY <1>3, <2>1, <2>2 DEF GrantCapability, RevokeCapability, Outside, Apart
  <1>4. ASSUME NEW n \in Node, NEW p \in Node, AddPeer(n, p)
        PROVE  Outside(n)
    BY <1>4, OneNodeFrame, QuietQueue DEF AddPeer, Outside, Apart
  <1>5. QED
    BY <1>1, <1>2, <1>3, <1>4 DEF LocalApi

\* A write of the row of a message that n sent leaves the inbound rows alone.
LEMMA SaveApart ==
  ASSUME IInv, NEW n \in Node, NEW i \in Id, NEW s \in OutboundStatus, Save(n, i, s),
         i \in Built => env[i].from = n, env' = env \/ i \notin Built,
         \A j \in Built : env'[j] = env[j],
         \A j \in Built' \ Built : env'[j].from = n,
         \A m \in Node \ {n} : queue'[m] = queue[m],
         UNCHANGED <<grants, trusted, loop, ran>>
  PROVE  Apart(n)
  <1>1. s \in Status
    BY DEF Status
  <1>2. \A m \in Node, j \in Id : row'[m][j] = row[m][j] \/ (m = n /\ j = i)
    BY <1>1, SaveOne DEF IInv
  <1>3. \A m \in Node \ {n} : row'[m] = row[m]
    BY DEF Save, IInv, TypeOK
  <1>4. \A j \in Built : env[j].from # n => row'[n][j] = row[n][j]
    BY <1>2 DEF Built
  <1>5. QED
    BY <1>3, <1>4 DEF Apart, OneNode

LEMMA SwarmEventEffect ==
  ASSUME IInv, NEW n \in Node, SwarmEvent(n)
  PROVE  Outside(n) \/ \E i \in Id : Accepts(n, i)
  <1> USE DEF network, store, process, count
  <1>1. CASE \E p \in Node : LearnProfile(n, p)
    BY <1>1, OneNodeFrame, QuietQueue DEF LearnProfile, Outside, Apart
  <1>2. ASSUME NEW i \in Built, NEW ack \in BOOLEAN, AcceptEnvelope(n, i, ack),
               Request(i) \in wire \/ Recorded(env[i].from, i)
        PROVE  Outside(n) \/ Accepts(n, i)
    <2>1. /\ UNCHANGED <<env, store, ran, queue>> /\ env[i].to = n /\ loop[n] = None
          /\ ReportsNothing(n)
      BY <1>2, QuietQueue DEF AcceptEnvelope, Idle
    <2>2. CASE Recorded(n, i)
      BY <1>2, <2>1, <2>2, OneNodeFrame DEF AcceptEnvelope, Outside, Apart
    <2>3. CASE ~Recorded(n, i)
      <3>1. Busy(n, "accept", i, Verdict(n, i), ack)
        BY <1>2, <2>3 DEF AcceptEnvelope
      <3>2. OneNode(n)
        BY <2>1, <3>1, OneNodeFrame DEF Busy
      <3>3. QED
        BY <1>2, <2>1, <2>3, <3>1, <3>2 DEF Accepts
    <2>4. QED
      BY <2>2, <2>3
  <1>3. CASE \E p \in wire : ReceiveRequest(n, p)
    <2>1. PICK p \in wire : ReceiveRequest(n, p)
      BY <1>3
    <2>2. p \in Packet /\ p.type = "request" /\ p.id \in Built /\ AcceptEnvelope(n, p.id, TRUE)
      BY <2>1 DEF ReceiveRequest, IInv, TypeOK, RefersToBuilt
    <2>3. p = Request(p.id)
      BY <2>2 DEF Packet, Request
    <2>4. QED
      BY <1>2, <2>1, <2>2, <2>3 DEF Built
  <1>4. CASE \E i \in Id : ReceiveAgain(n, i)
    BY <1>2, <1>4 DEF ReceiveAgain
  <1>5. CASE \E p \in wire : ReceiveAck(n, p)
    <2>1. PICK p \in wire : ReceiveAck(n, p)
      BY <1>5
    <2>2. p.id \in Id /\ p.id \in Built /\ env[p.id].from = n /\ env' = env
          /\ UNCHANGED <<grants, trusted, loop, ran, queue>>
      BY <2>1 DEF ReceiveAck, IInv, RefersToBuilt, Built
    <2>3. CASE row' = row
      BY <2>2, <2>3, OneNodeFrame, QuietQueue DEF Outside, Apart
    <2>4. CASE \E s \in {"delivered", "failed"} : Save(n, p.id, s)
      BY <2>2, <2>4, SaveApart, QuietQueue DEF OutboundStatus, Built, Outside
    <2>5. QED
      BY <2>1, <2>3, <2>4 DEF ReceiveAck
  <1>6. QED
    BY <1>1, <1>3, <1>4, <1>5 DEF SwarmEvent

LEMMA HandleCommandEffect ==
  ASSUME IInv, ChannelSound, NEW n \in Node, HandleCommand(n)
  PROVE  Outside(n) \/ Sends(n) \/ \E i \in Id : Decides(n, i)
  <1> USE DEF network, store, process, count
  <1> DEFINE c == Head(queue[n])
  <1>1. /\ queue[n] # <<>> /\ loop[n] = None /\ c = queue[n][1] /\ 1 \in 1..Len(queue[n])
        /\ c \in Command /\ c \in BuiltCommand /\ QueuedSound(n, 1)
    <2>1. queue[n] # <<>> /\ loop[n] = None
      BY DEF HandleCommand, SendEnvelope, SendLocalMessage, Approve, Deny, Receives, Idle
    <2>2. queue[n] \in Seq(Command) /\ Len(queue[n]) \in Nat
      BY QueueIsSeq
    <2>3. c = queue[n][1] /\ 1 \in 1..Len(queue[n])
      BY <2>1, <2>2
    <2>4. QED
      BY <2>1, <2>3, QueueIsSeq DEF ChannelSound
  <1>2. Dequeue(n) /\ \A m \in Node \ {n} : queue'[m] = queue[m]
    BY DEF HandleCommand, SendEnvelope, SendLocalMessage, Approve, Deny, Dequeue, IInv, TypeOK
  <1>3. env' = env => ReportsNothing(n)
    BY <1>1, <1>2, DequeueReportsNothing DEF NoNewAnswer, Built
  <1> HIDE DEF c
  <1>4. CASE SendEnvelope(n)
    <2>1. c.op = "send" /\ c.id \in Built /\ c.id \in Id /\ env[c.id].from = n
      BY <1>1, <1>4 DEF SendEnvelope, Receives, QueuedSound, Built, c
    <2>2. env' = env /\ UNCHANGED <<grants, trusted, loop, ran>>
          /\ (row' = row \/ Save(n, c.id, "queued"))
      BY <1>4 DEF SendEnvelope, Transmit, c
    <2>3. "queued" \in OutboundStatus
      BY DEF OutboundStatus
    <2>4. CASE row' = row
      BY <1>2, <1>3, <2>2, <2>4, OneNodeFrame DEF Outside, Apart, Dequeue
    <2>5. CASE Save(n, c.id, "queued")
      BY <1>2, <1>3, <2>1, <2>2, <2>3, <2>5, SaveApart DEF Built, Outside
    <2>6. QED
      BY <2>2, <2>4, <2>5
  <1>5. CASE SendLocalMessage(n)
    <2>1. UNCHANGED <<grants, trusted, loop, ran>> /\ c.op = "local"
      BY <1>5 DEF SendLocalMessage, Receives, c
    <2>2. CASE env' = env /\ row' = row
      BY <1>2, <1>3, <2>1, <2>2, OneNodeFrame DEF Outside, Apart, Dequeue
    <2>3. ASSUME NEW i \in Id \ Built, Transmit(n, i),
                 NEW e, env' = [env EXCEPT ![i] = e], e.from = n
          PROVE  Apart(n)
      <3>1. /\ \A j \in Built : env'[j] = env[j]
            /\ \A j \in Built' \ Built : env'[j].from = n
        BY <2>3 DEF Built, IInv, TypeOK
      <3>2. QED
        BY <1>2, <2>1, <2>3, <3>1, SaveApart DEF Transmit, OutboundStatus
    <2>4. ASSUME NEW i \in Id \ Built, Transmit(n, i),
                 env' = [env EXCEPT ![i] =
                   [kind |-> "delegate_result", from |-> n, to |-> c.to,
                    cap |-> DelegateWork, reply |-> c.reply,
                    outcome |-> c.outcome, wellFormed |-> TRUE]]
          PROVE  Sends(n)
      <3> DEFINE e == [kind |-> "delegate_result", from |-> n, to |-> c.to,
                       cap |-> DelegateWork, reply |-> c.reply,
                       outcome |-> c.outcome, wellFormed |-> TRUE]
      <3>1. env' = [env EXCEPT ![i] = e] /\ e.from = n
        BY <2>4
      <3> HIDE DEF e
      <3>2. Apart(n)
        BY <2>3, <2>4, <3>1
      <3>3. \E k \in Id \ Built : env' = [env EXCEPT ![k] = e]
        BY <3>1
      <3>4. QED
        BY <1>1, <1>2, <2>1, <3>2, <3>3 DEF Sends, c, e
    <2>5. QED
      BY <1>5, <2>2, <2>4 DEF SendLocalMessage, c
  <1>6. CASE Approve(n) \/ Deny(n)
    <2>1. c.op \in {"approve", "deny"} /\ c.id \in Id /\ c.id \in Built
      BY <1>1, <1>6 DEF Approve, Deny, Receives, BuiltCommand, Built, c
    <2>2. /\ env' = env /\ row' = row /\ trusted \subseteq trusted'
          /\ grants \subseteq trusted => grants' \subseteq trusted'
      BY <1>6 DEF Approve, Deny
    <2>3. \/ loop' = loop /\ ran' = ran
          \/ /\ row[n][c.id] = "pending"
             /\ \/ Busy(n, "approve", c.id, "approved", FALSE)
                   /\ ran' = ran \cup {<<c.id, "approved">>}
                \/ Busy(n, "deny", c.id, "denied", FALSE) /\ ran' = ran
      BY <1>6 DEF Approve, Deny, Decidable, c
    <2>4. loop' = loop \/ \E h : loop' = [loop EXCEPT ![n] = h]
      BY <2>3 DEF Busy
    <2>5. OneNode(n)
      BY <1>2, <2>2, <2>4, OneNodeFrame DEF Dequeue
    <2>6. CASE loop' = loop /\ ran' = ran
      BY <1>3, <2>2, <2>5, <2>6 DEF Outside, Apart
    <2>7. CASE loop' # loop \/ ran' # ran
      <3>1. row[n][c.id] = "pending"
        BY <2>3, <2>7
      <3>2. env[c.id].to = n
        BY <2>1, <3>1, NoneAssumption DEF IInv, RefersToBuilt, Recorded, Status, InboundStatus
      <3>3. Decides(n, c.id)
        BY <1>1, <1>3, <2>1, <2>2, <2>3, <2>5, <2>7, <3>2 DEF Decides
      <3>4. QED
        BY <2>1, <3>3
    <2>8. QED
      BY <2>6, <2>7
  <1>7. QED
    BY <1>4, <1>5, <1>6 DEF HandleCommand

LEMMA ResumeEffect ==
  ASSUME IInv, NEW n \in Node, Resume(n)
  PROVE  Ends(n) \/ Stores(n) \/ Settles(n) \/ Records(n)
  <1> USE DEF network, store, process, count
  <1> DEFINE h == loop[n]
  <1>1. h # None /\ env' = env /\ grants' = grants /\ trusted' = trusted
    BY DEF Resume, StoreInbound, RejectInbound, FinishAuto, FinishApproved, QueueDenial,
           RecordDecision
  <1>2. h.id \in Id /\ h.status \in Status
    BY <1>1 DEF IInv, TypeOK, Handler, Status
  <1>3. OneNode(n)
    <2>1. row' = row \/ row' = [row EXCEPT ![n][h.id] = h.status]
      BY DEF Resume, StoreInbound, RejectInbound, FinishAuto, FinishApproved, QueueDenial,
             RecordDecision, Save
    <2>2. /\ \E g : loop' = [loop EXCEPT ![n] = g]
          /\ queue' = queue \/ \E q : queue' = [queue EXCEPT ![n] = q]
      BY DEF Resume, StoreInbound, RejectInbound, FinishAuto, FinishApproved, QueueDenial,
             RecordDecision, Done, Busy
    <2> HIDE DEF h
    <2>3. QED
      BY <1>1, <1>2, <2>1, <2>2, OneNodeFrame
  <1>4. CASE StoreInbound(n)
    BY <1>1, <1>3, <1>4, QuietQueue DEF StoreInbound, Stores
  <1>5. CASE RejectInbound(n)
    BY <1>1, <1>3, <1>5 DEF RejectInbound, Ends, Done
  <1>6. CASE FinishAuto(n)
    <2>1. /\ row' = row /\ ran' = ran /\ h.at = "auto" /\ Done(n)
          /\ \/ queue' = queue
             \/ \E outcome \in {"completed", "failed"} :
                  queue' = [queue EXCEPT ![n] = Append(@, ResultOf(h.id, outcome))]
      BY <1>6 DEF FinishAuto
    <2>2. queue'[n] = queue[n] \/ \E outcome \in {"completed", "failed"} : Reports(n, outcome)
      BY <2>1 DEF Reports, IInv, TypeOK
    <2>3. QED
      BY <1>1, <1>3, <2>1, <2>2 DEF Ends, Done
  <1>7. CASE FinishApproved(n) \/ QueueDenial(n)
    <2>1. row' = row /\ ran' = ran
      BY <1>7 DEF FinishApproved, QueueDenial
    <2>2. \/ Done(n) /\ queue' = queue /\ h.at \in {"approve", "deny"}
          \/ /\ h.at = "approve" /\ Busy(n, "decided", h.id, "approved", FALSE)
             /\ queue' = [queue EXCEPT ![n] = Append(@, ResultOf(h.id, "completed"))]
          \/ /\ h.at = "deny" /\ Busy(n, "decided", h.id, "denied", FALSE)
             /\ queue' = [queue EXCEPT ![n] = Append(@, ResultOf(h.id, "denied"))]
      BY <1>7 DEF FinishApproved, QueueDenial
    <2>3. \/ Done(n) /\ queue' = queue /\ h.at \in {"approve", "deny"}
          \/ /\ h.at = "approve" /\ Busy(n, "decided", h.id, "approved", FALSE)
             /\ Reports(n, "completed")
          \/ /\ h.at = "deny" /\ Busy(n, "decided", h.id, "denied", FALSE)
             /\ Reports(n, "denied")
      BY <2>2 DEF Reports, IInv, TypeOK
    <2>4. QED
      BY <1>1, <1>3, <2>1, <2>3 DEF Settles, Ends, Done
  <1>8. CASE RecordDecision(n)
    BY <1>1, <1>3, <1>8, QuietQueue DEF RecordDecision, Save, Records, Ends, Done
  <1>9. QED
    BY <1>4, <1>5, <1>6, <1>7, <1>8 DEF Resume

LEMMA EnvironmentEffect ==
  ASSUME IInv, Environment, Node # {}
  PROVE  \E n \in Node : Outside(n) \/ Ends(n)
  <1> USE DEF network, store, process, count
  <1>1. CASE \E p \in wire : RequestFails(p)
    BY <1>1, OneNodeFrame, QuietQueue DEF RequestFails, Outside, Apart
  <1>2. CASE \E n \in Node : Crash(n)
    <2>1. PICK n \in Node : Crash(n)
      BY <1>2
    <2>2. queue'[n] = <<>> /\ OneNode(n)
      BY <2>1, OneNodeFrame DEF Crash, IInv, TypeOK
    <2>3. QED
      BY <2>1, <2>2 DEF Crash, Ends
  <1>3. CASE \E n \in Node : Restart(n)
    BY <1>3, OneNodeFrame, QuietQueue DEF Restart, Outside, Apart
  <1>4. QED
    BY <1>1, <1>2, <1>3 DEF Environment

LEMMA EveryStepHasAnEffect ==
  ASSUME IInv, ChannelSound, Next
  PROVE  StepEffect
  <1>1. CASE LocalApi
    BY <1>1, ApiEffect DEF StepEffect
  <1>2. CASE \E n \in Node : SwarmEvent(n)
    BY <1>2, SwarmEventEffect DEF StepEffect
  <1>3. CASE \E n \in Node : HandleCommand(n)
    BY <1>3, HandleCommandEffect DEF StepEffect
  <1>4. CASE \E n \in Node : Resume(n)
    BY <1>4, ResumeEffect DEF StepEffect
  <1>5. CASE Environment
    <2>1. Node # {}
      BY <1>5 DEF Environment, RequestFails, IInv, TypeOK, RefersToBuilt, Built, Envelope
    <2>2. QED
      BY <1>5, <2>1, EnvironmentEffect DEF StepEffect
  <1>6. QED
    BY <1>1, <1>2, <1>3, <1>4, <1>5 DEF Next

-----------------------------------------------------------------------------
\* The handler in progress agrees with the row of the message it is about

\* The message replied to was sent by this node to the peer that replies.
Solicited(n, i) ==
  LET r == env[i].reply IN r \in Built /\ env[r].from = n /\ env[r].to = env[i].from

\* The operator trusted the sender with the capability at some time, or none is
\* named, or the message is a solicited result.
Admissible(n, i) ==
  \/ env[i].cap = None
  \/ <<n, env[i].from, env[i].cap>> \in trusted
  \/ env[i].kind = "delegate_result" /\ Solicited(n, i)

\* What the handler h of node n about the message i may rely on.
Relies(h, n, i) ==
  /\ h.at = "accept" =>
       /\ row[n][i] = None
       /\ h.status = "received" => Admissible(n, i)
       /\ env[i].kind = "delegate_request" => h.status # "blocked"
       /\ h.status = "pending" => env[i].kind = "delegate_request"
  /\ h.at = "auto" => row[n][i] = "received" /\ <<i, "auto">> \in ran
  /\ h.at \in {"approve", "deny", "decided"} => row[n][i] = "pending"
  /\ h.at = "approve" => h.status = "approved"
  /\ h.at = "deny" => h.status = "denied"
  /\ h.at = "decided" => h.status \in {"approved", "denied"}
  /\ h.at \in {"approve", "decided"} /\ h.status = "approved" => <<i, "approved">> \in ran

HandlerSound(n) ==
  \A i \in Built : loop[n] # None /\ loop[n].id = i => Relies(loop[n], n, i)

\* What the row of a message i sent to n tells.
RowSound(n, i) ==
  /\ row[n][i] \notin OutboundStatus
  /\ env[i].kind = "delegate_request" => row[n][i] # "blocked"
  /\ row[n][i] \in {"pending", "approved", "denied"} => env[i].kind = "delegate_request"
  /\ row[n][i] = "received" => Admissible(n, i)
  /\ <<i, "auto">> \in ran => row[n][i] = "received" /\ env[i].kind = "delegate_request"
  /\ <<i, "approved">> \in ran => row[n][i] \in {"pending", "approved", "denied"}

RanIsBuilt ==
  \A i \in Id, authority \in {"auto", "approved"} : <<i, authority>> \in ran => i \in Built

RequestsSound ==
  /\ RanIsBuilt /\ grants \subseteq trusted
  /\ \A n \in Node : HandlerSound(n)
  /\ \A n \in Node, i \in Built : env[i].to = n => RowSound(n, i)

\* What every effect has in common: the envelopes and what was trusted stay.
LEMMA AdmissibleStays ==
  ASSUME NEW n \in Node, NEW m \in Node, NEW i \in Built, OneNode(m), Admissible(n, i)
  PROVE  Admissible(n, i)'
  BY DEF OneNode, Admissible, Solicited, Built

\* A step at n that keeps what is known of the messages to n and of its handler
\* keeps it all.
LEMMA SoundAtOneNode ==
  ASSUME IInv, IInv', ChannelSound', RequestsSound, NEW n \in Node, OneNode(n),
         ran \subseteq ran',
         \A x \in ran' : x \in ran \/ \E i \in Built, authority \in {"auto", "approved"} :
                                         x = <<i, authority>> /\ env[i].to = n,
         HandlerSound(n)',
         \A i \in Built : env[i].to = n => RowSound(n, i)'
  PROVE  RequestsSound'
  <1>1. \A j \in Built : /\ j \in Built' /\ j \in Id /\ env'[j] = env[j]
                         /\ env[j].to \in Node /\ env[j].from \in Node
    BY DEF OneNode, Built, IInv, TypeOK, Envelope
  <1>2. RanIsBuilt'
    BY <1>1 DEF RequestsSound, RanIsBuilt
  <1>3. ASSUME NEW m \in Node \ {n}
        PROVE  HandlerSound(m)'
    <2> SUFFICES ASSUME NEW i \in Built', loop'[m] # None, loop'[m].id = i
                 PROVE  Relies(loop[m], m, i)'
      BY DEF HandlerSound
    <2>1. row'[m] = row[m] /\ loop'[m] = loop[m] /\ HandlerSound(m)
      BY DEF OneNode, RequestsSound
    <2>2. i \in Built
      BY <2>1 DEF IInv, HandlerIsInbound
    <2>3. Relies(loop[m], m, i)
      BY <2>1, <2>2 DEF HandlerSound
    <2>4. Admissible(m, i) => Admissible(m, i)'
      BY <2>2, AdmissibleStays
    <2>5. QED
      BY <1>1, <2>1, <2>2, <2>3, <2>4 DEF Relies
  <1>4. ASSUME NEW m \in Node, NEW i \in Built', env'[i].to = m
        PROVE  RowSound(m, i)'
    <2>1. CASE i \in Built /\ m = n
      BY <1>1, <1>4, <2>1
    <2>2. CASE i \in Built /\ m # n
      <3>1. env[i].to = m /\ row'[m] = row[m] /\ RowSound(m, i) /\ env'[i] = env[i]
        BY <1>1, <1>4, <2>2 DEF OneNode, RequestsSound
      <3>2. <<i, "auto">> \notin ran => <<i, "auto">> \notin ran'
        BY <2>2, <3>1
      <3>3. <<i, "approved">> \notin ran => <<i, "approved">> \notin ran'
        BY <2>2, <3>1
      <3>4. Admissible(m, i) => Admissible(m, i)'
        BY <2>2, AdmissibleStays
      <3>5. QED
        BY <3>1, <3>2, <3>3, <3>4 DEF RowSound
    <2>3. CASE i \notin Built
      <3>1. env'[i].from = n /\ m # n /\ i \in Id
        BY <1>4, <2>3 DEF OneNode, ChannelSound, EndsDiffer, Built
      <3>2. row'[m][i] = None
        BY <2>3, <3>1 DEF OneNode, IInv, RefersToBuilt, Recorded
      <3>3. <<i, "auto">> \notin ran' /\ <<i, "approved">> \notin ran'
        BY <2>3, <3>1 DEF RequestsSound, RanIsBuilt
      <3>4. QED
        BY <3>2, <3>3, NoneAssumption DEF RowSound, Status, OutboundStatus, InboundStatus
    <2>4. QED
      BY <2>1, <2>2, <2>3
  <1>5. grants' \subseteq trusted'
    BY DEF OneNode, RequestsSound
  <1>6. \A m \in Node : HandlerSound(m)'
    BY <1>3
  <1>7. \A m \in Node, i \in Built' : env'[i].to = m => RowSound(m, i)'
    BY <1>4
  <1>8. QED
    BY <1>2, <1>5, <1>6, <1>7 DEF RequestsSound

LEMMA ApartIsSound ==
  ASSUME IInv, IInv', ChannelSound, ChannelSound', RequestsSound, NEW n \in Node,
         Apart(n) \/ Ends(n)
  PROVE  RequestsSound'
  <1>1. OneNode(n) /\ ran' = ran /\ (loop'[n] = loop[n] \/ loop'[n] = None)
    BY DEF Apart, Ends, IInv, TypeOK
  <1>2. \A i \in Built : i \in Built' /\ env'[i] = env[i] /\ env[i].from # env[i].to
    BY <1>1 DEF OneNode, Built, ChannelSound, EndsDiffer
  <1>3. \A i \in Built : env[i].to = n => row'[n][i] = row[n][i]
    BY <1>2 DEF Apart, Ends
  <1>4. HandlerSound(n)'
    <2> SUFFICES ASSUME NEW i \in Built', loop'[n] # None, loop'[n].id = i
                 PROVE  Relies(loop[n], n, i)'
      BY DEF HandlerSound
    <2>1. loop'[n] = loop[n] /\ i \in Built /\ env[i].to = n
      BY <1>1 DEF IInv, HandlerIsInbound
    <2>2. Relies(loop[n], n, i)
      BY <2>1 DEF RequestsSound, HandlerSound
    <2>3. Admissible(n, i) => Admissible(n, i)'
      BY <1>1, <2>1, AdmissibleStays
    <2>4. QED
      BY <1>1, <1>2, <1>3, <2>1, <2>2, <2>3 DEF Relies
  <1>5. ASSUME NEW i \in Built, env[i].to = n
        PROVE  RowSound(n, i)'
    <2>1. RowSound(n, i)
      BY <1>5 DEF RequestsSound
    <2>2. Admissible(n, i) => Admissible(n, i)'
      BY <1>1, AdmissibleStays
    <2>3. QED
      BY <1>1, <1>2, <1>3, <1>5, <2>1, <2>2 DEF RowSound
  <1>6. QED
    BY <1>1, <1>4, <1>5, SoundAtOneNode

\* The rows of the messages to n stay, and nothing new is executed.
LEMMA RowsStaySound ==
  ASSUME IInv, RequestsSound, NEW n \in Node, OneNode(n), env' = env, row' = row, ran' = ran
  PROVE  \A i \in Built : env[i].to = n => RowSound(n, i)'
  <1> SUFFICES ASSUME NEW i \in Built, env[i].to = n PROVE RowSound(n, i)'
    OBVIOUS
  <1>1. RowSound(n, i)
    BY DEF RequestsSound
  <1>2. Admissible(n, i) => Admissible(n, i)'
    BY AdmissibleStays
  <1>3. QED
    BY <1>1, <1>2 DEF RowSound

LEMMA AcceptsIsSound ==
  ASSUME IInv, IInv', ChannelSound', RequestsSound, NEW n \in Node, NEW i \in Id,
         Accepts(n, i)
  PROVE  RequestsSound'
  <1>1. PICK ack \in BOOLEAN : Busy(n, "accept", i, Verdict(n, i), ack)
    BY DEF Accepts
  <1>2. loop'[n] = [at |-> "accept", id |-> i, status |-> Verdict(n, i), ack |-> ack]
    BY <1>1 DEF Busy, IInv, TypeOK
  <1>3. i \in Built /\ row[n][i] = None /\ OneNode(n) /\ env' = env /\ row' = row
    BY DEF Accepts, Recorded
  <1>4. Verdict(n, i) = "received" => Admissible(n, i)
    <2>1. InReplyContext(n, i) => Solicited(n, i)
      BY <1>3 DEF InReplyContext, Solicited, IInv, TypeOK, RefersToBuilt, Built, Envelope
    <2>2. HasGrant(n, env[i].from, env[i].cap) => Admissible(n, i)
      BY DEF HasGrant, RequestsSound, Admissible
    <2>3. env[i].kind \in Kind
      BY <1>3 DEF IInv, TypeOK, Built, Envelope
    <2>4. QED
      BY <2>1, <2>2, <2>3 DEF Verdict, Admissible, Kind
  <1>5. /\ env[i].kind = "delegate_request" => Verdict(n, i) # "blocked"
        /\ Verdict(n, i) = "pending" => env[i].kind = "delegate_request"
    BY DEF Verdict
  <1>6. HandlerSound(n)'
    <2>1. Admissible(n, i) => Admissible(n, i)'
      BY <1>3, AdmissibleStays
    <2>2. QED
      BY <1>2, <1>3, <1>4, <1>5, <2>1 DEF HandlerSound, Relies
  <1>7. QED
    BY <1>3, <1>6, RowsStaySound, SoundAtOneNode DEF Accepts

LEMMA StoresIsSound ==
  ASSUME IInv, IInv', ChannelSound', RequestsSound, NEW n \in Node, Stores(n)
  PROVE  RequestsSound'
  <1> DEFINE h == loop[n]
  <1>0. PICK i \in Built : h.id = i /\ env[i].to = n
    BY DEF Stores, IInv, HandlerIsInbound
  <1>1. /\ i \in Built /\ i \in Id /\ env[i].to = n /\ h.id = i
        /\ h.status \in {"received", "blocked", "pending"} /\ h.at = "accept"
        /\ Relies(h, n, i) /\ OneNode(n) /\ env' = env /\ Built' = Built
    BY <1>0 DEF Stores, IInv, HandlerIsInbound, Built, RequestsSound, HandlerSound
  <1>2. /\ row[n][i] = None
        /\ h.status = "received" => Admissible(n, i)
        /\ env[i].kind = "delegate_request" => h.status # "blocked"
        /\ h.status = "pending" => env[i].kind = "delegate_request"
    BY <1>1 DEF Relies
  <1>3. /\ row'[n][i] = h.status
        /\ \A j \in Id \ {i} : row'[n][j] = row[n][j]
    BY <1>1 DEF Stores, IInv, TypeOK
  <1>4. \/ /\ env[i].kind = "delegate_request" /\ h.status = "received"
           /\ loop'[n] = [at |-> "auto", id |-> i, status |-> h.status, ack |-> h.ack]
           /\ ran' = ran \cup {<<i, "auto">>}
        \/ loop'[n] = None /\ ran' = ran
    BY <1>1 DEF Stores, Busy, Done, IInv, TypeOK
  <1>5. Admissible(n, i) => Admissible(n, i)'
    BY <1>1, AdmissibleStays
  <1>6. <<i, "auto">> \notin ran /\ <<i, "approved">> \notin ran
    BY <1>1, <1>2, NoneAssumption DEF RequestsSound, RowSound, Status, InboundStatus
  <1>7. HandlerSound(n)'
    <2> HIDE DEF h
    <2>1. QED
      BY <1>3, <1>4 DEF HandlerSound, Relies
  <1>8. ASSUME NEW j \in Built, env[j].to = n
        PROVE  RowSound(n, j)'
    <2>1. CASE j = i
      <3> HIDE DEF h
      <3>1. QED
        BY <1>1, <1>2, <1>3, <1>4, <1>5, <1>6, <2>1 DEF RowSound, OutboundStatus
    <2>2. CASE j # i
      <3>1. RowSound(n, j) /\ row'[n][j] = row[n][j] /\ (Admissible(n, j) => Admissible(n, j)')
        BY <1>1, <1>3, <1>8, <2>2, AdmissibleStays DEF RequestsSound, Built
      <3>2. /\ <<j, "auto">> \in ran' <=> <<j, "auto">> \in ran
            /\ <<j, "approved">> \in ran' <=> <<j, "approved">> \in ran
        BY <1>4, <2>2
      <3>3. QED
        BY <1>1, <3>1, <3>2 DEF RowSound
    <2>3. QED
      BY <2>1, <2>2
  <1>9. /\ ran \subseteq ran'
        /\ \A x \in ran' : x \in ran \/ x = <<i, "auto">>
    BY <1>4
  <1>10. QED
    BY <1>1, <1>7, <1>8, <1>9, SoundAtOneNode

LEMMA DecidesIsSound ==
  ASSUME IInv, IInv', ChannelSound', RequestsSound, NEW n \in Node, NEW i \in Id,
         Decides(n, i)
  PROVE  RequestsSound'
  <1>1. /\ i \in Built /\ env[i].to = n /\ row[n][i] = "pending"
        /\ OneNode(n) /\ env' = env /\ row' = row /\ Built' = Built
    BY DEF Decides, Built
  <1>2. \/ /\ loop'[n] = [at |-> "approve", id |-> i, status |-> "approved", ack |-> FALSE]
           /\ ran' = ran \cup {<<i, "approved">>}
        \/ /\ loop'[n] = [at |-> "deny", id |-> i, status |-> "denied", ack |-> FALSE]
           /\ ran' = ran
    BY DEF Decides, Busy, IInv, TypeOK
  <1>3. HandlerSound(n)'
    BY <1>1, <1>2 DEF HandlerSound, Relies
  <1>4. ASSUME NEW j \in Built, env[j].to = n
        PROVE  RowSound(n, j)'
    <2>1. RowSound(n, j) /\ (Admissible(n, j) => Admissible(n, j)')
      BY <1>1, <1>4, AdmissibleStays DEF RequestsSound
    <2>2. /\ <<j, "auto">> \in ran' <=> <<j, "auto">> \in ran
          /\ <<j, "approved">> \in ran' => <<j, "approved">> \in ran \/ j = i
      BY <1>2
    <2>3. QED
      BY <1>1, <2>1, <2>2 DEF RowSound
  <1>5. ran \subseteq ran' /\ \A x \in ran' : x \in ran \/ x = <<i, "approved">>
    BY <1>2
  <1>6. QED
    BY <1>1, <1>3, <1>4, <1>5, SoundAtOneNode

LEMMA SettlesIsSound ==
  ASSUME IInv, IInv', ChannelSound', RequestsSound, NEW n \in Node, Settles(n)
  PROVE  RequestsSound'
  <1>1. OneNode(n) /\ env' = env /\ row' = row /\ ran' = ran /\ HandlerSound(n) /\ loop[n] # None
    BY DEF Settles, RequestsSound
  <1>2. \/ /\ loop[n].at = "approve"
           /\ loop'[n] = [at |-> "decided", id |-> loop[n].id, status |-> "approved", ack |-> FALSE]
        \/ /\ loop[n].at = "deny"
           /\ loop'[n] = [at |-> "decided", id |-> loop[n].id, status |-> "denied", ack |-> FALSE]
    BY DEF Settles, Busy, IInv, TypeOK
  <1>3. HandlerSound(n)'
    BY <1>1, <1>2 DEF HandlerSound, Relies, Built
  <1>4. QED
    BY <1>1, <1>3, RowsStaySound, SoundAtOneNode

LEMMA RecordsIsSound ==
  ASSUME IInv, IInv', ChannelSound', RequestsSound, NEW n \in Node, Records(n)
  PROVE  RequestsSound'
  <1> DEFINE h == loop[n]
  <1>0. PICK i \in Built : h.id = i /\ env[i].to = n
    BY DEF Records, IInv, HandlerIsInbound
  <1>1. /\ i \in Built /\ i \in Id /\ env[i].to = n /\ h.id = i
        /\ row[n][i] = "pending" /\ h.status \in {"approved", "denied"}
        /\ OneNode(n) /\ env' = env /\ ran' = ran /\ Built' = Built
    <2>1. h # None /\ h.at = "decided" /\ OneNode(n) /\ env' = env /\ ran' = ran
      BY DEF Records
    <2>2. Relies(h, n, i)
      BY <1>0, <2>1 DEF RequestsSound, HandlerSound
    <2> HIDE DEF h
    <2>3. QED
      BY <1>0, <2>1, <2>2 DEF Built, Relies
  <1>2. /\ row'[n][i] = h.status
        /\ \A j \in Id \ {i} : row'[n][j] = row[n][j]
        /\ loop'[n] = None
    BY <1>1 DEF Records, Done, IInv, TypeOK
  <1>3. HandlerSound(n)'
    BY <1>2 DEF HandlerSound
  <1>4. ASSUME NEW j \in Built, env[j].to = n
        PROVE  RowSound(n, j)'
    <2>1. RowSound(n, j) /\ (Admissible(n, j) => Admissible(n, j)') /\ j \in Id
      BY <1>1, <1>4, AdmissibleStays DEF RequestsSound, Built
    <2>2. CASE j = i
      <3> HIDE DEF h
      <3>1. QED
        BY <1>1, <1>2, <2>1, <2>2 DEF RowSound, OutboundStatus
    <2>3. CASE j # i
      BY <1>1, <1>2, <2>1, <2>3 DEF RowSound
    <2>4. QED
      BY <2>2, <2>3
  <1>5. QED
    BY <1>1, <1>3, <1>4, SoundAtOneNode

LEMMA RequestsKept == IInv /\ ChannelSound /\ RequestsSound /\ [Next]_vars => RequestsSound'
  <1> SUFFICES ASSUME IInv, ChannelSound, RequestsSound, [Next]_vars PROVE RequestsSound'
    OBVIOUS
  <1>1. IInv' /\ ChannelSound'
    BY IInvStep, ChannelKeptByNext
  <1>2. CASE Next
    <2>1. StepEffect
      BY <1>2, EveryStepHasAnEffect
    <2>2. QED
      BY <1>1, <2>1, ApartIsSound, AcceptsIsSound, StoresIsSound, DecidesIsSound,
         SettlesIsSound, RecordsIsSound DEF StepEffect, Outside, Sends
  <1>3. CASE UNCHANGED vars
    BY <1>3 DEF vars, network, store, process, RequestsSound, RanIsBuilt, HandlerSound,
                Relies, RowSound, Admissible, Solicited, Built
  <1>4. QED
    BY <1>2, <1>3

LEMMA RequestsInit == Init => RequestsSound
  BY DEF Init, RequestsSound, RanIsBuilt, HandlerSound, Built

\* What ran without an operator was admitted by the operator's grant of the
\* capability it names, if it names one (the policy asks for no other grant),
\* and its request is stored as received; what ran by approval waits for the
\* operator or was decided (accept_inbound_envelope, maybe_handle_collaboration).
THEOREM ExecutionsAreAuthorized == Spec => []ExecutionIsAuthorized
  <1>1. IInv /\ RequestsSound => ExecutionIsAuthorized
    <2> SUFFICES ASSUME IInv, RequestsSound, NEW i \in Id,
                        NEW authority \in {"auto", "approved"}, <<i, authority>> \in ran
                 PROVE  RowSound(env[i].to, i)
      BY DEF ExecutionIsAuthorized, RowSound, Admissible
    <2>1. i \in Built
      BY DEF RequestsSound, RanIsBuilt
    <2>2. env[i].to \in Node
      BY <2>1 DEF IInv, TypeOK, Built, Envelope
    <2>3. QED
      BY <2>1, <2>2 DEF RequestsSound
  <1>2. QED
    BY <1>1, InitIInv, IInvStep, ChannelInit, ChannelKeptByNext, RequestsInit, RequestsKept,
       PTL DEF Spec

\* A result in the inbox answers a message this node sent to that very peer,
\* unless the peer was trusted with its capability or it names none
\* (matches_reply_context, has_grant).
THEOREM ResultsAreSolicited == Spec => []ResultIsSolicited
  <1>1. IInv /\ RequestsSound => ResultIsSolicited
    <2> SUFFICES ASSUME IInv, RequestsSound, NEW n \in Node, NEW i \in Built,
                        env[i].kind = "delegate_result", env[i].to = n, row[n][i] = "received"
                 PROVE  Admissible(n, i) /\ None \notin Built
      BY DEF ResultIsSolicited, Admissible, Solicited
    <2>1. RowSound(n, i)
      BY DEF RequestsSound
    <2>2. QED
      BY <2>1, NoneAssumption DEF RowSound, Built
  <1>2. QED
    BY <1>1, InitIInv, IInvStep, ChannelInit, ChannelKeptByNext, RequestsInit, RequestsKept,
       PTL DEF Spec

-----------------------------------------------------------------------------
\* What a step may never do

\* A denied request is not executed any more, nor one that was approved again
\* (approve_pending_delegate_request, accept_inbound_envelope).
THEOREM DeniedNeverRuns == Spec => NoRunAfterDenial
  <1> DEFINE Quiet == \A n \in Node :
               LET h == loop'[n]
               IN  h # None /\ h # loop[n] /\ h.at \in {"auto", "approve"}
                     => row[n][h.id] \notin {"approved", "denied"}
  <1>1. ASSUME IInv, ChannelSound, RequestsSound, Next
        PROVE  Quiet
    <2>1. PICK m \in Node :
            \/ Outside(m) \/ Sends(m) \/ Ends(m) \/ (\E i \in Id : Accepts(m, i))
            \/ Stores(m) \/ (\E i \in Id : Decides(m, i)) \/ Settles(m) \/ Records(m)
      BY <1>1, EveryStepHasAnEffect DEF StepEffect
    <2>2. \A n \in Node \ {m} : loop'[n] = loop[n]
      BY <2>1 DEF Outside, Sends, Apart, Ends, Accepts, Stores, Decides, Settles, Records, OneNode
    <2> SUFFICES ASSUME loop'[m] # None, loop'[m] # loop[m], loop'[m].at \in {"auto", "approve"}
                 PROVE  row[m][loop'[m].id] \notin {"approved", "denied"}
      BY <2>2
    <2>3. CASE Outside(m) \/ Sends(m) \/ Ends(m) \/ Records(m)
      BY <1>1, <2>3 DEF Outside, Sends, Apart, Ends, Records, Done, IInv, TypeOK
    <2>4. ASSUME NEW i \in Id, Accepts(m, i)
          PROVE  FALSE
      BY <1>1, <2>4 DEF Accepts, Busy, IInv, TypeOK
    <2>5. CASE Stores(m)
      <3>1. PICK i \in Built : loop[m].id = i /\ loop[m] # None /\ loop[m].at = "accept"
        BY <1>1, <2>5 DEF Stores, IInv, HandlerIsInbound
      <3>2. row[m][i] = None
        BY <1>1, <3>1 DEF RequestsSound, HandlerSound, Relies
      <3>3. loop'[m] = None \/ loop'[m].id = i
        BY <1>1, <2>5, <3>1 DEF Stores, Busy, Done, IInv, TypeOK
      <3>4. QED
        BY <3>2, <3>3, NoneAssumption DEF Status, InboundStatus
    <2>6. ASSUME NEW i \in Id, Decides(m, i)
          PROVE  row[m][loop'[m].id] = "pending"
      BY <1>1, <2>6 DEF Decides, Busy, IInv, TypeOK
    <2>7. CASE Settles(m)
      BY <1>1, <2>7 DEF Settles, Busy, IInv, TypeOK
    <2>8. QED
      BY <2>1, <2>3, <2>4, <2>5, <2>6, <2>7
  <1>2. IInv /\ ChannelSound /\ RequestsSound /\ [Next]_vars => [Quiet]_vars
    BY <1>1
  <1>3. QED
    BY <1>2, InitIInv, IInvStep, ChannelInit, ChannelKeptByNext, RequestsInit, RequestsKept,
       PTL DEF Spec, NoRunAfterDenial

\* One row is written, with a status that may follow the one it has.
LEMMA OneRowForward ==
  ASSUME IInv, NEW n \in Node, NEW i \in Id, NEW s \in Status,
         row' = row \/ row' = [row EXCEPT ![n][i] = s],
         row[n][i] = None \/ s \in Successors(row[n][i])
  PROVE  \A m \in Node, j \in Id :
           Recorded(m, j) => row'[m][j] \in {row[m][j]} \cup Successors(row[m][j])
  <1> SUFFICES ASSUME NEW m \in Node, NEW j \in Id, Recorded(m, j)
               PROVE  row'[m][j] \in {row[m][j]} \cup Successors(row[m][j])
    OBVIOUS
  <1>1. row'[m][j] = row[m][j] \/ (m = n /\ j = i /\ row'[m][j] = s)
    BY SaveOne DEF IInv, Save, TypeOK
  <1>2. QED
    BY <1>1 DEF Recorded

\* What a status may become; the steps that write rows are taken one by one.
LEMMA StatusesForward ==
  ASSUME IInv, ChannelSound, RequestsSound, Next
  PROVE  \A n \in Node, i \in Id :
           Recorded(n, i) => row'[n][i] \in {row[n][i]} \cup Successors(row[n][i])
  <1> DEFINE Forward == \A n \in Node, i \in Id :
               Recorded(n, i) => row'[n][i] \in {row[n][i]} \cup Successors(row[n][i])
  <1> USE DEF network, store, process, count
  <1> SUFFICES ASSUME row' # row PROVE Forward
    OBVIOUS
  <1>1. CASE LocalApi \/ Environment
    BY <1>1 DEF LocalApi, SendMessage, Decide, GrantCapability, RevokeCapability, AddPeer,
                Environment, RequestFails, Crash, Restart
  <1>2. ASSUME NEW n \in Node, SwarmEvent(n)
        PROVE  Forward
    <2>1. PICK p \in wire : ReceiveAck(n, p)
      BY <1>2 DEF SwarmEvent, LearnProfile, ReceiveRequest, ReceiveAgain, AcceptEnvelope
    <2>2. /\ p.id \in Id /\ p.id \in pending[n]
          /\ \E s \in {"delivered", "failed"} : Save(n, p.id, s)
      BY <2>1 DEF ReceiveAck, IInv, RefersToBuilt, Built
    <2>3. row[n][p.id] \in {None, "queued"}
      BY <2>2 DEF ChannelSound, PendingSound
    <2>4. QED
      BY <2>2, <2>3, OneRowForward DEF Save, Successors, Status, OutboundStatus
  <1>3. ASSUME NEW n \in Node, HandleCommand(n)
        PROVE  Forward
    <2> DEFINE c == Head(queue[n])
    <2>1. CASE SendEnvelope(n)
      <3>1. c.op = "send" /\ Save(n, c.id, "queued") /\ queue[n] # <<>>
        BY <2>1 DEF SendEnvelope, Receives, Transmit
      <3>2. 1 \in 1..Len(queue[n]) /\ c = queue[n][1]
        BY <3>1, QueueIsSeq
      <3>3. c.id \in Built /\ row[n][c.id] = None
        BY <3>1, <3>2 DEF ChannelSound, QueuedSound
      <3> HIDE DEF c
      <3>4. QED
        BY <3>1, <3>3, OneRowForward DEF Save, Status, OutboundStatus, Built
    <2>2. CASE SendLocalMessage(n)
      <3>1. PICK i \in Id \ Built : Save(n, i, "queued")
        BY <2>2 DEF SendLocalMessage, Transmit
      <3>2. row[n][i] = None
        BY DEF IInv, RefersToBuilt, Recorded
      <3>3. QED
        BY <3>1, <3>2, OneRowForward DEF Save, Status, OutboundStatus
    <2>3. QED
      BY <1>3, <2>1, <2>2 DEF HandleCommand, Approve, Deny
  <1>4. ASSUME NEW n \in Node, Resume(n)
        PROVE  Forward
    <2>1. PICK i \in Built : loop[n].id = i /\ loop[n] # None
      BY <1>4 DEF Resume, StoreInbound, RejectInbound, FinishAuto, FinishApproved,
                  QueueDenial, RecordDecision, IInv, HandlerIsInbound
    <2>2. Relies(loop[n], n, i)
      BY <2>1 DEF RequestsSound, HandlerSound
    <2>3. i \in Id /\ loop[n].status \in Status
      BY <2>1 DEF Built, IInv, TypeOK, Handler, Status
    <2>4. /\ row' = [row EXCEPT ![n][i] = loop[n].status]
          /\ loop[n].at \in {"accept", "decided"}
      BY <1>4, <2>1 DEF Resume, StoreInbound, RejectInbound, FinishAuto, FinishApproved,
                        QueueDenial, RecordDecision, Save
    <2>5. row[n][i] = None \/ loop[n].status \in Successors(row[n][i])
      BY <2>2, <2>4 DEF Relies, Successors
    <2>6. QED
      BY <2>3, <2>4, <2>5, OneRowForward
  <1>5. QED
    BY <1>1, <1>2, <1>3, <1>4 DEF Next

LEMMA RecordedStays ==
  ASSUME IInv, ChannelSound, RequestsSound, Next, NEW n \in Node, NEW i \in Id, Recorded(n, i)
  PROVE  Recorded(n, i)'
  BY StatusesForward, NoneAssumption
  DEF Recorded, Successors, Status, OutboundStatus, InboundStatus

\* The status of a message only moves forward: an outbound one from queued to
\* delivered or failed, an inbound one from pending to one decision; no other
\* status changes or disappears (save_message, update_message_status).
THEOREM StatusesAreFinal == Spec => StatusIsFinal
  <1> DEFINE Forward == \A n \in Node, i \in Id :
               Recorded(n, i) => row'[n][i] \in {row[n][i]} \cup Successors(row[n][i])
  <1>1. ASSUME IInv, ChannelSound, RequestsSound, Next
        PROVE  Forward
    BY <1>1, StatusesForward
  <1>2. IInv /\ ChannelSound /\ RequestsSound /\ [Next]_vars => [Forward]_row
    BY <1>1 DEF vars, store
  <1>3. QED
    BY <1>2, InitIInv, IInvStep, ChannelInit, ChannelKeptByNext, RequestsInit, RequestsKept,
       PTL DEF Spec, StatusIsFinal

-----------------------------------------------------------------------------
\* The answers, as long as storage does not fail

\* The message the handler in progress at n is about.
Handles(n, i) == loop[n] # None /\ loop[n].id = i

\* The request i to n was decided, and the outcome tells how.
Settled(n, i, outcome) ==
  \/ outcome = "denied" /\ row[n][i] = "denied"
  \/ outcome = "completed" /\ row[n][i] = "approved" /\ <<i, "approved">> \in ran
  \/ outcome \in {"completed", "failed"} /\ row[n][i] = "received" /\ <<i, "auto">> \in ran

\* Nothing more will be done about it.
Final(n, i, outcome) == Settled(n, i, outcome) /\ ~Handles(n, i)

\* The decision is about to be written.
Settling(n, i, outcome) ==
  /\ Handles(n, i) /\ loop[n].at = "decided"
  /\ outcome = (IF loop[n].status = "denied" THEN "denied" ELSE "completed")

Warranted(n, i, outcome) == Final(n, i, outcome) \/ Settling(n, i, outcome)

\* The result of the request i that waits at place k of the channel of n, and
\* the result j that n sent.
Queued(n, k, i, outcome) ==
  queue[n][k].op = "local" /\ queue[n][k].reply = i /\ queue[n][k].outcome = outcome

IsAnswer(n, j, i, outcome) ==
  env[j].from = n /\ env[j].outcome = outcome /\ env[j].reply = i

\* Every result that n queued or sent is warranted, and it is the only one.
AnswersOf(n) ==
  /\ \A k \in 1..Len(queue[n]), i \in Built, outcome \in Outcome :
       Queued(n, k, i, outcome) =>
         /\ env[i].kind = "delegate_request" /\ Warranted(n, i, outcome)
         /\ \A j \in Built, o \in Outcome : ~IsAnswer(n, j, i, o)
         /\ \A l \in 1..Len(queue[n]), o \in Outcome : Queued(n, l, i, o) => l = k
  /\ \A j \in Built, outcome \in Outcome :
       env[j].from = n /\ env[j].outcome = outcome =>
         env[j].reply \in Built /\ env[j].kind = "delegate_result"
  /\ \A j \in Built, i \in Built, outcome \in Outcome :
       IsAnswer(n, j, i, outcome) =>
         /\ env[i].kind = "delegate_request"
         /\ env[i].to = n /\ env[i].from = env[j].to
         /\ Final(n, i, outcome)
         /\ \A l \in Built, o \in Outcome : IsAnswer(n, l, i, o) => l = j

AnswersSound == \A n \in Node : AnswersOf(n)

\* What is final stays so, and what is warranted does, unless the channel that
\* holds the result is lost with the daemon.
WarrantsStay(n) ==
  \A i \in Built, outcome \in Outcome :
    /\ Final(n, i, outcome) => Final(n, i, outcome)'
    /\ Warranted(n, i, outcome) => Warranted(n, i, outcome)' \/ queue'[n] = <<>>

LEMMA WarrantsElsewhere ==
  ASSUME NEW n \in Node, OneNode(n), ran \subseteq ran', NEW m \in Node \ {n}
  PROVE  WarrantsStay(m)
  BY DEF OneNode, WarrantsStay, Warranted, Final, Settling, Settled, Handles

LEMMA WarrantsApart ==
  ASSUME IInv, ChannelSound, NEW n \in Node, Apart(n)
  PROVE  WarrantsStay(n)
  <1> SUFFICES ASSUME NEW i \in Built, NEW outcome \in Outcome,
                      Settled(n, i, outcome)
               PROVE  row'[n][i] = row[n][i]
    BY DEF Apart, WarrantsStay, Warranted, Final, Settling, Settled, Handles
  <1>1. row[n][i] \in InboundStatus
    BY DEF Settled, InboundStatus
  <1>2. env[i].to = n
    BY <1>1, NoneAssumption DEF IInv, RefersToBuilt, Recorded, Status, Built
  <1>3. QED
    BY <1>2 DEF ChannelSound, EndsDiffer, Apart

\* The handler that runs is about a request of which nothing is warranted.
LEMMA NothingWarranted ==
  ASSUME IInv, RequestsSound, NEW n \in Node, NEW i \in Built, NEW outcome \in Outcome,
         \/ row[n][i] = None
         \/ row[n][i] = "pending" /\ (Handles(n, i) => loop[n].at # "decided")
         \/ Handles(n, i) /\ loop[n].at # "decided"
  PROVE  ~Warranted(n, i, outcome)
  <1>1. Handles(n, i) => Relies(loop[n], n, i)
    BY DEF RequestsSound, HandlerSound, Handles
  <1>2. None \notin {"denied", "approved", "received", "pending"}
    BY NoneAssumption DEF Status, InboundStatus
  <1>3. QED
    BY <1>1, <1>2 DEF Relies, Warranted, Final, Settling, Settled

LEMMA WarrantsHere ==
  ASSUME IInv, ChannelSound, RequestsSound, ~StorageFails, NEW n \in Node,
         \/ Ends(n) \/ (\E i \in Id : Accepts(n, i))
         \/ Stores(n) \/ (\E i \in Id : Decides(n, i)) \/ Settles(n) \/ Records(n)
  PROVE  WarrantsStay(n)
  <1>1. CASE Ends(n)
    <2>1. row' = row /\ ran' = ran /\ loop'[n] = None
      BY <1>1 DEF Ends, IInv, TypeOK
    <2>2. queue'[n] = <<>> \/ (loop[n] # None /\ loop[n].at # "decided")
      BY <1>1 DEF Ends
    <2>3. QED
      BY <2>1, <2>2 DEF WarrantsStay, Warranted, Final, Settling, Settled, Handles
  <1>2. ASSUME NEW i \in Id, Accepts(n, i) \/ Decides(n, i)
        PROVE  WarrantsStay(n)
    <2>1. /\ i \in Built /\ row' = row /\ ran \subseteq ran' /\ loop[n] = None
          /\ loop'[n].id = i
          /\ row[n][i] = None \/ row[n][i] = "pending"
      BY <1>2 DEF Accepts, Decides, Busy, IInv, TypeOK, Recorded
    <2>2. \A outcome \in Outcome : ~Warranted(n, i, outcome)
      BY <2>1, NothingWarranted DEF Handles
    <2>3. QED
      BY <2>1, <2>2 DEF WarrantsStay, Warranted, Final, Settling, Settled, Handles
  <1>3. CASE Stores(n)
    <2>1. PICK i \in Built : Handles(n, i) /\ loop[n].at = "accept"
      BY <1>3 DEF Stores, Handles, IInv, HandlerIsInbound
    <2>2. /\ \A j \in Built \ {i} : row'[n][j] = row[n][j]
          /\ loop'[n] = None \/ loop'[n].id = i
          /\ ran \subseteq ran'
      BY <1>3, <2>1 DEF Stores, Handles, Busy, Done, IInv, TypeOK, Built
    <2>3. \A outcome \in Outcome : ~Warranted(n, i, outcome)
      BY <2>1, NothingWarranted
    <2>4. QED
      BY <2>1, <2>2, <2>3 DEF WarrantsStay, Warranted, Final, Settling, Settled, Handles
  <1>4. CASE Settles(n)
    <2>1. PICK i \in Built : Handles(n, i) /\ loop[n].at \in {"approve", "deny"}
      BY <1>4 DEF Settles, Handles, IInv, HandlerIsInbound
    <2>2. row' = row /\ ran' = ran /\ loop'[n].id = i
      BY <1>4, <2>1 DEF Settles, Handles, Busy, IInv, TypeOK
    <2>3. \A outcome \in Outcome : ~Warranted(n, i, outcome)
      BY <2>1, NothingWarranted
    <2>4. QED
      BY <2>1, <2>2, <2>3 DEF WarrantsStay, Warranted, Final, Settling, Settled, Handles
  <1>5. CASE Records(n)
    <2>1. PICK i \in Built : Handles(n, i) /\ loop[n].at = "decided"
      BY <1>5 DEF Records, Handles, IInv, HandlerIsInbound
    <2>2. Relies(loop[n], n, i)
      BY <2>1 DEF RequestsSound, HandlerSound, Handles
    <2>3. /\ row'[n][i] = loop[n].status
          /\ \A j \in Built \ {i} : row'[n][j] = row[n][j]
          /\ loop'[n] = None /\ ran' = ran
      BY <1>5, <2>1 DEF Records, Handles, Done, IInv, TypeOK, Built
    <2>4. QED
      BY <2>1, <2>2, <2>3
      DEF Relies, WarrantsStay, Warranted, Final, Settling, Settled, Handles
  <1>6. QED
    BY <1>1, <1>2, <1>3, <1>4, <1>5

\* Results that stay where they are, or move up one place, stay sound.
LEMMA AnswersStay ==
  ASSUME IInv, IInv', ChannelSound, NEW n \in Node, AnswersOf(n), WarrantsStay(n),
         \A j \in Built : env'[j] = env[j],
         \A j \in Built' \ Built : env'[j].from # n \/ env'[j].outcome = None,
         \/ \E shift \in {0, 1} : LocalsFrom(n, shift)
         \/ queue'[n] = <<>>
  PROVE  AnswersOf(n)'
  <1>1. \A j \in Built' : \A o \in Outcome : env'[j].from = n /\ env'[j].outcome = o =>
          j \in Built /\ env[j].from = n /\ env[j].outcome = o
    BY NoneAssumption
  <1>2. Built \subseteq Built'
    BY NoneAssumption DEF Built, IInv, TypeOK
  <1>3. ASSUME NEW i \in Built, NEW j \in Built, NEW o \in Outcome, IsAnswer(n, j, i, o)'
        PROVE  IsAnswer(n, j, i, o)
    BY <1>3 DEF IsAnswer
  <1>4. \A j \in Built', o \in Outcome : env'[j].from = n /\ env'[j].outcome = o =>
          env'[j].reply \in Built' /\ env'[j].reply \in Built /\ env'[j].kind = "delegate_result"
    BY <1>1, <1>2 DEF AnswersOf
  <1>5. \A j \in Built', i \in Built', o \in Outcome : IsAnswer(n, j, i, o)' =>
          i \in Built /\ j \in Built /\ IsAnswer(n, j, i, o)
    BY <1>1, <1>4 DEF IsAnswer
  <1>6. ASSUME NEW j \in Built', NEW i \in Built', NEW outcome \in Outcome,
               IsAnswer(n, j, i, outcome)'
        PROVE  /\ env'[i].kind = "delegate_request"
               /\ env'[i].to = n /\ env'[i].from = env'[j].to
               /\ Final(n, i, outcome)'
               /\ \A l \in Built', o \in Outcome : IsAnswer(n, l, i, o)' => l = j
    <2>1. i \in Built /\ j \in Built /\ IsAnswer(n, j, i, outcome)
      BY <1>5, <1>6
    <2>2. Final(n, i, outcome)'
      BY <2>1 DEF AnswersOf, WarrantsStay
    <2>3. QED
      BY <1>5, <2>1, <2>2 DEF AnswersOf
  <1>7. ASSUME NEW k \in 1..Len(queue'[n]), NEW i \in Built', NEW outcome \in Outcome,
               Queued(n, k, i, outcome)'
        PROVE  /\ env'[i].kind = "delegate_request" /\ Warranted(n, i, outcome)'
               /\ \A j \in Built', o \in Outcome : ~IsAnswer(n, j, i, o)'
               /\ \A l \in 1..Len(queue'[n]), o \in Outcome : Queued(n, l, i, o)' => l = k
    <2>1. queue'[n] # <<>>
      OBVIOUS
    <2>2. PICK shift \in {0, 1} : LocalsFrom(n, shift)
      BY <2>1
    <2>3. ASSUME NEW l \in 1..Len(queue'[n]), NEW o \in Outcome, Queued(n, l, i, o)'
          PROVE  l + shift \in 1..Len(queue[n]) /\ Queued(n, l + shift, i, o)
      BY <2>2, <2>3 DEF Queued, LocalsFrom
    <2>4. k + shift \in 1..Len(queue[n]) /\ Queued(n, k + shift, i, outcome)
      BY <1>7, <2>3
    <2>5. i \in Built
      BY <2>4 DEF ChannelSound, QueuedSound, Queued
    <2>6. /\ env[i].kind = "delegate_request" /\ Warranted(n, i, outcome)
          /\ \A j \in Built, o \in Outcome : ~IsAnswer(n, j, i, o)
          /\ \A l \in 1..Len(queue[n]), o \in Outcome : Queued(n, l, i, o) => l = k + shift
      BY <2>4, <2>5 DEF AnswersOf
    <2>7. Warranted(n, i, outcome)'
      BY <2>1, <2>5, <2>6 DEF WarrantsStay
    <2>8. ASSUME NEW l \in 1..Len(queue'[n]), NEW o \in Outcome, Queued(n, l, i, o)'
          PROVE  l = k
      <3>1. l + shift = k + shift
        BY <2>3, <2>6, <2>8
      <3>2. QED
        BY <3>1
    <2>9. QED
      BY <1>5, <2>5, <2>6, <2>7, <2>8
  <1>8. QED
    BY <1>4, <1>6, <1>7 DEF AnswersOf

\* The handler in progress queues its result, the first one about its request.
LEMMA AnswersQueued ==
  ASSUME IInv, IInv', ChannelSound, NEW n \in Node, AnswersOf(n), WarrantsStay(n),
         env' = env, NEW i \in Built, Handles(n, i), env[i].kind = "delegate_request",
         NEW outcome \in Outcome, Reports(n, outcome), Warranted(n, i, outcome)',
         \A o \in Outcome : ~Warranted(n, i, o)
  PROVE  AnswersOf(n)'
  <1> DEFINE c == ResultOf(i, outcome)
             size == Len(queue[n])
  <1>1. Built' = Built /\ \A j, l, o : IsAnswer(n, j, l, o)' <=> IsAnswer(n, j, l, o)
    BY DEF Built, IsAnswer
  <1>2. queue[n] \in Seq(Command) /\ size \in Nat /\ queue'[n] = Append(queue[n], c)
    BY QueueIsSeq DEF Reports, Handles
  <1>3. c.op = "local" /\ c.reply = i /\ c.outcome = outcome
    BY DEF ResultOf
  <1>4. c \in Command
    <2>1. i \in Id /\ env[i].from \in Node
      BY DEF IInv, TypeOK, Built, Envelope
    <2>2. QED
      BY <2>1 DEF ResultOf, Command
  <1> HIDE DEF c
  <1>5. /\ Len(queue'[n]) = size + 1 /\ queue'[n][size + 1] = c
        /\ \A k \in 1..size : queue'[n][k] = queue[n][k]
    BY <1>2, <1>4
  <1>6. \A k \in 1..Len(queue'[n]) : k = size + 1 \/ k \in 1..size
    BY <1>2, <1>5
  <1> HIDE DEF size
  <1>7. ASSUME NEW k \in 1..Len(queue'[n]), NEW l \in Built, NEW o \in Outcome, Queued(n, k, l, o)'
        PROVE  \/ k = size + 1 /\ l = i /\ o = outcome
               \/ k \in 1..size /\ Queued(n, k, l, o) /\ l # i
    <2>1. CASE k = size + 1
      BY <1>3, <1>5, <1>7, <2>1 DEF Queued
    <2>2. CASE k \in 1..size
      <3>1. Queued(n, k, l, o)
        BY <1>5, <1>7, <2>2 DEF Queued
      <3>2. Warranted(n, l, o)
        BY <2>2, <3>1 DEF AnswersOf, size
      <3>3. QED
        BY <2>2, <3>1, <3>2
    <2>3. QED
      BY <1>6, <2>1, <2>2
  <1>8. \A j \in Built, o \in Outcome : ~IsAnswer(n, j, i, o)
    BY DEF AnswersOf, Warranted
  <1>9. ASSUME NEW k \in 1..Len(queue'[n]), NEW l \in Built, NEW o \in Outcome, Queued(n, k, l, o)'
        PROVE  /\ env[l].kind = "delegate_request" /\ Warranted(n, l, o)'
               /\ \A j \in Built, p \in Outcome : ~IsAnswer(n, j, l, p)
               /\ \A m \in 1..Len(queue'[n]), p \in Outcome : Queued(n, m, l, p)' => m = k
    <2>1. CASE k = size + 1
      <3>1. l = i /\ o = outcome
        BY <1>2, <1>7, <1>9, <2>1 DEF size
      <3>2. \A m \in 1..Len(queue'[n]), p \in Outcome : Queued(n, m, i, p)' => m = k
        BY <1>7, <2>1
      <3>3. QED
        BY <1>8, <3>1, <3>2
    <2>2. CASE k \in 1..size /\ l # i
      <3>1. Queued(n, k, l, o)
        BY <1>7, <1>9, <2>2
      <3>2. Warranted(n, l, o)'
        <4>1. queue'[n] # <<>>
          BY <1>2, <1>4
        <4>2. QED
          BY <2>2, <3>1, <4>1 DEF AnswersOf, WarrantsStay, size
      <3>3. QED
        BY <1>7, <2>2, <3>1, <3>2 DEF AnswersOf, size
    <2>3. QED
      BY <1>7, <1>9, <2>1, <2>2
  <1>10. \A j \in Built, l \in Built, o \in Outcome : IsAnswer(n, j, l, o) => Final(n, l, o)'
    BY DEF AnswersOf, WarrantsStay
  <1>11. QED
    BY <1>1, <1>9, <1>10 DEF AnswersOf

\* What a node sends was the only result in its channel about that request, and
\* is the first one sent.
LEMMA WhatIsSent ==
  ASSUME IInv, ChannelSound, NEW n \in Node, AnswersOf(n), Sends(n)
  PROVE  \E j \in Id \ Built, r \in Built, outcome \in Outcome :
           /\ Queued(n, 1, r, outcome) /\ 1 \in 1..Len(queue[n]) /\ Final(n, r, outcome)
           /\ env[r].kind = "delegate_request" /\ env[r].to = n
           /\ \A l \in Built, o \in Outcome : ~IsAnswer(n, l, r, o)
           /\ env'[j] = [kind |-> "delegate_result", from |-> n, to |-> env[r].from,
                         cap |-> DelegateWork, reply |-> r, outcome |-> outcome,
                         wellFormed |-> TRUE]
           /\ \A l \in Id \ {j} : env'[l] = env[l]
  <1> DEFINE c == Head(queue[n])
             r == c.reply
             outcome == c.outcome
  <1>1. /\ Len(queue[n]) \in Nat /\ c = queue[n][1] /\ 1 \in 1..Len(queue[n])
        /\ c.op = "local" /\ loop[n] = None
    BY TailShifts DEF Sends
  <1>2. /\ c \in Command /\ r \in Built /\ env[r].to = n /\ env[r].from = c.to
    BY <1>1, QueueIsSeq DEF ChannelSound, QueuedSound
  <1>3. outcome \in Outcome
    BY <1>1, <1>2 DEF Command
  <1>4. PICK j \in Id \ Built : env' = [env EXCEPT ![j] =
          [kind |-> "delegate_result", from |-> n, to |-> c.to, cap |-> DelegateWork,
           reply |-> c.reply, outcome |-> c.outcome, wellFormed |-> TRUE]]
    BY DEF Sends
  <1>5. env'[j] = [kind |-> "delegate_result", from |-> n, to |-> env[r].from,
                   cap |-> DelegateWork, reply |-> r, outcome |-> outcome,
                   wellFormed |-> TRUE]
    BY <1>2, <1>4 DEF IInv, TypeOK
  <1>6. \A l \in Id \ {j} : env'[l] = env[l]
    BY <1>4 DEF IInv, TypeOK
  <1>7. Queued(n, 1, r, outcome)
    BY <1>1 DEF Queued
  <1> HIDE DEF r, outcome, c
  <1>8. /\ env[r].kind = "delegate_request" /\ Final(n, r, outcome)
        /\ \A l \in Built, o \in Outcome : ~IsAnswer(n, l, r, o)
    BY <1>1, <1>2, <1>3, <1>7 DEF AnswersOf, Warranted, Settling, Handles
  <1>9. QED
    BY <1>1, <1>2, <1>3, <1>5, <1>6, <1>7, <1>8

LEMMA AnswersSent ==
  ASSUME IInv, IInv', ChannelSound, NEW n \in Node, AnswersOf(n), Sends(n)
  PROVE  AnswersOf(n)'
  <1>1. PICK j \in Id \ Built, r \in Built, outcome \in Outcome :
          /\ Queued(n, 1, r, outcome) /\ 1 \in 1..Len(queue[n]) /\ Final(n, r, outcome)
          /\ env[r].kind = "delegate_request" /\ env[r].to = n
          /\ \A l \in Built, o \in Outcome : ~IsAnswer(n, l, r, o)
          /\ env'[j] = [kind |-> "delegate_result", from |-> n, to |-> env[r].from,
                        cap |-> DelegateWork, reply |-> r, outcome |-> outcome,
                        wellFormed |-> TRUE]
          /\ \A l \in Id \ {j} : env'[l] = env[l]
    BY WhatIsSent
  <1>2. WarrantsStay(n)
    BY WarrantsApart DEF Sends
  <1>3. /\ env'[j].from = n /\ env'[j].reply = r /\ env'[j].outcome = outcome
        /\ env'[j].kind = "delegate_result" /\ env'[j].to = env[r].from
    BY <1>1
  <1>4. \A l \in Built' : l = j \/ l \in Built
    BY <1>1 DEF Built
  <1>5. Built \subseteq Built' /\ \A l \in Built : env'[l] = env[l] /\ l # j
    BY <1>1 DEF Built
  <1>6. \A l \in Built', o \in Outcome : env'[l].from = n /\ env'[l].outcome = o =>
          env'[l].reply \in Built /\ env'[l].kind = "delegate_result"
    BY <1>3, <1>4, <1>5 DEF AnswersOf
  <1>7. ASSUME NEW l \in Built', NEW i \in Built', NEW o \in Outcome, IsAnswer(n, l, i, o)'
        PROVE  /\ i \in Built
               /\ \/ l = j /\ i = r /\ o = outcome
                  \/ l \in Built /\ i # r /\ IsAnswer(n, l, i, o)
    <2>1. env'[l].from = n /\ env'[l].outcome = o /\ env'[l].reply = i
      BY <1>7 DEF IsAnswer
    <2>2. i \in Built
      BY <1>6, <2>1
    <2>3. CASE l = j
      BY <1>3, <2>1, <2>2, <2>3
    <2>4. CASE l \in Built
      <3>1. IsAnswer(n, l, i, o)
        BY <1>5, <2>1, <2>4 DEF IsAnswer
      <3>2. QED
        BY <1>1, <2>2, <2>4, <3>1
    <2>5. QED
      BY <1>4, <2>3, <2>4
  <1>8. ASSUME NEW l \in Built', NEW i \in Built', NEW o \in Outcome, IsAnswer(n, l, i, o)'
        PROVE  /\ env'[i].kind = "delegate_request"
               /\ env'[i].to = n /\ env'[i].from = env'[l].to
               /\ Final(n, i, o)'
               /\ \A k \in Built', p \in Outcome : IsAnswer(n, k, i, p)' => k = l
    <2>1. CASE l = j /\ i = r /\ o = outcome
      <3>1. Final(n, i, o)'
        BY <1>1, <1>2, <2>1 DEF WarrantsStay
      <3>2. QED
        BY <1>1, <1>3, <1>5, <1>7, <2>1, <3>1
    <2>2. CASE l \in Built /\ i \in Built /\ i # r /\ IsAnswer(n, l, i, o)
      <3>1. Final(n, i, o)'
        BY <1>2, <2>2 DEF AnswersOf, WarrantsStay
      <3>2. QED
        BY <1>5, <1>7, <2>2, <3>1 DEF AnswersOf
    <2>3. QED
      BY <1>7, <1>8, <2>1, <2>2
  <1>9. ASSUME NEW k \in 1..Len(queue'[n]), NEW i \in Built', NEW o \in Outcome,
               Queued(n, k, i, o)'
        PROVE  /\ env'[i].kind = "delegate_request" /\ Warranted(n, i, o)'
               /\ \A l \in Built', p \in Outcome : ~IsAnswer(n, l, i, p)'
               /\ \A m \in 1..Len(queue'[n]), p \in Outcome : Queued(n, m, i, p)' => m = k
    <2>1. \A m \in 1..Len(queue'[n]) :
            m + 1 \in 1..Len(queue[n]) /\ m + 1 # 1 /\ queue'[n][m] = queue[n][m + 1]
      BY TailShifts DEF Sends
    <2>2. \A m \in 1..Len(queue'[n]), p \in Outcome :
            Queued(n, m, i, p)' => Queued(n, m + 1, i, p)
      BY <2>1 DEF Queued
    <2>3. k + 1 \in 1..Len(queue[n]) /\ k + 1 # 1 /\ Queued(n, k + 1, i, o)
      BY <1>9, <2>1, <2>2
    <2>4. i \in Built
      BY <2>3 DEF ChannelSound, QueuedSound, Queued
    <2>5. i # r
      BY <1>1, <2>3 DEF AnswersOf
    <2>6. /\ env[i].kind = "delegate_request" /\ Warranted(n, i, o)
          /\ \A l \in Built, p \in Outcome : ~IsAnswer(n, l, i, p)
          /\ \A m \in 1..Len(queue[n]), p \in Outcome : Queued(n, m, i, p) => m = k + 1
      BY <2>3, <2>4 DEF AnswersOf
    <2>7. Warranted(n, i, o)'
      <3>1. queue'[n] # <<>>
        OBVIOUS
      <3>2. QED
        BY <1>2, <2>4, <2>6, <3>1 DEF WarrantsStay
    <2>8. ASSUME NEW m \in 1..Len(queue'[n]), NEW p \in Outcome, Queued(n, m, i, p)'
          PROVE  m = k
      <3>1. m + 1 = k + 1
        BY <2>1, <2>2, <2>6, <2>8
      <3>2. QED
        BY <3>1
    <2>9. QED
      BY <1>5, <1>7, <2>4, <2>5, <2>6, <2>7, <2>8
  <1>10. QED
    BY <1>5, <1>6, <1>8, <1>9 DEF AnswersOf

LEMMA AnswersKept ==
  ASSUME IInv, IInv', ChannelSound, RequestsSound, ~StorageFails, AnswersSound, StepEffect
  PROVE  AnswersSound'
  <1>1. PICK n \in Node :
          \/ Outside(n) \/ Sends(n) \/ Ends(n) \/ (\E i \in Id : Accepts(n, i))
          \/ Stores(n) \/ (\E i \in Id : Decides(n, i)) \/ Settles(n) \/ Records(n)
    BY DEF StepEffect
  <1>2. OneNode(n) /\ ran \subseteq ran'
    BY <1>1 DEF Outside, Sends, Apart, Ends, Accepts, Stores, Decides, Settles, Records
  <1>3. ASSUME NEW m \in Node \ {n}
        PROVE  AnswersOf(m)'
    <2>1. WarrantsStay(m)
      BY <1>2, WarrantsElsewhere
    <2>2. Len(queue[m]) \in Nat /\ queue'[m] = queue[m]
      BY <1>2, QueueIsSeq DEF OneNode
    <2>3. LocalsFrom(m, 0)
      BY <2>2 DEF LocalsFrom
    <2>4. QED
      BY <1>2, <2>1, <2>3, AnswersStay DEF OneNode, AnswersSound
  <1>4. AnswersOf(n)
    BY DEF AnswersSound
  <1>5. WarrantsStay(n)
    BY <1>1, WarrantsApart, WarrantsHere DEF Outside, Sends
  <1>6. ASSUME ReportsNothing(n) \/ (env' = env /\ (queue'[n] = queue[n] \/ queue'[n] = <<>>))
        PROVE  AnswersOf(n)'
    <2>1. NoNewAnswer
      BY <1>6 DEF ReportsNothing, NoNewAnswer, Built
    <2>2. queue'[n] = queue[n] => LocalsFrom(n, 0)
      BY QueueIsSeq DEF LocalsFrom
    <2>3. QED
      BY <1>2, <1>4, <1>5, <1>6, <2>1, <2>2, AnswersStay
      DEF ReportsNothing, OneNode, NoNewAnswer
  <1>7. ASSUME NEW i \in Built, Handles(n, i), env' = env, NEW outcome \in Outcome,
               Reports(n, outcome), Warranted(n, i, outcome)',
               \/ loop[n].at = "auto"
               \/ loop[n].at \in {"approve", "deny"}
        PROVE  AnswersOf(n)'
    <2>1. Relies(loop[n], n, i) /\ env[i].to = n
      BY <1>7 DEF RequestsSound, HandlerSound, Handles, IInv, HandlerIsInbound
    <2>2. env[i].kind = "delegate_request"
      BY <1>7, <2>1 DEF Relies, RequestsSound, RowSound
    <2>3. \A o \in Outcome : ~Warranted(n, i, o)
      BY <1>7, NothingWarranted
    <2>4. QED
      BY <1>4, <1>5, <1>7, <2>2, <2>3, AnswersQueued
  <1>8. ASSUME \/ Outside(n) \/ (\E i \in Id : Accepts(n, i) \/ Decides(n, i))
               \/ Stores(n) \/ Records(n)
        PROVE  AnswersOf(n)'
    BY <1>6, <1>8 DEF Outside, Accepts, Decides, Stores, Records
  <1>9. ASSUME Sends(n)
        PROVE  AnswersOf(n)'
    BY <1>4, <1>9, AnswersSent
  <1>10. ASSUME Ends(n)
        PROVE  AnswersOf(n)'
    <2>1. CASE queue'[n] = queue[n] \/ queue'[n] = <<>>
      BY <1>6, <1>10, <2>1 DEF Ends
    <2>2. ASSUME NEW outcome \in {"completed", "failed"}, Reports(n, outcome),
                 loop[n] # None, loop[n].at = "auto"
          PROVE  AnswersOf(n)'
      <3>1. PICK i \in Built : Handles(n, i)
        BY <2>2 DEF Handles, IInv, HandlerIsInbound
      <3>2. row[n][i] = "received" /\ <<i, "auto">> \in ran
        BY <2>2, <3>1 DEF RequestsSound, HandlerSound, Handles, Relies
      <3>3. loop'[n] = None /\ row' = row /\ ran' = ran /\ env' = env
        BY <1>10 DEF Ends, IInv, TypeOK
      <3>4. Warranted(n, i, outcome)'
        BY <3>2, <3>3 DEF Warranted, Final, Settled, Handles
      <3>5. QED
        BY <1>7, <2>2, <3>1, <3>3, <3>4 DEF Outcome
    <2>3. QED
      BY <1>10, <2>1, <2>2 DEF Ends
  <1>11. ASSUME Settles(n)
        PROVE  AnswersOf(n)'
    <2>1. PICK i \in Built : Handles(n, i)
      BY <1>11 DEF Settles, Handles, IInv, HandlerIsInbound
    <2>2. PICK outcome \in {"completed", "denied"} :
            /\ Reports(n, outcome) /\ env' = env
            /\ loop[n].at \in {"approve", "deny"}
            /\ loop'[n] = [at |-> "decided", id |-> i, ack |-> FALSE,
                           status |-> IF outcome = "denied" THEN "denied" ELSE "approved"]
      BY <1>11, <2>1 DEF Settles, Busy, Handles, IInv, TypeOK
    <2>3. loop'[n] # None
      <3>1. [at |-> "decided", id |-> i, ack |-> FALSE,
             status |-> IF outcome = "denied" THEN "denied" ELSE "approved"] \in Handler
        BY DEF Handler, InboundStatus, Built
      <3>2. QED
        BY <2>2, <3>1, NoneAssumption
    <2>4. Warranted(n, i, outcome)'
      BY <2>2, <2>3 DEF Warranted, Settling, Handles
    <2>5. QED
      BY <1>7, <2>1, <2>2, <2>4 DEF Outcome
  <1>12. AnswersOf(n)'
    BY <1>1, <1>8, <1>9, <1>10, <1>11
  <1>13. QED
    BY <1>3, <1>12 DEF AnswersSound

\* What arrived at a node, or is on its way to it, is in its sender's store.
SentSound ==
  \A i \in Built, m \in Node, n \in Node :
    env[i].from = m /\ env[i].to = n
      /\ (Request(i) \in wire \/ Handles(n, i) \/ Recorded(n, i))
    => Recorded(m, i)

\* No answer is blocked, nor about to be.
UnblockedSound ==
  \A n \in Node, j \in Built, outcome \in Outcome :
    env[j].to = n /\ env[j].outcome = outcome =>
      /\ row[n][j] # "blocked"
      /\ Handles(n, j) /\ loop[n].at = "accept" => loop[n].status # "blocked"

\* A request comes onto the wire when its row has been saved.
LEMMA WireIsSent ==
  ASSUME IInv, ChannelSound, ~StorageFails, Next, NEW i \in Id,
         Request(i) \in wire', Request(i) \notin wire
  PROVE  i \in Built' /\ \E n \in Node : env'[i].from = n /\ Recorded(n, i)'
  <1> USE DEF network, store, process, count
  <1>1. \A j, result : Ack(j, result) # Request(i)
    BY DEF Ack, Request
  <1>2. \A h, result : Request(i) \in Acked(h, result) => Request(i) \in wire
    BY <1>1 DEF Acked
  <1>3. ASSUME NEW n \in Node, NEW j \in Id, Transmit(n, j)
        PROVE  j = i /\ row'[n][i] = "queued"
    <2>1. Request(j) = Request(i)
      BY <1>3 DEF Transmit
    <2>2. QED
      BY <1>3, <2>1 DEF Request, Transmit, Save, IInv, TypeOK
  <1>4. "queued" # None
    BY NoneAssumption DEF Status, OutboundStatus
  <1>5. CASE LocalApi \/ Environment
    BY <1>5 DEF LocalApi, SendMessage, Decide, GrantCapability, RevokeCapability, AddPeer,
                Environment, RequestFails, Crash, Restart
  <1>6. ASSUME NEW n \in Node, SwarmEvent(n)
        PROVE  FALSE
    <2>1. ASSUME NEW j, NEW ack, AcceptEnvelope(n, j, ack)
          PROVE  FALSE
      <3>1. PICK result : wire' = (wire \ (IF ack THEN {Request(j)} ELSE {}))
                   \cup (IF ack /\ Recorded(n, j) THEN {Ack(j, result)} ELSE {})
        BY <2>1 DEF AcceptEnvelope
      <3>2. QED
        BY <1>1, <3>1
    <2>2. CASE \E p \in Node : LearnProfile(n, p)
      BY <2>2 DEF LearnProfile
    <2>3. CASE \E p \in wire : ReceiveAck(n, p)
      BY <2>3 DEF ReceiveAck
    <2>4. QED
      BY <1>6, <2>1, <2>2, <2>3 DEF SwarmEvent, ReceiveRequest, ReceiveAgain
  <1>7. ASSUME NEW n \in Node, Resume(n)
        PROVE  FALSE
    <2>1. wire' = wire \/ \E h, result : wire' = Acked(h, result)
      BY <1>7 DEF Resume, StoreInbound, RejectInbound, FinishAuto, FinishApproved,
                  QueueDenial, RecordDecision
    <2>2. QED
      BY <1>2, <2>1
  <1>8. ASSUME NEW n \in Node, HandleCommand(n)
        PROVE  i \in Built' /\ env'[i].from = n /\ row'[n][i] = "queued"
    <2>1. CASE SendEnvelope(n)
      <3> DEFINE c == Head(queue[n])
      <3>1. c.op = "send" /\ Transmit(n, c.id) /\ queue[n] # <<>> /\ env' = env
        BY <2>1 DEF SendEnvelope, Receives
      <3>2. 1 \in 1..Len(queue[n]) /\ c = queue[n][1]
        BY <3>1, QueueIsSeq
      <3>3. c.id \in Built /\ env[c.id].from = n
        BY <3>1, <3>2 DEF ChannelSound, QueuedSound
      <3> HIDE DEF c
      <3>4. QED
        BY <1>3, <3>1, <3>3 DEF Built
    <2>2. CASE SendLocalMessage(n)
      <3> DEFINE c == Head(queue[n])
                 e == [kind |-> "delegate_result", from |-> n, to |-> c.to,
                       cap |-> DelegateWork, reply |-> c.reply, outcome |-> c.outcome,
                       wellFormed |-> TRUE]
      <3>1. PICK j \in Id \ Built : env' = [env EXCEPT ![j] = e] /\ Transmit(n, j)
        BY <2>2 DEF SendLocalMessage
      <3>2. j = i /\ row'[n][i] = "queued"
        BY <1>3, <3>1
      <3>3. e.from = n
        OBVIOUS
      <3> HIDE DEF e
      <3>4. env'[i] = e
        BY <3>1, <3>2 DEF IInv, TypeOK
      <3>5. i \in Built'
        <4>1. Recorded(n, i)'
          BY <1>4, <3>2 DEF Recorded
        <4>2. QED
          BY <4>1, IInvStep DEF IInv, RefersToBuilt
      <3>6. QED
        BY <3>2, <3>3, <3>4, <3>5
    <2>3. QED
      BY <1>8, <2>1, <2>2 DEF HandleCommand, Approve, Deny
  <1>9. QED
    BY <1>4, <1>5, <1>6, <1>7, <1>8 DEF Next, Recorded

\* A node handles or records a message it has got before, or that is sent.
LEMMA GotIsSent ==
  ASSUME IInv, ChannelSound, Next, NEW i \in Built, NEW m \in Node, NEW n \in Node,
         env[i].from = m, env[i].to = n, Handles(n, i)' \/ Recorded(n, i)'
  PROVE  Request(i) \in wire \/ Handles(n, i) \/ Recorded(n, i) \/ Recorded(m, i)
  <1>1. PICK k \in Node :
          \/ Outside(k) \/ Sends(k) \/ Ends(k) \/ (\E j \in Id : Accepts(k, j))
          \/ Stores(k) \/ (\E j \in Id : Decides(k, j)) \/ Settles(k) \/ Records(k)
    BY EveryStepHasAnEffect DEF StepEffect
  <1>2. OneNode(k)
    BY <1>1 DEF Outside, Sends, Apart, Ends, Accepts, Stores, Decides, Settles, Records
  <1>3. CASE k # n
    BY <1>2, <1>3 DEF OneNode, Handles, Recorded
  <1>4. CASE k = n /\ (Outside(n) \/ Sends(n) \/ Ends(n))
    BY <1>4 DEF Outside, Sends, Apart, Ends, Handles, Recorded, IInv, TypeOK, ChannelSound, EndsDiffer
  <1>5. ASSUME k = n, NEW j \in Id, Accepts(n, j) \/ Decides(n, j)
        PROVE  Request(i) \in wire \/ Handles(n, i) \/ Recorded(n, i) \/ Recorded(m, i)
    <2>1. row' = row /\ loop'[n].id = j
      BY <1>5 DEF Accepts, Decides, Busy, IInv, TypeOK
    <2>2. CASE i = j
      BY <1>5, <2>2, NoneAssumption DEF Accepts, Decides, Recorded, Status, InboundStatus
    <2>3. CASE i # j
      BY <2>1, <2>3 DEF Handles, Recorded
    <2>4. QED
      BY <2>2, <2>3
  <1>6. CASE k = n /\ (Stores(n) \/ Settles(n) \/ Records(n))
    <2>1. PICK j \in Built : Handles(n, j)
      BY <1>6 DEF Stores, Settles, Records, Handles, IInv, HandlerIsInbound
    <2>2. /\ \A l \in Id \ {j} : row'[n][l] = row[n][l]
          /\ loop'[n] = None \/ loop'[n].id = j
      BY <1>6, <2>1 DEF Stores, Settles, Records, Handles, Busy, Done, IInv, TypeOK, Built
    <2>3. CASE i = j
      BY <2>1, <2>3
    <2>4. CASE i # j
      BY <2>2, <2>4 DEF Handles, Recorded, Built
    <2>5. QED
      BY <2>3, <2>4
  <1>7. QED
    BY <1>1, <1>3, <1>4, <1>5, <1>6

LEMMA SentKept ==
  ASSUME IInv, IInv', ChannelSound, ChannelSound', RequestsSound, ~StorageFails, SentSound, Next
  PROVE  SentSound'
  <1> SUFFICES ASSUME NEW i \in Built', NEW m \in Node, NEW n \in Node,
                      env'[i].from = m, env'[i].to = n,
                      Request(i) \in wire' \/ Handles(n, i)' \/ Recorded(n, i)'
               PROVE  Recorded(m, i)'
    BY DEF SentSound
  <1>1. i \in Id
    BY DEF Built
  <1>2. PICK k \in Node : OneNode(k)
    BY EveryStepHasAnEffect
    DEF StepEffect, Outside, Sends, Apart, Ends, Accepts, Stores, Decides, Settles, Records
  <1>3. CASE Request(i) \in wire' /\ Request(i) \notin wire
    BY <1>1, <1>3, WireIsSent
  <1>4. CASE i \in Built /\ ~(Request(i) \in wire' /\ Request(i) \notin wire)
    <2>1. env[i].from = m /\ env[i].to = n
      BY <1>2, <1>4 DEF OneNode
    <2>2. Recorded(m, i)
      BY <1>4, <2>1, GotIsSent DEF SentSound
    <2>3. QED
      BY <1>1, <2>2, RecordedStays
  <1>5. CASE i \notin Built /\ ~(Request(i) \in wire' /\ Request(i) \notin wire)
    <2>1. m = k /\ n # k
      BY <1>2, <1>5 DEF OneNode, ChannelSound, EndsDiffer
    <2>2. row'[n] = row[n] /\ loop'[n] = loop[n]
      BY <1>2, <2>1 DEF OneNode
    <2>3. ~Recorded(n, i) /\ ~Handles(n, i) /\ Request(i) \notin wire
      BY <1>1, <1>5 DEF IInv, RefersToBuilt, HandlerIsInbound, Handles, Request
    <2>4. QED
      BY <1>5, <2>2, <2>3 DEF Recorded, Handles
  <1>6. QED
    BY <1>3, <1>4, <1>5

LEMMA UnblockedKept ==
  ASSUME IInv, IInv', ChannelSound, ChannelSound', RequestsSound, AnswersSound, SentSound,
         UnblockedSound, Next
  PROVE  UnblockedSound'
  <1> SUFFICES ASSUME NEW n \in Node, NEW j \in Built', NEW outcome \in Outcome,
                      env'[j].to = n, env'[j].outcome = outcome
               PROVE  /\ row'[n][j] # "blocked"
                      /\ Handles(n, j)' /\ loop'[n].at = "accept" => loop'[n].status # "blocked"
    BY DEF UnblockedSound
  <1>1. PICK k \in Node :
          \/ Outside(k) \/ Sends(k) \/ Ends(k) \/ (\E i \in Id : Accepts(k, i))
          \/ Stores(k) \/ (\E i \in Id : Decides(k, i)) \/ Settles(k) \/ Records(k)
    BY EveryStepHasAnEffect DEF StepEffect
  <1>2. OneNode(k) /\ j \in Id
    BY <1>1 DEF Outside, Sends, Apart, Ends, Accepts, Stores, Decides, Settles, Records, Built
  <1>3. CASE j \notin Built
    <2>1. n # k
      BY <1>2, <1>3 DEF OneNode, ChannelSound, EndsDiffer
    <2>2. row'[n] = row[n] /\ loop'[n] = loop[n]
      BY <1>2, <2>1 DEF OneNode
    <2>3. row[n][j] = None /\ ~Handles(n, j)
      BY <1>2, <1>3 DEF IInv, RefersToBuilt, Recorded, HandlerIsInbound, Handles
    <2>4. QED
      BY <2>2, <2>3, NoneAssumption DEF Handles, Status, InboundStatus
  <1>4. CASE j \in Built
    <2>1. /\ env[j].to = n /\ env[j].outcome = outcome /\ env[j].from # n /\ row[n][j] # "blocked"
          /\ Handles(n, j) /\ loop[n].at = "accept" => loop[n].status # "blocked"
      BY <1>2, <1>4 DEF OneNode, UnblockedSound, ChannelSound, EndsDiffer
    <2>2. CASE k # n
      BY <1>2, <2>1, <2>2 DEF OneNode, Handles
    <2>3. CASE k = n /\ (Outside(n) \/ Sends(n) \/ Ends(n))
      BY <1>4, <2>1, <2>3 DEF Outside, Sends, Apart, Ends, Handles, IInv, TypeOK
    <2>4. ASSUME k = n, NEW i \in Id, Accepts(n, i)
          PROVE  /\ row'[n][j] # "blocked"
                 /\ Handles(n, j)' => loop'[n].status # "blocked"
      <3>1. row' = row /\ loop'[n].id = i /\ loop'[n].status = Verdict(n, i)
        BY <2>4 DEF Accepts, Busy, IInv, TypeOK
      <3>2. CASE i # j
        BY <2>1, <3>1, <3>2 DEF Handles
      <3>3. CASE i = j
        <4> DEFINE m == env[j].from
                   r == env[j].reply
        <4>1. m \in Node
          BY <1>4 DEF IInv, TypeOK, Built, Envelope
        <4>2. r \in Built /\ env[j].kind = "delegate_result"
          BY <1>4, <2>1, <4>1 DEF AnswersSound, AnswersOf
        <4>3. env[r].to = m /\ env[r].from = n /\ Final(m, r, outcome)
          BY <1>4, <2>1, <4>1, <4>2 DEF AnswersSound, AnswersOf, IsAnswer
        <4>4. Recorded(m, r)
          BY <4>3, NoneAssumption DEF Final, Settled, Recorded, Status, InboundStatus
        <4>5. Recorded(n, r) /\ r # None
          BY <4>1, <4>2, <4>3, <4>4, NoneAssumption DEF SentSound, Built
        <4>6. Verdict(n, j) = "received"
          BY <4>2, <4>3, <4>5 DEF Verdict, InReplyContext
        <4>7. QED
          BY <2>1, <3>1, <3>3, <4>6
      <3>4. QED
        BY <3>2, <3>3
    <2>5. CASE k = n /\ ((\E i \in Id : Decides(n, i)) \/ Settles(n))
      BY <2>1, <2>5 DEF Decides, Settles, Busy, IInv, TypeOK
    <2>6. CASE k = n /\ (Stores(n) \/ Records(n))
      <3>1. PICK i \in Built : Handles(n, i) /\ loop[n].at \in {"accept", "decided"}
        BY <2>6 DEF Stores, Records, Handles, IInv, HandlerIsInbound
      <3>2. /\ \A l \in Id \ {i} : row'[n][l] = row[n][l]
            /\ row'[n][i] = loop[n].status
            /\ loop'[n] = None \/ loop'[n].at = "auto"
            /\ Records(n) => loop[n].at = "decided"
        BY <2>6, <3>1 DEF Stores, Records, Handles, Busy, Done, IInv, TypeOK, Built
      <3>3. loop[n].at = "decided" => loop[n].status # "blocked"
        BY <3>1 DEF RequestsSound, HandlerSound, Handles, Relies
      <3>4. QED
        BY <1>2, <2>1, <3>1, <3>2, <3>3 DEF Handles
    <2>7. QED
      BY <1>1, <2>2, <2>3, <2>4, <2>5, <2>6
  <1>5. QED
    BY <1>3, <1>4

\* The inductive invariant of the answers.
AnswersInv ==
  IInv /\ ChannelSound /\ RequestsSound /\ AnswersSound /\ SentSound /\ UnblockedSound

LEMMA AnswersInit == Init => AnswersInv
  <1> SUFFICES ASSUME Init PROVE AnswersInv
    OBVIOUS
  <1>1. IInv /\ ChannelSound /\ RequestsSound
    BY InitIInv, ChannelInit, RequestsInit
  <1>2. Built = {} /\ \A n \in Node : queue[n] = <<>>
    BY DEF Init, Built
  <1>3. QED
    BY <1>1, <1>2 DEF AnswersInv, AnswersSound, AnswersOf, SentSound, UnblockedSound

LEMMA AnswersInvKept ==
  ASSUME ~StorageFails, AnswersInv, [Next]_vars
  PROVE  AnswersInv'
  <1>1. IInv' /\ ChannelSound' /\ RequestsSound'
    BY IInvStep, ChannelKeptByNext, RequestsKept DEF AnswersInv
  <1>2. CASE Next
    BY <1>1, <1>2, EveryStepHasAnEffect, AnswersKept, SentKept, UnblockedKept DEF AnswersInv
  <1>3. CASE UNCHANGED vars
    <2>1. Built' = Built /\ UNCHANGED <<env, row, loop, ran, queue, wire>>
      BY <1>3 DEF vars, network, store, process, Built
    <2>2. AnswersSound'
      BY <2>1 DEF AnswersInv, AnswersSound, AnswersOf, Queued, IsAnswer, Warranted, Final,
                  Settled, Settling, Handles
    <2>3. SentSound' /\ UnblockedSound'
      BY <2>1 DEF AnswersInv, SentSound, UnblockedSound, Recorded, Handles
    <2>4. QED
      BY <1>1, <2>2, <2>3 DEF AnswersInv
  <1>4. QED
    BY <1>2, <1>3

LEMMA EnvelopeOfAnswer ==
  ASSUME IInv, NEW j \in Built
  PROVE  /\ env[j].from \in Node /\ env[j].to \in Node /\ env[j].outcome \in Outcome \cup {None}
  BY DEF IInv, TypeOK, Built, Envelope

\* As long as storage does not fail, the node that asked never blocks the answer
\* a daemon built: its own row of the request is there before the request is
\* sent (SendEnvelope saves first), so the reply context is found.
THEOREM AnswersAreNotBlocked ==
  ASSUME ~StorageFails
  PROVE  Spec => []AnswerIsNotBlocked
  <1>1. AnswersInv => AnswerIsNotBlocked
    BY EnvelopeOfAnswer DEF AnswersInv, UnblockedSound, AnswerIsNotBlocked
  <1>2. AnswersInv /\ [Next]_vars => AnswersInv'
    BY AnswersInvKept
  <1>3. QED
    BY <1>1, <1>2, AnswersInit, PTL DEF Spec

\* As long as storage does not fail, a request has at most one answer: a result
\* in the channel holds the decision, which is written before another may be
\* taken up (approve_pending_delegate_request, deny_pending_delegate_request).
THEOREM AnswersAreUnique ==
  ASSUME ~StorageFails
  PROVE  Spec => []OneAnswer
  <1>1. AnswersInv => OneAnswer
    <2> SUFFICES ASSUME AnswersInv, NEW i \in Built, NEW j \in Built,
                        env[i].outcome # None, env[j].outcome # None,
                        env[i].reply = env[j].reply
                 PROVE  i = j
      BY DEF OneAnswer
    <2> DEFINE r == env[i].reply
    <2>1. /\ env[i].from \in Node /\ env[i].outcome \in Outcome
          /\ env[j].from \in Node /\ env[j].outcome \in Outcome
      BY EnvelopeOfAnswer DEF AnswersInv
    <2>2. r \in Built
      BY <2>1 DEF AnswersInv, AnswersSound, AnswersOf
    <2>3. IsAnswer(env[i].from, i, r, env[i].outcome) /\ IsAnswer(env[j].from, j, r, env[j].outcome)
      BY DEF IsAnswer
    <2>4. env[r].to = env[i].from /\ env[r].to = env[j].from
      BY <2>1, <2>2, <2>3 DEF AnswersInv, AnswersSound, AnswersOf
    <2>5. QED
      BY <2>1, <2>2, <2>3, <2>4 DEF AnswersInv, AnswersSound, AnswersOf
  <1>2. AnswersInv /\ [Next]_vars => AnswersInv'
    BY AnswersInvKept
  <1>3. QED
    BY <1>1, <1>2, AnswersInit, PTL DEF Spec

\* As long as storage does not fail, the answer tells what was decided:
\* "completed" comes from an execution that was admitted or approved, "failed"
\* from an admitted one, "denied" from a recorded denial.
THEOREM AnswersMatchDecisions ==
  ASSUME ~StorageFails
  PROVE  Spec => []AnswerMatchesDecision
  <1>1. AnswersInv => AnswerMatchesDecision
    <2> SUFFICES ASSUME AnswersInv, NEW j \in Built, env[j].outcome # None
                 PROVE  Settled(env[j].from, env[j].reply, env[j].outcome)
      BY NoneAssumption DEF AnswerMatchesDecision, Settled, Outcome
    <2>1. env[j].from \in Node /\ env[j].outcome \in Outcome
      BY EnvelopeOfAnswer DEF AnswersInv
    <2>2. env[j].reply \in Built
      BY <2>1 DEF AnswersInv, AnswersSound, AnswersOf
    <2>3. IsAnswer(env[j].from, j, env[j].reply, env[j].outcome)
      BY DEF IsAnswer
    <2>4. QED
      BY <2>1, <2>2, <2>3 DEF AnswersInv, AnswersSound, AnswersOf, Final
  <1>2. AnswersInv /\ [Next]_vars => AnswersInv'
    BY AnswersInvKept
  <1>3. QED
    BY <1>1, <1>2, AnswersInit, PTL DEF Spec

-----------------------------------------------------------------------------
\* Delegation implements DelegatedWork

\* The variables of DelegatedWork, as Work maps them.
WorkStatus == [i \in Id |-> StatusOf(i)]
WorkRunning == {i \in Id : \E n \in Node : Executes(loop[n], i)}
WorkRan == {i \in Id : \E authority \in {"auto", "approved"} : <<i, authority>> \in ran}
WorkAnswers == {[request |-> env[j].reply, id |-> j, outcome |-> env[j].outcome] :
                  j \in {k \in Built : env[k].outcome # None}}

\* A step at n about the message i leaves the status of the other requests.
LEMMA OtherStatuses ==
  ASSUME IInv, IInv', ChannelSound', NEW n \in Node, OneNode(n), NEW i \in Id \cup {None},
         \A j \in Built \ {i} : env[j].to = n => row'[n][j] = row[n][j]
  PROVE  \A j \in Id \ {i} : StatusOf(j)' = StatusOf(j)
  <1> SUFFICES ASSUME NEW j \in Id \ {i} PROVE StatusOf(j)' = StatusOf(j)
    OBVIOUS
  <1>1. CASE j \in Built
    <2>1. env'[j] = env[j] /\ env[j].to \in Node /\ env[j] # None
      BY <1>1, EnvelopeOfAnswer DEF OneNode, Built
    <2>2. row'[env[j].to][j] = row[env[j].to][j]
      BY <1>1, <2>1 DEF OneNode
    <2>3. QED
      BY <2>1, <2>2 DEF StatusOf
  <1>2. CASE j \notin Built /\ j \in Built'
    <2>1. env[j] = None /\ env'[j].to # n /\ env'[j].to \in Node
      BY <1>2 DEF Built, OneNode, ChannelSound, EndsDiffer, IInv, TypeOK, Envelope
    <2>2. row[env'[j].to][j] = None
      BY <1>2, <2>1 DEF IInv, RefersToBuilt, Recorded
    <2>3. row'[env'[j].to][j] = None
      BY <2>1, <2>2 DEF OneNode
    <2>4. QED
      BY <1>2, <2>1, <2>3 DEF StatusOf
  <1>3. CASE j \notin Built /\ j \notin Built'
    BY <1>3 DEF StatusOf, Built
  <1>4. QED
    BY <1>1, <1>2, <1>3

\* The status of one request changes.
LEMMA StatusChange ==
  ASSUME NEW i \in Id, \A j \in Id \ {i} : StatusOf(j)' = StatusOf(j)
  PROVE  WorkStatus' = [WorkStatus EXCEPT ![i] = StatusOf(i)']
  BY DEF WorkStatus

\* The step of DelegatedWork that a request takes when nothing is sent.
LEMMA NothingSent ==
  ASSUME NoNewAnswer, \A j \in Built : env'[j] = env[j], Built \subseteq Built'
  PROVE  WorkAnswers' = WorkAnswers
  <1>1. {k \in Built' : env'[k].outcome # None} = {k \in Built : env[k].outcome # None}
    BY DEF NoNewAnswer
  <1>2. \A j \in {k \in Built : env[k].outcome # None} : env'[j] = env[j]
    OBVIOUS
  <1>3. QED
    BY <1>1, <1>2 DEF WorkAnswers

\* A handler at n is about one message to n; only it may start or stop to run.
LEMMA RunningAtNode ==
  ASSUME IInv, IInv', NEW n \in Node, OneNode(n), NEW i \in Id,
         loop[n] = None \/ loop[n].id = i,
         loop'[n] = None \/ loop'[n].id = i
  PROVE  /\ \A j \in Id \ {i} : j \in WorkRunning' <=> j \in WorkRunning
         /\ i \in Built /\ env[i].to = n => /\ i \in WorkRunning <=> Executes(loop[n], i)
                                            /\ i \in WorkRunning' <=> Executes(loop'[n], i)
  <1>1. \A m \in Node \ {n} : loop'[m] = loop[m]
    BY DEF OneNode
  <1>2. \A j \in Id \ {i} : ~Executes(loop[n], j) /\ ~Executes(loop'[n], j)
    BY DEF Executes
  <1>3. ASSUME NEW j \in Id \ {i}
        PROVE  j \in WorkRunning' <=> j \in WorkRunning
    <2>1. j \in WorkRunning' <=> \E m \in Node : Executes(loop'[m], j)
      BY DEF WorkRunning, Executes
    <2>2. j \in WorkRunning <=> \E m \in Node : Executes(loop[m], j)
      BY DEF WorkRunning
    <2>3. \A m \in Node : Executes(loop'[m], j) <=> Executes(loop[m], j)
      BY <1>1, <1>2
    <2>4. QED
      BY <2>1, <2>2, <2>3
  <1>4. ASSUME i \in Built, env[i].to = n, NEW m \in Node \ {n}
        PROVE  ~Executes(loop[m], i) /\ ~Executes(loop'[m], i)
    BY <1>1, <1>4 DEF Executes, IInv, HandlerIsInbound
  <1>5. QED
    <2>1. i \in WorkRunning' <=> \E m \in Node : Executes(loop'[m], i)
      BY DEF WorkRunning, Executes
    <2>2. i \in WorkRunning <=> \E m \in Node : Executes(loop[m], i)
      BY DEF WorkRunning
    <2>3. QED
      BY <1>3, <1>4, <2>1, <2>2

\* A step about the request i to n that sends nothing: the other requests stay
\* as they are.
Concerns(n, i) ==
  /\ i \in Built /\ env[i].to = n
  /\ WorkStatus' = [WorkStatus EXCEPT ![i] = StatusOf(i)']
  /\ WorkStatus[i] = StatusOf(i)
  /\ \A j \in Id \ {i} : j \in WorkRunning' <=> j \in WorkRunning
  /\ i \in WorkRunning <=> Executes(loop[n], i)
  /\ i \in WorkRunning' <=> Executes(loop'[n], i)
  /\ WorkAnswers' = WorkAnswers
  /\ StatusOf(i) = IF env[i].kind = "delegate_request" THEN row[n][i] ELSE None
  /\ StatusOf(i)' = IF env[i].kind = "delegate_request" THEN row'[n][i] ELSE None

LEMMA StepConcerns ==
  ASSUME IInv, IInv', ChannelSound', NEW n \in Node, OneNode(n), env' = env,
         NEW i \in Built, env[i].to = n,
         loop[n] = None \/ loop[n].id = i,
         loop'[n] = None \/ loop'[n].id = i,
         \A j \in Built \ {i} : row'[n][j] = row[n][j]
  PROVE  Concerns(n, i)
  <1>1. i \in Id /\ Built' = Built /\ NoNewAnswer /\ env[i] # None
    BY DEF Built, NoNewAnswer
  <1>2. \A j \in Id \ {i} : StatusOf(j)' = StatusOf(j)
    BY <1>1, OtherStatuses
  <1>3. WorkStatus' = [WorkStatus EXCEPT ![i] = StatusOf(i)'] /\ WorkStatus[i] = StatusOf(i)
    BY <1>1, <1>2, StatusChange DEF WorkStatus
  <1>4. WorkAnswers' = WorkAnswers
    BY <1>1, NothingSent
  <1>5. /\ \A j \in Id \ {i} : j \in WorkRunning' <=> j \in WorkRunning
        /\ i \in WorkRunning <=> Executes(loop[n], i)
        /\ i \in WorkRunning' <=> Executes(loop'[n], i)
    BY <1>1, RunningAtNode
  <1>6. /\ StatusOf(i) = IF env[i].kind = "delegate_request" THEN row[n][i] ELSE None
        /\ StatusOf(i)' = IF env[i].kind = "delegate_request" THEN row'[n][i] ELSE None
    BY <1>1 DEF StatusOf
  <1>7. QED
    BY <1>3, <1>4, <1>5, <1>6 DEF Concerns

WorkStep ==
  \/ \E i \in Id :
       \/ Work!Admit(i) \/ Work!Hold(i) \/ Work!Execute(i) \/ Work!EndRun(i)
       \/ Work!Approved(i) \/ Work!Denied(i) \/ Work!Answer(i)
  \/ UNCHANGED <<WorkStatus, WorkRunning, WorkRan, WorkAnswers>>

LEMMA RunningIsSet ==
  /\ WorkRunning \subseteq Id /\ WorkRunning' \subseteq Id
  BY DEF WorkRunning

LEMMA OutsideWork ==
  ASSUME IInv, IInv', ChannelSound, ChannelSound', NEW n \in Node, Outside(n)
  PROVE  UNCHANGED <<WorkStatus, WorkRunning, WorkRan, WorkAnswers>>
  <1>1. OneNode(n) /\ loop' = loop /\ ran' = ran /\ NoNewAnswer
    BY DEF Outside, Apart, ReportsNothing
  <1>2. \A j \in Built : env[j].to = n => row'[n][j] = row[n][j]
    BY DEF Outside, Apart, ChannelSound, EndsDiffer
  <1>3. \A j \in Id \ {None} : StatusOf(j)' = StatusOf(j)
    BY <1>1, <1>2, OtherStatuses
  <1>4. WorkStatus' = WorkStatus
    BY <1>3, NoneAssumption DEF WorkStatus
  <1>5. WorkAnswers' = WorkAnswers
    <2>1. Built \subseteq Built'
      BY <1>1 DEF OneNode, Built
    <2>2. QED
      BY <1>1, <2>1, NothingSent DEF OneNode
  <1>6. QED
    BY <1>1, <1>4, <1>5 DEF WorkRunning, WorkRan, Executes

LEMMA EndsWork ==
  ASSUME IInv, IInv', ChannelSound, ChannelSound', NEW n \in Node, Ends(n)
  PROVE  WorkStep
  <1>1. OneNode(n) /\ env' = env /\ row' = row /\ ran' = ran /\ loop'[n] = None
    BY DEF Ends, IInv, TypeOK
  <1>2. WorkRan' = WorkRan
    BY <1>1 DEF WorkRan
  <1>3. CASE loop[n] = None
    <2>1. loop' = loop
      BY <1>3 DEF Ends, IInv, TypeOK
    <2>2. Built' = Built
      BY <1>1 DEF Built
    <2>3. WorkStatus' = WorkStatus /\ WorkAnswers' = WorkAnswers /\ WorkRunning' = WorkRunning
      BY <1>1, <2>1, <2>2 DEF WorkStatus, StatusOf, WorkAnswers, WorkRunning, Executes
    <2>4. QED
      BY <1>2, <2>3 DEF WorkStep
  <1>4. CASE loop[n] # None
    <2>1. PICK i \in Built : loop[n].id = i /\ env[i].to = n
      BY <1>4 DEF IInv, HandlerIsInbound
    <2>2. Concerns(n, i)
      BY <1>1, <2>1, StepConcerns
    <2>3. i \in Id /\ i \notin WorkRunning'
      BY <1>1, <2>2 DEF Concerns, Executes, Built
    <2>4. StatusOf(i)' = StatusOf(i)
      BY <1>1, <2>2 DEF Concerns
    <2>5. WorkStatus' = WorkStatus
      BY <2>2, <2>4 DEF Concerns, WorkStatus
    <2>6. CASE i \in WorkRunning
      <3>1. WorkRunning' = WorkRunning \ {i}
        BY <2>2, <2>3, RunningIsSet DEF Concerns
      <3>2. Work!EndRun(i)
        BY <1>2, <2>2, <2>5, <2>6, <3>1
        DEF Work!EndRun, Concerns, WorkStatus, WorkRunning, WorkRan, WorkAnswers
      <3>3. QED
        BY <2>3, <3>2 DEF WorkStep
    <2>7. CASE i \notin WorkRunning
      <3>1. WorkRunning' = WorkRunning
        BY <2>2, <2>3, <2>7, RunningIsSet DEF Concerns
      <3>2. QED
        BY <1>2, <2>2, <2>5, <3>1 DEF WorkStep, Concerns
    <2>8. QED
      BY <2>6, <2>7
  <1>5. QED
    BY <1>3, <1>4

\* What a step about the request i makes of the runs.
LEMMA RunsChange ==
  ASSUME NEW n \in Node, NEW i \in Id, Concerns(n, i)
  PROVE  /\ Executes(loop'[n], i) => WorkRunning' = WorkRunning \cup {i}
         /\ ~Executes(loop'[n], i) => WorkRunning' = WorkRunning \ {i}
         /\ Executes(loop[n], i) => WorkRunning \cup {i} = WorkRunning
         /\ ~Executes(loop[n], i) => WorkRunning \ {i} = WorkRunning
  BY RunningIsSet DEF Concerns

\* The decided status of i changes nothing when it is the one it had.
LEMMA SameStatus ==
  ASSUME NEW n \in Node, NEW i \in Id, Concerns(n, i), StatusOf(i)' = StatusOf(i)
  PROVE  WorkStatus' = WorkStatus
  BY DEF Concerns, WorkStatus

LEMMA AcceptsWork ==
  ASSUME IInv, IInv', ChannelSound', NEW n \in Node, NEW i \in Id, Accepts(n, i)
  PROVE  UNCHANGED <<WorkStatus, WorkRunning, WorkRan, WorkAnswers>>
  <1>1. /\ OneNode(n) /\ env' = env /\ row' = row /\ ran' = ran /\ loop[n] = None
        /\ i \in Built /\ env[i].to = n /\ loop'[n].id = i /\ loop'[n].at = "accept"
    BY DEF Accepts, Busy, IInv, TypeOK
  <1>2. Concerns(n, i)
    BY <1>1, StepConcerns
  <1>3. ~Executes(loop[n], i) /\ ~Executes(loop'[n], i)
    BY <1>1 DEF Executes
  <1>4. WorkRunning' = WorkRunning
    BY <1>2, <1>3, RunsChange
  <1>5. WorkStatus' = WorkStatus
    BY <1>1, <1>2, SameStatus DEF Concerns
  <1>6. QED
    BY <1>1, <1>2, <1>4, <1>5 DEF Concerns, WorkRan

LEMMA StoresWork ==
  ASSUME IInv, IInv', ChannelSound', RequestsSound, NEW n \in Node, Stores(n)
  PROVE  WorkStep
  <1> DEFINE h == loop[n]
  <1>1. PICK i \in Built : h.id = i /\ env[i].to = n /\ h # None /\ h.at = "accept"
    BY DEF Stores, IInv, HandlerIsInbound
  <1>2. Relies(h, n, i) /\ h.status \in {"received", "blocked", "pending"} /\ i \in Id
    BY <1>1 DEF RequestsSound, HandlerSound, IInv, HandlerIsInbound, Built
  <1>3. /\ OneNode(n) /\ env' = env
        /\ row'[n][i] = h.status
        /\ \A j \in Built \ {i} : row'[n][j] = row[n][j]
        /\ \/ /\ env[i].kind = "delegate_request" /\ h.status = "received"
              /\ loop'[n].id = i /\ loop'[n].at = "auto" /\ loop'[n] # None
              /\ ran' = ran \cup {<<i, "auto">>}
           \/ loop'[n] = None /\ ran' = ran
    <2>1. [at |-> "auto", id |-> i, status |-> h.status, ack |-> h.ack] \in Handler
      BY <1>1, <1>2 DEF IInv, TypeOK, Handler
    <2>2. QED
      BY <1>1, <2>1, NoneAssumption DEF Stores, Busy, Done, IInv, TypeOK, Built
  <1>4. Concerns(n, i)
    BY <1>1, <1>3, StepConcerns
  <1>5. ~Executes(h, i)
    BY <1>1 DEF Executes
  <1> HIDE DEF h
  <1>6. CASE env[i].kind # "delegate_request"
    <2>1. loop'[n] = None /\ WorkRan' = WorkRan /\ WorkStatus' = WorkStatus
      BY <1>2, <1>3, <1>4, <1>6, SameStatus DEF Concerns, WorkRan
    <2>2. WorkRunning' = WorkRunning
      BY <1>2, <1>4, <1>5, <2>1, RunsChange DEF Executes, h
    <2>3. QED
      BY <1>4, <2>1, <2>2 DEF WorkStep, Concerns
  <1>7. CASE env[i].kind = "delegate_request"
    <2>1. WorkStatus[i] = None /\ WorkStatus' = [WorkStatus EXCEPT ![i] = h.status]
          /\ WorkAnswers' = WorkAnswers /\ h.status \in {"received", "pending"}
      BY <1>1, <1>2, <1>3, <1>4, <1>7 DEF Concerns, Relies
    <2>2. CASE loop'[n] = None /\ ran' = ran
      <3>1. WorkRunning' = WorkRunning /\ WorkRan' = WorkRan
        BY <1>2, <1>4, <1>5, <2>2, RunsChange DEF Executes, WorkRan, h
      <3>2. CASE h.status = "received"
        <4>1. Work!Admit(i)
          BY <2>1, <3>1, <3>2 DEF Work!Admit, WorkStatus, WorkRunning, WorkRan, WorkAnswers
        <4>2. QED
          BY <1>2, <4>1 DEF WorkStep
      <3>3. CASE h.status = "pending"
        <4>1. Work!Hold(i)
          BY <2>1, <3>1, <3>3 DEF Work!Hold, WorkStatus, WorkRunning, WorkRan, WorkAnswers
        <4>2. QED
          BY <1>2, <4>1 DEF WorkStep
      <3>4. QED
        BY <2>1, <3>2, <3>3
    <2>3. CASE h.status = "received" /\ loop'[n] # None
      <3>1. Executes(loop'[n], i)
        BY <1>3, <2>3 DEF Executes
      <3>2. WorkRunning' = WorkRunning \cup {i} /\ WorkRan' = WorkRan \cup {i}
        BY <1>2, <1>3, <1>4, <2>3, <3>1, RunsChange DEF WorkRan
      <3>3. Work!Admit(i)
        BY <2>1, <2>3, <3>2 DEF Work!Admit, WorkStatus, WorkRunning, WorkRan, WorkAnswers
      <3>4. QED
        BY <1>2, <3>3 DEF WorkStep
    <2>4. QED
      BY <1>3, <2>2, <2>3
  <1>8. QED
    BY <1>6, <1>7

LEMMA DecidesWork ==
  ASSUME IInv, IInv', ChannelSound', RequestsSound, NEW n \in Node, NEW i \in Id, Decides(n, i)
  PROVE  WorkStep
  <1>1. /\ OneNode(n) /\ env' = env /\ row' = row /\ loop[n] = None
        /\ i \in Built /\ env[i].to = n /\ row[n][i] = "pending" /\ loop'[n].id = i
        /\ \/ /\ loop'[n].at = "approve" /\ loop'[n] # None
              /\ ran' = ran \cup {<<i, "approved">>}
           \/ loop'[n].at = "deny" /\ ran' = ran
    <2>1. [at |-> "approve", id |-> i, status |-> "approved", ack |-> FALSE] \in Handler
      BY DEF Handler, InboundStatus
    <2>2. \/ /\ loop'[n] = [at |-> "approve", id |-> i, status |-> "approved", ack |-> FALSE]
             /\ ran' = ran \cup {<<i, "approved">>}
          \/ /\ loop'[n] = [at |-> "deny", id |-> i, status |-> "denied", ack |-> FALSE]
             /\ ran' = ran
      BY DEF Decides, Busy, IInv, TypeOK
    <2>3. QED
      BY <2>1, <2>2, NoneAssumption DEF Decides
  <1>2. Concerns(n, i)
    BY <1>1, StepConcerns
  <1>3. env[i].kind = "delegate_request"
    BY <1>1 DEF RequestsSound, RowSound
  <1>4. ~Executes(loop[n], i) /\ WorkStatus' = WorkStatus /\ WorkStatus[i] = "pending"
    BY <1>1, <1>2, <1>3, SameStatus DEF Executes, Concerns
  <1>5. CASE loop'[n].at = "approve" /\ loop'[n] # None /\ ran' = ran \cup {<<i, "approved">>}
    <2>1. Executes(loop'[n], i)
      BY <1>1, <1>5 DEF Executes
    <2>2. /\ WorkRunning' = WorkRunning \cup {i} /\ i \notin WorkRunning
          /\ WorkRan' = WorkRan \cup {i}
      BY <1>2, <1>4, <1>5, <2>1, RunsChange DEF WorkRan, Concerns
    <2>3. Work!Execute(i)
      BY <1>2, <1>4, <2>2
      DEF Work!Execute, WorkStatus, WorkRunning, WorkRan, WorkAnswers, Concerns
    <2>4. QED
      BY <2>3 DEF WorkStep
  <1>6. CASE loop'[n].at = "deny" /\ ran' = ran
    <2>1. ~Executes(loop'[n], i)
      BY <1>6 DEF Executes
    <2>2. WorkRunning' = WorkRunning /\ WorkRan' = WorkRan
      BY <1>2, <1>4, <1>6, <2>1, RunsChange DEF WorkRan
    <2>3. QED
      BY <1>2, <1>4, <2>2 DEF WorkStep, Concerns
  <1>7. QED
    BY <1>1, <1>5, <1>6

LEMMA SettlesWork ==
  ASSUME IInv, IInv', ChannelSound', RequestsSound, NEW n \in Node, Settles(n)
  PROVE  UNCHANGED <<WorkStatus, WorkRunning, WorkRan, WorkAnswers>>
  <1>1. PICK i \in Built : loop[n].id = i /\ env[i].to = n /\ loop[n] # None /\ i \in Id
    BY DEF Settles, IInv, HandlerIsInbound, Built
  <1>2. /\ OneNode(n) /\ env' = env /\ row' = row /\ ran' = ran /\ loop'[n].id = i
        /\ \/ loop[n].at = "approve" /\ loop'[n].at = "decided" /\ loop'[n].status = "approved"
           \/ loop[n].at = "deny" /\ loop'[n].at = "decided" /\ loop'[n].status = "denied"
    BY <1>1 DEF Settles, Busy, IInv, TypeOK
  <1>3. loop'[n] # None
    <2>1. \A status \in {"approved", "denied"} :
            [at |-> "decided", id |-> i, status |-> status, ack |-> FALSE] \in Handler
      BY <1>1 DEF Handler, InboundStatus
    <2>2. \E status \in {"approved", "denied"} :
            loop'[n] = [at |-> "decided", id |-> i, status |-> status, ack |-> FALSE]
      BY <1>1 DEF Settles, Busy, IInv, TypeOK
    <2>3. QED
      BY <2>1, <2>2, NoneAssumption
  <1>4. Concerns(n, i)
    BY <1>1, <1>2, StepConcerns
  <1>5. Executes(loop[n], i) <=> Executes(loop'[n], i)
    BY <1>1, <1>2, <1>3 DEF Executes
  <1>6. WorkRunning' = WorkRunning
    BY <1>1, <1>4, <1>5, RunsChange
  <1>7. WorkStatus' = WorkStatus
    BY <1>1, <1>2, <1>4, SameStatus DEF Concerns
  <1>8. QED
    BY <1>2, <1>4, <1>6, <1>7 DEF Concerns, WorkRan

LEMMA RecordsWork ==
  ASSUME IInv, IInv', ChannelSound', RequestsSound, NEW n \in Node, Records(n)
  PROVE  WorkStep
  <1> DEFINE h == loop[n]
  <1>1. PICK i \in Built : h.id = i /\ env[i].to = n /\ h # None /\ h.at = "decided" /\ i \in Id
    BY DEF Records, IInv, HandlerIsInbound, Built
  <1>2. Relies(h, n, i)
    BY <1>1 DEF RequestsSound, HandlerSound
  <1>3. /\ OneNode(n) /\ env' = env /\ ran' = ran /\ loop'[n] = None
        /\ row'[n][i] = h.status
        /\ \A j \in Built \ {i} : row'[n][j] = row[n][j]
    BY <1>1 DEF Records, Done, IInv, TypeOK, Built
  <1>4. Concerns(n, i)
    BY <1>1, <1>3, StepConcerns
  <1>5. row[n][i] = "pending" /\ env[i].kind = "delegate_request"
        /\ h.status \in {"approved", "denied"}
    <2>1. row[n][i] = "pending" /\ h.status \in {"approved", "denied"}
      BY <1>1, <1>2 DEF Relies
    <2>2. RowSound(n, i)
      BY <1>1 DEF RequestsSound
    <2>3. QED
      BY <2>1, <2>2 DEF RowSound
  <1>6. /\ WorkStatus[i] = "pending" /\ WorkStatus' = [WorkStatus EXCEPT ![i] = h.status]
        /\ WorkAnswers' = WorkAnswers /\ WorkRan' = WorkRan
        /\ (i \in WorkRunning <=> h.status = "approved")
        /\ WorkRunning' = WorkRunning \ {i}
    <2>1. ~Executes(loop'[n], i)
      BY <1>3 DEF Executes
    <2>2. Executes(h, i) <=> h.status = "approved"
      BY <1>1, <1>5 DEF Executes
    <2> HIDE DEF h
    <2>3. WorkRunning' = WorkRunning \ {i}
      BY <1>1, <1>4, <2>1, RunsChange
    <2>4. WorkRan' = WorkRan
      BY <1>3 DEF WorkRan
    <2>5. QED
      BY <1>3, <1>4, <1>5, <2>2, <2>3, <2>4 DEF Concerns, h
  <1> HIDE DEF h
  <1>7. CASE h.status = "approved"
    <2>1. Work!Approved(i)
      BY <1>6, <1>7 DEF Work!Approved, WorkStatus, WorkRunning, WorkRan, WorkAnswers
    <2>2. QED
      BY <1>1, <2>1 DEF WorkStep
  <1>8. CASE h.status = "denied"
    <2>1. i \notin WorkRunning /\ WorkRunning' = WorkRunning
      BY <1>6, <1>8
    <2>2. Work!Denied(i)
      BY <1>6, <1>8, <2>1 DEF Work!Denied, WorkStatus, WorkRunning, WorkRan, WorkAnswers
    <2>3. QED
      BY <1>1, <2>2 DEF WorkStep
  <1>9. QED
    BY <1>5, <1>7, <1>8

\* A result leaves for a request that is decided and has none.
LEMMA SendsWork ==
  ASSUME IInv, IInv', ChannelSound, ChannelSound', AnswersSound, NEW n \in Node, Sends(n)
  PROVE  WorkStep
  <1>1. PICK j \in Id \ Built, r \in Built, outcome \in Outcome :
          /\ Queued(n, 1, r, outcome) /\ 1 \in 1..Len(queue[n]) /\ Final(n, r, outcome)
          /\ env[r].kind = "delegate_request" /\ env[r].to = n
          /\ \A l \in Built, o \in Outcome : ~IsAnswer(n, l, r, o)
          /\ env'[j] = [kind |-> "delegate_result", from |-> n, to |-> env[r].from,
                        cap |-> DelegateWork, reply |-> r, outcome |-> outcome,
                        wellFormed |-> TRUE]
          /\ \A l \in Id \ {j} : env'[l] = env[l]
    BY WhatIsSent DEF AnswersSound
  <1>2. OneNode(n) /\ loop' = loop /\ ran' = ran
    BY DEF Sends, Apart
  <1>3. \A l \in Built : env[l].to = n => row'[n][l] = row[n][l]
    BY DEF Sends, Apart, ChannelSound, EndsDiffer
  <1>4. \A l \in Id \ {None} : StatusOf(l)' = StatusOf(l)
    BY <1>2, <1>3, OtherStatuses
  <1>5. WorkStatus' = WorkStatus
    BY <1>4, NoneAssumption DEF WorkStatus
  <1>6. WorkRunning' = WorkRunning /\ WorkRan' = WorkRan
    BY <1>2 DEF WorkRunning, WorkRan, Executes
  <1>7. r \in Id /\ WorkStatus[r] = row[n][r]
    BY <1>1 DEF WorkStatus, StatusOf, Built
  <1>8. r \notin WorkRunning
    <2>1. ASSUME NEW m \in Node, Executes(loop[m], r)
          PROVE  FALSE
      BY <1>1, <2>1 DEF Executes, Final, Handles, IInv, HandlerIsInbound
    <2>2. QED
      BY <2>1 DEF WorkRunning
  <1>9. \A a \in WorkAnswers : a.request # r
    <2>1. ASSUME NEW l \in Built, env[l].outcome # None, env[l].reply = r
          PROVE  FALSE
      <3>1. env[l].from \in Node /\ env[l].outcome \in Outcome
        BY <2>1, EnvelopeOfAnswer
      <3>2. IsAnswer(env[l].from, l, r, env[l].outcome)
        BY <2>1 DEF IsAnswer
      <3>3. env[l].from = n
        BY <1>1, <3>1, <3>2 DEF AnswersSound, AnswersOf
      <3>4. QED
        BY <1>1, <3>1, <3>2, <3>3
    <2>2. QED
      BY <2>1 DEF WorkAnswers
  <1>10. WorkAnswers' = WorkAnswers \cup {[request |-> r, id |-> j, outcome |-> outcome]}
    <2>1. outcome # None
      BY <1>1, NoneAssumption
    <2>2. env'[j].outcome = outcome /\ env'[j].reply = r /\ env'[j] # None
      <3>1. env'[j].outcome = outcome /\ env'[j].reply = r
        BY <1>1
      <3>2. env'[j] \in Envelope
        <4>1. env[r].from \in Node
          BY <1>1, EnvelopeOfAnswer
        <4>2. DelegateWork \in Capability
          BY ConstantsAssumption
        <4>3. QED
          BY <1>1, <4>1, <4>2 DEF Envelope, Kind, Built
      <3>3. QED
        BY <3>1, <3>2, NoneAssumption
    <2>3. Built' = Built \cup {j} /\ j \notin Built
      BY <1>1, <2>2 DEF Built
    <2>4. {k \in Built' : env'[k].outcome # None} = {k \in Built : env[k].outcome # None} \cup {j}
      BY <1>1, <2>1, <2>2, <2>3 DEF Built
    <2>5. \A k \in {l \in Built : env[l].outcome # None} : env'[k] = env[k]
      BY <1>1 DEF Built
    <2>6. QED
      BY <2>2, <2>4, <2>5 DEF WorkAnswers
  <1>11. outcome \in Work!Reportable(r)
    <2>1. <<r, "auto">> \in ran => r \in WorkRan
      BY <1>7 DEF WorkRan
    <2>2. QED
      BY <1>1, <1>7, <2>1 DEF Work!Reportable, Final, Settled, WorkStatus, WorkRan
  <1>12. Work!Answer(r)
    BY <1>1, <1>5, <1>6, <1>8, <1>9, <1>10, <1>11
    DEF Work!Answer, WorkStatus, WorkRunning, WorkRan, WorkAnswers
  <1>13. QED
    BY <1>7, <1>12 DEF WorkStep

LEMMA StepIsWork ==
  ASSUME ~StorageFails, AnswersInv, AnswersInv', Next
  PROVE  WorkStep
  <1>1. PICK n \in Node :
          \/ Outside(n) \/ Sends(n) \/ Ends(n) \/ (\E i \in Id : Accepts(n, i))
          \/ Stores(n) \/ (\E i \in Id : Decides(n, i)) \/ Settles(n) \/ Records(n)
    BY EveryStepHasAnEffect DEF StepEffect, AnswersInv
  <1>2. /\ IInv /\ IInv' /\ ChannelSound /\ ChannelSound'
        /\ RequestsSound /\ AnswersSound
    BY DEF AnswersInv
  <1>3. CASE Outside(n) \/ (\E i \in Id : Accepts(n, i)) \/ Settles(n)
    BY <1>2, <1>3, OutsideWork, AcceptsWork, SettlesWork DEF WorkStep
  <1>4. CASE Sends(n)
    BY <1>2, <1>4, SendsWork
  <1>5. CASE Ends(n)
    BY <1>2, <1>5, EndsWork
  <1>6. CASE Stores(n) \/ (\E i \in Id : Decides(n, i)) \/ Records(n)
    BY <1>2, <1>6, StoresWork, DecidesWork, RecordsWork
  <1>7. QED
    BY <1>1, <1>3, <1>4, <1>5, <1>6

\* As long as storage does not fail, messages, channels, handlers, retried
\* decisions and crashes together keep the promise of DelegatedWork: a request
\* is admitted or held once, executed only then, decided once, answered once.
THEOREM DelegationImplementsDelegatedWork ==
  ASSUME ~StorageFails
  PROVE  Spec => ImplementsDelegatedWork
  <1>1. Init => Work!Init
    <2> SUFFICES ASSUME Init PROVE Work!Init
      OBVIOUS
    <2>1. /\ Built = {} /\ \A i \in Id : env[i] = None
          /\ \A n \in Node : loop[n] = None /\ ran = {}
      BY DEF Init, Built
    <2>2. WorkStatus = [i \in Id |-> None]
      BY <2>1 DEF WorkStatus, StatusOf
    <2>3. WorkRunning = {} /\ WorkRan = {} /\ WorkAnswers = {}
      BY <2>1 DEF Init, WorkRunning, WorkRan, WorkAnswers, Executes
    <2>4. QED
      BY <2>2, <2>3 DEF Work!Init, WorkStatus, WorkRunning, WorkRan, WorkAnswers
  <1>2. AnswersInv /\ [Next]_vars => AnswersInv'
    BY AnswersInvKept
  <1>3. AnswersInv /\ AnswersInv' /\ [Next]_vars => [Work!Next]_(Work!vars)
    <2> SUFFICES ASSUME AnswersInv, AnswersInv', [Next]_vars PROVE [Work!Next]_(Work!vars)
      OBVIOUS
    <2>1. CASE Next
      BY <2>1, StepIsWork
      DEF WorkStep, Work!Next, Work!vars, WorkStatus, WorkRunning, WorkRan, WorkAnswers
    <2>2. CASE UNCHANGED vars
      BY <2>2 DEF vars, network, store, process, Work!vars, StatusOf, Executes, Built
    <2>3. QED
      BY <2>1, <2>2
  <1>4. QED
    BY <1>1, <1>2, <1>3, AnswersInit, PTL DEF Spec, ImplementsDelegatedWork, Work!Spec
=============================================================================
