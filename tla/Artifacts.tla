----------------------------- MODULE Artifacts ------------------------------
(***************************************************************************)
(* The artifact spool: files offered, fetched and stored by each daemon.   *)
(*                                                                         *)
(* An artifact is a blob file and a manifest file that names it and its    *)
(* digest, each written by fs::write, which truncates first.  The HTTP     *)
(* task of offer_artifact writes outgoing ones, the swarm loop incoming    *)
(* ones.  The loop answers a fetch by sending itself a command through the *)
(* bounded channel it alone empties, and waits for room there.             *)
(*                                                                         *)
(* A peer is admitted by the label its message carries: an envelope that   *)
(* names a capability needs a grant of it, one that names none needs no    *)
(* grant at all.  fetch_artifact writes a label, send_message whatever the *)
(* operator wants.                                                         *)
(*                                                                         *)
(* Envelopes, acknowledgements and the executor are in Delegation; here    *)
(* what was sent is delivered, in any order.                               *)
(***************************************************************************)
EXTENDS FiniteSets, Integers, Sequences

CONSTANTS
  Node,        \* daemons
  Artifact,    \* artifact ids
  None,        \* no file, no handler, no task, no label
  Label,       \* capability names
  Exchange,    \* the label of the daemon's own replies, artifact_exchange
  Peer,        \* <<node, peer>>: the node's peers table has a row of the peer
  Grant,       \* <<granter, grantee, label>>: the grants tables
  Offers,      \* <<node, artifact, peer>>: the files offered, each id once
  Held,        \* those of them offered before, whose files are in the spool
  Asks,        \* bound: <<node, peer, artifact, label>>: fetches that may be made
  Pushes,      \* bound: the same of payloads an operator may send unasked
  TooBig,      \* artifacts above artifact_inline_limit_bytes
  Capacity,    \* of the command channel (128)
  MaxFetches,  \* bound: fetches made
  MaxFaults    \* bound: crashes, failed writes and reads

ASSUME ArtifactsAssumption ==
  /\ Offers \subseteq {o \in Node \X Artifact \X Node : o[1] # o[3]}
  /\ \A o1, o2 \in Offers : o1[2] = o2[2] => o1 = o2
  /\ Held \subseteq Offers
  /\ Exchange \in Label
  /\ Peer \subseteq Node \X Node
  /\ Grant \subseteq Node \X Node \X Label
  /\ Asks \cup Pushes \subseteq Node \X Node \X Artifact \X (Label \cup {None})
  /\ TooBig \subseteq Artifact
  /\ Capacity \in Nat \ {0}
  /\ {MaxFetches, MaxFaults} \subseteq Nat

\* What the bytes of a file are: all of the artifact, or what a write that was
\* cut short left.  A digest is told by the bytes it is of.
Content == {"whole", "torn"}

\* A manifest gives a digest, or was itself cut short.
Manifest == Content \cup {None, "unreadable"}

Offer == [kind: {"offer"}, from: Node, to: Node, artifact: Artifact]
Fetch == [kind: {"fetch"}, from: Node, to: Node, artifact: Artifact, cap: Label \cup {None},
          id: 1..MaxFetches]
\* The id is that of the fetch it answers, 0 for none.
Payload == [kind: {"payload"}, from: Node, to: Node, artifact: Artifact, cap: Label \cup {None},
            id: 0..MaxFetches, digest: Content, bytes: Content]
Message == Offer \cup Fetch \cup Payload

\* store_artifact_bytes_with_id and the write it is about to do.
Writer == [artifact: Artifact, bytes: Content, peer: Node,
           at: {"blob", "fill", "manifest", "record", "announce"}]

ASSUME NoneAssumption ==
  None \notin (Message \cup Writer \cup Content \cup Label \cup {"unreadable"})

VARIABLES
  \* the disk: survives a crash
  blob,      \* blobs/<id>-<name>
  manifest,  \* manifests/<id>.json
  outbox,    \* outbound rows of the messages table
  inbox,     \* artifacts whose offer is in the messages table
  \* the daemon process
  mailbox,   \* the command channel
  loop,      \* the swarm loop: storing a payload, or a reply waiting for room
  task,      \* the HTTP task of offer_artifact
  \* the network
  sent,
  \* counters for the bounds
  offered, pushed, fetches, faults

disk == <<blob, manifest, outbox, inbox>>
process == <<mailbox, loop, task>>
count == <<offered, pushed, fetches, faults>>
vars == <<disk, process, sent, count>>

-----------------------------------------------------------------------------
\* Helpers

HasRoom(n) == Len(mailbox[n]) < Capacity

Enqueue(n, command) ==
  /\ HasRoom(n)
  /\ mailbox' = [mailbox EXCEPT ![n] = Append(@, command)]

Complete(n, x) == manifest[n][x] = "whole" /\ blob[n][x] = "whole"

Storing(n, x) ==
  \/ loop[n] \in Writer /\ loop[n].artifact = x
  \/ task[n] # None /\ task[n].artifact = x

\* Fault: what cannot be loaded is answered all the same.
CanLoadAnything(n, x) == x \notin TooBig

\* load_artifact_bytes and the size limit.
CanLoad(n, x) ==
  /\ manifest[n][x] \in Content
  /\ blob[n][x] # None
  /\ x \notin TooBig

\* Fault: a grant of the capability to anyone counts for everyone.
AnyGrant(n, p, c) == c = None \/ \E q \in Node : <<n, q, c>> \in Grant

\* has_grant: what names no capability needs no grant.
HasGrant(n, p, c) == c = None \/ <<n, p, c>> \in Grant

\* The next write of w: the blob is truncated and filled, then the manifest.
Written(n, w) ==
  /\ blob' = [blob EXCEPT ![n][w.artifact] =
                CASE w.at = "blob" -> "torn" [] w.at = "fill" -> w.bytes [] OTHER -> @]
  /\ manifest' = [manifest EXCEPT ![n][w.artifact] =
                CASE w.at = "manifest" -> "unreadable" [] w.at = "record" -> w.bytes [] OTHER -> @]

\* Fault: the offer does not wait for the manifest.
AnnouncedEarly(w) ==
  CASE w.at = "blob" -> [w EXCEPT !.at = "fill"]
    [] w.at = "fill" -> [w EXCEPT !.at = "announce"]
    [] OTHER -> [w EXCEPT !.at = "announce"]

Following(w) ==
  CASE w.at = "blob" -> [w EXCEPT !.at = "fill"]
    [] w.at = "fill" -> [w EXCEPT !.at = "manifest"]
    [] w.at = "manifest" -> [w EXCEPT !.at = "record"]
    [] OTHER -> [w EXCEPT !.at = "announce"]

-----------------------------------------------------------------------------
\* Initially the spools hold what was offered before.

Init ==
  /\ blob = [n \in Node |-> [x \in Artifact |->
       IF \E o \in Held : o[1] = n /\ o[2] = x THEN "whole" ELSE None]]
  /\ manifest = blob
  /\ outbox = [n \in Node |-> {}]
  /\ inbox = [n \in Node |-> {}]
  /\ mailbox = [n \in Node |-> <<>>]
  /\ loop = [n \in Node |-> None]
  /\ task = [n \in Node |-> None]
  /\ sent = {}
  /\ offered = Held /\ pushed = {} /\ fetches = 0 /\ faults = 0

-----------------------------------------------------------------------------
\* The HTTP API

\* offer_artifact reads the source file and stores it under a fresh id.
OfferArtifact(o) ==
  LET n == o[1] IN
  /\ o \notin offered /\ offered' = offered \cup {o}
  /\ task[n] = None
  /\ task' = [task EXCEPT ![n] = [artifact |-> o[2], bytes |-> "whole", peer |-> o[3],
                                  at |-> "blob"]]
  /\ UNCHANGED <<disk, mailbox, loop, sent, pushed, fetches, faults>>

StoreOutgoing(n) ==
  /\ task[n] # None /\ task[n].at # "announce"
  /\ Written(n, task[n])
  /\ task' = [task EXCEPT ![n] = Following(@)]
  /\ UNCHANGED <<outbox, inbox, mailbox, loop, sent, count>>

\* Then it reads the blob back and sends the offer, if it knows the peer.
AnnounceOffer(n) ==
  /\ task[n] # None /\ task[n].at = "announce"
  /\ IF <<n, task[n].peer>> \in Peer
     THEN Enqueue(n, [kind |-> "offer", from |-> n, to |-> task[n].peer,
                      artifact |-> task[n].artifact])
     ELSE UNCHANGED mailbox
  /\ task' = [task EXCEPT ![n] = None]
  /\ UNCHANGED <<disk, loop, sent, count>>

\* An id is a fresh uuid: nobody can name it before a manifest does.
Named(x) == \E n \in Node : manifest[n][x] # None

\* fetch_artifact and send_message: any artifact, any known peer, any label.
FetchArtifact(n, p, x, c) ==
  /\ n # p /\ <<n, p>> \in Peer /\ Named(x)
  /\ fetches < MaxFetches /\ fetches' = fetches + 1
  /\ Enqueue(n, [kind |-> "fetch", from |-> n, to |-> p, artifact |-> x, cap |-> c,
                 id |-> fetches'])
  /\ UNCHANGED <<disk, loop, task, sent, offered, pushed, faults>>

\* send_message with an artifact_payload that the operator wrote.
PushPayload(n, p, x, c) ==
  /\ n # p /\ <<n, p>> \in Peer /\ Named(x)
  /\ <<n, p, x, c>> \notin pushed /\ pushed' = pushed \cup {<<n, p, x, c>>}
  /\ Enqueue(n, [kind |-> "payload", from |-> n, to |-> p, artifact |-> x, cap |-> c,
                 id |-> 0, digest |-> "whole", bytes |-> "whole"])
  /\ UNCHANGED <<disk, loop, task, sent, offered, fetches, faults>>

-----------------------------------------------------------------------------
\* The swarm loop

IsReply(command) == command \in Payload /\ command.id # 0

\* SendEnvelope and SendLocalMessage: the message is recorded and sent, or nothing
\* happens: the loop may know no transport of the peer, or, for a reply (whose
\* fetch brought the transport), no row of it.
HandleCommand(n) ==
  LET command == Head(mailbox[n]) IN
  /\ loop[n] = None /\ mailbox[n] # <<>>
  /\ mailbox' = [mailbox EXCEPT ![n] = Tail(@)]
  /\ \/ /\ IsReply(command) => <<n, command.to>> \in Peer
        /\ sent' = sent \cup {command}
        /\ outbox' = [outbox EXCEPT ![n] = @ \cup {command}]
     \/ /\ IsReply(command) => <<n, command.to>> \notin Peer
        /\ UNCHANGED <<sent, outbox>>
  /\ UNCHANGED <<blob, manifest, inbox, loop, task, count>>

Receives(m) == m \in sent /\ loop[m.to] = None /\ sent' = sent \ {m}

\* An offer ends up in the inbox, granted or not.
ReceiveOffer(m) ==
  /\ m.kind = "offer" /\ Receives(m)
  /\ inbox' = [inbox EXCEPT ![m.to] = @ \cup {m.artifact}]
  /\ UNCHANGED <<blob, manifest, outbox, process, count>>

\* A fetch whose label is not granted is blocked; maybe_reply_with_artifact answers
\* any other, if the file can be loaded.
ReceiveFetch(m) ==
  LET n == m.to
      x == m.artifact IN
  /\ m.kind = "fetch" /\ Receives(m)
  /\ loop' = IF HasGrant(n, m.from, m.cap) /\ CanLoad(n, x)
             THEN [loop EXCEPT ![n] =
                     [kind |-> "payload", from |-> n, to |-> m.from, artifact |-> x,
                      cap |-> Exchange, id |-> m.id, digest |-> manifest[n][x],
                      bytes |-> blob[n][x]]]
             ELSE loop
  /\ UNCHANGED <<disk, mailbox, task, count>>

\* The reply goes into the loop's own channel, which has to have room.
QueueReply(n) ==
  /\ loop[n] \in Message
  /\ Enqueue(n, loop[n])
  /\ loop' = [loop EXCEPT ![n] = None]
  /\ UNCHANGED <<disk, task, sent, count>>

\* Fault: the daemon that sent the row is compared with the peer.
SolicitedBySelf(m) ==
  \E f \in outbox[m.to] : f.kind = "fetch" /\ f.from = m.from /\ f.id = m.id

\* matches_reply_context
Solicited(m) ==
  \E f \in outbox[m.to] : f.kind = "fetch" /\ f.to = m.from /\ f.id = m.id

\* Fault: the digest is taken on trust.
StorableUnchecked(m) == Solicited(m) \/ HasGrant(m.to, m.from, m.cap)

\* A payload is stored if it answers a fetch or its label is admitted, and the
\* bytes have the digest it gives.
Storable(m) ==
  /\ Solicited(m) \/ HasGrant(m.to, m.from, m.cap)
  /\ m.digest = m.bytes

ReceivePayload(m) ==
  /\ m.kind = "payload" /\ Receives(m)
  /\ loop' = IF Storable(m)
             THEN [loop EXCEPT ![m.to] = [artifact |-> m.artifact, bytes |-> m.bytes,
                                          peer |-> m.from, at |-> "blob"]]
             ELSE loop
  /\ UNCHANGED <<disk, mailbox, task, count>>

StoreIncoming(n) ==
  /\ loop[n] \in Writer
  /\ Written(n, loop[n])
  /\ loop' = [loop EXCEPT ![n] = IF @.at = "record" THEN None ELSE Following(@)]
  /\ UNCHANGED <<outbox, inbox, mailbox, task, sent, count>>

-----------------------------------------------------------------------------
\* Faults

\* A write fails: the files stay as they are and the store is given up.
WriteFails(n) ==
  /\ faults < MaxFaults /\ faults' = faults + 1
  /\ \/ /\ loop[n] \in Writer
        /\ loop' = [loop EXCEPT ![n] = None] /\ UNCHANGED task
     \/ /\ task[n] # None /\ task[n].at # "announce"
        /\ task' = [task EXCEPT ![n] = None] /\ UNCHANGED loop
  /\ UNCHANGED <<disk, mailbox, sent, offered, pushed, fetches>>

\* The row of the fetcher cannot be read: the reply is dropped.
LookupFails(n) ==
  /\ faults < MaxFaults /\ faults' = faults + 1
  /\ loop[n] = None /\ mailbox[n] # <<>> /\ IsReply(Head(mailbox[n]))
  /\ mailbox' = [mailbox EXCEPT ![n] = Tail(@)]
  /\ UNCHANGED <<disk, loop, task, sent, offered, pushed, fetches>>

\* The daemon dies and is started again.
Crash(n) ==
  /\ faults < MaxFaults /\ faults' = faults + 1
  /\ mailbox' = [mailbox EXCEPT ![n] = <<>>]
  /\ loop' = [loop EXCEPT ![n] = None]
  /\ task' = [task EXCEPT ![n] = None]
  /\ sent' = {m \in sent : m.to # n}
  /\ UNCHANGED <<disk, offered, pushed, fetches>>

-----------------------------------------------------------------------------
\* The specification

Receive(n) ==
  \E m \in sent : m.to = n /\ (ReceiveOffer(m) \/ ReceiveFetch(m) \/ ReceivePayload(m))

OfferTask(n) == StoreOutgoing(n) \/ AnnounceOffer(n)

Next ==
  \/ \E o \in Offers : OfferArtifact(o)
  \/ \E n \in Node : OfferTask(n)
  \/ \E q \in Asks : FetchArtifact(q[1], q[2], q[3], q[4])
  \/ \E q \in Pushes : PushPayload(q[1], q[2], q[3], q[4])
  \/ \E n \in Node : HandleCommand(n)
  \/ \E n \in Node : Receive(n)
  \/ \E n \in Node : QueueReply(n)
  \/ \E n \in Node : StoreIncoming(n)
  \/ \E n \in Node : WriteFails(n)
  \/ \E n \in Node : LookupFails(n)
  \/ \E n \in Node : Crash(n)

Spec == Init /\ [][Next]_vars

\* select! lets the loop get to commands and to events; a handler that is not
\* waiting goes on; the transport delivers.
Fairness ==
  \A n \in Node :
    /\ SF_vars(HandleCommand(n))
    /\ SF_vars(Receive(n))
    /\ WF_vars(QueueReply(n))
    /\ WF_vars(StoreIncoming(n))

FairSpec == Spec /\ Fairness

-----------------------------------------------------------------------------
\* Properties

\* The variables have their types.
TypeOK ==
  /\ blob \in [Node -> [Artifact -> Content \cup {None}]]
  /\ manifest \in [Node -> [Artifact -> Manifest]]
  /\ outbox \in [Node -> SUBSET Message]
  /\ inbox \in [Node -> SUBSET Artifact]
  /\ mailbox \in [Node -> Seq(Message)]
  /\ \A n \in Node : Len(mailbox[n]) <= Capacity
  /\ loop \in [Node -> Payload \cup Writer \cup {None}]
  /\ task \in [Node -> Writer \cup {None}]
  /\ sent \subseteq Message
  /\ offered \subseteq Offers /\ pushed \subseteq Pushes
  /\ {fetches, faults} \subseteq Nat

\* Damage does not spread: whatever a write that was cut short left in one
\* spool, no manifest of any daemon ever vouches for torn bytes (the digest
\* check of store_artifact_payload against the digest in the owner's manifest).
DamageIsContained ==
  \A n \in Node, x \in Artifact : manifest[n][x] # "torn"

\* An artifact reaches a spool only in three ways: its daemon offers it, asked for
\* it with a label that a holder admits, or was sent it unasked with a label it
\* admits itself; a label is admitted if it was granted to the very sender, or is
\* missing (accept_inbound_envelope, has_grant).
Admits(n, p, c) == c = None \/ <<n, p, c>> \in Grant
AdmittedWay(n, x) ==
  \/ \E o \in offered : o[1] = n /\ o[2] = x
  \/ \E f \in outbox[n] : /\ f.kind = "fetch" /\ f.artifact = x
                         /\ Admits(f.to, n, f.cap) /\ blob[f.to][x] # None
  \/ \E p \in Node : \E m \in outbox[p] :
       /\ m.kind = "payload" /\ m.id = 0 /\ m.to = n /\ m.artifact = x
       /\ Admits(n, p, m.cap)
CopyIsAdmitted ==
  \A n \in Node, x \in Artifact : blob[n][x] # None => AdmittedWay(n, x)

\* As long as nothing fails, an artifact that was offered can be loaded whenever
\* its daemon is not storing a copy of it: the offer follows the files.
OfferedIsHeld ==
  faults = 0 =>
    \A n, p \in Node, x \in Artifact :
      (\/ [kind |-> "offer", from |-> n, to |-> p, artifact |-> x] \in sent
       \/ x \in inbox[p] /\ <<n, x, p>> \in offered)
        => Complete(n, x) \/ Storing(n, x)

\* As long as nothing fails, a fetch whose label is admitted by a daemon that has
\* the file and a row of the fetcher is served.
Serves(f) ==
  /\ HasGrant(f.to, f.from, f.cap) /\ <<f.to, f.from>> \in Peer
  /\ Complete(f.to, f.artifact) /\ f.artifact \notin TooBig
FetchIsServed ==
  \A i \in 1..MaxFetches :
    (\E f \in sent : f.kind = "fetch" /\ f.id = i /\ Serves(f))
      ~> (\/ faults > 0
          \/ \E n \in Node : \E f \in outbox[n] :
               f.kind = "fetch" /\ f.id = i /\ Complete(n, f.artifact))
=============================================================================
